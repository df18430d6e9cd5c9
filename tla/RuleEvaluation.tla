--------------------------- MODULE RuleEvaluation ---------------------------
(***************************************************************************)
(* The evaluator of trading rules (sv_core/parsing/evaluator.py, the       *)
(* context of local_server/engine/evaluator.py).  Evaluation threads the   *)
(* state a rule keeps between cycles: the previous values of crossings,    *)
(* the histories of count, the runs of streak, the histories divergence    *)
(* looks at.  A context c is                                               *)
(*   fields  the fields and constants that are present                     *)
(*   ind     the indicator values that are present, by <<name, arguments>> *)
(*   names   the indicator functions the context offers                    *)
(*   custom  the values of the script's functions, evaluated once a cycle  *)
(***************************************************************************)
EXTENDS RuleSyntax, RuleMemory

Compare(op, a, b) ==
    CASE op = ">"  -> a > b
      [] op = ">=" -> a >= b
      [] op = "<"  -> a < b
      [] op = "<=" -> a <= b
      [] op = "==" -> a = b
      [] op = "!=" -> a # b

\* _eval_binop on the values of both sides: both are always evaluated, and a
\* missing value makes any result missing.  (Quotients are rounded here.)
Combine(op, a, b) ==
    IF a = Null \/ b = Null THEN Null
    ELSE CASE op = "AND" -> a /\ b
           [] op = "OR"  -> a \/ b
           [] op = "+"   -> a + b
           [] op = "-"   -> a - b
           [] op = "*"   -> a * b
           [] op = "/"   -> IF b = 0 THEN Null ELSE a \div b

Prefix(op, a) == IF a = Null THEN Null ELSE IF op = "NOT" THEN ~a ELSE 0 - a

\* The text a pattern function is parsed from: "BUY: definition NEWLINE SELL: true"
PatternText(name) == <<T("BUY"), T(":")>> \o BUILTIN_PATTERNS[name] \o
                     <<T("NEWLINE"), T("SELL"), T(":"), Truth(TRUE), T("EOF")>>

\* What its BUY block is parsed to
PatternNode ==
    [golden_cross |->
        FuncCall("crosses_above", <<FuncCall("MA", <<NumberLit(5, 7)>>, 5),
                                    FuncCall("MA", <<NumberLit(20, 12)>>, 10)>>, 3),
     oversold |->
        Comparison("<=", FuncCall("RSI", <<NumberLit(14, 5)>>, 3), NumberLit(30, 8), 7)]
-----------------------------------------------------------------------------
(* _Evaluator                                                              *)

RECURSIVE Eval(_, _, _), EvalArgs(_, _, _, _)

\* _eval_cross_above and _eval_cross_below.  The previous pair is kept under the
\* function's name and its arguments, positions included.
Cross(n, c, st) ==
    LET Both(a, b) == Crossed(n.name, <<n.name, n.args>>, a.v, b.v, b.st)
        First(a) == Both(a, Eval(n.args[2], c, a.st))
    IN  First(Eval(n.args[1], c, st))

\* _eval_divergence.  Without the indicator's value the lookback is not evaluated.
Diverges(n, c, st) ==
    LET price == Get(c.fields, "price", Null)
        Over(x, lookback, lst) ==
            IF price = Null THEN Val(FALSE, lst)
            ELSE Diverged(n.name = "bullish", <<n.name, n.args>>, lookback, price, x, lst)
        Within(x, lb) == Over(x, IF lb.v = Null THEN 20 ELSE lb.v, lb.st)
        First(x) ==
            IF x.v = Null THEN Val(FALSE, x.st)
            ELSE Within(x.v, IF Len(n.args) >= 2 THEN Eval(n.args[2], c, x.st)
                                                ELSE Val(Null, x.st))
    IN  First(Eval(n.args[1], c, st))

\* The arguments in order, up to the first that is missing
EvalArgs(args, acc, c, st) ==
    LET Next(x) == IF x.v = Null THEN Val(Null, x.st)
                   ELSE EvalArgs(args, Append(acc, x.v), c, x.st)
    IN  IF Len(acc) = Len(args) THEN Val(acc, st)
        ELSE Next(Eval(args[Len(acc) + 1], c, st))

\* _eval_func_call: custom functions, patterns, the functions with a state, and
\* the indicators of the context
Call(n, c, st) ==
    LET Indicator(args) == IF args.v = Null THEN args
                           ELSE Val(Get(c.ind, <<n.name, args.v>>, Null), args.st)
    IN  CASE n.name \in DOMAIN c.custom -> Val(c.custom[n.name], st)
          [] n.name \notin DOMAIN c.custom /\ n.name \in DOMAIN BUILTIN_PATTERNS ->
                Eval(PatternNode[n.name], c, st)
          [] n.name \in {"crosses_above", "crosses_below"} -> Cross(n, c, st)
          [] n.name \in {"bullish", "bearish"} -> Diverges(n, c, st)
          [] OTHER -> IF n.name \notin c.names THEN Val(Null, st)
                      ELSE Indicator(EvalArgs(n.args, <<>>, c, st))

\* _eval.  An index into earlier bars has no case: it is always missing.
Eval(n, c, st) ==
    LET Comparing(l, r) == Val(IF l.v = Null \/ r.v = Null THEN Null
                               ELSE Compare(n.op, l.v, r.v), r.st)
        Combining(l, r) == Val(Combine(n.op, l.v, r.v), r.st)
        Operands(l) == IF n.k = "cmp" THEN Comparing(l, Eval(n.right, c, l.st))
                                      ELSE Combining(l, Eval(n.right, c, l.st))
        Prefixing(x) == Val(Prefix(n.op, x.v), x.st)
    IN  CASE n.k = "num" -> Val(n.num, st)
          [] n.k = "bool" -> Val(n.bool, st)
          [] n.k = "str" -> Val(n.str, st)
          [] n.k = "field" -> Val(Get(c.fields, n.name, Null), st)
          [] n.k = "call" -> Call(n, c, st)
          [] n.k = "index" -> Val(Null, st)
          [] n.k = "un" -> Prefixing(Eval(n.arg, c, st))
          [] n.k \in {"bin", "cmp"} -> Operands(Eval(n.left, c, st))

\* eval_custom_def for the functions in the order of their definition
WithCustom(defs, c, st) ==
    FoldLeft(LAMBDA w, def :
                LET With(x) == [c |-> [w.c EXCEPT !.custom = Put(@, def.name, x.v)],
                                st |-> x.st]
                IN  With(Eval(def.body, w.c, w.st)),
             [c |-> c, st |-> st], defs)

\* evaluate: <<buy, sell>> of a v1 script; a missing value is false.
EvaluateV1(s, c, st) ==
    LET Both(buy, sell) == Val(<<buy.v = TRUE, sell.v = TRUE>>, sell.st)
        Sell(w, buy) == Both(buy, Eval(s.sell, w.c, buy.st))
        Buy(w) == Sell(w, Eval(s.buy, w.c, w.st))
    IN  Buy(WithCustom(s.funcs, c, st))
-----------------------------------------------------------------------------
(* _EvaluatorV2                                                            *)

\* _node_repr: the text of a condition, without its parentheses
RECURSIVE Repr(_), ReprArgs(_)
Repr(n) ==
    CASE n.k = "num" -> <<ToString(n.num)>>
      [] n.k = "bool" -> <<IF n.bool THEN "true" ELSE "false">>
      [] n.k = "str" -> <<"'", n.str, "'">>
      [] n.k = "field" -> <<n.name>>
      [] n.k = "call" -> <<n.name, "(">> \o ReprArgs(n.args) \o <<")">>
      [] n.k \in {"bin", "cmp"} -> Repr(n.left) \o <<n.op>> \o Repr(n.right)
      [] n.k = "un" -> <<n.op>> \o Repr(n.arg)
      [] n.k = "index" -> <<"index", ToString(n)>>
ReprArgs(args) == IF args = <<>> THEN <<>>
                  ELSE Repr(Head(args)) \o (IF Len(args) > 1 THEN <<",">> ELSE <<>>)
                       \o ReprArgs(Tail(args))

\* _eval_count_func and _eval_consecutive_func.  The memory is kept under the
\* condition's text; a missing condition does not hold.
Count(n, c, st) ==
    LET Over(period, cond) == Counted(Repr(n.args[1]), period, cond.v = TRUE, cond.st)
        Of(period) == IF period.v = Null THEN period
                      ELSE Over(period.v, Eval(n.args[1], c, period.st))
    IN  Of(Eval(n.args[2], c, st))

Streak(n, c, st) ==
    LET After(cond) == Ran(Repr(n.args[1]), cond.v = TRUE, cond.st)
    IN  After(Eval(n.args[1], c, st))

\* _eval_with_state_funcs.  Of an arithmetic expression the two sides are
\* evaluated for their effects, and then the whole again by _eval, which knows
\* neither count nor streak.
RECURSIVE EvalState(_, _, _)
EvalState(n, c, st) ==
    LET Missing(l, r) == l.v = Null \/ r.v = Null
        Both(l, r) ==
            CASE Missing(l, r) -> Val(Null, r.st)
              [] ~Missing(l, r) /\ n.k = "cmp" -> Val(Compare(n.op, l.v, r.v), r.st)
              [] ~Missing(l, r) /\ n.k = "bin" ->
                    IF n.op \in {"AND", "OR"} THEN Val(Combine(n.op, l.v, r.v), r.st)
                                             ELSE Eval(n, c, r.st)
        Operands(l) == Both(l, EvalState(n.right, c, l.st))
        Prefixing(x) == Val(Prefix(n.op, x.v), x.st)
    IN  CASE n.k = "call" /\ n.name = "count" -> Count(n, c, st)
          [] n.k = "call" /\ n.name = "streak" -> Streak(n, c, st)
          [] n.k \in {"bin", "cmp"} -> Operands(EvalState(n.left, c, st))
          [] n.k = "un" -> Prefixing(EvalState(n.arg, c, st))
          [] OTHER -> Eval(n, c, st)

\* The conditions of all rules in order: [v |-> their values, st |-> state]
Conditions(rules, c, st) ==
    FoldLeft(LAMBDA acc, rule : LET Joined(x) == Val(Append(acc.v, x.v), x.st)
                                IN  Joined(EvalState(rule.cond, c, acc.st)),
             Val(<<>>, st), rules)

\* _resolve_priority: the first sale of everything, else the first partial
\* sale, else the first purchase; 0 if no rule triggers
Priority(triggered, rules) ==
    LET first(S) == IF S = {} THEN 0 ELSE CHOOSE i \in S : \A j \in S : i <= j
        sales == {i \in triggered : rules[i].side = "SELL"}
        full == {i \in sales : rules[i].qty = "all"}
    IN  IF full # {} THEN first(full)
        ELSE IF sales # {} THEN first(sales)
        ELSE first(triggered)

\* The constants of the script are fields of the context.
WithConsts(consts, c) ==
    [c EXCEPT !.fields =
        [f \in DOMAIN c.fields \cup {d[1] : d \in ToSet(consts)} |->
            IF \E d \in ToSet(consts) : d[1] = f
            THEN (CHOOSE d \in ToSet(consts) : d[1] = f)[2] ELSE c.fields[f]]]

\* evaluate_v2: every condition is evaluated, at most one rule acts.
EvaluateV2(s, c, st) ==
    LET Acts(conds) ==
            [action |-> Priority({i \in DOMAIN s.rules : conds.v[i] = TRUE}, s.rules),
             results |-> conds.v, st |-> conds.st]
        On(w) == Acts(Conditions(s.rules, w.c, w.st))
    IN  On(WithCustom(s.funcs, WithConsts(s.consts, c), st))

IndicatorNames == {"RSI", "MA", "MACD"}

\* RuleEvaluator._build_dsl_context: the fields of the market and those of the
\* position that it copies.  The number of executions is not among them.
Context(market, position) ==
    [fields |-> [f \in {"price", "volume", "change", "quantity"} \cup
                       (DOMAIN position \cap {"profit", "peak drop", "entry", "bars"}) |->
                    IF f = "quantity" THEN Get(position, f, 0)
                    ELSE IF f \in DOMAIN position THEN position[f] ELSE Get(market, f, Null)],
     ind |-> market.ind, names |-> IndicatorNames, custom |-> <<>>]
=============================================================================
