----------------------------- MODULE RuleSyntax -----------------------------
(***************************************************************************)
(* The language of trading rules (sv_core/parsing): tokens, abstract       *)
(* syntax, the recursive-descent parser of both versions, and the type     *)
(* rules it applies while it parses.                                       *)
(*                                                                         *)
(* A token is [t |-> type] with v |-> its value where it has one; a node   *)
(* carries its kind in k and the position of its first token in pos (line  *)
(* and column in the code), which evaluation uses.  Numbers are naturals.  *)
(* Names are given in English: price, volume, profit, quantity, bars and   *)
(* "peak drop" stand for the fields the code spells in Korean, BUY, SELL,  *)
(* ALL and REST for its keywords.  Names ending in "Mutant" are faulty     *)
(* variants of the definition that follows them.                           *)
(***************************************************************************)
EXTENDS Integers, SequencesExt, Dicts

T(type) == [t |-> type]
Ident(name) == [t |-> "IDENT", v |-> name]
Number(n) == [t |-> "NUMBER", v |-> n]
Truth(b) == [t |-> "BOOL", v |-> b]

Comparisons == {">", ">=", "<", "<=", "==", "!="}

BUILTIN_FIELDS == {"price", "volume", "profit", "quantity", "peak drop", "entry",
                   "bars", "executions", "change"}

Func(min, max, type) == [min |-> min, max |-> max, type |-> type]

BUILTIN_FUNCTIONS ==
    [RSI |-> Func(1, 2, "number"), MA |-> Func(1, 2, "number"),
     MACD |-> Func(0, 1, "number"), ATR |-> Func(1, 2, "number"),
     crosses_above |-> Func(2, 2, "boolean"),
     crosses_below |-> Func(2, 2, "boolean"),
     count |-> Func(2, 2, "number"), streak |-> Func(1, 1, "number"),
     bullish |-> Func(1, 2, "boolean"), bearish |-> Func(1, 2, "boolean")]

\* Pattern functions are written in the language itself.
BUILTIN_PATTERNS ==
    [golden_cross |->
        <<Ident("crosses_above"), T("("), Ident("MA"), T("("), Number(5), T(")"),
          T(","), Ident("MA"), T("("), Number(20), T(")"), T(")")>>,
     oversold |->
        <<Ident("RSI"), T("("), Number(14), T(")"), T("<="), Number(30)>>]
-----------------------------------------------------------------------------
(* Abstract syntax.                                                        *)

NumberLit(n, p)     == [k |-> "num", num |-> n, pos |-> p]
BoolLit(b, p)       == [k |-> "bool", bool |-> b, pos |-> p]
StringLit(s, p)     == [k |-> "str", str |-> s, pos |-> p]
FieldRef(name, p)   == [k |-> "field", name |-> name, pos |-> p]
FuncCall(name, a, p) == [k |-> "call", name |-> name, args |-> a, pos |-> p]
BinOp(op, l, r, p)  == [k |-> "bin", op |-> op, left |-> l, right |-> r, pos |-> p]
Comparison(op, l, r, p) ==
                       [k |-> "cmp", op |-> op, left |-> l, right |-> r, pos |-> p]
UnaryOp(op, x, p)   == [k |-> "un", op |-> op, arg |-> x, pos |-> p]
IndexAccess(x, n, p) == [k |-> "index", arg |-> x, index |-> n, pos |-> p]

\* _infer_type, with the types of the custom functions declared so far
RECURSIVE TypeOf(_, _)
TypeOf(n, funcs) ==
    CASE n.k = "bool" \/ n.k = "cmp" -> "boolean"
      [] n.k = "str" -> "string"
      [] n.k \in {"num", "field"} -> "number"
      [] n.k = "index" -> TypeOf(n.arg, funcs)
      [] n.k = "bin" -> IF n.op \in {"AND", "OR"} THEN "boolean" ELSE "number"
      [] n.k = "un" -> IF n.op = "NOT" THEN "boolean" ELSE "number"
      [] n.k = "call" ->
            IF n.name \in DOMAIN funcs THEN funcs[n.name]
            ELSE IF n.name \in DOMAIN BUILTIN_PATTERNS THEN "boolean"
            ELSE BUILTIN_FUNCTIONS[n.name].type
-----------------------------------------------------------------------------
(* Expressions.  A parser takes a position and the environment e - the     *)
(* tokens, the version, the names declared so far and the function being   *)
(* declared - and yields a node with the position after it.  An error of   *)
(* any kind, in syntax, type or name, is the one failure.                  *)

Fail == [node |-> Null, next |-> 0]
Parsed(node, next) == [node |-> node, next |-> next]
Tok(i, e) == e.toks[i].t
Typed(r, type, e) == r.node # Null /\ TypeOf(r.node, e.funcs) = type

\* The left-associative levels: OR, AND, sum, product.
LevelOps == <<{"OR"}, {"AND"}, {}, {}, {"+", "-"}, {"*", "/"}>>
OperandType(l) == IF l <= 2 THEN "boolean" ELSE "number"

RECURSIVE Level(_, _, _), More(_, _, _), Args(_, _, _)

\* The right operand is parsed at the same level: right-associative.
MoreMutant(l, left, e) ==
    IF left.node = Null \/ Tok(left.next, e) \notin LevelOps[l] THEN left
    ELSE LET right == Level(l, left.next + 1, e)
         IN  IF Typed(left, OperandType(l), e) /\ Typed(right, OperandType(l), e)
             THEN Parsed(BinOp(Tok(left.next, e), left.node, right.node, left.next),
                         right.next)
             ELSE Fail

\* The loops of _parse_or, _parse_and, _parse_additive, _parse_multiplicative
More(l, left, e) ==
    IF left.node = Null \/ Tok(left.next, e) \notin LevelOps[l] THEN left
    ELSE LET right == Level(l + 1, left.next + 1, e)
         IN  IF Typed(left, OperandType(l), e) /\ Typed(right, OperandType(l), e)
             THEN More(l, Parsed(BinOp(Tok(left.next, e), left.node, right.node,
                                       left.next), right.next), e)
             ELSE Fail

\* _parse_not and _parse_unary
Prefixed(l, op, type, i, e) ==
    LET x == Level(l, i + 1, e)
    IN  IF Typed(x, type, e) THEN Parsed(UnaryOp(op, x.node, i), x.next) ELSE Fail

\* _parse_comparison; x BETWEEN a AND b is x >= a AND x <= b.
Compared(left, e) ==
    LET p == left.next
        low == Level(5, p + 1, e)
        high == Level(5, low.next + 1, e)
    IN  CASE left.node = Null -> Fail
          [] left.node # Null /\ Tok(p, e) = "BETWEEN" ->
                IF /\ Typed(left, "number", e) /\ Typed(low, "number", e)
                   /\ Tok(low.next, e) = "AND" /\ Typed(high, "number", e)
                THEN Parsed(BinOp("AND", Comparison(">=", left.node, low.node, p),
                                         Comparison("<=", left.node, high.node, p), p),
                            high.next)
                ELSE Fail
          [] left.node # Null /\ Tok(p, e) \in Comparisons ->
                IF /\ Typed(left, "number", e) /\ Typed(low, "number", e)
                   /\ Tok(low.next, e) \notin Comparisons
                THEN Parsed(Comparison(Tok(p, e), left.node, low.node, p), low.next)
                ELSE Fail
          [] OTHER -> left

\* _parse_postfix: an index from 0 to 60 in brackets
Postfix(r, e) ==
    IF r.node = Null \/ Tok(r.next, e) # "[" THEN r
    ELSE IF Tok(r.next + 1, e) = "NUMBER" /\ e.toks[r.next + 1].v \in 0..60
            /\ Tok(r.next + 2, e) = "]"
    THEN Parsed(IndexAccess(r.node, e.toks[r.next + 1].v, r.next), r.next + 3)
    ELSE Fail

\* Arguments up to the closing parenthesis: <<nodes, position after it>>
Args(i, acc, e) ==
    LET x == Level(1, i, e)
    IN  CASE x.node = Null -> <<acc, 0>>
          [] x.node # Null /\ Tok(x.next, e) = "," -> Args(x.next + 1, Append(acc, x.node), e)
          [] x.node # Null /\ Tok(x.next, e) = ")" -> <<Append(acc, x.node), x.next + 1>>
          [] OTHER -> <<acc, 0>>

\* May name be called with n arguments?  Custom functions and patterns take none.
Callable(name, n, e) ==
    /\ name # e.current
    /\ IF name \in DOMAIN e.funcs \cup DOMAIN BUILTIN_PATTERNS THEN n = 0
       ELSE /\ name \in DOMAIN BUILTIN_FUNCTIONS
            /\ n \in BUILTIN_FUNCTIONS[name].min .. BUILTIN_FUNCTIONS[name].max

\* A name without parentheses: in version 1 only a field.
Bare(name, p, e) ==
    IF name = e.current THEN Null
    ELSE IF e.v2 /\ name \in e.consts THEN FieldRef(name, p)
    ELSE IF name \in DOMAIN e.funcs
    THEN IF e.v2 THEN FuncCall(name, <<>>, p) ELSE Null
    ELSE IF name \in BUILTIN_FIELDS THEN FieldRef(name, p)
    ELSE IF e.v2 /\ Callable(name, 0, e) THEN FuncCall(name, <<>>, p)
    ELSE Null

\* _parse_ident; "peak" followed by "drop" is one field.
Named(i, e) ==
    LET name == e.toks[i].v
        call == IF Tok(i + 2, e) = ")" THEN <<<<>>, i + 3>> ELSE Args(i + 2, <<>>, e)
    IN  IF name = "peak" /\ Tok(i + 1, e) = "IDENT" /\ e.toks[i + 1].v = "drop"
        THEN Parsed(FieldRef("peak drop", i), i + 2)
        ELSE IF Tok(i + 1, e) # "("
        THEN IF Bare(name, i, e) = Null THEN Fail
             ELSE Parsed(Bare(name, i, e), i + 1)
        ELSE IF call[2] # 0 /\ Callable(name, Len(call[1]), e)
        THEN Parsed(FuncCall(name, call[1], i), call[2])
        ELSE Fail

\* _parse_primary
Primary(i, e) ==
    LET inner == Level(1, i + 1, e)
    IN  CASE Tok(i, e) = "NUMBER" -> Parsed(NumberLit(e.toks[i].v, i), i + 1)
          [] Tok(i, e) = "STRING" -> Parsed(StringLit(e.toks[i].v, i), i + 1)
          [] Tok(i, e) = "BOOL" -> Parsed(BoolLit(e.toks[i].v, i), i + 1)
          [] Tok(i, e) = "IDENT" -> Named(i, e)
          [] Tok(i, e) = "(" ->
                IF inner.node # Null /\ Tok(inner.next, e) = ")"
                THEN Parsed(inner.node, inner.next + 1) ELSE Fail
          [] OTHER -> Fail

\* The levels of precedence, lowest first: OR, AND, NOT, comparison, sum,
\* product, unary minus, index and primary.
Level(l, i, e) ==
    CASE l \in {1, 2, 5, 6} -> More(l, Level(l + 1, i, e), e)
      [] l = 3 -> IF Tok(i, e) = "NOT" THEN Prefixed(3, "NOT", "boolean", i, e)
                                       ELSE Level(4, i, e)
      [] l = 4 -> Compared(Level(5, i, e), e)
      [] l = 7 -> IF Tok(i, e) = "-" THEN Prefixed(7, "-", "number", i, e)
                                     ELSE Level(8, i, e)
      [] l = 8 -> Postfix(Primary(i, e), e)

Expression(i, e) == Level(1, i, e)
Condition(i, e) == LET x == Expression(i, e)
                   IN  IF Typed(x, "boolean", e) THEN x ELSE Fail
-----------------------------------------------------------------------------
(* Scripts.                                                                *)

RECURSIVE SkipNewlines(_, _)
SkipNewlines(i, e) == IF Tok(i, e) = "NEWLINE" THEN SkipNewlines(i + 1, e) ELSE i

\* _expect_terminator: the position after it, or 0
Terminated(i, e) ==
    CASE Tok(i, e) = "NEWLINE" -> SkipNewlines(i, e)
      [] Tok(i, e) = "EOF" -> i
      [] OTHER -> 0

\* Is what follows position i of these types?
Ahead(i, types, e) == /\ i + Len(types) - 1 <= Len(e.toks)
                      /\ \A j \in 1..Len(types) : Tok(i + j - 1, e) = types[j]

IsFuncDef(i, e) == Ahead(i, <<"IDENT", "(", ")", "=">>, e)

Environment(toks, v2) == [toks |-> toks, v2 |-> v2, funcs |-> <<>>, consts |-> {},
                          current |-> Null]

Declare(name, type, e) ==
    [e EXCEPT !.funcs = [n \in DOMAIN e.funcs \cup {name} |->
                            IF n = name THEN type ELSE e.funcs[n]]]

\* The body of a custom function, which must not mention the function itself:
\* <<the definition, position after it, the environment with the name>>
FuncDef(i, body, e) ==
    LET name == e.toks[i].v
        x == Expression(body, [e EXCEPT !.current = name])
    IN  IF name \in DOMAIN e.funcs \cup e.consts \/ x.node = Null \/ Terminated(x.next, e) = 0
        THEN <<Null, 0, e>>
        ELSE <<[name |-> name, body |-> x.node], Terminated(x.next, e),
               Declare(name, TypeOf(x.node, e.funcs), e)>>

\* "BUY: condition" or "SELL: condition": <<condition, position after it>>
Block(i, e) ==
    LET x == Condition(i + 2, e)
    IN  IF Tok(i + 1, e) # ":" \/ x.node = Null \/ Terminated(x.next, e) = 0
        THEN <<Null, 0>> ELSE <<x.node, Terminated(x.next, e)>>

NoScript == [funcs |-> <<>>, buy |-> Null, sell |-> Null]

\* Parser.parse: custom functions, one BUY and one SELL block, in any order
RECURSIVE ItemsV1(_, _, _)
ItemsV1(i, s, e) ==
    LET def == FuncDef(i, i + 4, e)
        block == Block(i, e)
    IN  CASE Tok(i, e) = "EOF" -> IF s.buy = Null \/ s.sell = Null THEN NoScript ELSE s
          [] Tok(i, e) = "BUY" ->
                IF s.buy # Null \/ block[2] = 0 THEN NoScript
                ELSE ItemsV1(block[2], [s EXCEPT !.buy = block[1]], e)
          [] Tok(i, e) = "SELL" ->
                IF s.sell # Null \/ block[2] = 0 THEN NoScript
                ELSE ItemsV1(block[2], [s EXCEPT !.sell = block[1]], e)
          [] Tok(i, e) = "IDENT" /\ IsFuncDef(i, e) ->
                IF def[2] = 0 THEN NoScript
                ELSE ItemsV1(def[2], [s EXCEPT !.funcs = Append(@, def[1])], def[3])
          [] OTHER -> NoScript

ParseV1(toks) == LET e == Environment(toks, FALSE)
                 IN  ItemsV1(SkipNewlines(1, e), NoScript, e)

Rule(cond, side, qty, pct) == [cond |-> cond, side |-> side, qty |-> qty, pct |-> pct]

\* _parse_v1_buy_as_rules: only while nothing is held
BuyRule(cond, p) ==
    Rule(BinOp("AND", cond, Comparison("==", FieldRef("quantity", 0),
                                       NumberLit(0, 0), p), p), "BUY", "percent", 100)

\* _parse_v1_sell_as_rules
SellRule(cond) == Rule(cond, "SELL", "all", 100)

\* _parse_action, from the token after "->": <<rule, position after it>>
ActionRule(cond, i, e) ==
    CASE Tok(i, e) \notin {"BUY", "SELL"} -> <<Null, 0>>
      [] Tok(i, e) \in {"BUY", "SELL"} /\ Tok(i + 1, e) \in {"ALL", "REST"} ->
            <<Rule(cond, Tok(i, e), "all", 100), Terminated(i + 2, e)>>
      [] Tok(i, e) \in {"BUY", "SELL"} /\ Ahead(i + 1, <<"NUMBER", "%">>, e) ->
            <<Rule(cond, Tok(i, e), "percent", e.toks[i + 1].v), Terminated(i + 3, e)>>
      [] OTHER -> <<Null, 0>>

NoScriptV2 == [funcs |-> <<>>, consts |-> <<>>, rules |-> <<>>]

\* A name is declared as a constant when a string or a lone number follows.
IsConst(i, e) == /\ Ahead(i, <<"IDENT", "=">>, e)
                 /\ \/ Tok(i + 2, e) = "STRING"
                    \/ Tok(i + 2, e) = "NUMBER" /\ Tok(i + 3, e) \in {"NEWLINE", "EOF"}

\* Parser.parse_v2.  Other names are declared as functions; everything else is
\* a rule or a v1 block.
RECURSIVE ItemsV2(_, _, _)
ItemsV2(i, s, e) ==
    LET name == e.toks[i].v
        isConst == IsConst(i, e)
        def == FuncDef(i, IF IsFuncDef(i, e) THEN i + 4 ELSE i + 2, e)
        block == Block(i, e)
        cond == Condition(i, e)
        rule == IF cond.node = Null \/ Tok(cond.next, e) # "->" THEN <<Null, 0>>
                ELSE ActionRule(cond.node, cond.next + 1, e)
        add(r, next) == ItemsV2(next, [s EXCEPT !.rules = Append(@, r)], e)
    IN  CASE Tok(i, e) = "EOF" -> IF s.rules = <<>> THEN NoScriptV2 ELSE s
          [] Tok(i, e) \in {"BUY", "SELL"} ->
                IF Tok(i + 1, e) # ":" \/ block[2] = 0 THEN NoScriptV2
                ELSE add(IF Tok(i, e) = "BUY" THEN BuyRule(block[1], i) ELSE SellRule(block[1]),
                         block[2])
          [] isConst ->
                IF name \in DOMAIN e.funcs \cup e.consts \/ Terminated(i + 3, e) = 0
                THEN NoScriptV2
                ELSE ItemsV2(Terminated(i + 3, e),
                             [s EXCEPT !.consts = Append(@, <<name, e.toks[i + 2].v>>)],
                             [e EXCEPT !.consts = @ \cup {name}])
          [] ~isConst /\ (Ahead(i, <<"IDENT", "=">>, e) \/ IsFuncDef(i, e)) ->
                IF def[2] = 0 THEN NoScriptV2
                ELSE ItemsV2(def[2], [s EXCEPT !.funcs = Append(@, def[1])], def[3])
          [] OTHER -> IF rule[2] = 0 THEN NoScriptV2 ELSE add(rule[1], rule[2])

ParseV2(toks) == LET e == Environment(toks, TRUE)
                 IN  ItemsV2(SkipNewlines(1, e), NoScriptV2, e)
=============================================================================
