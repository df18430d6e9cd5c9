----------------------------- MODULE MCDecisions -----------------------------
(***************************************************************************)
(* The algorithms a trading decision goes through, on every small input:   *)
(* the lexer on short texts, the parser on printed expressions, and the    *)
(* two evaluators on scripts over several cycles.  A behaviour starts with *)
(* one subject; one step computes the answer, which is compared with a     *)
(* definition that says what the answer should be and not how to find it.  *)
(* A script goes on from cycle to cycle, and its answers are compared with *)
(* its history.                                                            *)
(***************************************************************************)
EXTENDS RuleLexer, RuleEvaluation, TLC

CONSTANTS
    MaxText,       \* bound of the length of a text
    MaxCycles      \* bound of the evaluations of a script

VARIABLES subject,  \* what is decided on
          answer,   \* what the code makes of it; Null before
          trace     \* of a script: the cycles so far
vars == <<subject, answer, trace>>
-----------------------------------------------------------------------------
(* Texts, and the lexing that takes the longest token everywhere.          *)

Alphabet == {"M", "O", "R", "1", ".", "-", ">", "=", "\"", "EOL", " "}
Texts == {[kind |-> "text", text |-> s] : s \in BoundedSeq(Alphabet, MaxText)}

All(s, S) == ToSet(s) \subseteq S

\* Is w a token of the language?
IsLexeme(w) ==
    \/ w = <<"EOL">>
    \/ w \in DOMAIN TwoCharOps \cup {<<o>> : o \in OneCharOps}
    \/ w[1] \in Letters /\ All(w, Letters \cup Digits)
    \/ w[1] \in Digits /\ \/ All(w, Digits)
                          \/ \E p \in 2..(Len(w) - 1) :
                                /\ w[p] = "."
                                /\ All(SubSeq(w, 1, p - 1) \o SubSeq(w, p + 1, Len(w)), Digits)
    \/ Len(w) >= 2 /\ w[1] = "\"" /\ w[Len(w)] = "\""
       /\ \A i \in 2..(Len(w) - 1) : w[i] \notin {"\"", "EOL"}

\* What may stand between two tokens
IsGap(s, i, j) == \/ j = i /\ s[i] = " "
                  \/ /\ s[i] = "-" /\ i < j /\ s[i + 1] = "-"
                     /\ "EOL" \notin ToSet(SubSeq(s, i, j))
                     /\ j = Len(s) \/ s[j + 1] = "EOL"

RECURSIVE LongestLexemes(_, _)
LongestLexemes(s, i) ==
    LET gaps == {j \in i..Len(s) : IsGap(s, i, j)}
        ends == {j \in i..Len(s) : IsLexeme(SubSeq(s, i, j))}
    IN  IF i > Len(s) THEN <<<<>>>>
        ELSE IF gaps # {} THEN LongestLexemes(s, Max(gaps) + 1)
        ELSE IF ends = {} THEN LexError
        ELSE LET rest == LongestLexemes(s, Max(ends) + 1)
             IN  IF rest = LexError THEN LexError
                 ELSE <<SubSeq(s, i, Max(ends))>> \o rest
-----------------------------------------------------------------------------
(* Expressions, and their text with no more parentheses than needed.       *)

Between(x, low, high) == [k |-> "between", arg |-> x, low |-> low, high |-> high]

Num0 == {NumberLit(1, 0), FieldRef("price", 0)}
Num1 == Num0 \cup {BinOp(op, l, r, 0) : op \in {"+", "-", "*"}, l \in Num0, r \in Num0}
             \cup {UnaryOp("-", x, 0) : x \in Num0} \cup {IndexAccess(x, 1, 0) : x \in Num0}
             \cup {FuncCall("MA", <<x>>, 0) : x \in Num0}
Num2 == Num1 \cup {BinOp(op, l, r, 0) : op \in {"-", "*"}, l \in Num1, r \in Num1}
             \cup {UnaryOp("-", x, 0) : x \in Num1} \cup {IndexAccess(x, 1, 0) : x \in Num1}
Bool0 == {BoolLit(TRUE, 0), Comparison(">", FieldRef("price", 0), NumberLit(1, 0), 0),
          Between(FieldRef("price", 0), NumberLit(1, 0), NumberLit(1, 0))}
Bool1 == Bool0 \cup {BinOp(op, l, r, 0) : op \in {"AND", "OR"}, l \in Bool0, r \in Bool0}
               \cup {UnaryOp("NOT", x, 0) : x \in Bool0}
Bool2 == Bool1 \cup {BinOp(op, l, r, 0) : op \in {"AND", "OR"}, l \in Bool1, r \in Bool1}
               \cup {UnaryOp("NOT", x, 0) : x \in Bool1}
\* Expressions whose types may clash
Any0 == Num0 \cup {BoolLit(TRUE, 0), StringLit("1d", 0)}
Any1 == Any0 \cup {UnaryOp(op, x, 0) : op \in {"NOT", "-"}, x \in Any0}
             \cup {Comparison("<", l, r, 0) : l \in Any0, r \in Any0}
Any2 == {BinOp(op, l, r, 0) : op \in {"AND", "+"}, l \in Any1, r \in Any1}

Trees == {[kind |-> "tree", tree |-> n] :
            n \in Bool2 \cup Any2 \cup {Comparison("<", x, NumberLit(1, 0), 0) : x \in Num2}
                  \cup {Between(x, y, x) : x \in Num1, y \in Num1}}

Height(n) == CASE n.k = "bin" -> CASE n.op = "OR" -> 1 [] n.op = "AND" -> 2
                                   [] n.op \in {"+", "-"} -> 5 [] OTHER -> 6
               [] n.k \in {"cmp", "between"} -> 4
               [] n.k = "un" -> IF n.op = "NOT" THEN 3 ELSE 7
               [] n.k = "index" -> 8
               [] OTHER -> 9

RECURSIVE Text(_), TextIn(_, _)
TextIn(n, level) == IF Height(n) < level THEN <<T("(")>> \o Text(n) \o <<T(")")>> ELSE Text(n)
Text(n) ==
    CASE n.k = "num" -> <<Number(n.num)>>
      [] n.k = "bool" -> <<Truth(n.bool)>>
      [] n.k = "str" -> <<[t |-> "STRING", v |-> n.str]>>
      [] n.k = "field" -> <<Ident(n.name)>>
      [] n.k = "call" -> <<Ident(n.name), T("(")>> \o TextIn(n.args[1], 1) \o <<T(")")>>
      [] n.k = "index" -> TextIn(n.arg, 9) \o <<T("["), Number(n.index), T("]")>>
      [] n.k = "un" -> <<T(n.op)>> \o TextIn(n.arg, Height(n))
      [] n.k = "cmp" -> TextIn(n.left, 5) \o <<T(n.op)>> \o TextIn(n.right, 5)
      [] n.k = "bin" -> TextIn(n.left, Height(n)) \o <<T(n.op)>> \o TextIn(n.right, Height(n) + 1)
      [] n.k = "between" -> TextIn(n.arg, 5) \o <<T("BETWEEN")>> \o TextIn(n.low, 5)
                            \o <<T("AND")>> \o TextIn(n.high, 5)

\* The tree without positions, a range as its two comparisons
RECURSIVE Shape(_)
Shape(n) ==
    CASE n.k = "between" -> BinOp("AND", Comparison(">=", Shape(n.arg), Shape(n.low), 0),
                                         Comparison("<=", Shape(n.arg), Shape(n.high), 0), 0)
      [] n.k \in {"bin", "cmp"} ->
            [n EXCEPT !.left = Shape(@), !.right = Shape(@), !.pos = 0]
      [] n.k \in {"un", "index"} -> [n EXCEPT !.arg = Shape(@), !.pos = 0]
      [] n.k = "call" -> [n EXCEPT !.args = [i \in DOMAIN n.args |-> Shape(n.args[i])],
                                   !.pos = 0]
      [] OTHER -> [n EXCEPT !.pos = 0]

\* Do the operands of every operator have the type it needs?
RECURSIVE WellTyped(_)
WellTyped(n) ==
    LET type(x) == TypeOf(x, <<>>)
        operand == IF n.op \in {"AND", "OR", "NOT"} THEN "boolean" ELSE "number"
    IN  CASE n.k \in {"bin", "cmp"} -> /\ WellTyped(n.left) /\ WellTyped(n.right)
                                       /\ type(n.left) = operand /\ type(n.right) = operand
          [] n.k = "un" -> WellTyped(n.arg) /\ type(n.arg) = operand
          [] OTHER -> TRUE

RECURSIVE Mentions(_, _)
Mentions(n, field) ==
    CASE n.k = "field" -> n.name = field
      [] n.k \in {"bin", "cmp"} -> Mentions(n.left, field) \/ Mentions(n.right, field)
      [] n.k \in {"un", "index"} -> Mentions(n.arg, field)
      [] n.k = "call" -> \E i \in DOMAIN n.args : Mentions(n.args[i], field)
      [] OTHER -> FALSE
-----------------------------------------------------------------------------
(* Scripts.                                                                *)

PriceIs(op, n) == <<Ident("price"), T(op), Number(n)>>
PriceCrosses(name, n) == <<Ident(name), T("("), Ident("price"), T(","), Number(n), T(")")>>
GoldenCross == <<Ident("golden_cross"), T("("), T(")")>>
Up == <<Ident("up"), T("("), T(")")>>

\* Version 1: a function, and one condition for either side
SimpleConditions == {PriceIs(">", 1), PriceCrosses("crosses_above", 2),
                     PriceCrosses("crosses_below", 1), <<T("NOT")>> \o Up}
Blocks(buy, sell) == Up \o <<T("=")>> \o PriceIs(">=", 2) \o <<T("NEWLINE"), T("BUY"), T(":")>>
                     \o buy \o <<T("NEWLINE"), T("SELL"), T(":")>> \o sell \o <<T("EOF")>>

\* Version 2: rules that look back
Watching == PriceCrosses("crosses_above", 2)
            \o <<T("->"), T("BUY"), Number(50), T("%"), T("NEWLINE"), Ident("count"), T("(")>>
            \o PriceIs(">", 1)
            \o <<T(","), Number(3), T(")"), T(">="), Number(2), T("->"), T("SELL"), T("ALL"),
                 T("NEWLINE"), Ident("streak"), T("(")>> \o PriceIs("==", 2)
            \o <<T(")"), T(">="), Number(2), T("->"), T("SELL"), Number(50), T("%"), T("EOF")>>

Scripts == {[kind |-> "script", v1 |-> TRUE, toks |-> Blocks(x, y)] :
               x \in SimpleConditions \cup {GoldenCross}, y \in SimpleConditions}
           \cup {[kind |-> "script", v1 |-> FALSE, toks |-> Watching]}

\* What a cycle sees: a price, or none, and the quantity held.  The price
\* stands for the averages too.
Seen(price, quantity) ==
    Context([price |-> price, volume |-> 1,
             ind |-> IF price = Null THEN <<>>
                     ELSE (<<"MA", <<5>>>> :> price) @@ (<<"MA", <<20>>>> :> 1)],
            [quantity |-> quantity])
-----------------------------------------------------------------------------
Init == /\ \/ subject \in Texts
           \/ subject \in Trees
           \/ subject \in Scripts
        /\ answer = Null
        /\ trace = <<>>

Lex == /\ subject.kind = "text"
       /\ answer' = [toks |-> Tokenize(subject.text)]

Parse == /\ subject.kind = "tree"
         /\ answer' = Expression(1, Environment(Append(Text(subject.tree), T("EOF")), FALSE))

ParseScript == /\ subject.kind = "script"
               /\ answer' = [v1 |-> ParseV1(subject.toks), v2 |-> ParseV2(subject.toks),
                             st1 |-> NoState, st2 |-> NoState]

Answer == /\ answer = Null
          /\ Lex \/ Parse \/ ParseScript
          /\ UNCHANGED <<subject, trace>>

\* Both versions evaluate a v1 script, each with the state of its own; the
\* engine falls back on the first.
Cycle == /\ answer # Null /\ subject.kind = "script" /\ Len(trace) < MaxCycles
         /\ \E price \in {Null, 1, 2}, quantity \in 0..1 :
               LET con == Seen(price, quantity)
                   Decided(one, two) ==
                       /\ answer' = [answer EXCEPT !.st1 = one.st, !.st2 = two.st]
                       /\ trace' = Append(trace, [price |-> price, quantity |-> quantity,
                                                  buy |-> one.v[1], sell |-> one.v[2],
                                                  action |-> two.action, conds |-> two.results])
               IN  Decided(IF subject.v1 THEN EvaluateV1(answer.v1, con, answer.st1)
                                         ELSE Val(<<FALSE, FALSE>>, NoState),
                           EvaluateV2(answer.v2, con, answer.st2))
         /\ UNCHANGED subject

Next == Answer \/ Cycle
Spec == Init /\ [][Next]_vars

Answered(kind) == subject.kind = kind /\ answer # Null
-----------------------------------------------------------------------------
\* A text is cut into the longest tokens from the left, or refused where no
\* token fits: a rule is never read as a different rule because an operator,
\* a number or a keyword was cut short (">=" as ">" and "=").
LexLongest ==
    Answered("text") =>
        [i \in DOMAIN answer.toks |-> answer.toks[i].v] = LongestLexemes(subject.text, 1)

\* An expression printed with no more parentheses than precedence and
\* associativity require parses to itself, and one whose types clash is
\* refused: no rule is evaluated with its operators grouped another way.
RoundTrip ==
    Answered("tree") =>
        IF WellTyped(Shape(subject.tree))
        THEN answer.node # Null /\ Shape(answer.node) = Shape(subject.tree)
        ELSE answer.node = Null

\* No value is made up: where an expression mentions a field that is missing
\* the whole of it is missing, whatever the other operands decide.
MissingSpreads ==
    Answered("tree") /\ answer.node # Null =>
        (Mentions(answer.node, "price") =>
            Eval(answer.node, Seen(Null, 0), NoState).v = Null)

\* The engine runs v1 scripts with the v2 evaluator.  It decides what v1
\* would: it sells when the SELL block holds, and otherwise buys when the BUY
\* block holds and nothing is held.
V1Compatible ==
    Answered("script") /\ subject.v1 =>
        \A i \in DOMAIN trace :
            trace[i].action = IF trace[i].sell THEN 2
                              ELSE IF trace[i].buy /\ trace[i].quantity = 0 THEN 1 ELSE 0

\* A crossing is reported in the cycle in which the price, last seen below the
\* level, is at or above it, and in no other, whatever cycles without a price
\* lie between.
CrossingFromHistory ==
    Answered("script") /\ ~subject.v1 =>
        \A i \in DOMAIN trace :
            trace[i].conds[1] =
                IF trace[i].price = Null THEN Null
                ELSE /\ trace[i].price >= 2
                     /\ \E j \in 1..(i - 1) :
                           /\ trace[j].price # Null /\ trace[j].price < 2
                           /\ \A k \in (j + 1)..(i - 1) : trace[k].price = Null

\* count is the number of cycles among the last three in which the condition
\* held, streak the length of the unbroken run up to this cycle; a missing
\* price counts as a cycle in which neither held.
LookingBack ==
    Answered("script") /\ ~subject.v1 =>
        \A i \in DOMAIN trace :
            LET high(j) == trace[j].price = 2
                window == {j \in 1..i : j > i - 3 /\ high(j)}
            IN  /\ trace[i].conds[2] <=> Cardinality(window) >= 2
                /\ trace[i].conds[3] <=> i >= 2 /\ high(i - 1) /\ high(i)

\* A built-in pattern is the expression it is written as.
PatternsAsWritten ==
    Answered("script") =>
        \A name \in DOMAIN BUILTIN_PATTERNS :
            PatternNode[name] = ParseV1(PatternText(name)).buy
-----------------------------------------------------------------------------
\* A rule's text is cut into the tokens and parsed into the tree that its author
\* meant, its conditions are decided from the prices seen, in this cycle and in earlier
\* ones, and a v1 rule keeps its meaning under the v2 parser.
DecisionsInv == /\ LexLongest /\ RoundTrip /\ V1Compatible /\ PatternsAsWritten
                /\ MissingSpreads /\ CrossingFromHistory /\ LookingBack
=============================================================================
