------------------------------ MODULE RuleLexer ------------------------------
(***************************************************************************)
(* The lexer of the rule language (sv_core/parsing/lexer.py, tokens.py).   *)
(* A text is a sequence of characters; a character is a string of length   *)
(* one.  A token is [t |-> type, v |-> the characters it was read from];   *)
(* the text ends in a token of type "EOF".  Only the characters the        *)
(* constants below list are told apart.  "M" stands for the letters that   *)
(* begin no keyword, "EOL" for the end of a line (a line feed or a return, *)
(* or both).                                                               *)
(***************************************************************************)
EXTENDS Integers, SequencesExt

Letters == {"M", "A", "N", "D", "O", "R", "_"}
Digits == {"0", "1"}
Blanks == {" "}

\* KEYWORDS and BOOL_LITERALS, by their characters; the Korean words and the
\* longer ones are looked up the same way.
KEYWORDS == (<<"A", "N", "D">> :> "AND") @@ (<<"O", "R">> :> "OR")

TwoCharOps == (<<">", "=">> :> ">=") @@ (<<"<", "=">> :> "<=") @@ (<<"=", "=">> :> "==")
              @@ (<<"!", "=">> :> "!=") @@ (<<"-", ">">> :> "->")

OneCharOps == {">", "<", "+", "-", "*", "/", "(", ")", ",", ":", "=", "%", "[", "]"}

\* The first position from i on whose character is not in S
RECURSIVE After(_, _, _)
After(s, i, S) == IF i <= Len(s) /\ s[i] \in S THEN After(s, i + 1, S) ELSE i

\* The same with the characters that do not stop a comment or a string
RECURSIVE UpTo(_, _, _)
UpTo(s, i, S) == IF i <= Len(s) /\ s[i] \notin S THEN UpTo(s, i + 1, S) ELSE i

LexError == <<>>        \* DSLSyntaxError: no text yields an empty list

Lexeme(type, s, i, j) == [t |-> type, v |-> SubSeq(s, i, j - 1), next |-> j]
NoLexeme == [t |-> "error", v |-> <<>>, next |-> 0]

\* The end of a number; a point needs a digit after it.
NumberEnd(s, i) ==
    LET p == After(s, i, Digits)
        q == After(s, p + 1, Digits)
    IN  IF p > Len(s) \/ s[p] # "." THEN p ELSE IF q = p + 1 THEN 0 ELSE q

\* Operators of one character are tried first.
OperatorMutant(s, i) ==
    IF s[i] \in OneCharOps THEN Lexeme(s[i], s, i, i + 1)
    ELSE IF i < Len(s) /\ <<s[i], s[i + 1]>> \in DOMAIN TwoCharOps
    THEN Lexeme(TwoCharOps[<<s[i], s[i + 1]>>], s, i, i + 2)
    ELSE NoLexeme

\* The longest operator at position i
Operator(s, i) ==
    IF i < Len(s) /\ <<s[i], s[i + 1]>> \in DOMAIN TwoCharOps
    THEN Lexeme(TwoCharOps[<<s[i], s[i + 1]>>], s, i, i + 2)
    ELSE IF s[i] \in OneCharOps THEN Lexeme(s[i], s, i, i + 1)
    ELSE NoLexeme

\* The token that starts at position i, which is neither blank nor a comment
LexemeAt(s, i) ==
    LET quote == UpTo(s, i + 1, {"\"", "EOL"})
        word == After(s, i, Letters \cup Digits)
    IN  CASE s[i] = "EOL" -> Lexeme("NEWLINE", s, i, i + 1)
          [] s[i] = "\"" -> IF quote > Len(s) \/ s[quote] = "EOL" THEN NoLexeme
                            ELSE Lexeme("STRING", s, i, quote + 1)
          [] s[i] \in Digits -> IF NumberEnd(s, i) = 0 THEN NoLexeme
                                ELSE Lexeme("NUMBER", s, i, NumberEnd(s, i))
          [] s[i] \in Letters -> LET w == SubSeq(s, i, word - 1)
                                 IN  Lexeme(IF w \in DOMAIN KEYWORDS THEN KEYWORDS[w]
                                            ELSE "IDENT", s, i, word)
          [] OTHER -> Operator(s, i)

\* tokenize from position i on, with the tokens read so far
RECURSIVE TokenizeFrom(_, _, _)
TokenizeFrom(s, i, acc) ==
    IF i > Len(s) THEN Append(acc, [t |-> "EOF", v |-> <<>>])
    ELSE IF s[i] \in Blanks THEN TokenizeFrom(s, i + 1, acc)
    ELSE IF i < Len(s) /\ s[i] = "-" /\ s[i + 1] = "-"
    THEN TokenizeFrom(s, UpTo(s, i, {"EOL"}), acc)
    ELSE LET x == LexemeAt(s, i)
         IN  IF x = NoLexeme THEN LexError
             ELSE TokenizeFrom(s, x.next, Append(acc, [t |-> x.t, v |-> x.v]))

Tokenize(s) == TokenizeFrom(s, 1, <<>>)
=============================================================================
