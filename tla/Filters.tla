------------------------------- MODULE Filters -------------------------------
(***************************************************************************)
(* What a list comprehension with a condition, or a query with a condition,*)
(* leaves of a sequence: the flush of pending commands (relay_manager.py)  *)
(* and the limiter's memory (kis/rate_limiter.py).  SelectSeq by its value:*)
(* a recursive function that proofs can unfold.                            *)
(***************************************************************************)
EXTENDS Naturals, Sequences

\* seq without the elements of S.
Without(seq, S) ==
    LET kept[i \in 0 .. Len(seq)] ==
            IF i = 0 THEN <<>>
            ELSE IF seq[i] \in S THEN kept[i - 1]
            ELSE Append(kept[i - 1], seq[i])
    IN  kept[Len(seq)]

\* m is at one place of seq, if it is in it.
Once(seq, m) == \A i, j \in DOMAIN seq : seq[i] = m /\ seq[j] = m => i = j
=============================================================================
