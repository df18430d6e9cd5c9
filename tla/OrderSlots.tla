----------------------------- MODULE OrderSlots -----------------------------
(***************************************************************************)
(* What the order pipeline owes each rule, without any of its machinery:   *)
(* every pair of a rule and a side has one slot.  An attempt takes a free  *)
(* slot, works on it alone, and ends by giving it back (the attempt        *)
(* failed) or by closing it (the order was placed).  A closed slot opens   *)
(* again only when all of them do: a new day, or a new engine.             *)
(***************************************************************************)
CONSTANT Keys                  \* pairs of a rule and a side

VARIABLE slot                  \* "free", "working" or "done" for each key

AllFree == [k \in Keys |-> "free"]

Init == slot = AllFree

Take == /\ \A k \in Keys : slot[k] # "working"
        /\ \E k \in Keys : /\ slot[k] = "free"
                           /\ slot' = [slot EXCEPT ![k] = "working"]

\* The attempt succeeds or fails.
Conclude == \E k \in Keys : /\ slot[k] = "working"
                            /\ \E end \in {"done", "free"} :
                                  slot' = [slot EXCEPT ![k] = end]

Reset == slot' = AllFree

Next == Take \/ Conclude \/ Reset

\* What never happens: two attempts at a time, or a closed slot taken.
Safety == Init /\ [][Next]_slot

\* An attempt that was begun is concluded.
Spec == Safety /\ WF_slot(Conclude)
=============================================================================
