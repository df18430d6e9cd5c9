--------------------------------- MODULE Sums ---------------------------------
(***************************************************************************)
(* Python's sum over what a collection holds: the evaluation of a balance, *)
(* the quantities of open orders.                                          *)
(***************************************************************************)
EXTENDS Integers, FiniteSetsExt

\* The sum of w[s] over the elements s of S.
SumOver(w, S) == MapThenSumSet(LAMBDA s : w[s], S)
=============================================================================
