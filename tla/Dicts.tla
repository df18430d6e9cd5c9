------------------------------- MODULE Dicts ---------------------------------
(***************************************************************************)
(* Values that may be missing, and dictionaries of values (None and dict   *)
(* of the code).                                                           *)
(***************************************************************************)

CONSTANT Null       \* a missing value; also the node of a failed parse

\* dict.get and an assignment to one key
Get(f, key, default) == IF key \in DOMAIN f THEN f[key] ELSE default
Put(f, key, x) == [d \in DOMAIN f \cup {key} |-> IF d = key THEN x ELSE f[d]]
=============================================================================
