-------------------------------- MODULE Null --------------------------------
(***************************************************************************)
(* What a column or a field holds that holds nothing: SQL's NULL, Python's *)
(* None.                                                                   *)
(***************************************************************************)
CONSTANT None

Maybe(S) == S \cup {None}
=============================================================================
