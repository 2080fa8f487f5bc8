-------------------------------- MODULE Retry --------------------------------
(***************************************************************************)
(* The one retry policy (retry.py): runs, schedules and webhook deliveries *)
(* all wait by it.                                                         *)
(***************************************************************************)
EXTENDS Integers

\* backoff: the wait after the failures-th consecutive failure.
Backoff(base, failures, cap) ==
    LET wait == base * 2 ^ (IF failures > 1 THEN failures - 1 ELSE 0)
    IN  IF wait \in 0..cap THEN wait ELSE cap

\* jittered: any wait in the upper half, times being integers.
Jittered(wait) == {w \in 0..wait : wait <= 2 * w}
==============================================================================
