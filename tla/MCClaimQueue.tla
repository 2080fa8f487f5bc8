---------------------------- MODULE MCClaimQueue ----------------------------
(***************************************************************************)
(* ClaimQueue for TLC: two tenants; of acme, two runs of one conversation  *)
(* and two of none; of beta, one that uses the same key.                   *)
(***************************************************************************)
EXTENDS ClaimQueue, TLC

CONSTANTS r1, r2, r3, r4, r5, c1, c2, acme, beta, chat, bot

Tenants    == [r \in RunIds |-> IF r = r4 THEN beta ELSE acme]
Keys       == [r \in RunIds |-> IF r \in {r3, r5} THEN None ELSE chat]
Agents     == [r \in RunIds |-> bot]
Priorities == [r \in RunIds |-> IF r = r1 THEN 1 ELSE 0]

\* A worker of the platform, which takes runs of every tenant.
AnyTenant == {[tenant |-> None, agents |-> {bot}]}

\* A claim is only ever compared with another.
ClaimSymmetry == Permutations(Claims)
=============================================================================
