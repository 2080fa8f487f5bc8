----------------------------- MODULE MCRunStore -----------------------------
(***************************************************************************)
(* RunStore for TLC.  Each .cfg picks the inputs its question needs.       *)
(***************************************************************************)
EXTENDS RunStore, TLC

CONSTANTS w1, w2, i1, i2, alice, lead, ckpt, root, go, stop, r1

\* A question escalated when overdue, and one that times the run out when overdue.
Escalating == [interrupt_id |-> i1, assignee |-> alice, deadline |-> 1, escalate_to |-> lead]
Expiring   == [interrupt_id |-> i2, assignee |-> alice, deadline |-> 1, escalate_to |-> None]

JustEscalating        == {Escalating}
EscalatingAndExpiring == {Escalating, Expiring}

\* A worker is only ever compared with another.
WorkerSymmetry == Permutations(Workers)
=============================================================================
