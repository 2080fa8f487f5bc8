------------------------------ MODULE Answering ------------------------------
(***************************************************************************)
(* Who may answer and who may cancel a paused run: answering.py, and the   *)
(* rights of a key (keys.py).                                              *)
(*                                                                         *)
(* A name is [kind, id] ("user:priya"), its kind None when it was given    *)
(* bare ("priya").                                                         *)
(***************************************************************************)
EXTENDS Null

CONSTANT
    Anyone                \* "*" in may_act_as

ADMINISTERING_ROLES == {"admin", "platform"}
INDIVIDUAL_KINDS    == {"user", "agent", "key"}

\* may_act_for: names compare as they are.
MayActFor(info, name) ==
    name = info.principal \/ Anyone \in info.may_act_as \/ name \in info.may_act_as

\* as_principal: a bare name is a user's.
AsPrincipal(name) == IF name.kind = None THEN [name EXCEPT !.kind = "user"] ELSE name

\* require_may_answer: a key as reviewer (None: as itself), a run assigned to assignee
\* (None: to nobody).
MayAnswer(info, assignee, reviewer) ==
    LET answering == IF reviewer = None THEN info.principal ELSE AsPrincipal(reviewer)
    IN  \/ info.role \in ADMINISTERING_ROLES
        \/ Anyone \in info.may_act_as
        \/ /\ MayActFor(info, answering)
           /\ assignee # None => /\ AsPrincipal(assignee).kind \in INDIVIDUAL_KINDS
                                 /\ AsPrincipal(assignee) = answering

WrongMayCancelAsItself(info, assignee) == MayAnswer(info, assignee, None)

\* require_may_cancel: as the assignee, when the key may act for them.
MayCancel(info, assignee) ==
    MayAnswer(info, assignee,
              IF assignee # None /\ MayActFor(info, AsPrincipal(assignee)) THEN assignee ELSE None)
=============================================================================
