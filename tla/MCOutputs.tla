----------------------------- MODULE MCOutputs -----------------------------
(***************************************************************************)
(* What runs give out, for TLC: their artifacts (Artifacts), their events  *)
(* (EventLog) and the webhooks about them (WebhookOutbox).  The three      *)
(* share no state, so a behaviour is checked of one of them, while the     *)
(* others stay as they began.                                              *)
(*                                                                         *)
(* The artifacts are one content of one chunk and one of two.  The events  *)
(* are two of the first attempt and two of the second, in appends that     *)
(* overlap, repeat one another and come late.  The one subscription wants  *)
(* every event.                                                            *)
(***************************************************************************)
EXTENDS Artifacts, EventLog, WebhookOutbox

CONSTANTS a1, a2, p1, p2, x, y, w1, w2, h1, e1, t1, t2

OneAndTwoChunks == {<<x>>, <<y, x>>}

E(attempt, sequence) == [attempt |-> attempt, sequence |-> sequence]

Overlapping == {<<E(1, 1)>>, <<E(1, 1), E(1, 2)>>, <<E(2, 1)>>,
                <<E(1, 2), E(2, 2), E(2, 2)>>}

WantsAll == [h \in Hooks |-> Events]

VARIABLE part

Storing == part = "artifacts"
Logging == part = "events"
Sending == part = "webhooks"

outputsVars == <<part, artifactVars, vars, outboxVars>>

OutputsInit ==
    /\ part \in {"artifacts", "events", "webhooks"}
    /\ ArtifactsInit /\ Init /\ OutboxInit
    /\ run.status = "RUNNING" => Logging

OutputsNext ==
    \/ Storing /\ ArtifactsNext /\ UNCHANGED <<part, vars, outboxVars>>
    \/ Logging /\ Next /\ UNCHANGED <<part, artifactVars, outboxVars>>
    \/ Sending /\ OutboxNext /\ UNCHANGED <<part, artifactVars, vars>>

\* The fairness of FairArtifactsSpec, FairSpec and FairOutboxSpec, of the one at work.
OutputsSpec ==
    /\ OutputsInit /\ [][OutputsNext]_outputsVars
    /\ \A k \in Purgers :
          /\ WF_artifactVars(Storing /\ Expired(k)) /\ WF_artifactVars(Storing /\ RemoveRows(k))
          /\ WF_artifactVars(Storing /\ \E a \in Ids : DeleteBlob(k, a))
    /\ WF_vars(Logging /\ Follow) /\ WF_vars(Logging /\ Reads)
    /\ WF_outboxVars(Sending /\ Tick)
    /\ \A k \in Tickers :
          /\ WF_outboxVars(Sending /\ Claims(k))
          /\ WF_outboxVars(Sending /\ Attempt(k) /\ UNCHANGED now)
          /\ WF_outboxVars(Sending /\ Settle(k) /\ UNCHANGED now)
=============================================================================
