----------------------------- MODULE RunLifecycle -----------------------------
(***************************************************************************)
(* What agent-runs promises of a run, without saying how: the statuses a   *)
(* run goes through, which attempt it is on, who works it, and that a      *)
(* cancel asked for is final.  No clocks, leases, retries, repeats or      *)
(* tables.  RunStore implements it (RunStore!Lifecycle).                   *)
(*                                                                         *)
(* "worker" is the worker that holds the run; None: nobody, or the caller  *)
(* whose process runs it.  "order" is "stop" once that worker was asked to *)
(* stop.                                                                   *)
(***************************************************************************)
EXTENDS Integers

CONSTANTS RunIds, Workers, None

VARIABLE life

Ends == {"SUCCESS", "PARTIAL", "ERROR", "TIMEOUT", "CANCELLED", "REJECTED"}

At(status, attempt, worker) ==
    [status |-> status, attempt |-> attempt, worker |-> worker, order |-> "work"]

Unborn == At("ABSENT", 1, None)

\* l becomes m ...
Begin(l, m) ==
    /\ l.status = "ABSENT"
    /\ \E status \in {"QUEUED", "RUNNING"} : m = At(status, 1, None)

Take(l, m) ==
    /\ l.status = "QUEUED"
    /\ \E w \in Workers : m = At("RUNNING", l.attempt, w)

\* ... it asks a person and waits, as the attempt it was ...
Ask(l, m) ==
    /\ l.status = "RUNNING" /\ l.order = "work"
    /\ m = At("PAUSED", l.attempt, None)

\* ... and goes on as the next attempt, in the caller's process or on the queue.
Continue(l, m) ==
    /\ l.status = "PAUSED"
    /\ \E status \in {"QUEUED", "RUNNING"} : m = At(status, l.attempt + 1, None)

\* A worker loses the run or lets go of it: another takes the next attempt.
GiveBack(l, m) ==
    /\ l.status = "RUNNING" /\ l.worker # None /\ l.order = "work"
    /\ m = At("QUEUED", l.attempt + 1, None)

\* A run a worker holds is asked to stop; from then on it can only end.
AskToStop(l, m) ==
    /\ l.status = "RUNNING" /\ l.worker # None /\ l.order = "work"
    /\ m = [l EXCEPT !.order = "stop"]

\* A run that is not worked on can only be cancelled or time out.
End(l, m) ==
    /\ l.status \in {"QUEUED", "RUNNING", "PAUSED"}
    /\ \E status \in IF l.status = "RUNNING" THEN Ends ELSE {"CANCELLED", "TIMEOUT"} :
          m = At(status, l.attempt, None)

Forget(l, m) == l.status \in Ends /\ m = Unborn

Step(l, m) ==
    \/ Begin(l, m) \/ Take(l, m) \/ Ask(l, m) \/ Continue(l, m) \/ GiveBack(l, m)
    \/ AskToStop(l, m) \/ End(l, m) \/ Forget(l, m)

------------------------------------------------------------------------------
Init == life = [r \in RunIds |-> Unborn]

\* A sweep moves several runs at once.
Next == \A r \in RunIds : life'[r] = life[r] \/ Step(life[r], life'[r])

Spec == Init /\ [][Next]_life
===============================================================================
