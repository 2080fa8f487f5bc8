------------------------------- MODULE RunRows -------------------------------
(***************************************************************************)
(* One row of the "runs" table and the functions of store/runs.py that     *)
(* rewrite it.  Everything here is about a single row held under its row   *)
(* lock; RunStore composes these functions into the operations of the API  *)
(* and of the ticker.                                                      *)
(*                                                                         *)
(* Payloads (input, output, error text, metadata) are left out: no guard   *)
(* of the code reads them.  A checkpoint, an interrupt and a principal are *)
(* opaque values.  A time is a natural number.                             *)
(*                                                                         *)
(* A definition named Wrong... is the one that follows it, with a defect a *)
(* change to the code could introduce.  Nothing uses it; in place of the   *)
(* right one it makes a property fail (README, "Mutants").                 *)
(***************************************************************************)
EXTENDS Retry, FiniteSets

CONSTANTS
    None,                 \* SQL's NULL, Python's None
    Workers,              \* worker ids
    Interrupts,           \* interrupt ids
    Assignees,            \* people and roles an interrupt is addressed to
    Checkpoints,          \* checkpoint payloads
    Principals,           \* who cancels, with the reason given
    MAX_LEASE_LAPSES,     \* config/constants.py
    MAX_ERROR_RETRIES,
    ERROR_RETRY_BASE, ERROR_RETRY_CAP,
    LAPSE_RETRY_BASE, LAPSE_RETRY_CAP,
    MaxRunSeconds         \* RUNS__RUNS__MAX_RUN_SECONDS, or None

Maybe(S) == S \cup {None}

(***************************************************************************)
(* Statuses.  CanBecome is RunStatus.can_become of the contracts package,  *)
(* spelled out by tests/test_state_machine.py.  "ABSENT" stands for a run  *)
(* id that has no row.                                                     *)
(***************************************************************************)
Live  == {"QUEUED", "RUNNING", "PAUSED"}
Final == {"SUCCESS", "PARTIAL", "ERROR", "TIMEOUT", "CANCELLED", "REJECTED"}

CanBecome(from, to) ==
    \/ from = "QUEUED"  /\ to \in {"RUNNING", "CANCELLED", "TIMEOUT"}
    \/ from = "RUNNING" /\ to \in {"PAUSED", "QUEUED"} \cup Final
    \/ from = "PAUSED"  /\ to \in {"RUNNING", "QUEUED", "CANCELLED", "TIMEOUT"}

\* What a paused run waits on: the interrupt as stored in "awaiting".
Question == [interrupt_id : Interrupts,
             assignee     : Maybe(Assignees),
             deadline     : Maybe(Nat),
             escalate_to  : Maybe(Assignees)]

Row == [status              : {"ABSENT"} \cup Live \cup Final,
        attempt             : Nat,
        worked_seconds      : Nat,
        running_since       : Maybe(Nat),
        queued_at           : Maybe(Nat),
        available_at        : Maybe(Nat),
        lease_owner         : Maybe(Workers),
        lease_expires_at    : Maybe(Nat),
        cancel_requested_at : Maybe(Nat),
        cancelled_by        : Maybe(Principals),
        settled_by          : Maybe(Workers),
        error_retries       : Nat,
        lease_lapses        : Nat,
        awaiting            : Maybe(Question),
        assignee            : Maybe(Assignees),
        awaiting_deadline   : Maybe(Nat),
        checkpoint          : Maybe(Checkpoints),
        deadline            : Maybe(Nat),
        timeout_seconds     : Maybe(Nat),
        updated_at          : Maybe(Nat)]

\* The values of a row start() inserts, before its arguments are filled in.
NoRow == [status              |-> "ABSENT",
          attempt             |-> 1,
          worked_seconds      |-> 0,
          running_since       |-> None,
          queued_at           |-> None,
          available_at        |-> None,
          lease_owner         |-> None,
          lease_expires_at    |-> None,
          cancel_requested_at |-> None,
          cancelled_by        |-> None,
          settled_by          |-> None,
          error_retries       |-> 0,
          lease_lapses        |-> 0,
          awaiting            |-> None,
          assignee            |-> None,
          awaiting_deadline   |-> None,
          checkpoint          |-> None,
          deadline            |-> None,
          timeout_seconds     |-> None,
          updated_at          |-> None]

NewRow(queue, deadline, timeout, t) ==
    [NoRow EXCEPT !.status          = IF queue THEN "QUEUED" ELSE "RUNNING",
                  !.running_since   = IF queue THEN None ELSE t,
                  !.queued_at       = IF queue THEN t ELSE None,
                  !.deadline        = deadline,
                  !.timeout_seconds = timeout,
                  !.updated_at      = t]

(***************************************************************************)
(* The working time: the RUNNING stretches that ended, and the one going   *)
(* on, clamped at zero because t may have been read before running_since.  *)
(***************************************************************************)
WrongWorkedSinceUpdate(row, t) ==
    IF row.running_since = None \/ t < row.updated_at THEN row.worked_seconds
    ELSE row.worked_seconds + (t - row.updated_at)

Worked(row, t) ==
    IF row.running_since = None \/ t < row.running_since
    THEN row.worked_seconds
    ELSE row.worked_seconds + (t - row.running_since)

\* _limit: the run's own limit or the service's, the lesser; None without one.
Limit(row) ==
    CASE row.timeout_seconds = None -> MaxRunSeconds
      [] MaxRunSeconds = None       -> row.timeout_seconds
      [] OTHER -> IF row.timeout_seconds < MaxRunSeconds
                  THEN row.timeout_seconds ELSE MaxRunSeconds

(***************************************************************************)
(* _move, without its transition check, which is CanBecome in the guards.  *)
(***************************************************************************)
Move(row, to, t) ==
    [row EXCEPT
        !.worked_seconds      = Worked(row, t),
        !.running_since       = IF to = "RUNNING" THEN t ELSE None,
        !.status              = to,
        !.updated_at          = t,
        !.settled_by          = None,
        !.available_at        = IF to = "QUEUED"  THEN @ ELSE None,
        !.lease_owner         = IF to = "RUNNING" THEN @ ELSE None,
        !.lease_expires_at    = IF to = "RUNNING" THEN @ ELSE None,
        !.cancel_requested_at = IF to = "RUNNING" THEN @ ELSE None,
        !.awaiting            = IF to = "PAUSED"  THEN @ ELSE None,
        !.assignee            = IF to = "PAUSED"  THEN @ ELSE None,
        !.awaiting_deadline   = IF to = "PAUSED"  THEN @ ELSE None,
        !.checkpoint          = IF to \in Final   THEN None ELSE @]

WrongRequeueSameAttempt(row, available, t) ==
    [Move(row, "QUEUED", t) EXCEPT !.queued_at = t, !.available_at = available]

\* _requeue: the next attempt, held back until "available" (None: not at all).
Requeue(row, available, t) ==
    [Move(row, "QUEUED", t) EXCEPT !.attempt      = @ + 1,
                                   !.queued_at    = t,
                                   !.available_at = available]

WrongLeaseFromNow(row, w, seconds, t) ==
    [row EXCEPT !.lease_owner = w, !.lease_expires_at = t + seconds]

\* _lease: from now or, once its cancel was asked for, from that request.
Lease(row, w, seconds, t) ==
    LET from == IF row.cancel_requested_at = None THEN t ELSE row.cancel_requested_at
    IN  [row EXCEPT !.lease_owner = w, !.lease_expires_at = from + seconds]

Fence(row, w) == w = None \/ row.lease_owner = w

HeldBy(row, w) == row.lease_owner = w

Settled(row, status, w) == row.status = status /\ row.settled_by = w

Leased(row) == row.status = "RUNNING" /\ row.lease_owner # None

WrongRetriedWhenCancelled(row, status, retryable) ==
    /\ status = "ERROR" /\ retryable
    /\ row.status = "RUNNING"
    /\ row.queued_at # None
    /\ row.error_retries < MAX_ERROR_RETRIES

\* _retried: does this ending put the run back on the queue instead?
Retried(row, status, retryable) ==
    /\ status = "ERROR" /\ retryable
    /\ row.status = "RUNNING"
    /\ row.queued_at # None
    /\ row.error_retries < MAX_ERROR_RETRIES
    /\ row.cancel_requested_at = None

\* _cancelled_instead: where a run that would go to "to" lands once its cancel was asked for.
Instead(row, to) == IF row.cancel_requested_at # None THEN "CANCELLED" ELSE to

\* What may add an artifact: the holder of a running run, a service key to a paused one.
ArtifactWriter(row, w, service) ==
    \/ row.status = "RUNNING" /\ HeldBy(row, w)
    \/ row.status = "PAUSED" /\ service

------------------------------------------------------------------------------
(***************************************************************************)
(* Assumptions on the constants.                                           *)
(***************************************************************************)
ASSUME NoneAssumption ==
    /\ None \notin Nat
    /\ None \notin Workers
    /\ None \notin Interrupts
    /\ None \notin Assignees
    /\ None \notin Checkpoints
    /\ None \notin Principals
    /\ None \notin Question

ASSUME LimitsAssumption ==
    /\ MAX_LEASE_LAPSES \in Nat \ {0}
    /\ MAX_ERROR_RETRIES \in Nat
    /\ ERROR_RETRY_BASE \in Nat /\ ERROR_RETRY_CAP \in Nat
    /\ LAPSE_RETRY_BASE \in Nat /\ LAPSE_RETRY_CAP \in Nat
    /\ MaxRunSeconds \in Maybe(Nat)
==============================================================================
