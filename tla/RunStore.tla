------------------------------- MODULE RunStore -------------------------------
(***************************************************************************)
(* The run operations of store/runs.py as the API (api/routers/runs.py)    *)
(* and the ticker (ticker.py) call them: each action is one transaction,   *)
(* from the row lock to the commit, with the webhook events it announces   *)
(* and the artifacts whose retention it starts.                            *)
(*                                                                         *)
(* The environment is open: any caller (a worker naming itself, or a       *)
(* caller that names none) may send any request at any time, so late,      *)
(* repeated and misdirected requests are all among the behaviours.  A      *)
(* request that is refused (404, 409) or answered as a repeat leaves every *)
(* table as it was: it is a stuttering step, and the guards say when.      *)
(*                                                                         *)
(* A request reads the clock before it waits for the row lock, and the     *)
(* processes' clocks differ: a transaction works with a time t up to       *)
(* MaxDelay older than the present.                                        *)
(***************************************************************************)
EXTENDS RunRows

CONSTANTS
    RunIds,
    ARTIFACT_RETENTION,
    RunRetention,         \* RUNS__RUNS__RETENTION, or None
    Deadlines, Timeouts,  \* what a start may ask for (each may hold None)
    LeaseSeconds,         \* the lease lengths workers ask for
    Questions,            \* the interrupts callers pause on
    Answers,              \* resolutions of an interrupt ...
    CancelAnswers,        \* ... and those whose decision is CANCEL
    Endings,              \* the statuses callers finish with
    MAX_LEASE_SECONDS,    \* config/constants.py: the longest lease
    MaxDelay,             \* how old a transaction's clock reading may be
    MaxTime,              \* bound on the clock
    MaxReleases           \* bound on the releases of one run

VARIABLES
    rows,         \* the runs table: [RunIds -> Row], NoRow for no row
    resolutions,  \* the resolutions table, by run
    artifacts,    \* expires_at of each artifact kept for the run (None: while it lives)
    outbox,       \* the events announced in the run's life
    now,          \* the present
    \* history variables, read by no guard but the bound MaxReleases
    releases,     \* how often a worker let go of the run
    ran           \* when the run was really RUNNING, and which attempt ran last

tables == <<rows, resolutions, artifacts, outbox>>
vars   == <<rows, resolutions, artifacts, outbox, now, releases, ran>>

Callers == Maybe(Workers)

\* The times a transaction may have read as its "now".
Clock == {t \in 0..now : now <= t + MaxDelay}

Resolution == [interrupt_id : Interrupts, answer : Answers]

EventId == [attempt  : Nat,
            status   : {"PAUSED"} \cup Final,
            event    : {"run.paused", "run.escalated", "run.finished"},
            assignee : Maybe(Assignees)]

\* What really happened: the present when the RUNNING stretch going on began, the
\* seconds of the ended ones, the error MaxDelay allows in their sum, and the last
\* attempt that was RUNNING.
Ran   == [began : Maybe(Nat), total : Nat, slack : Nat, attempt : Nat]
NoRan == [began |-> None, total |-> 0, slack |-> 0, attempt |-> 0]

Exists(r) == rows[r].status # "ABSENT"

------------------------------------------------------------------------------
(***************************************************************************)
(* What the operations share.                                              *)
(***************************************************************************)

\* _ended: runs that just ended start the retention of their artifacts.
Ended(S, t) ==
    artifacts' =
        [r \in RunIds |->
            IF r \in S /\ rows'[r].status \in Final
            THEN {IF at = None THEN t + ARTIFACT_RETENTION ELSE at : at \in artifacts[r]}
            ELSE artifacts[r]]

\* event_of: what a run's status announces.
EventOf(row) ==
    IF row.status = "PAUSED" THEN {"run.paused"}
    ELSE IF row.status \in Final THEN {"run.finished"} ELSE {}

\* The same for a run a sweep moved: one it left PAUSED was escalated.
SweptEventOf(row) ==
    IF row.status = "PAUSED" THEN {"run.escalated"} ELSE EventOf(row)

WrongEnvelopeWithoutAttempt(row, event) ==
    [attempt  |-> 1,
     status   |-> row.status,
     event    |-> event,
     assignee |-> IF row.awaiting = None THEN None ELSE row.awaiting.assignee]

\* envelope: the event's id.
Envelope(row, event) ==
    [attempt  |-> row.attempt,
     status   |-> row.status,
     event    |-> event,
     assignee |-> IF row.awaiting = None THEN None ELSE row.awaiting.assignee]

\* announce: written with the change, in the same transaction.
Announce(S, Events(_)) ==
    outbox' =
        [r \in RunIds |->
            IF r \in S
            THEN outbox[r] \cup {Envelope(rows'[r], e) : e \in Events(rows'[r])}
            ELSE outbox[r]]

\* A transaction that locks the rows of S and leaves them as New says.
Store(S, New(_)) == rows' = [r \in RunIds |-> IF r \in S THEN New(r) ELSE rows[r]]

------------------------------------------------------------------------------
(***************************************************************************)
(* The operations of the API.                                              *)
(***************************************************************************)

\* start: INSERT ... ON CONFLICT DO NOTHING; with a row there, a repeat or a conflict.
Start(r, queue, deadline, timeout, t) ==
    /\ ~Exists(r)
    /\ rows' = [rows EXCEPT ![r] = NewRow(queue, deadline, timeout, t)]
    /\ UNCHANGED <<resolutions, artifacts, outbox, releases>>

\* pause, by a caller w, on question q; a run whose cancel was asked for ends instead.
PausedRow(row, w, q, checkpoint, t) ==
    IF Instead(row, "PAUSED") = "CANCELLED"
    THEN [Move(row, "CANCELLED", t) EXCEPT !.settled_by = w]
    ELSE [Move(row, "PAUSED", t) EXCEPT !.checkpoint        = checkpoint,
                                        !.awaiting          = q,
                                        !.assignee          = q.assignee,
                                        !.awaiting_deadline = q.deadline,
                                        !.settled_by        = w]

PauseRepeats(row, w, q) ==
    /\ Settled(row, "PAUSED", w)
    /\ row.awaiting.interrupt_id = q.interrupt_id

Pause(r, w, q, checkpoint, t) ==
    /\ Exists(r) /\ ~PauseRepeats(rows[r], w, q)
    /\ Fence(rows[r], w)
    /\ CanBecome(rows[r].status, Instead(rows[r], "PAUSED"))
    /\ rows' = [rows EXCEPT ![r] = PausedRow(@, w, q, checkpoint, t)]
    /\ Ended({r}, t)
    /\ Announce({r}, EventOf)
    /\ UNCHANGED <<resolutions, releases>>

WrongResumedSameAttempt(row, answer, t) ==
    IF answer \in CancelAnswers THEN Move(row, "CANCELLED", t)
    ELSE IF row.queued_at # None THEN Requeue(row, None, t)
    ELSE Move(row, "RUNNING", t)

\* resume: the answer is kept under (run, interrupt), a primary key, so an interrupt
\* with an answer already kept fails the insert and the transaction with it.
ResumedRow(row, answer, t) ==
    IF answer \in CancelAnswers THEN Move(row, "CANCELLED", t)
    ELSE IF row.queued_at # None THEN Requeue(row, None, t)
    ELSE [Move(row, "RUNNING", t) EXCEPT !.attempt = @ + 1]

Answered(r, interrupt) == \E res \in resolutions[r] : res.interrupt_id = interrupt

Resume(r, interrupt, answer, t) ==
    /\ rows[r].awaiting # None
    /\ rows[r].awaiting.interrupt_id = interrupt
    /\ ~Answered(r, interrupt)
    /\ resolutions' = [resolutions EXCEPT
                         ![r] = @ \cup {[interrupt_id |-> interrupt, answer |-> answer]}]
    /\ rows' = [rows EXCEPT ![r] = ResumedRow(@, answer, t)]
    /\ Ended({r}, t)
    /\ Announce({r}, EventOf)
    /\ UNCHANGED releases

WrongCancelledInProcess(row, p, t) ==
    IF row.status = "RUNNING"
    THEN [row EXCEPT !.cancel_requested_at = t, !.updated_at = t, !.cancelled_by = p]
    ELSE [Move(row, "CANCELLED", t) EXCEPT !.cancelled_by = p]

\* cancel: a run a worker holds is asked to stop, any other ends at once.
CancelledRow(row, p, t) ==
    IF Leased(row)
    THEN [row EXCEPT !.cancel_requested_at = t, !.updated_at = t, !.cancelled_by = p]
    ELSE [Move(row, "CANCELLED", t) EXCEPT !.cancelled_by = p]

WrongCancelOfEnded(r, p, t) ==
    /\ Exists(r)
    /\ rows[r].cancel_requested_at = None
    /\ rows' = [rows EXCEPT ![r] = CancelledRow(@, p, t)]
    /\ Ended({r}, t)
    /\ Announce({r}, EventOf)
    /\ UNCHANGED <<resolutions, releases>>

Cancel(r, p, t) ==
    /\ Exists(r)
    /\ rows[r].cancel_requested_at = None
    /\ Leased(rows[r]) \/ CanBecome(rows[r].status, "CANCELLED")
    /\ rows' = [rows EXCEPT ![r] = CancelledRow(@, p, t)]
    /\ Ended({r}, t)
    /\ Announce({r}, EventOf)
    /\ UNCHANGED <<resolutions, releases>>

\* finish: a retryable error of a durable run puts it back on the queue, up to
\* MAX_ERROR_RETRIES times, after a jittered backoff.
FinishRepeats(row, w, status) ==
    \/ Settled(row, status, w)
    \/ status = "ERROR" /\ w # None /\ Settled(row, "QUEUED", w)

RetriedRow(row, w, wait, t) ==
    [Requeue([row EXCEPT !.error_retries = @ + 1], t + wait, t) EXCEPT !.settled_by = w]

ErrorWaits(row) ==
    Jittered(Backoff(ERROR_RETRY_BASE, row.error_retries + 1, ERROR_RETRY_CAP))

FinishedRow(row, w, status, t) == [Move(row, status, t) EXCEPT !.settled_by = w]

Finish(r, w, status, retryable, t) ==
    /\ Exists(r) /\ ~FinishRepeats(rows[r], w, status)
    /\ Fence(rows[r], w)
    /\ IF Retried(rows[r], status, retryable)
       THEN \E wait \in ErrorWaits(rows[r]) :
                rows' = [rows EXCEPT ![r] = RetriedRow(@, w, wait, t)]
       ELSE /\ CanBecome(rows[r].status, status)
            /\ rows' = [rows EXCEPT ![r] = FinishedRow(@, w, status, t)]
    /\ Ended({r}, t)
    /\ Announce({r}, EventOf)
    /\ UNCHANGED <<resolutions, releases>>

------------------------------------------------------------------------------
(***************************************************************************)
(* The queue.                                                              *)
(***************************************************************************)

Available(row, t) ==
    row.status = "QUEUED" /\ (row.available_at # None => row.available_at <= t)

\* claim: which of the available runs comes next depends on the agents asked for, the room
\* under its key and its tenant's cap, the order and the rows other claims hold: any of
\* them may.  ClaimQueue has these.
ClaimedRow(row, w, seconds, t) == Lease(Move(row, "RUNNING", t), w, seconds, t)

Claim(r, w, seconds, t) ==
    /\ Available(rows[r], t)
    /\ rows' = [rows EXCEPT ![r] = ClaimedRow(@, w, seconds, t)]
    /\ UNCHANGED <<resolutions, artifacts, outbox, releases>>

\* heartbeat: extends the lease and saves progress, when some is sent.
BeatenRow(row, w, seconds, checkpoint, t) ==
    IF checkpoint = None THEN Lease(row, w, seconds, t)
    ELSE Lease([row EXCEPT !.checkpoint = checkpoint, !.updated_at = t], w, seconds, t)

Heartbeat(r, w, seconds, checkpoint, t) ==
    /\ Exists(r) /\ Fence(rows[r], w)
    /\ rows[r].status = "RUNNING"
    /\ rows' = [rows EXCEPT ![r] = BeatenRow(@, w, seconds, checkpoint, t)]
    /\ UNCHANGED <<resolutions, artifacts, outbox, releases>>

\* release: back on the queue at once, unless its cancel was asked for.
ReleasedRow(row, w, checkpoint, t) ==
    IF Instead(row, "QUEUED") = "CANCELLED"
    THEN [Move(row, "CANCELLED", t) EXCEPT !.settled_by = w]
    ELSE [Requeue(row, None, t) EXCEPT
            !.checkpoint = IF checkpoint = None THEN @ ELSE checkpoint,
            !.settled_by = w]

Release(r, w, checkpoint, t) ==
    /\ Exists(r) /\ ~Settled(rows[r], "QUEUED", w)
    /\ Fence(rows[r], w)
    /\ CanBecome(rows[r].status, Instead(rows[r], "QUEUED"))
    /\ releases[r] < MaxReleases
    /\ rows' = [rows EXCEPT ![r] = ReleasedRow(@, w, checkpoint, t)]
    /\ releases' = [releases EXCEPT ![r] = IF rows[r].cancel_requested_at = None THEN @ + 1 ELSE @]
    /\ Ended({r}, t)
    /\ Announce({r}, EventOf)
    /\ UNCHANGED resolutions

------------------------------------------------------------------------------
(***************************************************************************)
(* The ticker's sweeps.  A sweep takes the due rows that no other          *)
(* transaction holds (SKIP LOCKED), SWEEP_BATCH at most: some set S of     *)
(* them, moved and announced in one transaction.                           *)
(***************************************************************************)
WrongPastDeadlineUnlessPaused(t) ==
    {r \in RunIds : /\ rows[r].status \in {"QUEUED", "RUNNING"}
                    /\ rows[r].deadline # None /\ rows[r].deadline < t}

PastDeadline(t) ==
    {r \in RunIds : /\ rows[r].status \in Live
                    /\ rows[r].deadline # None /\ rows[r].deadline < t}

WrongOverworkedThisStretch(t) ==
    {r \in RunIds : /\ rows[r].status = "RUNNING"
                    /\ Limit(rows[r]) # None
                    /\ t - rows[r].running_since > Limit(rows[r])}

Overworked(t) ==
    {r \in RunIds : /\ rows[r].status = "RUNNING"
                    /\ Limit(rows[r]) # None
                    /\ rows[r].worked_seconds + (t - rows[r].running_since) > Limit(rows[r])}

Lapsed(t) ==
    {r \in RunIds : /\ rows[r].status = "RUNNING"
                    /\ rows[r].lease_expires_at # None /\ rows[r].lease_expires_at < t}

WrongOverdueEscalatedOnly(t) ==
    {r \in RunIds : /\ rows[r].status = "PAUSED"
                    /\ rows[r].awaiting.escalate_to # None
                    /\ rows[r].awaiting_deadline # None /\ rows[r].awaiting_deadline < t}

Overdue(t) ==
    {r \in RunIds : /\ rows[r].status = "PAUSED"
                    /\ rows[r].awaiting_deadline # None /\ rows[r].awaiting_deadline < t}

WrongSweptKeepsArtifacts(S, t) ==
    /\ Announce(S, SweptEventOf)
    /\ UNCHANGED <<resolutions, artifacts, releases>>

Swept(S, t) ==
    /\ Ended(S, t)
    /\ Announce(S, SweptEventOf)
    /\ UNCHANGED <<resolutions, releases>>

TimeOutPastDeadline(S, t) ==
    /\ S \subseteq PastDeadline(t)
    /\ Store(S, LAMBDA r : Move(rows[r], "TIMEOUT", t))
    /\ Swept(S, t)

TimeOutOverworked(S, t) ==
    /\ S \subseteq Overworked(t)
    /\ Store(S, LAMBDA r : Move(rows[r], "TIMEOUT", t))
    /\ Swept(S, t)

WrongLapsedOnceMore(row, wait, t) ==
    LET counted == [row EXCEPT !.lease_lapses = @ + 1]
    IN  IF Instead(row, "QUEUED") = "CANCELLED" THEN Move(row, "CANCELLED", t)
        ELSE IF counted.lease_lapses > MAX_LEASE_LAPSES THEN Move(counted, "ERROR", t)
        ELSE Requeue(counted, t + wait, t)

\* requeue_lapsed: the next attempt, an ERROR at the last lapse allowed, or CANCELLED.
LapsedRow(row, wait, t) ==
    LET counted == [row EXCEPT !.lease_lapses = @ + 1]
    IN  IF Instead(row, "QUEUED") = "CANCELLED" THEN Move(row, "CANCELLED", t)
        ELSE IF counted.lease_lapses >= MAX_LEASE_LAPSES THEN Move(counted, "ERROR", t)
        ELSE Requeue(counted, t + wait, t)

LapseWaits(row) ==
    Jittered(Backoff(LAPSE_RETRY_BASE, row.lease_lapses + 1, LAPSE_RETRY_CAP))

RequeueLapsed(S, t) ==
    /\ S \subseteq Lapsed(t)
    /\ \E wait \in [S -> 0..LAPSE_RETRY_CAP] :
          /\ \A r \in S : wait[r] \in LapseWaits(rows[r])
          /\ Store(S, LAMBDA r : LapsedRow(rows[r], wait[r], t))
    /\ Swept(S, t)

\* escalate_overdue: to escalate_to, once, without a deadline; else the run times out.
EscalatedRow(row, t) ==
    LET escalated == [row.awaiting EXCEPT !.assignee    = row.awaiting.escalate_to,
                                          !.escalate_to = None,
                                          !.deadline    = None]
    IN  IF row.awaiting.escalate_to = None THEN Move(row, "TIMEOUT", t)
        ELSE [row EXCEPT !.awaiting          = escalated,
                         !.assignee          = escalated.assignee,
                         !.awaiting_deadline = None,
                         !.updated_at        = t]

EscalateOverdue(S, t) ==
    /\ S \subseteq Overdue(t)
    /\ Store(S, LAMBDA r : EscalatedRow(rows[r], t))
    /\ Swept(S, t)

\* purge_ended: the run with its resolutions and events, once no artifact of it is kept.
\* Its id is free again; outbox and the histories are about one life of the id.
Purgeable(t) ==
    {r \in RunIds : /\ rows[r].status \in Final
                    /\ RunRetention # None /\ rows[r].updated_at + RunRetention < t
                    /\ artifacts[r] = {}}

PurgeEnded(S, t) ==
    /\ S \subseteq Purgeable(t)
    /\ Store(S, LAMBDA r : NoRow)
    /\ resolutions' = [r \in RunIds |-> IF r \in S THEN {} ELSE resolutions[r]]
    /\ outbox'      = [r \in RunIds |-> IF r \in S THEN {} ELSE outbox[r]]
    /\ releases'    = [r \in RunIds |-> IF r \in S THEN 0 ELSE releases[r]]
    /\ UNCHANGED artifacts

------------------------------------------------------------------------------
(***************************************************************************)
(* The rows of the artifacts table, as far as a run's life governs them.   *)
(***************************************************************************)

\* The locked check and the insert of an upload; the bytes are stored before.
AddArtifact(r, w, service) ==
    /\ Exists(r) /\ ArtifactWriter(rows[r], w, service)
    /\ artifacts' = [artifacts EXCEPT ![r] = @ \cup {None}]
    /\ UNCHANGED <<rows, resolutions, outbox, releases>>

\* The ticker's artifact sweep: the rows of the expired artifacts whose blob went.
Expired(t) ==
    {r \in RunIds : \E at \in artifacts[r] : at # None /\ at < t}

PurgeArtifacts(S, t) ==
    /\ S \subseteq Expired(t)
    /\ artifacts' = [r \in RunIds |->
                        IF r \in S THEN {at \in artifacts[r] : at = None \/ at >= t}
                        ELSE artifacts[r]]
    /\ UNCHANGED <<rows, resolutions, outbox, releases>>

------------------------------------------------------------------------------
\* The history of a run's status, whichever operation changed it.
Observation(h, from, row) ==
    IF row.status = "ABSENT" THEN NoRan
    ELSE IF from # "RUNNING" /\ row.status = "RUNNING"
    THEN [h EXCEPT !.began = now, !.attempt = row.attempt]
    ELSE IF from = "RUNNING" /\ row.status # "RUNNING"
    THEN [h EXCEPT !.began = None,
                   !.total = @ + (now - h.began),
                   !.slack = @ + MaxDelay]
    ELSE h

Observed == ran' = [r \in RunIds |-> Observation(ran[r], rows[r].status, rows'[r])]

Init ==
    /\ rows        = [r \in RunIds |-> NoRow]
    /\ resolutions = [r \in RunIds |-> {}]
    /\ artifacts   = [r \in RunIds |-> {}]
    /\ outbox      = [r \in RunIds |-> {}]
    /\ now         = 0
    /\ releases    = [r \in RunIds |-> 0]
    /\ ran         = [r \in RunIds |-> NoRan]

Tick ==
    /\ now < MaxTime
    /\ now' = now + 1
    /\ UNCHANGED <<rows, resolutions, artifacts, outbox, releases, ran>>

\* A request about one run.
Request(r, t) ==
    \/ \E queue \in BOOLEAN, deadline \in Deadlines, timeout \in Timeouts :
          Start(r, queue, deadline, timeout, t)
    \/ \E w \in Callers, q \in Questions, checkpoint \in Maybe(Checkpoints) :
          Pause(r, w, q, checkpoint, t)
    \/ \E interrupt \in Interrupts, answer \in Answers : Resume(r, interrupt, answer, t)
    \/ \E p \in Principals : Cancel(r, p, t)
    \/ \E w \in Callers, status \in Endings, retryable \in BOOLEAN :
          Finish(r, w, status, retryable, t)
    \/ \E w \in Workers, seconds \in LeaseSeconds : Claim(r, w, seconds, t)
    \/ \E w \in Workers, seconds \in LeaseSeconds, checkpoint \in Maybe(Checkpoints) :
          Heartbeat(r, w, seconds, checkpoint, t)
    \/ \E w \in Workers, checkpoint \in Maybe(Checkpoints) : Release(r, w, checkpoint, t)
    \/ \E w \in Callers, service \in BOOLEAN : AddArtifact(r, w, service)

\* A transaction of the ticker.
Sweep(S, t) ==
    \/ TimeOutPastDeadline(S, t)
    \/ TimeOutOverworked(S, t)
    \/ RequeueLapsed(S, t)
    \/ EscalateOverdue(S, t)
    \/ PurgeEnded(S, t)
    \/ PurgeArtifacts(S, t)

Transaction ==
    /\ \E t \in Clock :
          \/ \E r \in RunIds : Request(r, t)
          \/ \E S \in SUBSET RunIds \ {{}} : Sweep(S, t)
    /\ Observed
    /\ UNCHANGED now

Next == Transaction \/ Tick

Spec == Init /\ [][Next]_vars

\* The ticker comes round again and again (run_forever outlives any failing tick), each
\* tick runs every sweep, and time passes.  Nothing is assumed of any caller.
TickerStep(Action(_, _), r) ==
    /\ \E t \in Clock, S \in SUBSET RunIds : r \in S /\ Action(S, t)
    /\ Observed
    /\ UNCHANGED now

Fairness ==
    /\ WF_vars(Tick)
    /\ \A r \in RunIds : /\ WF_vars(TickerStep(TimeOutPastDeadline, r))
                         /\ WF_vars(TickerStep(TimeOutOverworked, r))
                         /\ WF_vars(TickerStep(RequeueLapsed, r))
                         /\ WF_vars(TickerStep(EscalateOverdue, r))

FairSpec == Spec /\ Fairness

------------------------------------------------------------------------------
(***************************************************************************)
(* Safety.                                                                 *)
(***************************************************************************)

\* Every column has its type; in particular no working time is ever negative, whatever
\* order the clocks of two requests were read in (_worked).
TypeOK ==
    /\ rows \in [RunIds -> Row]
    /\ resolutions \in [RunIds -> SUBSET Resolution]
    /\ artifacts \in [RunIds -> SUBSET Maybe(Nat)]
    /\ outbox \in [RunIds -> SUBSET EventId]
    /\ now \in Nat
    /\ releases \in [RunIds -> Nat]
    /\ ran \in [RunIds -> Ran]

\* running_since is set exactly while the run is RUNNING (tables.py).
ClockColumns(row) == row.status = "RUNNING" <=> row.running_since # None

\* A lease has a holder and an expiry, both or neither, only a RUNNING run has one, and
\* only a leased run's cancel is ever pending.
LeaseColumns(row) ==
    /\ row.lease_owner # None => row.status = "RUNNING"
    /\ row.lease_owner = None <=> row.lease_expires_at = None
    /\ row.cancel_requested_at # None => row.lease_owner # None

\* A run waits on an interrupt exactly while PAUSED, and the inbox columns are that
\* interrupt's, also once it was escalated.
WaitColumns(row) ==
    /\ row.status = "PAUSED" <=> row.awaiting # None
    /\ row.assignee = (IF row.awaiting = None THEN None ELSE row.awaiting.assignee)
    /\ row.awaiting_deadline = (IF row.awaiting = None THEN None ELSE row.awaiting.deadline)

\* Only a durable run (queued_at) is ever queued, leased, retried or lapsed; a durable run
\* that is RUNNING has a worker (without one no sweep would ever take it back); and only a
\* queued one is held back.
QueueColumns(row) ==
    /\ row.status = "QUEUED" \/ row.lease_owner # None => row.queued_at # None
    /\ row.status = "RUNNING" /\ row.queued_at # None => row.lease_owner # None
    /\ row.queued_at = None => row.error_retries = 0 /\ row.lease_lapses = 0
    /\ row.available_at # None => row.status = "QUEUED"

Consistent(row) ==
    /\ ClockColumns(row) /\ LeaseColumns(row) /\ WaitColumns(row) /\ QueueColumns(row)
    /\ row.status \in Final => row.checkpoint = None

\* The columns of a row agree with its status, whatever sequence of requests and sweeps
\* led there: the comments of RunRow, and what every guard of store/runs.py relies on.
RowsConsistent == \A r \in RunIds : Consistent(rows[r])

\* Once its cancel was asked for, a run's lease ends within one lease of the request
\* (and the age of a clock reading), however often its worker heartbeats: _lease, "the
\* run is cancelled within one lease even by a worker that ignores it".
CancelBound ==
    \A r \in RunIds :
        rows[r].cancel_requested_at # None =>
            rows[r].lease_expires_at <=
                rows[r].cancel_requested_at + MAX_LEASE_SECONDS + MaxDelay

\* worked_seconds is the time the run really was RUNNING, up to the age of the clock
\* readings at both ends of each stretch: neither time queued nor time paused is in it,
\* and no stretch is lost or counted twice (_worked, _move).
WorkedIsRunningTime ==
    \A r \in RunIds :
        /\ rows[r].worked_seconds <= ran[r].total + ran[r].slack
        /\ ran[r].total <= rows[r].worked_seconds + ran[r].slack

\* A run's attempts are all accounted for: the first, one per retried error, per lapse
\* that requeued it, per release, and per kept resolution that continued it.
Continuing(r) == {res \in resolutions[r] : res.answer \notin CancelAnswers}

AttemptAccounting ==
    \A r \in RunIds :
        rows[r].attempt =
            1 + rows[r].error_retries + releases[r] + Cardinality(Continuing(r))
              + (IF rows[r].lease_lapses = MAX_LEASE_LAPSES
                 THEN MAX_LEASE_LAPSES - 1 ELSE rows[r].lease_lapses)

\* Retries and lapses stay within their limits, and the last lapse ends the run: no run
\* crashes its workers for ever.
RetriesBounded ==
    \A r \in RunIds :
        /\ rows[r].error_retries <= MAX_ERROR_RETRIES
        /\ rows[r].lease_lapses <= MAX_LEASE_LAPSES
        /\ rows[r].lease_lapses = MAX_LEASE_LAPSES => rows[r].status = "ERROR"

\* Whatever ends a run starts its artifacts' retention, and nothing else does: no
\* artifact of an ended run is kept for ever, none of a live run expires.
ArtifactsExpire ==
    \A r \in RunIds :
        /\ rows[r].status \in Final => None \notin artifacts[r]
        /\ rows[r].status \in Live => artifacts[r] \subseteq {None}
        /\ rows[r].status = "ABSENT" => artifacts[r] = {}

\* A run's row, its counters and its artifacts agree, whatever requests and sweeps met it and
\* in whichever order: each is written by several operations, none of which reads the others.
RowsSound == RowsConsistent /\ RetriesBounded /\ ArtifactsExpire

(***************************************************************************)
(* What a step may never do.                                               *)
(***************************************************************************)

\* An ended run never changes again; it is only deleted, once no artifact is kept.
EndedForever ==
    [][\A r \in RunIds :
          rows[r].status \in Final =>
              \/ rows'[r] = rows[r]
              \/ rows'[r] = NoRow /\ artifacts[r] = {}]_vars

\* A run whose cancel was asked for never pauses and never goes back on the queue: it
\* stays with its worker, the request standing, until it ends (_cancelled_instead).
CancelHonoured ==
    [][\A r \in RunIds :
          rows[r].cancel_requested_at # None =>
              \/ rows'[r].status \in Final
              \/ /\ rows'[r].status = "RUNNING"
                 /\ rows'[r].lease_owner = rows[r].lease_owner
                 /\ rows'[r].cancel_requested_at = rows[r].cancel_requested_at]_vars

\* An attempt runs once: a run that becomes RUNNING does so as an attempt later than any
\* that ran before.  The event log's key (attempt, sequence) and a webhook's event id
\* rely on it.
AttemptRunsOnce ==
    [][\A r \in RunIds :
          rows[r].status # "RUNNING" /\ rows'[r].status = "RUNNING" =>
              rows'[r].attempt > ran[r].attempt]_vars

\* Every pause, escalation and ending is announced, in the same step and under an id the
\* outbox never saw (a known one is dropped by the primary key); nothing else is.
Noteworthy(r) ==
    \/ rows'[r].status \in {"PAUSED"} \cup Final /\ rows'[r].status # rows[r].status
    \/ rows'[r].status = "PAUSED" /\ rows'[r].awaiting # rows[r].awaiting

AnnouncedOnce ==
    [][\A r \in RunIds :
          rows'[r].status # "ABSENT" =>
              IF Noteworthy(r)
              THEN \E e \in outbox'[r] \ outbox[r] :
                       /\ outbox'[r] = outbox[r] \cup {e}
                       /\ e.event = IF rows'[r].status = rows[r].status THEN "run.escalated"
                                    ELSE IF rows'[r].status = "PAUSED" THEN "run.paused"
                                    ELSE "run.finished"
              ELSE outbox'[r] = outbox[r]]_vars

(***************************************************************************)
(* What it all implements.                                                 *)
(***************************************************************************)
LifeOf(row) == [status   |-> row.status,
                attempt  |-> row.attempt,
                worker   |-> row.lease_owner,
                order    |-> IF row.cancel_requested_at = None THEN "work" ELSE "stop"]

Life == INSTANCE RunLifecycle WITH life <- [r \in RunIds |-> LifeOf(rows[r])]

\* The tables, the leases and the sweeps implement the life of a run as RunLifecycle
\* promises it: no other status change, no attempt skipped or used twice, one worker at a
\* time, and a cancel that was asked for followed by nothing but the end.
Lifecycle == Life!Spec

(***************************************************************************)
(* Liveness, under FairSpec.  The clock being bounded, each is about what  *)
(* comes due before MaxTime.                                               *)
(***************************************************************************)

\* A cancel asked for takes effect, whatever the worker does with its heartbeats.
CancelTakesEffect ==
    \A r \in RunIds :
        /\ rows[r].cancel_requested_at # None
        /\ rows[r].cancel_requested_at + MAX_LEASE_SECONDS + MaxDelay < MaxTime
        ~> rows[r].status \in Final

\* A run ends by its deadline, queued, running or paused alike.
DeadlineEnforced ==
    \A r \in RunIds :
        /\ rows[r].status \in Live
        /\ rows[r].deadline # None /\ rows[r].deadline < MaxTime
        ~> rows[r].status \notin Live

\* A question nobody answered by its deadline goes to escalate_to, or the run ends.
OverdueHandled ==
    \A r \in RunIds :
        /\ rows[r].awaiting_deadline # None /\ rows[r].awaiting_deadline < MaxTime
        ~> rows[r].awaiting_deadline = None

\* A run does not work past its limit: it leaves RUNNING.
OverworkEnds ==
    \A r \in RunIds :
        /\ rows[r].status = "RUNNING" /\ Limit(rows[r]) # None
        /\ rows[r].running_since + Limit(rows[r]) - rows[r].worked_seconds < MaxTime
        ~> rows[r].status # "RUNNING"

\* Every limit on a run takes effect with nothing assumed of its worker and its callers: the
\* sweeps of the ticker see to each of them.
LimitsTakeEffect == CancelTakesEffect /\ DeadlineEnforced /\ OverdueHandled /\ OverworkEnds

------------------------------------------------------------------------------
ASSUME StoreAssumption ==
    /\ IsFiniteSet(RunIds)
    /\ ARTIFACT_RETENTION \in Nat /\ RunRetention \in Maybe(Nat)
    /\ Deadlines \subseteq Maybe(Nat) /\ Timeouts \subseteq Maybe(Nat)
    /\ MAX_LEASE_SECONDS \in Nat
    /\ LeaseSeconds \subseteq 1..MAX_LEASE_SECONDS
    /\ Questions \subseteq Question
    /\ CancelAnswers \subseteq Answers
    /\ Endings \subseteq Final
    /\ MaxDelay \in Nat /\ MaxTime \in Nat /\ MaxReleases \in Nat
==============================================================================
