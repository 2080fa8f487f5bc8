---------------------------- MODULE ScheduleStore ----------------------------
(***************************************************************************)
(* The schedules of one tenant (store/schedules.py) and their firing       *)
(* (firing.py), by the ticker and by callers.                              *)
(*                                                                         *)
(* A fire is one step: it reads the row under the lock it keeps until it   *)
(* commits.  An update is two: it reads the row without a lock, computes   *)
(* every column from what it read, and later writes the columns that       *)
(* differ from what it read (the ORM sends no others).                     *)
(*                                                                         *)
(* A cadence in a time zone is the set of instants it fires at.  Fields no *)
(* guard reads (name, agent, input, metadata, last_error) are left out, so *)
(* a schedule's identity is its cadence.  The run a fire queues is         *)
(* RunStore's Start under the key (schedule, tick), which makes one run of *)
(* any number of fires for that tick; here it is last_fired_at.            *)
(*                                                                         *)
(* The specification is Firing..., TickLoop has the plain names: they      *)
(* share the time (Present) and a module of proofs.                        *)
(***************************************************************************)
EXTENDS Present, Retry, FiniteSets

CONSTANTS
    Schedules,                \* schedule ids
    Cadences, Timezones,
    Occurrences,              \* when a cadence fires in a zone; {} for "manual"
    Updates,                  \* PATCH requests that may be in progress at once
    Ats,                      \* instants callers ask a fire for
    MAX_CONSECUTIVE_FAILURES, \* config/constants.py
    FIRE_RETRY_BASE, FIRE_RETRY_CAP, MAX_FIRE_SKEW,
    MaxDelay                  \* how old a clock reading may be when it is used

VARIABLES
    rows,      \* agent_schedules: None, or a row
    updates,   \* what each PATCH in progress is to write, or None
    \* history
    used,      \* the ids ever given
    honoured,  \* when each schedule was last created or fired
    resumed,   \* when each was last resumed
    failed,    \* when each last failed to fire
    overtaken, \* the updates in progress whose schedule another was written to since they read
    mixed      \* the schedules an overtaken update was written to, until they are next fired

firingVars == <<rows, updates, now, used, honoured, resumed, failed, overtaken, mixed>>

Row == [cadence              : Cadences,
        timezone             : Timezones,
        enabled              : BOOLEAN,
        next_fire_at         : Maybe(Nat),
        last_fired_at        : Maybe(Nat),
        consecutive_failures : Nat,
        retry_after          : Maybe(Nat)]

\* ScheduleUpdate: the fields sent; None for one that was not.
Change == [cadence : Maybe(Cadences), timezone : Maybe(Timezones), enabled : Maybe(BOOLEAN)]

Clock == {t \in 0..now : now <= t + MaxDelay}

------------------------------------------------------------------------------
(***************************************************************************)
(* Arming.                                                                 *)
(***************************************************************************)

\* next_fire_at: the first instant strictly after "after".
NextFireAt(row, after) ==
    LET later == {o \in Occurrences[<<row.cadence, row.timezone>>] : o > after}
    IN  IF later = {} THEN None ELSE CHOOSE o \in later : \A p \in later : o <= p

Arm(row, after) == [row EXCEPT !.next_fire_at = NextFireAt(row, after)]

\* _rearm: an occurrence merely late is kept, one already superseded is not.
Rearm(row, t) ==
    LET pending   == row.next_fire_at
        following == NextFireAt(row, pending)
    IN  IF pending # None /\ (pending > t \/ (following # None /\ following > t))
        THEN row
        ELSE Arm(row, t)

------------------------------------------------------------------------------
(***************************************************************************)
(* Callers.                                                                *)
(***************************************************************************)

\* No other schedule has this identity (the unique index).
Free(s, cadence) == \A r \in Schedules : r # s /\ rows[r] # None => rows[r].cadence # cadence

\* upsert of an identity that is not there; of one that is, it changes nothing.
Upsert(s, cadence, timezone, enabled, t) ==
    /\ s \notin used /\ Free(s, cadence)
    /\ rows' = [rows EXCEPT ![s] = Arm([cadence              |-> cadence,
                                        timezone             |-> timezone,
                                        enabled              |-> enabled,
                                        next_fire_at         |-> None,
                                        last_fired_at        |-> None,
                                        consecutive_failures |-> 0,
                                        retry_after          |-> None], t)]
    /\ used' = used \cup {s}
    /\ honoured' = [honoured EXCEPT ![s] = now]
    /\ UNCHANGED <<updates, resumed, failed, overtaken, mixed>>

Sent(new, old) == IF new = None THEN old ELSE new

WrongChangedAlways(row, change, t) ==
    LET spec == [row EXCEPT !.cadence  = Sent(change.cadence, @),
                            !.timezone = Sent(change.timezone, @),
                            !.enabled  = Sent(change.enabled, @)]
        armed == Arm(spec, t)
    IN  IF spec.enabled /\ ~row.enabled
        THEN [armed EXCEPT !.consecutive_failures = 0, !.retry_after = None]
        ELSE armed

\* update, of the row it read: re-armed when retimed or resumed.
Changed(row, change, t) ==
    LET spec       == [row EXCEPT !.cadence  = Sent(change.cadence, @),
                                  !.timezone = Sent(change.timezone, @),
                                  !.enabled  = Sent(change.enabled, @)]
        retimed    == <<spec.cadence, spec.timezone>> # <<row.cadence, row.timezone>>
        re_enabled == spec.enabled /\ ~row.enabled
        armed      == IF retimed THEN Arm(spec, t)
                      ELSE IF re_enabled THEN Rearm(spec, t) ELSE spec
    IN  IF re_enabled
        THEN [armed EXCEPT !.consecutive_failures = 0, !.retry_after = None]
        ELSE armed

\* The columns an update will write: those it changed in what it read.
Written(read, changed) ==
    [column \in {c \in DOMAIN read : changed[c] # read[c]} |-> changed[column]]

\* One that changes nothing is left out: it writes when it came (updated_at), no more.
ReadForUpdate(u, s, change, t) ==
    /\ updates[u] = None
    /\ rows[s] # None /\ Changed(rows[s], change, t) # rows[s]
    /\ updates' = [updates EXCEPT ![u] =
                      [schedule |-> s,
                       sets     |-> Written(rows[s], Changed(rows[s], change, t)),
                       at       |-> t]]
    /\ UNCHANGED <<rows, used, honoured, resumed, failed, overtaken, mixed>>

\* Those columns, over the row as it is by then.
Flushed(row, sets) ==
    [column \in DOMAIN row |-> IF column \in DOMAIN sets THEN sets[column] ELSE row[column]]

\* The flush: refused when the row is gone or the change would make a duplicate.
Refused(s, sets) == rows[s] = None \/ ("cadence" \in DOMAIN sets /\ ~Free(s, sets.cadence))

\* The other updates of its schedule in progress.
Others(u) ==
    {v \in Updates \ {u} : updates[v] # None /\ updates[v].schedule = updates[u].schedule}

WriteUpdate(u) ==
    /\ updates[u] # None
    /\ updates' = [updates EXCEPT ![u] = None]
    /\ LET s == updates[u].schedule
       IN  \/ /\ ~Refused(s, updates[u].sets)
              /\ rows' = [rows EXCEPT ![s] = Flushed(@, updates[u].sets)]
              /\ resumed' = IF rows'[s].enabled /\ ~rows[s].enabled
                            THEN [resumed EXCEPT ![s] = now]
                            ELSE resumed
              /\ overtaken' = (overtaken \ {u}) \cup Others(u)
              /\ mixed' = IF u \in overtaken THEN mixed \cup {s} ELSE mixed
           \/ /\ Refused(s, updates[u].sets)
              /\ overtaken' = overtaken \ {u}
              /\ UNCHANGED <<rows, resumed, mixed>>
    /\ UNCHANGED <<used, honoured, failed>>

Delete(s) ==
    /\ rows[s] # None
    /\ rows' = [rows EXCEPT ![s] = None]
    /\ UNCHANGED <<updates, used, honoured, resumed, failed, overtaken, mixed>>

------------------------------------------------------------------------------
(***************************************************************************)
(* Firing.                                                                 *)
(***************************************************************************)

WrongSucceededAfterTick(row, tick, t) ==
    Arm([row EXCEPT !.last_fired_at = tick, !.consecutive_failures = 0, !.retry_after = None],
        tick)

\* record_success.
Succeeded(row, tick, t) ==
    Arm([row EXCEPT !.last_fired_at = tick, !.consecutive_failures = 0, !.retry_after = None],
        IF tick > t THEN tick ELSE t)

WrongFailedKeepsGate(row, retryable, t) ==
    LET failures == row.consecutive_failures + 1
    IN  IF retryable /\ failures < MAX_CONSECUTIVE_FAILURES
        THEN [row EXCEPT !.consecutive_failures = failures,
                         !.retry_after = IF @ = None
                            THEN t + Backoff(FIRE_RETRY_BASE, failures, FIRE_RETRY_CAP) ELSE @]
        ELSE [row EXCEPT !.consecutive_failures = failures,
                         !.enabled = FALSE, !.retry_after = None]

\* record_failure.
Failed(row, retryable, t) ==
    LET failures == row.consecutive_failures + 1
    IN  IF retryable /\ failures < MAX_CONSECUTIVE_FAILURES
        THEN [row EXCEPT !.consecutive_failures = failures,
                         !.retry_after = t + Backoff(FIRE_RETRY_BASE, failures, FIRE_RETRY_CAP)]
        ELSE [row EXCEPT !.consecutive_failures = failures,
                         !.enabled = FALSE, !.retry_after = None]

\* _fire: the run is queued (or found, by its key), or the database refuses it.
FireFor(s, tick, t) ==
    \/ /\ rows'     = [rows EXCEPT ![s] = Succeeded(@, tick, t)]
       /\ honoured' = [honoured EXCEPT ![s] = now]
       /\ mixed'    = mixed \ {s}
       /\ UNCHANGED <<updates, used, resumed, failed, overtaken>>
    \/ \E retryable \in BOOLEAN :
       /\ rows'     = [rows EXCEPT ![s] = Failed(@, retryable, t)]
       /\ failed'   = [failed EXCEPT ![s] = now]
       /\ UNCHANGED <<updates, used, honoured, resumed, overtaken, mixed>>

\* fire: a caller's, for "at", else for the tick that is due, else for now.
Fire(s, at, t) ==
    /\ rows[s] # None /\ rows[s].enabled
    /\ at # None => at <= t + MAX_FIRE_SKEW
    /\ LET due == rows[s].next_fire_at
       IN  FireFor(s, IF at # None THEN at ELSE IF due # None /\ due <= t THEN due ELSE t, t)

\* What claim_due takes.
Due(row, t) ==
    /\ row.enabled
    /\ row.next_fire_at # None /\ row.next_fire_at <= t
    /\ row.retry_after # None => row.retry_after <= t

\* fire_due.  The most overdue row another ticker has not locked may be any of them.
FireDue(s, t) ==
    /\ rows[s] # None /\ Due(rows[s], t)
    /\ FireFor(s, rows[s].next_fire_at, t)

------------------------------------------------------------------------------
Tick ==
    /\ now < MaxTime
    /\ \A u \in Updates : updates[u] # None => now < updates[u].at + MaxDelay
    /\ now' = now + 1
    /\ UNCHANGED <<rows, updates, used, honoured, resumed, failed, overtaken, mixed>>

FiringInit ==
    /\ rows     = [s \in Schedules |-> None]
    /\ updates  = [u \in Updates |-> None]
    /\ now      = 0
    /\ used     = {}
    /\ honoured = [s \in Schedules |-> 0]
    /\ resumed  = [s \in Schedules |-> 0]
    /\ failed   = [s \in Schedules |-> 0]
    /\ overtaken = {} /\ mixed = {}

Step(s, t) ==
    \/ \E c \in Cadences, z \in Timezones, enabled \in BOOLEAN : Upsert(s, c, z, enabled, t)
    \/ \E u \in Updates, change \in Change : ReadForUpdate(u, s, change, t)
    \/ Delete(s)
    \/ \E at \in Maybe(Ats) : Fire(s, at, t)
    \/ FireDue(s, t)

FiringNext ==
    \/ \E s \in Schedules, t \in Clock : Step(s, t) /\ UNCHANGED now
    \/ \E u \in Updates : WriteUpdate(u) /\ UNCHANGED now
    \/ Tick

FiringSpec == FiringInit /\ [][FiringNext]_firingVars

------------------------------------------------------------------------------
FiringTypeOK ==
    /\ rows \in [Schedules -> Maybe(Row)]
    /\ DOMAIN updates = Updates
    /\ \A u \in Updates : updates[u] # None =>
          /\ updates[u].schedule \in Schedules /\ updates[u].at \in Nat
          /\ \A row \in {rows[s] : s \in Schedules} :
                row # None => Flushed(row, updates[u].sets) \in Row
    /\ now \in Nat
    /\ used \subseteq Schedules
    /\ honoured \in [Schedules -> Nat] /\ resumed \in [Schedules -> Nat]
    /\ failed \in [Schedules -> Nat]
    /\ overtaken \subseteq Updates /\ mixed \subseteq Schedules

\* Never the backlog.  A schedule is armed for a tick later than its last fire (record_success:
\* "or a week of downtime would replay as 168 runs"), and, once resumed, for none that a later
\* one had superseded (update: "never the backlog"), within the age of a clock reading.  Only an
\* update written over another one it had not read may resume a schedule for a tick long gone;
\* the next fire puts it right.
NoBacklog ==
    \A s \in Schedules :
        LET tick      == rows[s].next_fire_at
            following == NextFireAt(rows[s], tick)
        IN  rows[s] # None /\ rows[s].enabled /\ tick # None =>
                /\ honoured[s] < tick + MaxDelay
                /\ s \notin mixed /\ following # None => resumed[s] < following + MaxDelay

\* The ticker fires a schedule that failed only after its backoff.
Spaced(s) ==
    rows[s] # None /\ rows[s].consecutive_failures > 0 /\ Due(rows[s], now)
    => failed[s] + Backoff(FIRE_RETRY_BASE, rows[s].consecutive_failures, FIRE_RETRY_CAP)
          <= now + MaxDelay

\* claim_due: "three strikes are spaced by the policy, not by the tick", of every schedule.
EveryStrikeSpaced == \A s \in Schedules : Spaced(s)

\* It is so of every schedule, but one an update was written to over another one it had not
\* read, until that schedule is next fired.
StrikesSpaced == \A s \in Schedules \ mixed : Spaced(s)

\* A tick of its cadence that is owed is fired: nothing but a retiming, a delete or a fire a
\* caller asked for another instant arms its schedule past it (update: "a client sending the
\* whole representation back must not throw tonight's run away"), and the write of an update
\* over another one it had not read.
OwedTickKept ==
    [][\A s \in Schedules :
          LET tick  == rows[s].next_fire_at
              armed == rows'[s].next_fire_at
          IN  /\ rows[s] # None /\ rows[s].enabled
              /\ tick \in Occurrences[<<rows[s].cadence, rows[s].timezone>>] /\ tick <= now
              /\ rows'[s] # None /\ (armed # None => armed > tick)
              => \/ rows'[s].last_fired_at = tick
                 \/ <<rows'[s].cadence, rows'[s].timezone>> # <<rows[s].cadence, rows[s].timezone>>
                 \/ \E at \in Ats, t \in Clock : Fire(s, at, t)
                 \/ \E u \in overtaken : updates[u].schedule = s /\ WriteUpdate(u)]_firingVars

------------------------------------------------------------------------------
ASSUME ScheduleAssumption ==
    /\ None \notin Nat /\ None \notin Row /\ None \notin BOOLEAN
    /\ None \notin Cadences /\ None \notin Timezones
    /\ Occurrences \in [Cadences \X Timezones -> SUBSET Nat]
    /\ \A c \in Cadences, z \in Timezones :
          Occurrences[<<c, z>>] = {} \/ \E o \in Occurrences[<<c, z>>] : o > MaxTime + MAX_FIRE_SKEW
    /\ Ats \subseteq Nat
    /\ MAX_CONSECUTIVE_FAILURES \in Nat \ {0}
    /\ FIRE_RETRY_BASE \in Nat /\ FIRE_RETRY_CAP \in Nat /\ MAX_FIRE_SKEW \in Nat
    /\ MaxDelay \in Nat /\ MaxTime \in Nat
==============================================================================
