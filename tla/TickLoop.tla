------------------------------- MODULE TickLoop -------------------------------
(***************************************************************************)
(* The ticker's loop (ticker.py) with its breaker (retry.py) and the file  *)
(* its liveness probe reads (heartbeat.py).  What each step of a tick does *)
(* is modelled elsewhere (ScheduleStore, RunStore, WebhookOutbox,          *)
(* Artifacts); here it is when it is done at all.                          *)
(*                                                                         *)
(* Time is discrete.  The wait between ticks and a tick take the time they *)
(* take: MaxTick at most for a tick that does not hang, which may be longer *)
(* than the probe waits.  The environment takes the database away and      *)
(* gives it back, raises what is no database failure in a step, fills the  *)
(* disk, and lets a step hang.  Two tickers are on the host, each with its *)
(* liveness file configured, perhaps the same one, or not.                 *)
(***************************************************************************)
EXTENDS Present, Integers, Sequences, FiniteSetsExt

CONSTANTS
    TICK_SECONDS, BREAKER_THRESHOLD, BREAKER_COOLDOWN, HEARTBEAT_MAX_AGE_SECONDS,
    Me, Neighbour,    \* the process ids of this ticker and of another on its host
    HeartbeatFiles,   \* what RUNS__TICKER__HEARTBEAT_FILE may name
    MaxTick,          \* the longest a tick takes, unless it hangs
    MaxFaults         \* bound on what the environment does wrong

ASSUME TickLoopAssumption ==
    /\ TICK_SECONDS \in Nat \ {0} /\ BREAKER_THRESHOLD \in Nat \ {0}
    /\ BREAKER_COOLDOWN \in Nat /\ MaxTick \in Nat
    /\ HEARTBEAT_MAX_AGE_SECONDS \in Nat
    /\ MaxTime \in Nat /\ MaxFaults \in Nat
    /\ None \notin Nat /\ None \notin HeartbeatFiles
    /\ Me # Neighbour /\ {Me, Neighbour} \cap HeartbeatFiles = {}
    \* The wait between ticks alone does not make a ticker look dead.
    /\ TICK_SECONDS <= HEARTBEAT_MAX_AGE_SECONDS

VARIABLES
    database,         \* whether it answers
    disk,             \* whether the liveness file can be written
    stop,             \* the loop was asked to stop
    loop,             \* run_forever and the tick it is in
    breaker,
    configured,       \* RUNS__TICKER__HEARTBEAT_FILE of each ticker, or None; never changes
    files,            \* the time in each liveness file
    faults,
    \* history
    whole,            \* the clock of the last tick whose steps were all done
    trouble,          \* when a tick last could not have been whole: no database, or a crash
    failing,          \* the failed ticks since the last whole one, and when the last started
    blind             \* since when no beat was written, the disk being full

vars == <<now, database, disk, stop, loop, breaker, configured, files, faults, whole, trouble, failing,
          blind>>

\* The steps of a tick, in order.
Steps == <<"fired", "timed_out", "overworked", "requeued", "escalated", "sent", "dropped",
           "purged", "runs_purged">>

\* waits: until `until`; comes: before a tick; works: in step `step` of the tick that read
\* its clock at `at`; turns: after a tick, before the beat.
Loop == [stage : {"waits", "comes", "works", "turns", "hangs", "stopped"},
         step  : 1..Len(Steps), at : Nat, until : Nat]

------------------------------------------------------------------------------
(***************************************************************************)
(* Breaker.                                                                *)
(***************************************************************************)
Closed == [failures |-> 0, opened_at |-> None]

Allows(b, t) == b.opened_at # None => t - b.opened_at >= BREAKER_COOLDOWN

WrongRecordFailureOpensOnce(b, t) ==
    LET failures == b.failures + 1
    IN  [failures  |-> failures,
         opened_at |-> IF b.opened_at = None /\ failures >= BREAKER_THRESHOLD THEN t
                       ELSE b.opened_at]

RecordFailure(b, t) ==
    LET failures == b.failures + 1
    IN  [failures  |-> failures,
         opened_at |-> IF b.opened_at # None \/ failures >= BREAKER_THRESHOLD THEN t ELSE None]

------------------------------------------------------------------------------
(***************************************************************************)
(* The liveness file.                                                      *)
(***************************************************************************)
\* The fallback is one file for the host, which a ticker may be configured with as well.
WrongPathForHost(pid) ==
    IF configured[pid] # None THEN configured[pid] ELSE CHOOSE f \in HeartbeatFiles : TRUE

\* path_for: the configured file, else one of this process's own.
PathFor(pid) == IF configured[pid] # None THEN configured[pid] ELSE pid

\* alive: whether the loop came round of late.
Alive(path) == files[path] # None /\ now - files[path] <= HEARTBEAT_MAX_AGE_SECONDS

\* main: what the probe says of the ticker, which it cannot find without the setting.
Probe(pid) == configured[pid] # None /\ Alive(configured[pid])

\* The other ticker of the host comes round.
NeighbourBeats ==
    /\ files' = [files EXCEPT ![PathFor(Neighbour)] = now]
    /\ UNCHANGED <<now, database, disk, stop, loop, breaker, configured, faults, whole, trouble,
                   failing, blind>>

------------------------------------------------------------------------------
(***************************************************************************)
(* The loop.                                                               *)
(***************************************************************************)
WrongSkipCountsAsFailure ==
    /\ loop.stage = "comes" /\ ~Allows(breaker, now)
    /\ loop' = [loop EXCEPT !.stage = "turns", !.at = now]
    /\ breaker' = RecordFailure(breaker, now)
    /\ UNCHANGED <<now, database, disk, stop, configured, files, faults, whole, trouble, failing,
                   blind>>

\* tick: it reads the clock, and is skipped while the breaker is open ...
TickSkipped ==
    /\ loop.stage = "comes" /\ ~Allows(breaker, now)
    /\ loop' = [loop EXCEPT !.stage = "turns", !.at = now]
    /\ UNCHANGED <<now, database, disk, stop, breaker, configured, files, faults, whole, trouble,
                   failing, blind>>

\* ... or does its steps one after the other.
TickStarts ==
    /\ loop.stage = "comes" /\ Allows(breaker, now)
    /\ loop' = [loop EXCEPT !.stage = "works", !.step = 1, !.at = now]
    /\ UNCHANGED <<now, database, disk, stop, breaker, configured, files, faults, whole, trouble,
                   failing, blind>>

StepDone ==
    /\ loop.stage = "works" /\ database
    /\ IF loop.step < Len(Steps)
       THEN /\ loop' = [loop EXCEPT !.step = @ + 1]
            /\ UNCHANGED <<breaker, whole, failing>>
       ELSE /\ loop' = [loop EXCEPT !.stage = "turns"]
            /\ breaker' = Closed                                 \* record_success
            /\ whole' = loop.at
            /\ failing' = [count |-> 0, at |-> None]
    /\ UNCHANGED <<now, database, disk, stop, configured, files, faults, trouble, blind>>

\* A DBAPIError or OSError: the rest of the tick is left for the next one.
StepFails ==
    /\ loop.stage = "works" /\ ~database
    /\ loop' = [loop EXCEPT !.stage = "turns"]
    /\ breaker' = RecordFailure(breaker, loop.at)
    /\ failing' = [count |-> failing.count + 1, at |-> loop.at]
    /\ trouble' = now
    /\ UNCHANGED <<now, database, disk, stop, configured, files, faults, whole, blind>>

\* Any other exception leaves the tick, past the breaker, and run_forever survives it.
StepCrashes ==
    /\ loop.stage = "works" /\ faults < MaxFaults
    /\ loop' = [loop EXCEPT !.stage = "turns"]
    /\ trouble' = now
    /\ faults' = faults + 1
    /\ UNCHANGED <<now, database, disk, stop, breaker, configured, files, whole, failing, blind>>

WrongBeatsUnlessOpen ==
    /\ loop.stage = "turns"
    /\ loop' = [loop EXCEPT !.stage = "waits", !.until = now + TICK_SECONDS]
    /\ files' = IF disk /\ breaker.opened_at = None THEN [files EXCEPT ![PathFor(Me)] = now] ELSE files
    /\ blind' = IF disk THEN None ELSE IF blind = None THEN now ELSE blind
    /\ UNCHANGED <<now, database, disk, stop, breaker, configured, faults, whole, trouble, failing>>

\* beat, after every tick; it never raises.
Beats ==
    /\ loop.stage = "turns"
    /\ loop' = [loop EXCEPT !.stage = "waits", !.until = now + TICK_SECONDS]
    /\ files' = IF disk THEN [files EXCEPT ![PathFor(Me)] = now] ELSE files
    /\ blind' = IF disk THEN None ELSE IF blind = None THEN now ELSE blind
    /\ UNCHANGED <<now, database, disk, stop, breaker, configured, faults, whole, trouble, failing>>

\* The wait is over, or cut short by stop; the loop looks at stop before the next tick.
Wakes ==
    /\ loop.stage = "waits" /\ (stop \/ now = loop.until)
    /\ loop' = [loop EXCEPT !.stage = IF stop THEN "stopped" ELSE "comes"]
    /\ UNCHANGED <<now, database, disk, stop, breaker, configured, files, faults, whole, trouble,
                   failing, blind>>

Turns == TickSkipped \/ TickStarts \/ StepDone \/ StepFails \/ Beats \/ Wakes

------------------------------------------------------------------------------
(***************************************************************************)
(* The environment.                                                        *)
(***************************************************************************)
StepHangs ==
    /\ loop.stage = "works" /\ faults < MaxFaults
    /\ loop' = [loop EXCEPT !.stage = "hangs"]
    /\ faults' = faults + 1
    /\ UNCHANGED <<now, database, disk, stop, breaker, configured, files, whole, trouble,
                   failing, blind>>

DatabaseGoes ==
    /\ database /\ faults < MaxFaults
    /\ database' = FALSE
    /\ trouble' = now
    /\ faults' = faults + 1
    /\ UNCHANGED <<now, disk, stop, loop, breaker, configured, files, whole, failing, blind>>

DatabaseComesBack ==
    /\ ~database
    /\ database' = TRUE
    /\ trouble' = now
    /\ UNCHANGED <<now, disk, stop, loop, breaker, configured, files, faults, whole, failing,
                   blind>>

DiskFills ==
    /\ disk /\ faults < MaxFaults
    /\ disk' = FALSE
    /\ faults' = faults + 1
    /\ UNCHANGED <<now, database, stop, loop, breaker, configured, files, whole, trouble,
                   failing, blind>>

DiskEmpties ==
    /\ ~disk
    /\ disk' = TRUE
    /\ UNCHANGED <<now, database, stop, loop, breaker, configured, files, faults, whole, trouble,
                   failing, blind>>

Stop ==
    /\ ~stop
    /\ stop' = TRUE
    /\ UNCHANGED <<now, database, disk, loop, breaker, configured, files, faults, whole, trouble,
                   failing, blind>>

\* Time passes while the loop waits or works, no longer than either may take.
Passes ==
    /\ now < MaxTime
    /\ \/ loop.stage = "waits" /\ now < loop.until
       \/ loop.stage = "works" /\ now < loop.at + MaxTick
       \/ loop.stage \in {"hangs", "stopped"}
    /\ now' = now + 1
    /\ UNCHANGED <<database, disk, stop, loop, breaker, configured, files, faults, whole,
                   trouble, failing, blind>>

------------------------------------------------------------------------------
Init ==
    /\ now = 0 /\ database = TRUE /\ disk = TRUE /\ stop = FALSE
    /\ loop = [stage |-> "comes", step |-> 1, at |-> 0, until |-> 0]
    /\ breaker = Closed
    /\ configured \in [{Me, Neighbour} -> HeartbeatFiles \cup {None}]
    /\ files = [p \in {Me, Neighbour} \cup HeartbeatFiles |-> None]
    /\ faults = 0
    /\ whole = 0 /\ trouble = 0
    /\ failing = [count |-> 0, at |-> None]
    /\ blind = None

Next ==
    \/ Turns \/ StepCrashes \/ StepHangs
    \/ NeighbourBeats
    \/ DatabaseGoes \/ DatabaseComesBack \/ DiskFills \/ DiskEmpties
    \/ Stop \/ Passes

Spec == Init /\ [][Next]_vars

------------------------------------------------------------------------------
(***************************************************************************)
(* Properties.                                                             *)
(***************************************************************************)

TypeOK ==
    /\ now \in 0..MaxTime /\ {database, disk, stop} \subseteq BOOLEAN
    /\ loop \in Loop
    /\ breaker \in [failures : Nat, opened_at : Nat \cup {None}]
    /\ \A p \in DOMAIN files : files[p] \in 0..now \cup {None}

Working == loop.stage \in {"waits", "comes", "works", "turns"} /\ ~stop

\* A database that is down is not called over and over: once BREAKER_THRESHOLD ticks failed
\* with none whole between, one is tried BREAKER_COOLDOWN after the last that failed at the
\* earliest (Breaker, which tick asks with the clock it read when it started).
BackedOff ==
    loop.stage = "works" /\ failing.count >= BREAKER_THRESHOLD =>
        loop.at - failing.at >= BREAKER_COOLDOWN

\* No step is forgotten: what was due a cooldown, a wait and a tick ago has been looked at by
\* every step, unless the database was away or a step crashed since, however the outages
\* fell on the ticks (tick, run_forever, Breaker.allows).
CatchesUp ==
    Working /\ database =>
        now - Max({whole, trouble}) <= Max({BREAKER_COOLDOWN, MaxTick}) + TICK_SECONDS + MaxTick

\* How long ago the tick began that the loop is in; only its steps take time.
TickAge == IF loop.stage \in {"works", "turns", "hangs"} THEN now - loop.at ELSE 0

\* The probe never has a ticker restarted that waits, backs off, fails, or works for no
\* longer than the age it allows less a wait: while its file can be written, the loop that
\* comes round is alive (run_forever beats after every tick, also one that failed, crashed or
\* was skipped).
SeenAlive ==
    /\ loop.stage # "stopped" /\ TickAge <= HEARTBEAT_MAX_AGE_SECONDS - TICK_SECONDS
    /\ blind = None /\ configured[Me] # None /\ files[PathFor(Me)] # None
    => Probe(Me)

Shared == configured[Me] # None /\ configured[Me] = configured[Neighbour]

\* A tick that goes on for longer is found out, also while the other ticker of the host
\* beats, unless both are configured with one file (path_for: else each has its own).
SeenHung == TickAge > HEARTBEAT_MAX_AGE_SECONDS /\ ~Shared => ~Probe(Me)

\* The probe tells a ticker that comes round from one that hangs, as far as the time its
\* tick takes and the files configured let it (heartbeat.py main).
ProbeTells == SeenAlive /\ SeenHung
=============================================================================
