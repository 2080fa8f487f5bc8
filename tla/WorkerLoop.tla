------------------------------ MODULE WorkerLoop ------------------------------
(***************************************************************************)
(* One worker process of the SDK (worker.py over _transport.py) and one    *)
(* durable run: its claim loop, the task of each run it claimed with its   *)
(* handler and its heartbeats, and its way to stop.  Other workers, the    *)
(* ticker and the people who cancel or answer are the environment.         *)
(*                                                                         *)
(* Requests are retried and may be lost, applied with their answer lost,   *)
(* or arrive after the caller gave up.  Heartbeats come whenever: a busy   *)
(* process beats late.  A handler is any code: it may write and go on,     *)
(* raise, return or work for ever, and takes its time to stop when         *)
(* cancelled.                                                              *)
(*                                                                         *)
(* A job is named by the attempt its claim gave it: an attempt runs once   *)
(* (RunStore!AttemptRunsOnce).                                             *)
(***************************************************************************)
EXTENDS Null, Integers, FiniteSets

CONSTANTS
    Concurrency,      \* Worker.concurrency
    LEASE_SECONDS,
    MaxAttempts,      \* bound: the attempts of the run that are claimed
    MaxWire           \* bound: the requests under way at once

VARIABLES
    run,              \* the run's row, as far as workers go
    \* the worker
    mode,             \* how far its run() is
    claiming,         \* its claim: None, Asked, or the attempt whose answer is on its way
    jobs,             \* the task of each attempt it was given
    held,             \* _held: the job registered under the run's id
    released,         \* the job _wind_down cancelled
    wire,             \* the writes under way, each by its job, and what comes late
    \* history
    crowded           \* it was given the run while an earlier job of it waited for another

vars == <<run, mode, claiming, jobs, held, released, wire, crowded>>

Attempts == 1..MaxAttempts
Asked    == 0

\* How a run ended is left out: a worker's write to an ended run is refused or answered as
\* a repeat, and the job is done either way.
Row == [status     : {"QUEUED", "RUNNING", "PAUSED", "ENDED"},
        attempt    : 1..(MaxAttempts + 1),
        owner      : {None, "me", "other"},
        left       : 0..LEASE_SECONDS,         \* of the lease
        cancelling : BOOLEAN,                  \* cancel_requested_at is set
        settled    : Maybe(Attempts)]          \* settled_by is this worker: the job that wrote

\* "error" may be a retryable one.
Writes == {"release", "pause", "error", "finish"}

\* A claim and a heartbeat this worker no longer waits for.
LateClaim == [job |-> None, write |-> "claim"]
LateBeat  == [job |-> None, write |-> "heartbeat"]

Job == [stage : {"none", "task", "waits", "works", "writes", "cancelled", "ends", "done"},
        stale : Maybe(Attempts),               \* the job it stops first
        since : 0..LEASE_SECONDS,              \* since its lease was renewed
        told  : BOOLEAN,                       \* cancel_requested, as last heard
        beats : BOOLEAN,                       \* its heartbeat task goes on
        timed : BOOLEAN,                       \* its working time expired
        write : Maybe(Writes)]                 \* the write it waits for

NoJob == [stage |-> "none", stale |-> None, since |-> 0, told |-> FALSE, beats |-> FALSE,
          timed |-> FALSE, write |-> None]

\* Its handler has not come to its end; its task has not.
Executing(a) == jobs[a].stage \in {"works", "writes", "cancelled"}
Live(a)      == jobs[a].stage \notin {"none", "done"}

Mine == run.status = "RUNNING" /\ run.owner = "me"

\* A request is under way.
Leave(m) ==
    /\ wire' = wire \cup {m}
    /\ Cardinality(wire') <= MaxWire

------------------------------------------------------------------------------
(***************************************************************************)
(* agent-runs: what RunStore does, seen by this worker.                    *)
(***************************************************************************)
Moved(row, status) ==
    [row EXCEPT !.status = status, !.owner = None, !.left = 0,
                !.cancelling = FALSE, !.settled = None]

Requeued(row) == [Moved(row, "QUEUED") EXCEPT !.attempt = @ + 1]

Leased(row, who) == [row EXCEPT !.status = "RUNNING", !.owner = who,
                                !.left = LEASE_SECONDS, !.settled = None]

\* A cancel asked for runs the lease out, whatever is sent.
Beaten(row) == IF row.cancelling THEN row ELSE [row EXCEPT !.left = LEASE_SECONDS]

\* What a fenced write makes of the row; a retryable error requeues the run up to a limit.
Written(row, write) ==
    CASE write = "finish" \/ row.cancelling -> {Moved(row, "ENDED")}
      [] write = "pause"   -> {Moved(row, "PAUSED")}
      [] write = "release" -> {Requeued(row)}
      [] write = "error"   -> {Moved(row, "ENDED"), Requeued(row)}

\* A write is served: applied, or refused (LEASE_LOST) or answered as a repeat.
Served(m) ==
    IF run.owner = "me"
    THEN \E row \in Written(run, m.write) : run' = [row EXCEPT !.settled = m.job]
    ELSE UNCHANGED run

\* A claim finds the run queued; a heartbeat finds it this worker's.
Claims ==
    /\ run.status = "QUEUED" /\ run.attempt <= MaxAttempts
    /\ run' = Leased(run, "me")

Renews == Mine /\ run' = Beaten(run)

\* Everyone else: another worker takes the run and lets go of it, a person cancels or
\* answers, the ticker times it out or takes a lapsed lease back.
Others ==
    /\ \/ /\ run.status = "QUEUED" /\ run.attempt <= MaxAttempts
          /\ run' = Leased(run, "other")
       \/ /\ run.owner = "other" /\ ~run.cancelling
          /\ run' \in {Moved(run, "PAUSED"), Requeued(run)}
       \/ /\ run.status = "PAUSED" /\ run.attempt <= MaxAttempts
          /\ run' = Requeued(run)
       \/ /\ run.status = "RUNNING" /\ ~run.cancelling
          /\ run' = [run EXCEPT !.cancelling = TRUE]
       \/ /\ run.status # "ENDED"
          /\ run' = Moved(run, "ENDED")
    /\ UNCHANGED <<mode, claiming, jobs, held, released, wire, crowded>>

RequeueLapsed ==
    /\ Mine /\ run.left = 0
    /\ run' \in {Moved(run, "ENDED")} \cup (IF run.cancelling THEN {} ELSE {Requeued(run)})
    /\ UNCHANGED <<mode, claiming, jobs, held, released, wire, crowded>>

------------------------------------------------------------------------------
(***************************************************************************)
(* The claim loop of run().                                                *)
(***************************************************************************)
Ask ==
    /\ mode = "serving" /\ claiming = None
    /\ Cardinality({a \in Attempts : Live(a)}) < Concurrency
    /\ claiming' = Asked
    /\ UNCHANGED <<run, mode, jobs, held, released, wire, crowded>>

\* The claim is served; its answer is on its way.
Claim ==
    /\ claiming = Asked
    /\ Claims
    /\ claiming' = run.attempt
    /\ UNCHANGED <<mode, jobs, held, released, wire, crowded>>

\* Nothing was queued, or no answer came: the transport asks again, or gives up, on a claim
\* that may yet be served.
Claimless ==
    /\ claiming # None
    /\ claiming' \in {Asked, None} \ {claiming}
    /\ UNCHANGED wire \/ (claiming = Asked /\ Leave(LateClaim))
    /\ UNCHANGED <<run, mode, jobs, held, released, crowded>>

\* The event loop runs the tasks that can start or go on before an answer sent later comes
\* in, and before _wind_down is done waiting.
Quiet == \A a \in Attempts : /\ jobs[a].stage # "task"
                             /\ jobs[a].stage = "waits" => Executing(jobs[a].stale)

Claimed ==
    /\ claiming \in Attempts /\ Quiet
    /\ jobs'     = [jobs EXCEPT ![claiming].stage = "task"]
    /\ claiming' = None
    /\ crowded'  = (crowded \/ \E a \in Attempts : jobs[a].stage = "waits")
    /\ UNCHANGED <<run, mode, held, released, wire>>

------------------------------------------------------------------------------
(***************************************************************************)
(* _execute: the task of a claimed run.                                    *)
(***************************************************************************)

\* execution.cancel(): the handler is told to stop; an ended one is not disturbed.
Cancelled(job) ==
    IF job.stage \in {"works", "writes"}
    THEN [job EXCEPT !.stage = "cancelled", !.write = None] ELSE job

Working(job) == [job EXCEPT !.stage = "works", !.stale = None, !.since = 0, !.beats = TRUE]

\* The run is registered under an earlier job of this worker: that one stops first.
Execute(a) ==
    /\ jobs[a].stage = "task"
    /\ IF held = None
       THEN /\ jobs' = [jobs EXCEPT ![a] = Working(@)]
            /\ held' = a
       ELSE /\ jobs' = [jobs EXCEPT ![held] = Cancelled(@),
                                    ![a].stage = "waits", ![a].stale = held]
            /\ UNCHANGED held
    /\ UNCHANGED <<run, mode, claiming, released, wire, crowded>>

WrongStaleStopped(a) ==
    /\ jobs[a].stage = "waits"
    /\ jobs' = [jobs EXCEPT ![a] = Working(@)]
    /\ held' = a
    /\ UNCHANGED <<run, mode, claiming, released, wire, crowded>>

StaleStopped(a) ==
    /\ jobs[a].stage = "waits" /\ ~Executing(jobs[a].stale)
    /\ jobs' = [jobs EXCEPT ![a] = Working(@)]
    /\ held' = a
    /\ UNCHANGED <<run, mode, claiming, released, wire, crowded>>

WrongForgotten(a) == None

\* finally: its own entry only.
Forgotten(a) == IF held = a THEN None ELSE held

WrongDoneStillBeats(a) ==
    /\ jobs' = [jobs EXCEPT ![a] = [NoJob EXCEPT !.stage = "done", !.beats = TRUE]]
    /\ held' = Forgotten(a)

Done(a) ==
    /\ jobs' = [jobs EXCEPT ![a] = [NoJob EXCEPT !.stage = "done"]]
    /\ held' = Forgotten(a)

Send(a, write) == Leave([job |-> a, write |-> write])

\* _end: the worker ends the run for its handler.
End(a, write) ==
    /\ jobs' = [jobs EXCEPT ![a].stage = "ends", ![a].write = write]
    /\ Send(a, write)
    /\ UNCHANGED held

\* The handler, on its own: it writes, raises, or returns.
HandlerWrites(a) ==
    /\ jobs[a].stage = "works"
    /\ \E write \in {"pause", "error", "finish"} :
          /\ jobs' = [jobs EXCEPT ![a].stage = "writes", ![a].write = write]
          /\ Send(a, write)
    /\ UNCHANGED <<run, mode, claiming, held, released, crowded>>

HandlerEnds(a) ==
    /\ jobs[a].stage = "works"
    /\ \/ End(a, "error")
       \/ Done(a) /\ UNCHANGED wire
    /\ UNCHANGED <<run, mode, claiming, released, crowded>>

\* The working time the claim gave, and its grace, are over.
WorkingTimeUp(a) ==
    /\ Executing(a) /\ ~jobs[a].timed
    /\ jobs' = [jobs EXCEPT ![a] = [Cancelled(@) EXCEPT !.timed = TRUE]]
    /\ UNCHANGED <<run, mode, claiming, held, released, wire, crowded>>

\* The handler comes to its end once cancelled: cancelled, raising, or all the same.
Unwind(a) ==
    /\ jobs[a].stage = "cancelled"
    /\ \/ (jobs[a].timed \/ jobs[a].told) /\ End(a, "finish")   \* TIMEOUT, CANCELLED
       \/ ~jobs[a].timed /\ End(a, "error")
       \/ Done(a) /\ UNCHANGED wire
    /\ UNCHANGED <<run, mode, claiming, released, crowded>>

WrongLostWorksOn(job) == [job EXCEPT !.beats = FALSE]

Lost(job) == [Cancelled(job) EXCEPT !.beats = FALSE]

\* _heartbeat, of its own task until the job ends.
Heartbeat(a) ==
    /\ jobs[a].beats
    /\ \/ /\ Renews                                                      \* answered
          /\ LET job == [jobs[a] EXCEPT !.since = 0, !.told = run.cancelling]
             IN  jobs' = [jobs EXCEPT ![a] = IF run.cancelling THEN Lost(job) ELSE job]
          /\ UNCHANGED wire
       \/ /\ run.owner # "me"                                            \* LEASE_LOST
          /\ jobs' = [jobs EXCEPT ![a] = Lost(@)]
          /\ UNCHANGED <<run, wire>>
       \/ /\ UNCHANGED run \/ Renews                                     \* no answer
          /\ jobs' = [jobs EXCEPT ![a] = IF @.since = LEASE_SECONDS THEN Lost(@) ELSE @]
          /\ UNCHANGED wire \/ Leave(LateBeat)
    /\ UNCHANGED <<mode, claiming, held, released, crowded>>

\* Job.checkpoint: a heartbeat the handler sends, answered or not.  One that is refused or not
\* answered raises: the handler goes on, or ends (HandlerEnds).
Checkpoint(a) ==
    /\ jobs[a].stage = "works" /\ Renews
    /\ \/ jobs' = [jobs EXCEPT ![a].since = 0, ![a].told = run.cancelling]
       \/ UNCHANGED jobs
    /\ UNCHANGED <<mode, claiming, held, released, wire, crowded>>

------------------------------------------------------------------------------
(***************************************************************************)
(* Transport.send, of writes: retried until answered or given up.          *)
(***************************************************************************)
\* The wait for a write is over, for a handler or for _end.
Heard(a) ==
    \/ /\ jobs[a].stage = "writes"
       /\ jobs' = [jobs EXCEPT ![a].stage = "works", ![a].write = None]
       /\ UNCHANGED held
    \/ jobs[a].stage = "ends" /\ Done(a)

Waiting(m) == jobs[m.job].stage \in {"writes", "ends"} /\ jobs[m.job].write = m.write

\* An answer, or a refusal: the handler goes on after its write, or ends (HandlerEnds).
Answer(m) ==
    /\ m \in wire /\ m.write \in Writes /\ Served(m)
    /\ wire' = wire \ {m}
    /\ \/ Waiting(m) /\ Heard(m.job) /\ UNCHANGED mode
       \/ /\ m.write = "release" /\ mode = "returning"
          /\ mode' = "returned" /\ UNCHANGED <<jobs, held>>
    /\ UNCHANGED <<claiming, released, crowded>>

\* Served, and the answer lost or waited for by nobody; a retry or a duplicate of a write may
\* follow.
Arrive(m) ==
    /\ m \in wire
    /\ \/ m.write \in Writes /\ Served(m) /\ wire' \in {wire, wire \ {m}}
       \/ m = LateClaim /\ Claims /\ wire' = wire \ {m}
       \/ m = LateBeat /\ Renews /\ wire' = wire \ {m}
    /\ UNCHANGED <<mode, claiming, jobs, held, released, crowded>>

Lose(m) ==
    /\ wire' = wire \ {m}
    /\ UNCHANGED <<run, mode, claiming, jobs, held, released, crowded>>

\* No attempt was answered: a handler's write raises, _end leaves the run to its lease.
GiveUp(a) ==
    /\ jobs[a].stage \in {"writes", "ends"} /\ Heard(a)
    /\ UNCHANGED <<run, mode, claiming, released, wire, crowded>>

------------------------------------------------------------------------------
(***************************************************************************)
(* Stopping.                                                               *)
(***************************************************************************)
Stop ==
    /\ mode = "serving"
    /\ mode' = "stopping"
    /\ UNCHANGED <<run, claiming, jobs, held, released, wire, crowded>>

\* _wind_down: the grace is over (or a second stop came, or nothing runs): the handlers
\* held are cancelled ...
WindDown ==
    /\ mode = "stopping" /\ claiming = None /\ Quiet
    /\ mode'     = "releasing"
    /\ released' = held
    /\ jobs'     = [a \in Attempts |-> IF a = held THEN Cancelled(jobs[a]) ELSE jobs[a]]
    /\ UNCHANGED <<run, claiming, held, wire, crowded>>

Released ==
    /\ \/ released = None /\ mode' = "returned" /\ UNCHANGED wire
       \/ released # None /\ mode' = "returning" /\ Send(released, "release")
    /\ UNCHANGED <<run, claiming, jobs, held, released, crowded>>

WrongRelease == mode = "releasing" /\ Released

\* ... and, once every task came to its end, their runs are released.
Release == mode = "releasing" /\ (\A a \in Attempts : ~Live(a)) /\ Released

ReleaseFails ==
    /\ mode = "returning" /\ mode' = "returned"
    /\ UNCHANGED <<run, claiming, jobs, held, released, wire, crowded>>

\* run() is cancelled: so is every task of it, and what it releases is left to the lease.
CancelRun ==
    /\ mode \in {"serving", "stopping", "releasing", "returning"}
    /\ mode'     = "cancelling"
    /\ claiming' = None
    /\ jobs'     = [a \in Attempts |-> IF Executing(a) THEN Cancelled(jobs[a])
                                       ELSE IF Live(a) THEN [NoJob EXCEPT !.stage = "done"]
                                       ELSE jobs[a]]
    /\ held'     = IF held # None /\ Executing(held) THEN held ELSE None
    /\ UNCHANGED <<run, released, wire, crowded>>

RunEnds ==
    /\ mode = "cancelling" /\ (\A a \in Attempts : ~Live(a))
    /\ mode' = "returned"
    /\ UNCHANGED <<run, claiming, jobs, held, released, wire, crowded>>

\* The process dies; what it sent may still arrive.
Die ==
    /\ mode \notin {"returned", "dead"}
    /\ mode'     = "dead"
    /\ claiming' = None
    /\ held'     = None
    /\ jobs'     = [a \in Attempts |-> IF Live(a) THEN [NoJob EXCEPT !.stage = "done"]
                                       ELSE jobs[a]]
    /\ UNCHANGED <<run, released, wire, crowded>>

------------------------------------------------------------------------------
\* Time passes for the lease and for the jobs' own clocks.
Aged(job) ==
    IF job.beats /\ job.since < LEASE_SECONDS THEN [job EXCEPT !.since = @ + 1] ELSE job

Tick ==
    /\ run'  = [run EXCEPT !.left = IF @ > 0 THEN @ - 1 ELSE 0]
    /\ jobs' = [a \in Attempts |-> Aged(jobs[a])]
    /\ UNCHANGED <<mode, claiming, held, released, wire, crowded>>

Init ==
    /\ run      = [status |-> "QUEUED", attempt |-> 1, owner |-> None, left |-> 0,
                   cancelling |-> FALSE, settled |-> None]
    /\ mode     = "serving"
    /\ claiming = None
    /\ jobs     = [a \in Attempts |-> NoJob]
    /\ held     = None
    /\ released = None
    /\ wire     = {}
    /\ crowded  = FALSE

JobStep(a) ==
    \/ Execute(a) \/ StaleStopped(a) \/ HandlerWrites(a) \/ HandlerEnds(a) \/ WorkingTimeUp(a)
    \/ Unwind(a) \/ Heartbeat(a) \/ Checkpoint(a) \/ GiveUp(a)

Next ==
    \/ Others \/ RequeueLapsed
    \/ Ask \/ Claim \/ Claimless \/ Claimed
    \/ \E a \in Attempts : JobStep(a)
    \/ \E m \in wire : Answer(m) \/ Arrive(m) \/ Lose(m)
    \/ Stop \/ WindDown \/ Release \/ ReleaseFails \/ CancelRun \/ RunEnds \/ Die
    \/ Tick

Spec == Init /\ [][Next]_vars

\* Time passes and the ticker sweeps; the event loop runs the tasks that can go on, so a
\* call ends, a heartbeat comes, and a cancelled handler stops.  Nothing else is assumed of a
\* handler or of the network.
FairSpec ==
    /\ Spec
    /\ WF_vars(Tick) /\ WF_vars(RequeueLapsed)
    /\ \A a \in Attempts : /\ WF_vars(Execute(a)) /\ WF_vars(StaleStopped(a))
                           /\ WF_vars(Unwind(a)) /\ WF_vars(Heartbeat(a)) /\ WF_vars(GiveUp(a))

------------------------------------------------------------------------------
TypeOK ==
    /\ run \in Row
    /\ mode \in {"serving", "stopping", "releasing", "returning", "returned", "cancelling",
                "dead"}
    /\ claiming \in Maybe({Asked} \cup Attempts)
    /\ jobs \in [Attempts -> Job]
    /\ held \in Maybe(Attempts) /\ released \in Maybe(Attempts)
    /\ wire \subseteq [job : Attempts, write : Writes] \cup {LateClaim, LateBeat}
    /\ crowded \in BOOLEAN

\* A worker never runs two handlers of one run at once (_execute: "The earlier one stops
\* (writing nothing) before this one"), and the one is registered as long as it works: a stop
\* or a later claim of the run reaches it.
OneHandler == \A a \in Attempts : Executing(a) => held = a

\* It is so also when the worker is given the run again while its earlier attempt works
\* (_execute: both name this worker, so the fence cannot tell them apart), whatever stops,
\* fails or is cancelled meanwhile: unless the run was given to it a third time while the
\* second job of it still waited for the first to stop.
ApartUnlessCrowded == crowded \/ OneHandler

\* A run is handed back only once nothing of this worker works on it or writes to it any
\* more: another worker has it to itself at once (_wind_down).
ReleasedOnceStopped ==
    \A m \in wire : m.write = "release" => \A a \in Attempts : ~Live(a)

\* Every write agent-runs applied was made by the attempt the run was at: a job stopped for
\* a later attempt of the same worker writes nothing to it (_execute: "The earlier one stops
\* (writing nothing) before this one"), and a write retried by the transport, whose first
\* answer was lost, repeats what it did and no more (_transport.py: "That is safe for every
\* write agent-runs takes").
WritesOwnAttempt ==
    run.settled # None =>
        run.settled = IF run.status = "QUEUED" THEN run.attempt - 1 ELSE run.attempt

\* A handler whose run was taken from the worker stops, whether agent-runs says so or cannot
\* be reached, unless the run came back to this worker.
LostLeaseStops ==
    \A a \in Attempts : Executing(a) /\ ~Mine ~> ~Executing(a) \/ Mine

\* A run leased to this worker that no task of it has (its claim's answer was lost, its
\* handler returned without ending it, the process died) does not stay so (_transport.py: "a
\* claim whose answer was lost leaves its run leased and unworked until the lease lapses").
UnworkedLapses ==
    Mine /\ (\A a \in Attempts : ~Live(a)) ~> ~Mine \/ \E a \in Attempts : Live(a)

------------------------------------------------------------------------------
ASSUME WorkerAssumption ==
    /\ None \notin Nat /\ None \notin Writes \cup {"me", "other"}
    /\ Concurrency \in Nat \ {0} /\ LEASE_SECONDS \in Nat \ {0} /\ MaxAttempts \in Nat
    /\ MaxWire \in Nat
===============================================================================
