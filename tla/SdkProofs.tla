------------------------------ MODULE SdkProofs ------------------------------
(***************************************************************************)
(* What the loops of the SDK guarantee for every value of their constants: *)
(* the worker's (WorkerLoop), and the reader's of a listing (Paging).      *)
(***************************************************************************)
EXTENDS WorkerLoop, Paging, FiniteSetTheorems, TLAPS

------------------------------------------------------------------------------
(***************************************************************************)
(* The worker's invariant.                                                 *)
(***************************************************************************)

\* The run was claimed as attempt a.
Taken(a) == a < run.attempt \/ (a = run.attempt /\ run.status # "QUEUED")

\* A lease has an owner, and an attempt is claimed once.
ClaimFacts ==
    /\ run.owner # None <=> run.status = "RUNNING"
    /\ run.status = "RUNNING" => run.attempt \in Attempts
    /\ \A a \in Attempts : jobs[a].stage # "none" => Taken(a)
    /\ claiming \in Attempts => Taken(claiming) /\ jobs[claiming].stage = "none"

\* Once it winds down a worker claims nothing; it releases, and returns, with nothing at work.
NothingAtWork == \A a \in Attempts : ~Live(a)

Stopping ==
    /\ mode \notin {"serving", "stopping"} => claiming = None
    /\ mode \in {"returning", "returned", "dead"} => NothingAtWork
    /\ \A m \in wire :
          m.write = "release" => mode \notin {"serving", "stopping"} /\ NothingAtWork

\* Until the worker is crowded one job at most has yet to begin.  If it waits, it waits for
\* the only one that may be at work.
Pending(a) == jobs[a].stage \in {"task", "waits"}

WaitsFor(h) ==
    h \in Attempts /\ ~Pending(h) /\ jobs[h].stage # "none" /\ held \in {None, h}

Handlers ==
    /\ OneHandler
    /\ held # None => jobs[held].stage \in {"works", "writes", "cancelled", "ends"}
    /\ \A a \in Attempts : jobs[a].stage = "waits" => WaitsFor(jobs[a].stale)
    /\ \A a, b \in Attempts : Pending(a) /\ Pending(b) => a = b

Inv == TypeOK /\ ClaimFacts /\ Stopping

------------------------------------------------------------------------------
(***************************************************************************)
(* Types.                                                                  *)
(***************************************************************************)
LEMMA MaybeFacts == \A S : None \in Maybe(S) /\ (\A x \in S : x \in Maybe(S))
  BY DEF Maybe

\* What becomes of a row that stays one.
LEMMA RowTypes ==
    ASSUME NEW row \in Row
    PROVE  /\ \A status \in {"PAUSED", "ENDED"} : Moved(row, status) \in Row
           /\ row.attempt \in Attempts => Requeued(row) \in Row
           /\ \A who \in {"me", "other"} : Leased(row, who) \in Row
           /\ Beaten(row) \in Row /\ [row EXCEPT !.cancelling = TRUE] \in Row
           /\ \A a \in Attempts : [row EXCEPT !.settled = a] \in Row
           /\ [row EXCEPT !.left = IF @ > 0 THEN @ - 1 ELSE 0] \in Row
  <1>1. LEASE_SECONDS \in 0..LEASE_SECONDS /\ 0 \in 0..LEASE_SECONDS /\ MaxAttempts \in Nat
    BY WorkerAssumption
  <1>2. None \in Maybe(Attempts) /\ \A a \in Attempts : a \in Maybe(Attempts)
    BY MaybeFacts
  <1>3. \A status \in {"QUEUED", "PAUSED", "ENDED"} : Moved(row, status) \in Row
    BY <1>1, <1>2 DEF Moved, Row
  <1>4. row.attempt \in Attempts => Requeued(row) \in Row
    <2> SUFFICES ASSUME row.attempt \in Attempts PROVE Requeued(row) \in Row
      OBVIOUS
    <2>1. row.attempt + 1 \in 1..(MaxAttempts + 1)
      BY <1>1 DEF Attempts
    <2>2. Moved(row, "QUEUED") \in Row /\ Moved(row, "QUEUED").attempt = row.attempt
      BY <1>3 DEF Moved, Row
    <2> QED BY <2>1, <2>2 DEF Requeued, Row
  <1>5. \A who \in {"me", "other"} : Leased(row, who) \in Row
    BY <1>1, <1>2 DEF Leased, Row
  <1>6. Beaten(row) \in Row /\ [row EXCEPT !.cancelling = TRUE] \in Row
    BY <1>1 DEF Beaten, Row
  <1>7. \A a \in Attempts : [row EXCEPT !.settled = a] \in Row
    BY <1>2 DEF Row
  <1>8. [row EXCEPT !.left = IF @ > 0 THEN @ - 1 ELSE 0] \in Row
    <2>1. (IF row.left > 0 THEN row.left - 1 ELSE 0) \in 0..LEASE_SECONDS
      BY WorkerAssumption DEF Row
    <2> QED BY <2>1 DEF Row
  <1> QED BY <1>3, <1>4, <1>5, <1>6, <1>7, <1>8

LEMMA JobTypes ==
    ASSUME NEW job \in Job
    PROVE  /\ NoJob \in Job /\ [NoJob EXCEPT !.stage = "done"] \in Job
           /\ [job EXCEPT !.stage = "task"] \in Job
           /\ \A h \in Attempts : [job EXCEPT !.stage = "waits", !.stale = h] \in Job
           /\ Cancelled(job) \in Job /\ Lost(job) \in Job /\ Working(job) \in Job
           /\ Aged(job) \in Job
           /\ [Cancelled(job) EXCEPT !.timed = TRUE] \in Job
           /\ \A told \in BOOLEAN : [job EXCEPT !.since = 0, !.told = told] \in Job
           /\ \A write \in Maybe(Writes), stage \in {"works", "writes", "ends"} :
                  [job EXCEPT !.stage = stage, !.write = write] \in Job
  <1>1. LEASE_SECONDS \in Nat /\ 0 \in 0..LEASE_SECONDS
    BY WorkerAssumption
  <1>2. /\ None \in Maybe(Attempts) /\ \A a \in Attempts : a \in Maybe(Attempts)
        /\ None \in Maybe(Writes) /\ \A w \in Writes : w \in Maybe(Writes)
    BY MaybeFacts
  <1>3. NoJob \in Job /\ [NoJob EXCEPT !.stage = "done"] \in Job
    BY <1>1, <1>2 DEF NoJob, Job
  <1>4. Cancelled(job) \in Job
    BY <1>2 DEF Cancelled, Job
  <1>5. Lost(job) \in Job /\ [Cancelled(job) EXCEPT !.timed = TRUE] \in Job
    BY <1>4 DEF Lost, Job
  <1>6. Working(job) \in Job
    BY <1>1, <1>2 DEF Working, Job
  <1>7. Aged(job) \in Job
    <2>1. job.since < LEASE_SECONDS => job.since + 1 \in 0..LEASE_SECONDS
      BY <1>1 DEF Job
    <2> QED BY <2>1 DEF Aged, Job
  <1>8. \A h \in Attempts : [job EXCEPT !.stage = "waits", !.stale = h] \in Job
    BY <1>2 DEF Job
  <1>9. \A told \in BOOLEAN : [job EXCEPT !.since = 0, !.told = told] \in Job
    BY <1>1 DEF Job
  <1>10. \A write \in Maybe(Writes), stage \in {"works", "writes", "ends"} :
             [job EXCEPT !.stage = stage, !.write = write] \in Job
    BY DEF Job
  <1>11. [job EXCEPT !.stage = "task"] \in Job
    BY DEF Job
  <1> QED BY <1>3, <1>4, <1>5, <1>6, <1>7, <1>8, <1>9, <1>10, <1>11

------------------------------------------------------------------------------
(***************************************************************************)
(* What a step does to the row, and to the jobs.                           *)
(***************************************************************************)
RowMoves(row, new) ==
    \/ new.status = row.status /\ new.attempt = row.attempt /\ new.owner = row.owner
    \/ new.status \in {"PAUSED", "ENDED"} /\ new.attempt = row.attempt /\ new.owner = None
    \/ /\ row.status # "QUEUED" /\ new.status = "QUEUED"
       /\ new.attempt = row.attempt + 1 /\ new.owner = None
    \/ /\ row.status = "QUEUED" /\ new.status = "RUNNING"
       /\ new.attempt = row.attempt /\ row.attempt \in Attempts /\ new.owner # None

\* A job's steps that neither begin nor end it.
Kept(job, new) ==
    /\ new \in Job /\ new.stale = job.stale
    /\ \/ new.stage = job.stage
       \/ /\ job.stage \in {"works", "writes", "cancelled"}
          /\ new.stage \in {"works", "writes", "cancelled", "ends"}

LEMMA RowEffects ==
    ASSUME NEW row \in Row
    PROVE  /\ \A status \in {"PAUSED", "ENDED"} : RowMoves(row, Moved(row, status))
           /\ row.status # "QUEUED" => RowMoves(row, Requeued(row))
           /\ \A who \in {"me", "other"} :
                 row.status = "QUEUED" /\ row.attempt \in Attempts => RowMoves(row, Leased(row, who))
           /\ RowMoves(row, Beaten(row)) /\ RowMoves(row, [row EXCEPT !.cancelling = TRUE])
           /\ RowMoves(row, [row EXCEPT !.left = IF @ > 0 THEN @ - 1 ELSE 0])
  <1>1. \A status \in {"QUEUED", "PAUSED", "ENDED"} :
            /\ Moved(row, status).status = status /\ Moved(row, status).attempt = row.attempt
            /\ Moved(row, status).owner = None /\ Moved(row, status) \in Row
    <2>1. 0 \in 0..LEASE_SECONDS /\ None \in Maybe(Attempts)
      BY WorkerAssumption, MaybeFacts
    <2> QED BY <2>1 DEF Moved, Row
  <1>2. Requeued(row).status = "QUEUED" /\ Requeued(row).attempt = row.attempt + 1
        /\ Requeued(row).owner = None
    BY <1>1 DEF Requeued, Row
  <1>3. \A who \in {"me", "other"} :
            /\ Leased(row, who).status = "RUNNING" /\ Leased(row, who).attempt = row.attempt
            /\ Leased(row, who).owner = who /\ who # None
    BY WorkerAssumption DEF Leased, Row
  <1>4. RowMoves(row, Beaten(row)) /\ RowMoves(row, [row EXCEPT !.cancelling = TRUE])
    BY DEF RowMoves, Beaten, Row
  <1>5. RowMoves(row, [row EXCEPT !.left = IF @ > 0 THEN @ - 1 ELSE 0])
    BY DEF RowMoves, Row
  <1> QED BY <1>1, <1>2, <1>3, <1>4, <1>5 DEF RowMoves

\* A write that is served.
LEMMA ServedRow ==
    ASSUME TypeOK, ClaimFacts, NEW m \in wire, m.write \in Writes, Served(m)
    PROVE  run' \in Row /\ RowMoves(run, run')
  <1>1. m.job \in Attempts /\ m.write \in Writes /\ run \in Row
    BY DEF TypeOK, LateClaim, LateBeat, Writes
  <1>2. CASE run.owner = "me"
    <2>1. run.status = "RUNNING" /\ run.attempt \in Attempts
      BY <1>2, WorkerAssumption DEF ClaimFacts
    <2>2. PICK row \in Written(run, m.write) : run' = [row EXCEPT !.settled = m.job]
      BY <1>2 DEF Served
    <2>3. row \in {Moved(run, "ENDED"), Moved(run, "PAUSED"), Requeued(run)}
      BY <1>1, <2>2 DEF Written, Writes
    <2>4. row \in Row /\ RowMoves(run, row)
      BY <1>1, <2>1, <2>3, RowTypes, RowEffects
    <2>5. /\ run'.status = row.status /\ run'.attempt = row.attempt /\ run'.owner = row.owner
          /\ run' \in Row
      BY <1>1, <2>2, <2>4, RowTypes DEF Row
    <2> QED BY <2>4, <2>5 DEF RowMoves
  <1>3. CASE run.owner # "me"
    BY <1>1, <1>3 DEF Served, RowMoves
  <1> QED BY <1>2, <1>3

LEMMA RowNext ==
    ASSUME TypeOK, ClaimFacts, [Next]_vars
    PROVE  run' \in Row /\ RowMoves(run, run')
  <1>1. run \in Row /\ RowMoves(run, run)
    BY DEF TypeOK, RowMoves
  <1>2. run.attempt <= MaxAttempts => run.attempt \in Attempts
    BY WorkerAssumption DEF TypeOK, Row, Attempts
  <1>3. CASE Others
    <2>1. run.owner = "other" => run.status = "RUNNING" /\ run.attempt \in Attempts
      BY WorkerAssumption DEF ClaimFacts
    <2> QED BY <1>1, <1>2, <1>3, <2>1, RowTypes, RowEffects DEF Others
  <1>4. CASE RequeueLapsed
    <2>1. run.status = "RUNNING" /\ run.attempt \in Attempts
      BY <1>4 DEF RequeueLapsed, Mine, ClaimFacts
    <2> QED BY <1>1, <1>4, <2>1, RowTypes, RowEffects DEF RequeueLapsed
  <1>5. CASE Claims
    BY <1>1, <1>2, <1>5, RowTypes, RowEffects DEF Claims
  <1>6. ASSUME NEW a \in Attempts, JobStep(a) PROVE run' \in {run, Beaten(run)}
    BY <1>6 DEF JobStep, Execute, StaleStopped, HandlerWrites, HandlerEnds, WorkingTimeUp, Unwind,
                Heartbeat, Checkpoint, Renews, GiveUp
  <1>7. ASSUME NEW a \in Attempts, JobStep(a) PROVE run' \in Row /\ RowMoves(run, run')
    BY <1>1, <1>6, <1>7, RowTypes, RowEffects
  <1>8. ASSUME NEW m \in wire, Answer(m) \/ Arrive(m) PROVE run' \in Row /\ RowMoves(run, run')
    <2>1. CASE m.write \in Writes /\ Served(m)
      BY <2>1, ServedRow
    <2>2. CASE Renews
      BY <1>1, <2>2, RowTypes, RowEffects DEF Renews
    <2> QED BY <1>5, <1>8, <2>1, <2>2 DEF Answer, Arrive
  <1>9. CASE Tick
    BY <1>1, <1>9, RowTypes, RowEffects DEF Tick
  <1>10. CASE UNCHANGED run
    BY <1>1, <1>10
  <1> QED BY <1>3, <1>4, <1>5, <1>7, <1>8, <1>9, <1>10
          DEF Next, Ask, Claim, Claimless, Claimed, Lose, Stop, WindDown, Release, Released,
              ReleaseFails, CancelRun, RunEnds, Die, vars

\* What the jobs' own operators do to one.
LEMMA CancelledKept ==
    ASSUME NEW job \in Job
    PROVE  Kept(job, Cancelled(job))
  <1>1. CASE job.stage \in {"works", "writes"}
    <2>1. Cancelled(job) = [job EXCEPT !.stage = "cancelled", !.write = None]
      BY <1>1 DEF Cancelled
    <2>2. Cancelled(job).stage = "cancelled" /\ Cancelled(job).stale = job.stale
      BY <2>1 DEF Job
    <2> QED BY <1>1, <2>2, JobTypes DEF Kept
  <1>2. CASE job.stage \notin {"works", "writes"}
    BY <1>2 DEF Cancelled, Kept
  <1> QED BY <1>1, <1>2

LEMMA JobsKept ==
    ASSUME NEW job \in Job
    PROVE  /\ Kept(job, job) /\ Kept(job, Cancelled(job)) /\ Kept(job, Lost(job))
           /\ Kept(job, Aged(job)) /\ Kept(job, [Cancelled(job) EXCEPT !.timed = TRUE])
           /\ \A told \in BOOLEAN : Kept(job, [job EXCEPT !.since = 0, !.told = told])
           /\ job.stage \in {"works", "writes", "cancelled"} =>
                 \A write \in Maybe(Writes), stage \in {"works", "writes", "ends"} :
                     Kept(job, [job EXCEPT !.stage = stage, !.write = write])
  <1>1. Kept(job, job) /\ Kept(job, Cancelled(job))
    BY CancelledKept DEF Kept
  <1>2. /\ Lost(job).stage = Cancelled(job).stage /\ Lost(job).stale = Cancelled(job).stale
        /\ [Cancelled(job) EXCEPT !.timed = TRUE].stage = Cancelled(job).stage
        /\ [Cancelled(job) EXCEPT !.timed = TRUE].stale = Cancelled(job).stale
    <2>1. Cancelled(job) \in Job
      BY JobTypes
    <2> QED BY <2>1 DEF Lost, Job
  <1>3. Lost(job) \in Job /\ [Cancelled(job) EXCEPT !.timed = TRUE] \in Job /\ Aged(job) \in Job
    BY JobTypes
  <1>4. Kept(job, Lost(job)) /\ Kept(job, [Cancelled(job) EXCEPT !.timed = TRUE])
    BY <1>1, <1>2, <1>3 DEF Kept
  <1>5. Aged(job).stage = job.stage /\ Aged(job).stale = job.stale
    BY DEF Aged, Job
  <1>6. Kept(job, Aged(job))
    BY <1>3, <1>5 DEF Kept
  <1>7. ASSUME NEW told \in BOOLEAN PROVE Kept(job, [job EXCEPT !.since = 0, !.told = told])
    <2> DEFINE new == [job EXCEPT !.since = 0, !.told = told]
    <2>1. new.stage = job.stage /\ new.stale = job.stale
      BY DEF Job
    <2>2. new \in Job
      BY JobTypes
    <2> HIDE DEF new
    <2>3. Kept(job, new)
      BY <2>1, <2>2 DEF Kept
    <2> QED BY <2>3 DEF new
  <1>8. ASSUME job.stage \in {"works", "writes", "cancelled"}, NEW write \in Maybe(Writes),
               NEW stage \in {"works", "writes", "ends"}
        PROVE  Kept(job, [job EXCEPT !.stage = stage, !.write = write])
    <2> DEFINE new == [job EXCEPT !.stage = stage, !.write = write]
    <2>1. new.stage = stage /\ new.stale = job.stale
      BY DEF Job
    <2>2. new \in Job
      BY JobTypes
    <2> HIDE DEF new
    <2>3. Kept(job, new)
      BY <1>8, <2>1, <2>2 DEF Kept
    <2> QED BY <2>3 DEF new
  <1> QED BY <1>1, <1>4, <1>6, <1>7, <1>8

\* The four kinds of steps of the jobs.
AllKept ==
    /\ jobs' \in [Attempts -> Job] /\ \A b \in Attempts : Kept(jobs[b], jobs'[b])
    /\ held' = held

Ends(a) ==
    /\ jobs[a].stage \in {"works", "writes", "cancelled", "ends"}
    /\ jobs' \in [Attempts -> Job] /\ jobs'[a].stage = "done"
    /\ \A b \in Attempts \ {a} : jobs'[b] = jobs[b]
    /\ held' = Forgotten(a)

Begins(a) ==
    /\ \/ jobs[a].stage = "task" /\ held = None
       \/ jobs[a].stage = "waits" /\ ~Executing(jobs[a].stale)
    /\ jobs' \in [Attempts -> Job] /\ jobs'[a].stage = "works"
    /\ \A b \in Attempts \ {a} : jobs'[b] = jobs[b]
    /\ held' = a

Awaits(a) ==
    /\ jobs[a].stage = "task" /\ held \in Attempts
    /\ jobs' \in [Attempts -> Job] /\ jobs'[a].stage = "waits" /\ jobs'[a].stale = held
    /\ held # a => Kept(jobs[held], jobs'[held])
    /\ \A b \in Attempts \ {a, held} : jobs'[b] = jobs[b]
    /\ held' = held

LEMMA OneKept ==
    ASSUME jobs \in [Attempts -> Job], NEW a \in Attempts, NEW new, Kept(jobs[a], new),
           jobs' = [jobs EXCEPT ![a] = new], held' = held
    PROVE  AllKept
  <1>1. new \in Job
    BY DEF Kept
  <1>2. jobs' \in [Attempts -> Job] /\ jobs'[a] = new /\ \A b \in Attempts \ {a} : jobs'[b] = jobs[b]
    BY <1>1
  <1>3. \A b \in Attempts : Kept(jobs[b], jobs[b])
    BY JobsKept
  <1> QED BY <1>2, <1>3 DEF AllKept

LEMMA DoneEnds ==
    ASSUME jobs \in [Attempts -> Job], NEW a \in Attempts, Done(a),
           jobs[a].stage \in {"works", "writes", "cancelled", "ends"}
    PROVE  Ends(a)
  <1>1. [NoJob EXCEPT !.stage = "done"] \in Job /\ [NoJob EXCEPT !.stage = "done"].stage = "done"
    BY JobTypes DEF NoJob
  <1> QED BY <1>1 DEF Done, Ends

Sendable == [job : Attempts, write : Writes] \cup {LateClaim, LateBeat}

LEMMA SendTypes ==
    ASSUME TypeOK, NEW a \in Attempts, NEW write \in Writes, Send(a, write)
    PROVE  wire' \subseteq Sendable
  BY DEF TypeOK, Send, Leave, Sendable

LEMMA EndKept ==
    ASSUME TypeOK, NEW a \in Attempts, NEW write \in Writes, End(a, write), Executing(a)
    PROVE  AllKept /\ wire' \subseteq Sendable
  <1>1. Kept(jobs[a], [jobs[a] EXCEPT !.stage = "ends", !.write = write])
    BY JobsKept, MaybeFacts DEF TypeOK, Executing
  <1>2. jobs' = [jobs EXCEPT ![a] = [jobs[a] EXCEPT !.stage = "ends", !.write = write]]
    BY DEF End, TypeOK
  <1>3. AllKept
    BY <1>1, <1>2, OneKept DEF TypeOK, End
  <1> QED BY <1>3, SendTypes DEF End

LEMMA WorkingBegins ==
    ASSUME jobs \in [Attempts -> Job], NEW a \in Attempts,
           jobs' = [jobs EXCEPT ![a] = Working(jobs[a])], held' = a,
           \/ jobs[a].stage = "task" /\ held = None
           \/ jobs[a].stage = "waits" /\ ~Executing(jobs[a].stale)
    PROVE  Begins(a)
  <1>1. Working(jobs[a]) \in Job
    BY JobTypes
  <1>2. Working(jobs[a]).stage = "works"
    BY DEF Working, Job
  <1> QED BY <1>1, <1>2 DEF Begins

LEMMA ExecuteKinds ==
    ASSUME TypeOK, NEW a \in Attempts, Execute(a)
    PROVE  Begins(a) \/ Awaits(a)
  <1>0. jobs \in [Attempts -> Job] /\ jobs[a] \in Job /\ jobs[a].stage = "task"
    BY DEF TypeOK, Execute
  <1>1. CASE held = None
    BY <1>0, <1>1, WorkingBegins DEF Execute
  <1>2. CASE held # None
    <2>1. held \in Attempts /\ held' = held
      BY <1>2 DEF TypeOK, Maybe, Execute
    <2>2. PICK waits : waits = [jobs[a] EXCEPT !.stage = "waits", !.stale = held]
      OBVIOUS
    <2>3. waits \in Job /\ waits.stage = "waits" /\ waits.stale = held
      <3>1. waits \in Job
        BY <1>0, <2>1, <2>2, JobTypes
      <3>2. waits.stage = "waits" /\ waits.stale = held
        BY <1>0, <2>2 DEF Job
      <3> QED BY <3>1, <3>2
    <2>4. Cancelled(jobs[held]) \in Job /\ Kept(jobs[held], Cancelled(jobs[held]))
      BY <1>0, <2>1, JobTypes, CancelledKept
    <2>5. jobs'[a] = waits /\ (held # a => jobs'[held] = Cancelled(jobs[held]))
          /\ jobs' \in [Attempts -> Job] /\ \A b \in Attempts \ {a, held} : jobs'[b] = jobs[b]
      <3>1. Cancelled(jobs[a]) = jobs[a]
        BY <1>0 DEF Cancelled
      <3>2. jobs' = [jobs EXCEPT ![held] = Cancelled(jobs[held]), ![a] = waits]
        <4>1. jobs' = [jobs EXCEPT ![held] = Cancelled(@), ![a].stage = "waits", ![a].stale = held]
          BY <1>2 DEF Execute
        <4>2. CASE held = a
          BY <1>0, <2>1, <2>2, <3>1, <4>1, <4>2
        <4>3. CASE held # a
          BY <1>0, <2>1, <2>2, <4>1, <4>3
        <4> QED BY <4>2, <4>3
      <3> QED BY <1>0, <2>1, <2>3, <2>4, <3>2
    <2> QED BY <1>0, <2>1, <2>3, <2>4, <2>5 DEF Awaits
  <1> QED BY <1>1, <1>2

LEMMA UnchangedKept ==
    ASSUME TypeOK, UNCHANGED <<jobs, held>>
    PROVE  AllKept
  BY JobsKept DEF TypeOK, AllKept

LEMMA HeardKinds ==
    ASSUME TypeOK, NEW a \in Attempts, Heard(a)
    PROVE  AllKept \/ Ends(a)
  <1>0. jobs \in [Attempts -> Job] /\ jobs[a] \in Job /\ None \in Maybe(Writes)
    BY MaybeFacts DEF TypeOK
  <1>1. CASE /\ jobs[a].stage = "writes" /\ UNCHANGED held
             /\ jobs' = [jobs EXCEPT ![a].stage = "works", ![a].write = None]
    <2>1. jobs' = [jobs EXCEPT ![a] = [jobs[a] EXCEPT !.stage = "works", !.write = None]]
      BY <1>0, <1>1
    <2>2. Kept(jobs[a], [jobs[a] EXCEPT !.stage = "works", !.write = None])
      BY <1>0, <1>1, JobsKept
    <2> QED BY <1>0, <1>1, <2>1, <2>2, OneKept
  <1>2. CASE jobs[a].stage = "ends" /\ Done(a)
    BY <1>0, <1>2, DoneEnds
  <1> QED BY <1>1, <1>2 DEF Heard

JobStepKinds(a) == AllKept \/ Ends(a) \/ Begins(a) \/ Awaits(a)

LEMMA JobStepsKinds ==
    ASSUME TypeOK, NEW a \in Attempts, JobStep(a)
    PROVE  /\ JobStepKinds(a) /\ UNCHANGED <<mode, claiming, released>>
           /\ wire' \subseteq Sendable
  <1> DEFINE Goal == /\ JobStepKinds(a) /\ UNCHANGED <<mode, claiming, released>>
                     /\ wire' \subseteq Sendable
  <1> SUFFICES Goal
    OBVIOUS
  <1>0. /\ jobs \in [Attempts -> Job] /\ jobs[a] \in Job
        /\ wire \subseteq Sendable
        /\ {"error", "finish", "pause"} \subseteq Writes /\ run.cancelling \in BOOLEAN
        /\ None \in Maybe(Writes) /\ \A write \in Writes : write \in Maybe(Writes)
    BY MaybeFacts DEF TypeOK, Writes, Row, Sendable
  <1>1. CASE Execute(a)
    BY <1>0, <1>1, ExecuteKinds DEF Execute, JobStepKinds
  <1>2. CASE StaleStopped(a)
    BY <1>0, <1>2, WorkingBegins DEF StaleStopped, JobStepKinds
  <1>3. CASE HandlerWrites(a)
    <2>1. PICK write \in {"pause", "error", "finish"} :
              /\ jobs' = [jobs EXCEPT ![a].stage = "writes", ![a].write = write]
              /\ Send(a, write)
      BY <1>3 DEF HandlerWrites
    <2>2. jobs' = [jobs EXCEPT ![a] = [jobs[a] EXCEPT !.stage = "writes", !.write = write]]
      BY <1>0, <2>1
    <2>3. jobs[a].stage = "works" /\ UNCHANGED <<mode, claiming, held, released>>
      BY <1>3 DEF HandlerWrites
    <2>4. Kept(jobs[a], [jobs[a] EXCEPT !.stage = "writes", !.write = write])
      BY <1>0, <2>3, JobsKept
    <2>5. AllKept
      BY <1>0, <2>2, <2>3, <2>4, OneKept
    <2> QED BY <1>0, <2>1, <2>3, <2>5, SendTypes DEF JobStepKinds
  <1>4. CASE HandlerEnds(a)
    <2>1. jobs[a].stage = "works" /\ Executing(a)
      BY <1>4 DEF HandlerEnds, Executing
    <2> QED BY <1>0, <1>4, <2>1, DoneEnds, EndKept DEF HandlerEnds, JobStepKinds
  <1>5. CASE WorkingTimeUp(a)
    <2>1. Kept(jobs[a], [Cancelled(jobs[a]) EXCEPT !.timed = TRUE])
      BY <1>0, JobsKept
    <2>2. AllKept
      BY <1>0, <1>5, <2>1, OneKept DEF WorkingTimeUp
    <2> QED BY <1>0, <1>5, <2>2 DEF WorkingTimeUp, JobStepKinds
  <1>6. CASE Unwind(a)
    <2>1. jobs[a].stage = "cancelled" /\ Executing(a)
      BY <1>6 DEF Unwind, Executing
    <2> QED BY <1>0, <1>6, <2>1, DoneEnds, EndKept DEF Unwind, JobStepKinds
  <1>7. CASE Heartbeat(a)
    <2>1. PICK job : job = [jobs[a] EXCEPT !.since = 0, !.told = run.cancelling]
      OBVIOUS
    <2>2. job \in Job /\ job.stage = jobs[a].stage /\ job.stale = jobs[a].stale
      <3>1. job \in Job
        BY <1>0, <2>1, JobTypes
      <3>2. job.stage = jobs[a].stage /\ job.stale = jobs[a].stale
        BY <1>0, <2>1 DEF Job
      <3> QED BY <3>1, <3>2
    <2>3. Kept(jobs[a], job) /\ Kept(jobs[a], Lost(job)) /\ Kept(jobs[a], Lost(jobs[a]))
          /\ Kept(jobs[a], jobs[a])
      <3>1. Kept(job, job) /\ Kept(job, Lost(job)) /\ Kept(jobs[a], Lost(jobs[a]))
            /\ Kept(jobs[a], jobs[a])
        BY <1>0, <2>2, JobsKept
      <3> QED BY <2>2, <3>1 DEF Kept
    <2>4. \/ jobs' = [jobs EXCEPT ![a] = job]
          \/ jobs' = [jobs EXCEPT ![a] = Lost(job)]
          \/ jobs' = [jobs EXCEPT ![a] = Lost(jobs[a])]
          \/ jobs' = [jobs EXCEPT ![a] = jobs[a]]
      BY <1>7, <2>1 DEF Heartbeat
    <2>5. UNCHANGED <<mode, claiming, held, released>> /\ wire' \subseteq wire \cup {LateBeat}
      BY <1>7 DEF Heartbeat, Leave
    <2>6. AllKept
      BY <1>0, <2>3, <2>4, <2>5, OneKept
    <2> QED BY <1>0, <2>5, <2>6 DEF JobStepKinds, Sendable
  <1>8. CASE Checkpoint(a)
    <2>1. UNCHANGED <<mode, claiming, held, released, wire>>
      BY <1>8 DEF Checkpoint
    <2>2. CASE jobs' = [jobs EXCEPT ![a].since = 0, ![a].told = run.cancelling]
      <3>1. jobs' = [jobs EXCEPT ![a] = [jobs[a] EXCEPT !.since = 0, !.told = run.cancelling]]
        BY <1>0, <2>2
      <3>2. Kept(jobs[a], [jobs[a] EXCEPT !.since = 0, !.told = run.cancelling])
        BY <1>0, JobsKept
      <3>3. AllKept
        BY <1>0, <2>1, <3>1, <3>2, OneKept
      <3> QED BY <1>0, <2>1, <3>3 DEF JobStepKinds
    <2>3. CASE UNCHANGED jobs
      BY <1>0, <2>1, <2>3, UnchangedKept DEF JobStepKinds
    <2> QED BY <1>8, <2>2, <2>3 DEF Checkpoint
  <1>9. CASE GiveUp(a)
    <2>1. UNCHANGED <<mode, claiming, released, wire>>
      BY <1>9 DEF GiveUp
    <2> QED BY <1>0, <1>9, <2>1, HeardKinds DEF GiveUp, JobStepKinds
  <1> QED BY <1>1, <1>2, <1>3, <1>4, <1>5, <1>6, <1>7, <1>8, <1>9 DEF JobStep

\* The process dies, or its run() is cancelled: what is left are the handlers told to stop.
LEMMA StopsJobs ==
    ASSUME TypeOK, Die \/ CancelRun
    PROVE  /\ jobs' \in [Attempts -> Job]
           /\ \A b \in Attempts :
                 /\ jobs[b].stage = "none" <=> jobs'[b].stage = "none"
                 /\ jobs'[b].stage \in {"none", "done", "cancelled"}
                 /\ jobs'[b].stage = "cancelled" =>
                       CancelRun /\ Executing(b) /\ (held = b => held' = b)
           /\ held' = None \/ (held' = held /\ jobs'[held].stage = "cancelled")
  <1> DEFINE over == [NoJob EXCEPT !.stage = "done"]
  <1>1. /\ jobs \in [Attempts -> Job] /\ held \in Maybe(Attempts) /\ None \notin Attempts
        /\ \A b \in Attempts : jobs[b] \in Job
    BY WorkerAssumption DEF TypeOK, Attempts
  <1>2. over.stage = "done" /\ \A b \in Attempts : over \in Job
    BY <1>1, JobTypes DEF NoJob
  <1>3. ASSUME NEW b \in Attempts, Executing(b)
        PROVE  Cancelled(jobs[b]) \in Job /\ Cancelled(jobs[b]).stage = "cancelled"
    <2>1. Cancelled(jobs[b]) \in Job
      BY <1>1, JobTypes
    <2> QED BY <1>1, <1>3, <2>1 DEF Cancelled, Executing, Job
  <1> HIDE DEF over
  <1>4. CASE Die
    <2>1. jobs' = [a \in Attempts |-> IF Live(a) THEN over ELSE jobs[a]] /\ held' = None
      BY <1>4 DEF Die, over
    <2>2. \A b \in Attempts : jobs'[b] = IF Live(b) THEN over ELSE jobs[b]
      BY <2>1
    <2>3. jobs' \in [Attempts -> Job]
      BY <1>1, <1>2, <2>1
    <2> QED BY <1>2, <2>1, <2>2, <2>3 DEF Live
  <1>5. CASE CancelRun
    <2>1. /\ jobs' = [a \in Attempts |-> IF Executing(a) THEN Cancelled(jobs[a])
                                         ELSE IF Live(a) THEN over ELSE jobs[a]]
          /\ held' = IF held # None /\ Executing(held) THEN held ELSE None
      BY <1>5 DEF CancelRun, over
    <2>2. \A b \in Attempts : jobs'[b] = IF Executing(b) THEN Cancelled(jobs[b])
                                         ELSE IF Live(b) THEN over ELSE jobs[b]
      BY <2>1
    <2>3. jobs' \in [Attempts -> Job]
      BY <1>1, <1>2, <1>3, <2>1
    <2>4. \A b \in Attempts : Executing(b) => Live(b) /\ jobs'[b].stage = "cancelled"
      BY <1>3, <2>2 DEF Executing, Live
    <2>5. \A b \in Attempts : ~Executing(b) => jobs'[b].stage \in {"none", "done"}
      BY <1>2, <2>2 DEF Live
    <2>6. \A b \in Attempts : jobs[b].stage = "none" <=> jobs'[b].stage = "none"
      BY <1>2, <2>2, <2>4 DEF Live
    <2>7. held' = None \/ (held' = held /\ held \in Attempts /\ Executing(held))
      BY <1>1, <2>1 DEF Maybe
    <2>8. \A b \in Attempts : Executing(b) /\ held = b => held' = b
      BY <1>1, <2>1
    <2> QED BY <1>5, <2>3, <2>4, <2>5, <2>6, <2>7, <2>8
  <1> QED BY <1>4, <1>5

\* The jobs' steps of every action.
LEMMA StepKinds ==
    ASSUME TypeOK, [Next]_vars
    PROVE  \/ AllKept \/ Claimed \/ Die \/ CancelRun
           \/ \E a \in Attempts : Ends(a) \/ Begins(a) \/ Awaits(a)
  <1>0. jobs \in [Attempts -> Job]
    BY DEF TypeOK
  <1>1. CASE UNCHANGED <<jobs, held>>
    BY <1>1, UnchangedKept
  <1>2. CASE \E a \in Attempts : JobStep(a)
    BY <1>2, JobStepsKinds DEF JobStepKinds
  <1>3. ASSUME NEW m \in wire, Answer(m), ~UNCHANGED <<jobs, held>>
        PROVE  AllKept \/ \E a \in Attempts : Ends(a)
    <2>1. m.job \in Attempts
      BY <1>3 DEF Answer, TypeOK, LateClaim, LateBeat, Writes
    <2>2. Heard(m.job)
      BY <1>3 DEF Answer
    <2> QED BY <2>1, <2>2, HeardKinds
  <1>4. CASE WindDown
    <2>1. jobs' = [a \in Attempts |-> IF a = held THEN Cancelled(jobs[a]) ELSE jobs[a]]
          /\ held' = held
      BY <1>4 DEF WindDown
    <2>2. \A a \in Attempts : /\ Cancelled(jobs[a]) \in Job /\ jobs[a] \in Job
                              /\ Kept(jobs[a], Cancelled(jobs[a])) /\ Kept(jobs[a], jobs[a])
      BY <1>0, JobTypes, JobsKept
    <2> QED BY <2>1, <2>2 DEF AllKept
  <1>5. CASE Tick
    <2>1. jobs' = [a \in Attempts |-> Aged(jobs[a])] /\ held' = held
      BY <1>5 DEF Tick
    <2>2. \A a \in Attempts : Aged(jobs[a]) \in Job /\ Kept(jobs[a], Aged(jobs[a]))
      BY <1>0, JobTypes, JobsKept
    <2> QED BY <2>1, <2>2 DEF AllKept
  <1> QED BY <1>1, <1>2, <1>3, <1>4, <1>5
          DEF Next, Others, RequeueLapsed, Ask, Claim, Claimless, Arrive, Lose, Stop,
              Release, Released, ReleaseFails, RunEnds, vars

\* No step but a claim's answer begins a job, and a job that is done stays so.
Onward ==
    \A b \in Attempts : /\ jobs[b].stage = "none" <=> jobs'[b].stage = "none"
                        /\ Live(b)' => Live(b)

LEMMA KeptOnward ==
    ASSUME TypeOK, [Next]_vars, ~Claimed
    PROVE  Onward
  <1>1. CASE AllKept
    BY <1>1 DEF AllKept, Kept, Onward, Live
  <1>2. CASE Die \/ CancelRun
    <2>1. ASSUME NEW b \in Attempts
          PROVE  /\ jobs[b].stage = "none" <=> jobs'[b].stage = "none"
                 /\ jobs'[b].stage \in {"none", "done", "cancelled"}
                 /\ jobs'[b].stage = "cancelled" => Executing(b)
      BY <1>2, StopsJobs
    <2> QED BY <2>1 DEF Onward, Live, Executing
  <1>3. ASSUME NEW a \in Attempts, Ends(a) \/ Begins(a) PROVE Onward
    BY <1>3 DEF Ends, Begins, Onward, Live
  <1>4. ASSUME NEW a \in Attempts, Awaits(a) PROVE Onward
    BY <1>4 DEF Awaits, Kept, Onward, Live
  <1> QED BY <1>1, <1>2, <1>3, <1>4, StepKinds

LEMMA ClaimedJobs ==
    ASSUME TypeOK, Claimed
    PROVE  /\ jobs' \in [Attempts -> Job] /\ claiming \in Attempts
           /\ jobs'[claiming].stage = "task"
           /\ \A b \in Attempts \ {claiming} : jobs'[b] = jobs[b]
  <1>1. claiming \in Attempts /\ jobs \in [Attempts -> Job] /\ jobs[claiming] \in Job
    BY DEF TypeOK, Claimed
  <1>2. PICK new : new = [jobs[claiming] EXCEPT !.stage = "task"]
    OBVIOUS
  <1>3. new \in Job
    BY <1>1, <1>2, JobTypes
  <1>4. new.stage = "task"
    BY <1>1, <1>2 DEF Job
  <1>5. jobs' = [jobs EXCEPT ![claiming] = new]
    BY <1>1, <1>2 DEF Claimed
  <1> QED BY <1>1, <1>3, <1>4, <1>5

LEMMA JobsTyped ==
    ASSUME TypeOK, [Next]_vars
    PROVE  jobs' \in [Attempts -> Job] /\ held' \in Maybe(Attempts)
  <1>1. held \in Maybe(Attempts) /\ jobs \in [Attempts -> Job]
    BY DEF TypeOK
  <1>2. CASE Die \/ CancelRun
    <2>1. held' \in {None, held}
      BY <1>2, StopsJobs
    <2> QED BY <1>1, <1>2, <2>1, StopsJobs, MaybeFacts
  <1>3. CASE Claimed
    BY <1>1, <1>3, ClaimedJobs DEF Claimed
  <1>4. ASSUME NEW a \in Attempts, Ends(a) \/ Begins(a) \/ Awaits(a)
        PROVE  jobs' \in [Attempts -> Job] /\ held' \in Maybe(Attempts)
    BY <1>1, <1>4, MaybeFacts DEF Ends, Begins, Awaits, Forgotten
  <1>5. CASE AllKept
    BY <1>1, <1>5 DEF AllKept
  <1> QED BY <1>2, <1>3, <1>4, <1>5, StepKinds

LEMMA WireTyped ==
    ASSUME TypeOK, [Next]_vars
    PROVE  wire' \subseteq Sendable
  <1>1. wire \subseteq Sendable
    BY DEF TypeOK, Sendable
  <1>2. ASSUME NEW a \in Attempts, JobStep(a) PROVE wire' \subseteq Sendable
    BY <1>2, JobStepsKinds
  <1>3. CASE Release
    <2>1. "release" \in Writes /\ (released # None => released \in Attempts)
      BY DEF TypeOK, Writes, Maybe
    <2> QED BY <1>1, <1>3, <2>1, SendTypes DEF Release, Released
  <1>4. CASE wire' \subseteq wire \cup {LateClaim}
    BY <1>1, <1>4 DEF Sendable
  <1> QED BY <1>2, <1>3, <1>4
          DEF Next, Others, RequeueLapsed, Ask, Claim, Claimless, Leave, Claimed, Answer, Arrive,
              Lose, Stop, WindDown, ReleaseFails, CancelRun, RunEnds, Die, Tick, vars

Modes == {"serving", "stopping", "releasing", "returning", "returned", "cancelling", "dead"}

LEMMA RestTyped ==
    ASSUME TypeOK, ClaimFacts, [Next]_vars
    PROVE  /\ mode' \in Modes
           /\ claiming' \in Maybe({Asked} \cup Attempts)
           /\ released' \in Maybe(Attempts)
  <1>1. /\ mode \in Modes
        /\ claiming \in Maybe({Asked} \cup Attempts)
        /\ released \in Maybe(Attempts) /\ held \in Maybe(Attempts)
    BY DEF TypeOK, Modes
  <1>2. ASSUME NEW a \in Attempts, JobStep(a) PROVE UNCHANGED <<mode, claiming, released>>
    BY <1>2, JobStepsKinds
  <1>3. CASE Claim
    <2>1. run.attempt \in Attempts
      BY <1>3, WorkerAssumption DEF Claim, Claims, TypeOK, Row, Attempts
    <2> QED BY <1>1, <1>3, <2>1, MaybeFacts DEF Claim
  <1>4. CASE Ask \/ Claimless \/ Claimed \/ CancelRun \/ Die
    <2>1. None \in Maybe({Asked} \cup Attempts) /\ Asked \in Maybe({Asked} \cup Attempts)
      BY MaybeFacts
    <2> QED BY <1>1, <1>4, <2>1 DEF Ask, Claimless, Claimed, CancelRun, Die, Modes
  <1>5. CASE UNCHANGED <<mode, claiming, released>>
    BY <1>1, <1>5
  <1>6. CASE Stop \/ WindDown \/ Release \/ ReleaseFails \/ RunEnds
    BY <1>1, <1>6 DEF Stop, WindDown, Release, Released, ReleaseFails, RunEnds, Modes
  <1>7. ASSUME NEW m \in wire, Answer(m) PROVE UNCHANGED <<claiming, released>> /\ mode' \in Modes
    BY <1>1, <1>7 DEF Answer, Modes
  <1> QED BY <1>1, <1>2, <1>3, <1>4, <1>5, <1>6, <1>7
          DEF Next, Others, RequeueLapsed, Arrive, Lose, Tick, vars

LEMMA CrowdedTyped ==
    ASSUME TypeOK, [Next]_vars
    PROVE  crowded' \in BOOLEAN /\ (crowded' = crowded \/ Claimed)
  <1>1. ASSUME NEW a \in Attempts, JobStep(a) PROVE crowded' = crowded
    BY <1>1 DEF JobStep, Execute, StaleStopped, HandlerWrites, HandlerEnds, WorkingTimeUp, Unwind,
                Heartbeat, Checkpoint, GiveUp
  <1>2. crowded' = crowded \/ Claimed
    BY <1>1 DEF Next, Others, RequeueLapsed, Ask, Claim, Claimless, Answer, Arrive, Lose, Stop,
                WindDown, Release, Released, ReleaseFails, CancelRun, RunEnds, Die, Tick, vars
  <1>3. Claimed => crowded' \in BOOLEAN
    BY DEF Claimed
  <1> QED BY <1>2, <1>3 DEF TypeOK

LEMMA TypesNext ==
    ASSUME TypeOK, ClaimFacts, [Next]_vars
    PROVE  TypeOK'
  BY RowNext, JobsTyped, WireTyped, RestTyped, CrowdedTyped DEF TypeOK, Sendable, Modes

------------------------------------------------------------------------------
(***************************************************************************)
(* ClaimFacts.                                                                 *)
(***************************************************************************)
LEMMA TakenStays ==
    ASSUME TypeOK, RowMoves(run, run'), NEW a \in Attempts, Taken(a)
    PROVE  Taken(a)'
  <1>1. a \in Int /\ run.attempt \in Int
    BY WorkerAssumption DEF TypeOK, Row, Attempts
  <1> QED BY <1>1 DEF RowMoves, Taken

LEMMA ClaimingMoves ==
    ASSUME TypeOK, [Next]_vars
    PROVE  Claim \/ claiming' \in {claiming, Asked, None}
  <1>1. ASSUME NEW a \in Attempts, JobStep(a) PROVE claiming' = claiming
    BY <1>1, JobStepsKinds
  <1> QED BY <1>1
          DEF Next, Others, RequeueLapsed, Ask, Claimless, Claimed, Answer, Arrive, Lose, Stop,
              WindDown, Release, Released, ReleaseFails, CancelRun, RunEnds, Die, Tick, vars

LEMMA ClaimsNext ==
    ASSUME TypeOK, ClaimFacts, [Next]_vars
    PROVE  ClaimFacts'
  <1>1. RowMoves(run, run')
    BY RowNext
  <1>2. Asked \notin Attempts /\ None \notin Attempts
    BY WorkerAssumption DEF Asked, Attempts
  <1>3. /\ (run.owner # None <=> run.status = "RUNNING")'
        /\ (run.status = "RUNNING" => run.attempt \in Attempts)'
    BY <1>1 DEF ClaimFacts, RowMoves, Attempts
  <1>4. ASSUME NEW b \in Attempts, jobs'[b].stage # "none" PROVE Taken(b)'
    <2>1. Taken(b)
      <3>1. CASE Claimed
        BY <1>4, <3>1, ClaimedJobs DEF ClaimFacts
      <3>2. CASE ~Claimed
        BY <1>4, <3>2, KeptOnward DEF ClaimFacts, Onward
      <3> QED BY <3>1, <3>2
    <2> QED BY <1>1, <2>1, TakenStays
  <1>5. ASSUME claiming' \in Attempts PROVE Taken(claiming)' /\ (jobs[claiming].stage = "none")'
    <2>1. CASE Claim
      <3>1. /\ claiming' = run.attempt /\ run.status = "QUEUED" /\ run.attempt \in Int
            /\ run' = Leased(run, "me") /\ jobs' = jobs /\ run \in Row
        BY <2>1 DEF Claim, Claims, TypeOK, Row
      <3>2. run'.status = "RUNNING" /\ run'.attempt = run.attempt
        BY <3>1 DEF Leased, Row
      <3>3. ~Taken(run.attempt)
        BY <3>1 DEF Taken
      <3>4. jobs[run.attempt].stage = "none"
        BY <1>5, <3>1, <3>3 DEF ClaimFacts
      <3> QED BY <3>1, <3>2, <3>4 DEF Taken
    <2>2. CASE ~Claim
      <3>1. claiming' = claiming /\ claiming \in Attempts
        BY <1>2, <1>5, <2>2, ClaimingMoves
      <3>2. ~Claimed
        BY <1>2, <3>1 DEF Claimed
      <3>3. Taken(claiming) /\ jobs[claiming].stage = "none"
        BY <3>1 DEF ClaimFacts
      <3>4. jobs'[claiming].stage = "none"
        BY <3>1, <3>2, <3>3, KeptOnward DEF Onward
      <3>5. PICK c \in Attempts : c = claiming
        BY <3>1
      <3>6. Taken(c)'
        BY <1>1, <3>3, <3>5, TakenStays
      <3> QED BY <3>1, <3>4, <3>5, <3>6 DEF Taken
    <2> QED BY <2>1, <2>2
  <1> QED BY <1>3, <1>4, <1>5 DEF ClaimFacts

------------------------------------------------------------------------------
(***************************************************************************)
(* Stopping.                                                               *)
(***************************************************************************)

\* What a job sends is no release.
LEMMA JobSends ==
    ASSUME NEW a \in Attempts, JobStep(a), NEW m \in wire', m.write = "release"
    PROVE  m \in wire
  <1>1. ASSUME NEW write \in {"pause", "error", "finish"}, Send(a, write) PROVE m \in wire
    BY <1>1 DEF Send, Leave
  <1>2. ASSUME NEW write \in {"pause", "error", "finish"}, End(a, write) PROVE m \in wire
    BY <1>1, <1>2 DEF End
  <1> QED BY <1>1, <1>2 DEF JobStep, Execute, StaleStopped, HandlerWrites, HandlerEnds, WorkingTimeUp,
                            Unwind, Heartbeat, Checkpoint, GiveUp, Leave, LateBeat

LEMMA IdleStays ==
    ASSUME TypeOK, [Next]_vars, ~Claimed, NothingAtWork
    PROVE  NothingAtWork'
  BY KeptOnward DEF NothingAtWork, Onward

\* How run() goes on.
LEMMA ModeMoves ==
    ASSUME TypeOK, [Next]_vars
    PROVE  \/ mode' = mode
           \/ mode \in {"serving", "stopping"} /\ mode' = "stopping" /\ claiming' = claiming
           \/ WindDown
           \/ Release /\ mode' \in {"returning", "returned"}
           \/ mode = "returning" /\ mode' = "returned"
           \/ RunEnds \/ CancelRun \/ Die
  <1>1. ASSUME NEW a \in Attempts, JobStep(a) PROVE mode' = mode
    BY <1>1, JobStepsKinds
  <1> QED BY <1>1
          DEF Next, Others, RequeueLapsed, Ask, Claim, Claimless, Claimed, Answer, Arrive, Lose, Stop,
              Release, Released, ReleaseFails, Tick, vars

LEMMA NoClaimStays ==
    ASSUME TypeOK, Stopping, [Next]_vars, mode' \notin {"serving", "stopping"}
    PROVE  claiming' = None
  <1>1. CASE WindDown \/ CancelRun \/ Die
    BY <1>1 DEF WindDown, CancelRun, Die
  <1>2. CASE ~WindDown /\ ~CancelRun /\ ~Die
    <2>1. mode \notin {"serving", "stopping"} /\ claiming = None
      <3>1. mode \notin {"serving", "stopping"}
        BY <1>2, ModeMoves DEF Release, RunEnds
      <3> QED BY <3>1 DEF Stopping
    <2>2. ~Ask /\ ~Claim /\ ~Claimless /\ ~Claimed
      <3>1. claiming # Asked /\ claiming \notin Attempts
        BY <2>1, WorkerAssumption DEF Asked, Attempts
      <3> QED BY <2>1, <3>1 DEF Ask, Claim, Claimless, Claimed
    <2>3. ASSUME NEW a \in Attempts, JobStep(a) PROVE claiming' = claiming
      BY <2>3, JobStepsKinds
    <2> QED BY <1>2, <2>1, <2>2, <2>3
            DEF Next, Others, RequeueLapsed, Answer, Arrive, Lose, Stop, Release, Released,
                ReleaseFails, RunEnds, Tick, vars
  <1> QED BY <1>1, <1>2

LEMMA StoppingNext ==
    ASSUME TypeOK, Stopping, [Next]_vars
    PROVE  Stopping'
  <1> DEFINE Over == {"returning", "returned", "dead"}
  <1>1. (mode \notin {"serving", "stopping"} => claiming = None)'
    BY NoClaimStays
  <1>2. ASSUME mode \notin {"serving", "stopping"}, NothingAtWork PROVE NothingAtWork'
    <2>1. ~Claimed
      BY <1>2, WorkerAssumption DEF Stopping, Claimed, Attempts
    <2> QED BY <1>2, <2>1, IdleStays
  <1>3. ASSUME mode' \in Over PROVE NothingAtWork'
    <2>1. CASE Die
      BY <2>1, StopsJobs DEF NothingAtWork, Live, Die, CancelRun
    <2>2. CASE Release \/ RunEnds
      <3>1. NothingAtWork /\ jobs' = jobs
        BY <2>2 DEF Release, Released, RunEnds, NothingAtWork
      <3> QED BY <3>1 DEF NothingAtWork, Live
    <2>3. CASE ~Die /\ ~Release /\ ~RunEnds
      <3>1. mode \in Over
        BY <1>3, <2>3, ModeMoves DEF WindDown, CancelRun
      <3> QED BY <1>2, <3>1 DEF Stopping
    <2> QED BY <2>1, <2>2, <2>3
  <1>4. mode \notin {"serving", "stopping"} => mode' \notin {"serving", "stopping"}
    BY ModeMoves DEF WindDown, Release, RunEnds, CancelRun, Die
  <1>5. ASSUME NEW m \in wire', m.write = "release"
        PROVE  mode' \notin {"serving", "stopping"} /\ NothingAtWork'
    <2>1. CASE m \in wire
      BY <1>2, <1>4, <1>5, <2>1 DEF Stopping
    <2>2. CASE m \notin wire
      <3>1. ASSUME NEW a \in Attempts, JobStep(a) PROVE FALSE
        BY <1>5, <2>2, <3>1, JobSends
      <3>2. Release
        BY <1>5, <2>2, <3>1
           DEF Next, Others, RequeueLapsed, Ask, Claim, Claimless, Leave, LateClaim, Claimed, Answer,
               Arrive, Lose, Stop, WindDown, ReleaseFails, CancelRun, RunEnds, Die, Tick, vars
      <3>3. mode' \in Over
        BY <3>2 DEF Release, Released
      <3> QED BY <1>3, <3>3
    <2> QED BY <2>1, <2>2
  <1> QED BY <1>1, <1>3, <1>5 DEF Stopping

------------------------------------------------------------------------------
LEMMA InvInit ==
    ASSUME Init
    PROVE  Inv
  <1>1. /\ 0 \in 0..LEASE_SECONDS /\ 1 \in 1..(MaxAttempts + 1) /\ None \in Maybe(Attempts)
        /\ None \in Maybe({Asked} \cup Attempts) /\ None \notin Attempts
    BY WorkerAssumption, MaybeFacts DEF Attempts
  <1>2. run \in Row /\ run.status = "QUEUED" /\ run.owner = None
    BY <1>1 DEF Init, Row
  <1>3. NoJob \in Job /\ NoJob.stage = "none"
    BY <1>1, MaybeFacts DEF NoJob, Job
  <1>4. jobs \in [Attempts -> Job] /\ \A a \in Attempts : jobs[a].stage = "none"
    BY <1>3 DEF Init
  <1>5. TypeOK
    BY <1>1, <1>2, <1>4 DEF Init, TypeOK
  <1>6. ClaimFacts
    BY <1>1, <1>2, <1>4 DEF Init, ClaimFacts
  <1>7. Stopping
    BY DEF Init, Stopping
  <1> QED BY <1>5, <1>6, <1>7 DEF Inv

LEMMA InvNext ==
    ASSUME Inv, [Next]_vars
    PROVE  Inv'
  BY TypesNext, ClaimsNext, StoppingNext DEF Inv

THEOREM WorkerInv == Spec => []Inv
  BY InvInit, InvNext, PTL DEF Spec

\* The states of a worker are the ones its model names: above all, a job that waits waits
\* for a job, and a write under way is some job's.
THEOREM WorkerTyped == Spec => []TypeOK
  <1>1. Inv => TypeOK
    BY DEF Inv
  <1> QED BY <1>1, WorkerInv, PTL

\* _wind_down: a run is handed back only once nothing of this worker works on it or writes
\* to it any more, for any number of slots, attempts and requests under way.
THEOREM ReleasesOnceStopped == Spec => []ReleasedOnceStopped
  <1>1. Inv => ReleasedOnceStopped
    BY DEF Inv, Stopping, NothingAtWork, ReleasedOnceStopped
  <1> QED BY <1>1, WorkerInv, PTL

------------------------------------------------------------------------------
(***************************************************************************)
(* One handler at a time.                                                  *)
(***************************************************************************)
LEMMA KeptHandlers ==
    ASSUME TypeOK, Handlers, AllKept
    PROVE  Handlers'
  <1>1. ASSUME NEW a \in Attempts
        PROVE  /\ Executing(a)' => Executing(a)
               /\ jobs'[a].stage = "waits" <=> jobs[a].stage = "waits"
               /\ Pending(a)' <=> Pending(a)
               /\ jobs'[a].stage = "none" <=> jobs[a].stage = "none"
               /\ jobs'[a].stale = jobs[a].stale
               /\ jobs[a].stage \in {"works", "writes", "cancelled", "ends"} =>
                  jobs'[a].stage \in {"works", "writes", "cancelled", "ends"}
    BY DEF AllKept, Kept, Executing, Pending
  <1>2. held' = held /\ (held # None => held \in Attempts)
    BY DEF AllKept, TypeOK, Maybe
  <1>3. OneHandler' /\ (held # None => jobs[held].stage \in {"works", "writes", "cancelled", "ends"})'
    BY <1>1, <1>2 DEF Handlers, OneHandler
  <1>4. ASSUME NEW a \in Attempts, jobs'[a].stage = "waits" PROVE WaitsFor(jobs[a].stale)'
    <2>1. WaitsFor(jobs[a].stale) /\ jobs'[a].stale = jobs[a].stale
      BY <1>1, <1>4 DEF Handlers
    <2> QED BY <1>1, <1>2, <2>1 DEF WaitsFor
  <1>5. \A a, b \in Attempts : (Pending(a) /\ Pending(b))' => a = b
    BY <1>1 DEF Handlers
  <1> QED BY <1>3, <1>4, <1>5 DEF Handlers

LEMMA EndsHandlers ==
    ASSUME TypeOK, Handlers, NEW a \in Attempts, Ends(a)
    PROVE  Handlers'
  <1>1. /\ jobs'[a].stage = "done" /\ \A b \in Attempts \ {a} : jobs'[b] = jobs[b]
        /\ held' = Forgotten(a) /\ None \notin Attempts
    BY WorkerAssumption DEF Ends, Attempts
  <1>2. OneHandler' /\ (held # None => jobs[held].stage \in {"works", "writes", "cancelled", "ends"})'
    <2>1. OneHandler'
      BY <1>1 DEF Handlers, OneHandler, Executing, Forgotten
    <2>2. held' # None => held' = held /\ held \in Attempts \ {a}
      BY <1>1 DEF Forgotten, TypeOK, Maybe
    <2> QED BY <1>1, <2>1, <2>2 DEF Handlers
  <1>3. ASSUME NEW b \in Attempts, jobs'[b].stage = "waits" PROVE WaitsFor(jobs[b].stale)'
    <2>1. b # a /\ jobs'[b] = jobs[b]
      BY <1>1, <1>3
    <2>2. WaitsFor(jobs[b].stale)
      BY <1>3, <2>1 DEF Handlers
    <2> QED BY <1>1, <2>1, <2>2 DEF WaitsFor, Pending, Forgotten
  <1>4. \A b, c \in Attempts : (Pending(b) /\ Pending(c))' => b = c
    BY <1>1 DEF Handlers, Pending
  <1> QED BY <1>2, <1>3, <1>4 DEF Handlers

LEMMA BeginsHandlers ==
    ASSUME TypeOK, Handlers, NEW a \in Attempts, Begins(a)
    PROVE  Handlers'
  <1>1. /\ jobs'[a].stage = "works" /\ \A b \in Attempts \ {a} : jobs'[b] = jobs[b]
        /\ held' = a /\ None \notin Attempts /\ Pending(a)
    BY WorkerAssumption DEF Begins, Attempts, Pending
  <1>2. ASSUME NEW b \in Attempts \ {a} PROVE ~Executing(b)
    <2>1. CASE jobs[a].stage = "task" /\ held = None
      BY <1>1, <2>1 DEF Handlers, OneHandler
    <2>2. CASE jobs[a].stage = "waits" /\ ~Executing(jobs[a].stale)
      <3>1. WaitsFor(jobs[a].stale)
        BY <2>2 DEF Handlers
      <3> QED BY <1>1, <2>2, <3>1 DEF Handlers, OneHandler, WaitsFor
    <2> QED BY <2>1, <2>2 DEF Begins
  <1>3. \A b \in Attempts \ {a} : ~Pending(b)
    BY <1>1 DEF Handlers
  <1>4. OneHandler' /\ (held # None => jobs[held].stage \in {"works", "writes", "cancelled", "ends"})'
    BY <1>1, <1>2 DEF OneHandler, Executing
  <1>5. \A b \in Attempts : ~Pending(b)'
    BY <1>1, <1>3 DEF Pending
  <1> QED BY <1>4, <1>5 DEF Handlers, Pending

LEMMA AwaitsHandlers ==
    ASSUME TypeOK, Handlers, NEW a \in Attempts, Awaits(a)
    PROVE  Handlers'
  <1>1. PICK h \in Attempts : h = held
    BY DEF Awaits
  <1>2. /\ jobs[h].stage \in {"works", "writes", "cancelled", "ends"} /\ h # a
        /\ Pending(a) /\ ~Pending(h)
    BY <1>1, WorkerAssumption DEF Handlers, Awaits, Attempts, Pending
  <1>3. /\ held' = h /\ Kept(jobs[h], jobs'[h]) /\ jobs'[a].stage = "waits" /\ jobs'[a].stale = h
        /\ \A b \in Attempts \ {a, h} : jobs'[b] = jobs[b]
    BY <1>1, <1>2 DEF Awaits
  <1>4. jobs'[h].stage \in {"works", "writes", "cancelled", "ends"} /\ (Executing(h)' => Executing(h))
    BY <1>2, <1>3 DEF Kept, Executing
  <1>5. OneHandler' /\ (held # None => jobs[held].stage \in {"works", "writes", "cancelled", "ends"})'
    BY <1>1, <1>2, <1>3, <1>4 DEF Handlers, OneHandler, Executing
  <1>6. \A b \in Attempts \ {a} : ~Pending(b)'
    BY <1>2, <1>3, <1>4 DEF Handlers, Pending
  <1>7. WaitsFor(h)'
    BY <1>2, <1>3, <1>4, <1>6 DEF WaitsFor
  <1> QED BY <1>3, <1>5, <1>6, <1>7 DEF Handlers, Pending

LEMMA ClaimedHandlers ==
    ASSUME TypeOK, ClaimFacts, Handlers, Claimed, ~crowded'
    PROVE  Handlers'
  <1>1. PICK c \in Attempts : c = claiming
    BY DEF Claimed
  <1>2. /\ jobs'[c].stage = "task" /\ \A b \in Attempts \ {c} : jobs'[b] = jobs[b]
        /\ held' = held /\ jobs[c].stage = "none"
    BY <1>1, ClaimedJobs DEF Claimed, ClaimFacts
  <1>3. \A b \in Attempts : ~Pending(b)
    BY DEF Claimed, Quiet, Pending
  <1>4. OneHandler'
    BY <1>2 DEF Handlers, OneHandler, Executing
  <1>5. (held # None => jobs[held].stage \in {"works", "writes", "cancelled", "ends"})'
    <2>1. held # None => held \in Attempts \ {c}
      BY <1>2 DEF Handlers, TypeOK, Maybe
    <2> QED BY <1>2, <2>1 DEF Handlers
  <1>6. \A b \in Attempts \ {c} : ~Pending(b)'
    BY <1>2, <1>3 DEF Pending
  <1> QED BY <1>2, <1>4, <1>5, <1>6 DEF Handlers, Pending

LEMMA StopsHandlers ==
    ASSUME TypeOK, Handlers, Die \/ CancelRun
    PROVE  Handlers'
  <1>1. \A b \in Attempts : /\ jobs'[b].stage \in {"none", "done", "cancelled"}
                            /\ jobs'[b].stage = "cancelled" => held' = b
    <2> SUFFICES ASSUME NEW b \in Attempts
                 PROVE  /\ jobs'[b].stage \in {"none", "done", "cancelled"}
                        /\ jobs'[b].stage = "cancelled" => held' = b
      OBVIOUS
    <2>1. /\ jobs'[b].stage \in {"none", "done", "cancelled"}
          /\ jobs'[b].stage = "cancelled" => Executing(b) /\ (held = b => held' = b)
      BY StopsJobs
    <2>2. Executing(b) => held = b
      BY DEF Handlers, OneHandler
    <2> QED BY <2>1, <2>2
  <1>2. held' = None \/ (held' = held /\ jobs'[held].stage = "cancelled")
    BY StopsJobs
  <1>3. \A b \in Attempts : ~Pending(b)'
    BY <1>1 DEF Pending
  <1>4. OneHandler'
    BY <1>1 DEF OneHandler, Executing
  <1> QED BY <1>2, <1>3, <1>4 DEF Handlers, Pending

LEMMA HandlersNext ==
    ASSUME TypeOK, ClaimFacts, crowded \/ Handlers, [Next]_vars
    PROVE  (crowded \/ Handlers)'
  <1> SUFFICES ASSUME ~crowded' PROVE Handlers'
    OBVIOUS
  <1>1. ~crowded
    BY CrowdedTyped DEF Claimed
  <1> QED BY <1>1, StepKinds, KeptHandlers, EndsHandlers, BeginsHandlers, AwaitsHandlers,
             ClaimedHandlers, StopsHandlers

\* _execute: a worker of any number of slots never runs two handlers of one run at once,
\* whatever it claims again and however it stops, and the one is registered as long as it
\* works, until it is given the run a third time while a second job of it still waits.  From
\* there on two jobs wait for the same one, and TLC shows both begin.
THEOREM HandlersApart == Spec => []ApartUnlessCrowded
  <1>1. Init => crowded \/ Handlers
    <2> SUFFICES ASSUME Init PROVE Handlers
      OBVIOUS
    <2>1. held = None /\ \A a \in Attempts : jobs[a].stage = "none"
      BY DEF Init, NoJob
    <2> QED BY <2>1 DEF Handlers, OneHandler, Executing, Pending
  <1>2. Inv /\ (crowded \/ Handlers) /\ [Next]_vars => (crowded \/ Handlers)'
    BY HandlersNext DEF Inv
  <1>3. crowded \/ Handlers => ApartUnlessCrowded
    BY DEF Handlers, ApartUnlessCrowded
  <1> QED BY <1>1, <1>2, <1>3, WorkerInv, PTL DEF Spec

------------------------------------------------------------------------------
(***************************************************************************)
(* The reader of a listing.                                                *)
(***************************************************************************)
Places == [at : Nat, id : Nat]
Page   == [items : Seq(Places), after : Maybe(Places)]

\* The orders a listing may have, and the errors a page may be answered with.
Orders == {Runs, Resolutions, Schedules, Webhooks, Deliveries}
Errors == ReadFailures \cup {Problem("Unprocessable")}

Cursors == [columns : {of.columns : of \in Orders}, position : Places]
Readers == [stage  : {"idle", "sent", "answered", "failing", "ended", "raised"},
            cursor : Maybe(Cursors), retry : 0..max_retries, pages : Nat,
            answer : Maybe(Errors \cup Page)]

PagesTyped ==
    /\ now \in Nat /\ rows \subseteq [at : Nat, id : Nat, fits : BOOLEAN] /\ IsFiniteSet(rows)
    /\ listing \in Listings /\ read \in Seq(Places) /\ reader \in Readers

\* The call under way has failed as often as it was sent again.
Tries ==
    /\ reader.stage \in {"idle", "sent", "answered", "failing"} => failed = reader.retry
    /\ reader.stage = "failing" => reader.answer \in Errors
    /\ reader.stage = "raised" =>
          \/ failed = max_retries + 1
          \/ reader.answer \in Errors /\ ~SentAgain(reader.answer)

\* The reader asks for what comes after all it was given, or with a cursor of elsewhere.
Goes ==
    \/ reader.cursor = None /\ read = <<>>
    \/ read # <<>> /\ reader.cursor = Cursor(listing.of, Last(read))

Strays == reader.cursor = Elsewhere /\ read = <<>>

\* The page is the next of the order, and what is neither in it nor read comes after it.
Follows(page) ==
    /\ page \in Page
    /\ \A i \in 1..Len(page.items) - 1 : Before(page.items[i], page.items[i + 1])
    /\ page.items # <<>> => Past(Decoded(reader.cursor), page.items[1])
    /\ page.after # None => page.items # <<>> /\ page.after = Last(page.items)
    /\ \A p \in steady : \/ p \in ToSet(read) \cup ToSet(page.items)
                         \/ page.after # None /\ Before(page.after, p)

Reading ==
    /\ InOrder /\ steady \subseteq Fitting
    /\ reader.stage = "idle" => reader.cursor = None /\ read = <<>> /\ reader.pages = 0
    /\ reader.stage \in {"sent", "failing"} => Goes \/ Strays
    /\ reader.stage \in {"sent", "failing", "answered"} /\ Goes =>
          \A p \in steady : p \in ToSet(read) \/ Past(Decoded(reader.cursor), p)
    /\ reader.stage = "answered" => Goes /\ Follows(reader.answer)
    /\ reader.stage = "ended" => \/ steady \subseteq ToSet(read)
                                 \/ listing.max_pages # None /\ reader.pages = listing.max_pages

LEMMA ListingFacts ==
    ASSUME PagesTyped
    PROVE  /\ listing.limit \in Nat \ {0} /\ listing.of \in Orders
           /\ listing.max_pages \in Nat \/ listing.max_pages = None
  BY PagingAssumption DEF PagesTyped, Orders

\* The keyset orders the rows strictly and totally, newest or oldest first.
LEMMA BeforeOrders ==
    /\ \A p \in Places : ~Before(p, p)
    /\ \A p, q \in Places : p # q => Before(p, q) \/ Before(q, p)
    /\ \A p, q, r \in Places : Before(p, q) /\ Before(q, r) => Before(p, r)
  <1>1. \A p \in Places : ~Precedes(p, p)
    BY DEF Places, Precedes
  <1>2. \A p, q \in Places : p # q => Precedes(p, q) \/ Precedes(q, p)
    BY DEF Places, Precedes
  <1>3. \A p, q, r \in Places : Precedes(p, q) /\ Precedes(q, r) => Precedes(p, r)
    BY DEF Places, Precedes
  <1> QED BY <1>1, <1>2, <1>3 DEF Before

\* A row's rank among the rows S is its place in their order.
Rank(S, p) == Cardinality({q \in S : Before(q, p)}) + 1

LEMMA RankOrders ==
    ASSUME NEW S \in SUBSET Places, IsFiniteSet(S)
    PROVE  /\ \A p \in S : Rank(S, p) \in 1..Cardinality(S)
           /\ \A p, q \in S : Before(p, q) => Rank(S, p) < Rank(S, q)
  <1> DEFINE Below(p) == {q \in S : Before(q, p)}
  <1>1. ASSUME NEW p \in S
        PROVE  IsFiniteSet(Below(p)) /\ Cardinality(Below(p)) \in Nat /\ p \notin Below(p)
    <2>1. IsFiniteSet(Below(p))
      BY FS_Subset
    <2>2. p \notin Below(p)
      BY BeforeOrders
    <2> QED BY <2>1, <2>2, FS_CardinalityType
  <1>2. ASSUME NEW p \in S, NEW T \in SUBSET S, IsFiniteSet(T), Below(p) \cup {p} \subseteq T
        PROVE  Cardinality(Below(p)) + 1 <= Cardinality(T) /\ Cardinality(T) \in Nat
    <2>1. Cardinality(Below(p) \cup {p}) = Cardinality(Below(p)) + 1
      BY <1>1, FS_AddElement
    <2>2. Cardinality(Below(p) \cup {p}) <= Cardinality(T)
      BY <1>2, FS_Subset
    <2> QED BY <1>2, <2>1, <2>2, FS_CardinalityType
  <1>3. ASSUME NEW p \in S PROVE Rank(S, p) \in 1..Cardinality(S)
    <2>1. Cardinality(Below(p)) + 1 <= Cardinality(S) /\ Cardinality(S) \in Nat
      BY <1>2
    <2>2. Rank(S, p) = Cardinality(Below(p)) + 1 /\ Cardinality(Below(p)) \in Nat
      BY <1>1 DEF Rank
    <2> HIDE DEF Below
    <2> QED BY <2>1, <2>2
  <1>4. ASSUME NEW p \in S, NEW q \in S, Before(p, q) PROVE Rank(S, p) < Rank(S, q)
    <2>1. Below(p) \cup {p} \subseteq Below(q)
      BY <1>4, BeforeOrders
    <2>2. IsFiniteSet(Below(q)) /\ Below(q) \in SUBSET S
      BY <1>1
    <2>3. Cardinality(Below(p)) + 1 <= Cardinality(Below(q))
      BY <1>2, <2>1, <2>2
    <2>4. /\ Rank(S, p) = Cardinality(Below(p)) + 1 /\ Cardinality(Below(p)) \in Nat
          /\ Rank(S, q) = Cardinality(Below(q)) + 1 /\ Cardinality(Below(q)) \in Nat
      BY <1>1 DEF Rank
    <2> HIDE DEF Below
    <2> QED BY <2>3, <2>4
  <1> QED BY <1>3, <1>4

\* Any finite set of rows has its order, so a page is one.
LEMMA OrderedExists ==
    ASSUME NEW S \in SUBSET Places, IsFiniteSet(S)
    PROVE  \E s \in [1..Cardinality(S) -> S] :
              \A i, j \in 1..Cardinality(S) : i < j => Before(s[i], s[j])
  <1> DEFINE n == Cardinality(S)
             rank == [p \in S |-> Rank(S, p)]
  <1>1. n \in Nat /\ IsFiniteSet(1..n) /\ Cardinality(1..n) = n
    <2>1. n \in Nat
      BY FS_CardinalityType
    <2> QED BY <2>1, FS_Interval
  <1>2. rank \in [S -> 1..n] /\ \A p, q \in S : rank[p] = rank[q] => p = q
    <2>1. \A p \in S : Rank(S, p) \in 1..n
      BY RankOrders
    <2>2. \A p, q \in S : Rank(S, p) = Rank(S, q) => p = q
      <3> SUFFICES ASSUME NEW p \in S, NEW q \in S, p # q PROVE Rank(S, p) # Rank(S, q)
        OBVIOUS
      <3>1. Before(p, q) \/ Before(q, p)
        BY BeforeOrders
      <3>2. Rank(S, p) \in Int /\ Rank(S, q) \in Int
        BY <2>1
      <3>3. Rank(S, p) < Rank(S, q) \/ Rank(S, q) < Rank(S, p)
        BY <3>1, RankOrders
      <3> QED BY <3>2, <3>3
    <2> QED BY <2>1, <2>2
  <1>3. rank \in Injection(S, 1..n)
    BY <1>2 DEF Injection, IsInjective
  <1>4. rank \in Surjection(S, 1..n)
    BY <1>1, <1>3, FS_Injection
  <1>5. \A i \in 1..n : \E p \in S : rank[p] = i
    BY <1>4 DEF Surjection
  <1> DEFINE s == [i \in 1..n |-> CHOOSE p \in S : rank[p] = i]
  <1>6. \A i \in 1..n : s[i] \in S /\ Rank(S, s[i]) = i
    BY <1>5
  <1>7. s \in [1..n -> S]
    BY <1>6
  <1>8. ASSUME NEW i \in 1..n, NEW j \in 1..n, i < j PROVE Before(s[i], s[j])
    <2>1. s[i] \in S /\ s[j] \in S /\ Rank(S, s[i]) = i /\ Rank(S, s[j]) = j
      BY <1>6
    <2>2. i \in Int /\ j \in Int
      BY <1>1
    <2> HIDE DEF s
    <2>3. s[i] # s[j] /\ ~Before(s[j], s[i])
      BY <1>8, <2>1, <2>2, RankOrders
    <2> QED BY <2>1, <2>3, BeforeOrders
  <1> HIDE DEF s
  <1> QED BY <1>7, <1>8

\* s is the rows of S in their order, and a page the first of them.
Lists(s, S) ==
    /\ s \in Seq(Places) /\ Len(s) \in Nat
    /\ \A i \in 1..Len(s) : s[i] \in S
    /\ \A p \in S : \E i \in 1..Len(s) : s[i] = p
    /\ \A i, j \in 1..Len(s) : i < j => Before(s[i], s[j])

Starts(page, S) ==
    /\ page \in Page
    /\ \A i \in 1..Len(page.items) : page.items[i] \in S
    /\ \A i \in 1..Len(page.items) - 1 : Before(page.items[i], page.items[i + 1])
    /\ page.after # None => page.items # <<>> /\ page.after = Last(page.items)
    /\ \A p \in S : \/ \E i \in 1..Len(page.items) : page.items[i] = p
                    \/ page.after # None /\ Before(page.after, p)

\* The counting of the listings' module is this one's.
LEMMA SameCardinality ==
    ASSUME NEW S
    PROVE  Cardinality(S) = Cardinality(S)
  BY Zenon DEF Cardinality, Cardinality

LEMMA OrderedFacts ==
    ASSUME NEW S \in SUBSET Places, IsFiniteSet(S), NEW s, s = Ordered(S)
    PROVE  Lists(s, S)
  <1> DEFINE n == Cardinality(S)
  <1>1. s \in [1..n -> S] /\ \A i, j \in 1..n : i < j => Before(s[i], s[j])
    <2> DEFINE Sorted(f) == \A i, j \in 1..n : i < j => Before(f[i], f[j])
    <2>1. \E f \in [1..n -> S] : Sorted(f)
      BY OrderedExists
    <2>2. s = CHOOSE f \in [1..n -> S] : Sorted(f)
      BY SameCardinality DEF Ordered
    <2> HIDE DEF Sorted
    <2>3. s \in [1..n -> S] /\ Sorted(s)
      BY <2>1, <2>2
    <2> QED BY <2>3 DEF Sorted
  <1>2. n \in Nat /\ IsFiniteSet(1..n) /\ Cardinality(1..n) = n
    <2>1. n \in Nat
      BY FS_CardinalityType
    <2> QED BY <2>1, FS_Interval
  <1>3. s \in [1..n -> Places]
    BY <1>1
  <1>4. s \in Seq(Places) /\ Len(s) = n
    BY <1>2, <1>3
  <1>5. \A i, j \in 1..n : s[i] = s[j] => i = j
    <2> SUFFICES ASSUME NEW i \in 1..n, NEW j \in 1..n, i # j PROVE s[i] # s[j]
      OBVIOUS
    <2>1. i < j \/ j < i
      BY <1>2
    <2> QED BY <1>1, <1>3, <2>1, BeforeOrders
  <1>6. s \in Injection(1..n, S)
    BY <1>1, <1>5 DEF Injection, IsInjective
  <1>7. s \in Surjection(1..n, S)
    BY <1>2, <1>6, FS_Injection
  <1>8. \A p \in S : \E i \in 1..n : s[i] = p
    BY <1>7 DEF Surjection
  <1> QED BY <1>1, <1>2, <1>4, <1>8 DEF Lists

First(all, limit) == SubSeq(all, 1, IF Len(all) > limit THEN limit + 1 ELSE Len(all))

PageFrom(fetched, limit) ==
    [items |-> IF Len(fetched) > limit THEN SubSeq(fetched, 1, limit) ELSE fetched,
     after |-> IF Len(fetched) > limit
               THEN Last(IF Len(fetched) > limit THEN SubSeq(fetched, 1, limit) ELSE fetched)
               ELSE None]

\* page_of: the first rows in order, all of them or those before the rest.
LEMMA OrderedPage ==
    ASSUME None \notin Places, NEW S \in SUBSET Places, NEW limit \in Nat \ {0},
           NEW all, Lists(all, S), NEW page, page = PageFrom(First(all, limit), limit)
    PROVE  Starts(page, S)
  <1>2. S \in SUBSET Places
    OBVIOUS
  <1>4. /\ all \in Seq(Places) /\ Len(all) \in Nat
        /\ \A i \in 1..Len(all) : all[i] \in S
        /\ \A p \in S : \E i \in 1..Len(all) : all[i] = p
        /\ \A i, j \in 1..Len(all) : i < j => Before(all[i], all[j])
    BY DEF Lists
  <1>5. PICK fetched : fetched = First(all, limit)
    OBVIOUS
  <1>6. fetched = SubSeq(all, 1, IF Len(all) > limit THEN limit + 1 ELSE Len(all))
    BY <1>5 DEF First
  <1>7. page = PageFrom(fetched, limit)
    BY <1>5
  <1>8. CASE Len(all) > limit
    <2>1. /\ fetched \in Seq(Places) /\ Len(fetched) = limit + 1
          /\ \A i \in 1..limit + 1 : fetched[i] = all[i]
      BY <1>4, <1>6, <1>8
    <2>2. PICK kept : kept = SubSeq(fetched, 1, limit)
      OBVIOUS
    <2>3. kept \in Seq(Places) /\ Len(kept) = limit /\ \A i \in 1..limit : kept[i] = all[i]
      BY <2>1, <2>2
    <2>4. page = [items |-> kept, after |-> kept[limit]]
      <3>1. Len(fetched) > limit
        BY <2>1
      <3>2. page = [items |-> kept, after |-> Last(kept)]
        BY <1>7, <2>2, <3>1 DEF PageFrom
      <3> QED BY <2>3, <3>2 DEF Last
    <2>5. limit \in 1..Len(all) /\ 1..limit \subseteq 1..Len(all) /\ limit \in 1..limit
      BY <1>4, <1>8
    <2>6. kept[limit] \in Places /\ kept[limit] = all[limit]
      BY <1>2, <1>4, <2>3, <2>5
    <2>7. page \in Page /\ page.items = kept /\ page.after = kept[limit]
      BY <2>3, <2>4, <2>6 DEF Page, Maybe
    <2>8. \A i \in 1..Len(page.items) : page.items[i] \in S
      BY <1>4, <2>3, <2>5, <2>7
    <2>9. \A i \in 1..Len(page.items) - 1 : Before(page.items[i], page.items[i + 1])
      <3> SUFFICES ASSUME NEW i \in 1..limit - 1 PROVE Before(kept[i], kept[i + 1])
        BY <2>3, <2>7
      <3>1. i \in 1..limit /\ i + 1 \in 1..limit /\ i < i + 1
        OBVIOUS
      <3> QED BY <1>4, <2>3, <2>5, <3>1
    <2>10. page.items # <<>> /\ page.after = Last(page.items)
      BY <2>3, <2>7 DEF Last
    <2>11. page.after # None
      BY <2>6, <2>7
    <2>12. ASSUME NEW p \in S
           PROVE  (\E i \in 1..Len(page.items) : page.items[i] = p) \/ Before(page.after, p)
      <3>1. PICK i \in 1..Len(all) : all[i] = p
        BY <1>4
      <3>2. i \in 1..limit \/ limit < i
        BY <1>4
      <3> QED BY <1>4, <2>3, <2>5, <2>6, <2>7, <3>1, <3>2
    <2> QED BY <2>7, <2>8, <2>9, <2>10, <2>11, <2>12 DEF Starts
  <1>9. CASE ~(Len(all) > limit)
    <2>1. /\ fetched \in Seq(Places) /\ Len(fetched) = Len(all)
          /\ \A i \in 1..Len(all) : fetched[i] = all[i]
      BY <1>4, <1>6, <1>9
    <2>2. page = [items |-> fetched, after |-> None]
      BY <1>4, <1>7, <1>9, <2>1 DEF PageFrom
    <2>3. page \in Page /\ page.items = fetched /\ page.after = None
      <3>1. None \in Maybe(Places)
        BY MaybeFacts
      <3>2. [items |-> fetched, after |-> None] \in Page
        BY <2>1, <3>1 DEF Page
      <3> QED BY <2>2, <3>2
    <2>4. \A i \in 1..Len(page.items) : page.items[i] \in S
      BY <1>4, <2>1, <2>3
    <2>5. \A i \in 1..Len(page.items) - 1 : Before(page.items[i], page.items[i + 1])
      <3> SUFFICES ASSUME NEW i \in 1..Len(all) - 1 PROVE Before(fetched[i], fetched[i + 1])
        BY <2>1, <2>3
      <3>1. i \in 1..Len(all) /\ i + 1 \in 1..Len(all) /\ i < i + 1
        BY <1>4
      <3> QED BY <1>4, <2>1, <3>1
    <2>6. \A p \in S : \E i \in 1..Len(page.items) : page.items[i] = p
      BY <1>4, <2>1, <2>3
    <2> QED BY <2>3, <2>4, <2>5, <2>6 DEF Starts
  <1> QED BY <1>8, <1>9

\* What a page of the listing holds.
LEMMA PageFacts ==
    ASSUME PagesTyped, NEW after, NEW page,
           page = PageOf(Fetched(after)), NEW S,
           S = {p \in Fitting : Past(after, p)}
    PROVE  Starts(page, S)
  <1>1. PICK limit \in Nat \ {0} : limit = listing.limit
    BY ListingFacts
  <1>2. S \in SUBSET Places /\ IsFiniteSet(S)
    <2>1. IsFiniteSet({row \in rows : row.fits})
      BY FS_Subset DEF PagesTyped
    <2> DEFINE fits == {row \in rows : row.fits}
               at == [row \in fits |-> Position(row)]
    <2>2. IsFiniteSet(Fitting)
      <3>1. at \in Surjection(fits, Fitting)
        BY DEF Surjection, Fitting
      <3> QED BY <2>1, <3>1, FS_Surjection
    <2>3. Fitting \subseteq Places
      BY DEF Fitting, Position, Places, PagesTyped
    <2> QED BY <2>2, <2>3, FS_Subset
  <1>3. PICK all : all = Ordered(S)
    OBVIOUS
  <1>4. Fetched(after) = First(all, limit)
    BY <1>1, <1>3 DEF Fetched, First
  <1>5. page = PageFrom(First(all, limit), limit)
    BY <1>1, <1>4 DEF PageOf, PageFrom
  <1>6. None \notin Places
    BY PagingAssumption DEF Places
  <1>7. Lists(all, S)
    BY <1>2, <1>3, OrderedFacts
  <1> QED BY <1>1, <1>2, <1>5, <1>6, <1>7, OrderedPage

PagesInv == PagesTyped /\ Tries /\ Reading

\* The steps of the table, which leave the reader alone and take from steady what they take
\* from the listing; and the reader's, which leave the table alone.
TableStep ==
    \/ \E id \in Ids, at \in 0..MaxTime, fits \in BOOLEAN : Write(id, at, fits)
    \/ \E row \in rows : Change(row) \/ Drop(row)
    \/ Passes

LEMMA TableKeeps ==
    ASSUME PagesTyped, TableStep
    PROVE  /\ now' \in Nat /\ rows' \subseteq [at : Nat, id : Nat, fits : BOOLEAN]
           /\ IsFiniteSet(rows') /\ UNCHANGED <<listing, reader, read, failed>>
           /\ steady \subseteq Fitting =>
                 steady' \subseteq steady /\ steady' \subseteq Fitting'
  <1>0. now \in Nat /\ rows \subseteq [at : Nat, id : Nat, fits : BOOLEAN] /\ IsFiniteSet(rows)
    BY DEF PagesTyped
  <1>1. CASE Passes
    BY <1>0, <1>1 DEF Passes, Fitting, Position
  <1>2. ASSUME NEW id \in Ids, NEW at \in 0..MaxTime, NEW fits \in BOOLEAN, Write(id, at, fits)
        PROVE  /\ now' \in Nat /\ rows' \subseteq [at : Nat, id : Nat, fits : BOOLEAN]
               /\ IsFiniteSet(rows') /\ UNCHANGED <<listing, reader, read, steady, failed>>
               /\ Fitting \subseteq Fitting'
    <2>1. rows' = rows \cup {[at |-> at, id |-> id, fits |-> fits]}
          /\ UNCHANGED <<now, listing, reader, read, steady, failed>>
      BY <1>2 DEF Write
    <2>2. at \in Nat /\ id \in Nat
      BY PagingAssumption
    <2>3. IsFiniteSet(rows')
      BY <1>0, <2>1, FS_AddElement
    <2>4. Fitting \subseteq Fitting'
      BY <2>1 DEF Fitting
    <2> QED BY <1>0, <2>1, <2>2, <2>3, <2>4
  <1>3. ASSUME NEW row \in rows, Change(row) \/ Drop(row)
        PROVE  /\ now' \in Nat /\ rows' \subseteq [at : Nat, id : Nat, fits : BOOLEAN]
               /\ IsFiniteSet(rows') /\ UNCHANGED <<listing, reader, read, failed>>
               /\ steady' = steady \ {Position(row)}
               /\ \A p \in Fitting : p # Position(row) => p \in Fitting'
    <2>1. PICK new : new = [row EXCEPT !.fits = ~@]
      OBVIOUS
    <2>2. new \in [at : Nat, id : Nat, fits : BOOLEAN]
      BY <1>0, <2>1
    <2>3. /\ rows' = (rows \ {row}) \cup {new} \/ rows' = rows \ {row}
          /\ UNCHANGED <<now, listing, reader, read, failed>>
          /\ steady' = steady \ {Position(row)}
      BY <1>3, <2>1 DEF Change, Drop
    <2>4. IsFiniteSet(rows')
      <3>1. IsFiniteSet(rows \ {row})
        BY <1>0, FS_RemoveElement
      <3>2. IsFiniteSet((rows \ {row}) \cup {new})
        BY <3>1, FS_AddElement
      <3> QED BY <2>3, <3>1, <3>2
    <2>5. \A p \in Fitting : p # Position(row) => p \in Fitting'
      <3>1. \A r \in rows : r # row => r \in rows'
        BY <2>3
      <3> QED BY <3>1 DEF Fitting
    <2> QED BY <1>0, <2>2, <2>3, <2>4, <2>5
  <1>4. ASSUME NEW row \in rows, Change(row) \/ Drop(row), steady \subseteq Fitting
        PROVE  steady' \subseteq steady /\ steady' \subseteq Fitting'
    BY <1>3, <1>4
  <1> QED BY <1>1, <1>2, <1>3, <1>4 DEF TableStep

\* The order, and all that is said of the reader, are of what the table's steps keep.
LEMMA TableNext ==
    ASSUME PagesInv, TableStep
    PROVE  PagesInv'
  <1>1. /\ UNCHANGED <<listing, reader, read, failed>>
        /\ steady' \subseteq steady /\ steady' \subseteq Fitting'
    BY TableKeeps DEF PagesInv, Reading
  <1>2. PagesTyped'
    BY TableKeeps DEF PagesInv, PagesTyped
  <1>3. Tries'
    BY <1>1 DEF PagesInv, Tries
  <1>4. /\ \A p, q : Before(p, q) <=> Before(p, q)'
        /\ \A p, q : Past(p, q) <=> Past(p, q)'
        /\ (Goes <=> Goes') /\ (Strays <=> Strays')
    <2>1. \A p, q : Before(p, q) <=> Before(p, q)'
      BY <1>1 DEF Before
    <2>2. \A p, q : Past(p, q) <=> Past(p, q)'
      BY <2>1 DEF Past
    <2>3. (Goes <=> Goes') /\ (Strays <=> Strays')
      BY <1>1 DEF Goes, Strays, Elsewhere
    <2> QED BY <2>1, <2>2, <2>3
  <1>5. InOrder'
    BY <1>1, <1>4 DEF PagesInv, Reading, InOrder
  <1>6. ASSUME Follows(reader.answer) PROVE Follows(reader.answer)'
    BY <1>1, <1>4, <1>6 DEF Follows
  <1>7. Reading'
    BY <1>1, <1>4, <1>5, <1>6 DEF PagesInv, Reading
  <1> QED BY <1>2, <1>3, <1>7 DEF PagesInv

------------------------------------------------------------------------------
\* What an error of a read is raised as: an answer that says "try again" is sent again.
LEMMA NotWorthIt ==
    ASSUME NEW answer \in Errors, ~SentAgain(answer)
    PROVE  ErrorClass(answer) \notin {"RateLimitedError", "DependencyUnavailableError"}
  <1>1. None \notin BOOLEAN /\ None \notin DOMAIN BY_CODE
    BY PagingAssumption
  <1>2. answer # NoAnswer /\ ~Again(answer)
    BY DEF SentAgain
  <1>3. \/ answer = Unreadable
        \/ answer = Proxied(500) \/ answer = Proxied(502)
        \/ answer = Problem("Unauthorized") \/ answer = Problem("RateLimited")
        \/ answer = Problem("Unavailable") \/ answer = Problem("Fault")
        \/ answer = Problem("Unprocessable")
    BY <1>2 DEF Errors, ReadFailures
  <1>4. answer # Proxied(502)
    BY <1>1, <1>2 DEF Again, Retryable, Proxied, RETRY_STATUSES
  <1>5. answer # Problem("RateLimited") /\ answer # Problem("Unavailable")
    <2> SUFFICES ASSUME NEW kind \in {"RateLimited", "Unavailable"}, answer = Problem(kind)
                 PROVE  Again(answer)
      BY <1>2
    <2>1. (kind \in MayBeRepeated) = TRUE
      BY DEF MayBeRepeated
    <2>2. answer.retryable = TRUE
      BY <2>1 DEF Problem
    <2>3. answer.status \in {429, 503}
      BY DEF Problem, StatusOf
    <2>4. answer.retryable # None
      BY <1>1, <2>2
    <2>5. Retryable(answer)
      BY <2>2, <2>4 DEF Retryable
    <2> QED BY <2>3, <2>5 DEF Again, RETRY_STATUSES
  <1>6. CASE answer = Unreadable
    BY <1>6 DEF Unreadable, ErrorClass, BY_CODE, BY_STATUS
  <1>7. CASE answer = Proxied(500)
    BY <1>1, <1>7 DEF Proxied, ErrorClass, BY_STATUS
  <1>8. CASE answer = Problem("Unauthorized")
    BY <1>8 DEF Problem, StatusOf, CodeOf, ErrorClass, BY_CODE
  <1>9. CASE answer = Problem("Fault")
    BY <1>9 DEF Problem, StatusOf, CodeOf, ErrorClass, BY_CODE,
                 BY_STATUS
  <1>10. CASE answer = Problem("Unprocessable")
    BY <1>10 DEF Problem, StatusOf, CodeOf, ErrorClass, BY_CODE
  <1> QED BY <1>3, <1>4, <1>5, <1>6, <1>7, <1>8, <1>9, <1>10

------------------------------------------------------------------------------
(***************************************************************************)
(* The reader's steps.                                                     *)
(***************************************************************************)

\* The order is the listing's, which no step changes.
LEMMA SameOrder ==
    ASSUME UNCHANGED listing
    PROVE  /\ \A p, q : Before(p, q) <=> Before(p, q)'
           /\ \A p, q : Past(p, q) <=> Past(p, q)'
           /\ Elsewhere' = Elsewhere
  <1>1. \A p, q : Before(p, q) <=> Before(p, q)'
    BY DEF Before
  <1>2. \A p, q : Past(p, q) <=> Past(p, q)'
    BY <1>1 DEF Past
  <1> QED BY <1>1, <1>2 DEF Elsewhere

\* A cursor of elsewhere is refused.
LEMMA ElsewhereRefused ==
    ASSUME PagesTyped
    PROVE  Elsewhere \in Cursors /\ Elsewhere.columns # listing.of.columns
  <1>1. listing.of \in Orders
    BY ListingFacts
  <1>2. PICK of \in {Runs, Schedules} :
            /\ of = IF listing.of = Runs THEN Schedules ELSE Runs
            /\ of \in Orders
    BY DEF Orders
  <1>3. [at |-> 0, id |-> 0] \in Places
    BY DEF Places
  <1>4. Elsewhere = [columns |-> of.columns, position |-> [at |-> 0, id |-> 0]]
    BY <1>2 DEF Elsewhere, Cursor
  <1>5. /\ Runs.columns = {"created_at", "run_id"}
        /\ Resolutions.columns = {"recorded_at", "resolution_id"}
        /\ Schedules.columns = {"created_at", "schedule_id"}
        /\ Webhooks.columns = {"created_at", "webhook_id"}
        /\ Deliveries.columns = {"created_at", "delivery_id"}
    BY DEF Runs, Resolutions, Schedules, Webhooks, Deliveries
  <1>6. of.columns # listing.of.columns
    <2>1. CASE listing.of = Runs
      BY <1>2, <1>5, <2>1
    <2>2. CASE listing.of # Runs
      <3>1. of = Runs /\ "run_id" \in of.columns
        BY <1>2, <1>5, <2>2
      <3>2. "run_id" \notin listing.of.columns
        BY <1>1, <1>5, <2>2 DEF Orders
      <3> QED BY <3>1, <3>2
    <2> QED BY <2>1, <2>2
  <1>7. Elsewhere \in Cursors
    BY <1>2, <1>3, <1>4 DEF Cursors
  <1> QED BY <1>4, <1>6, <1>7

LEMMA BeginNext ==
    ASSUME PagesInv, NEW cursor \in {None, Elsewhere},
           Begin(cursor)
    PROVE  PagesInv'
  <1>1. /\ reader.stage = "idle" /\ UNCHANGED <<now, rows, listing, read, failed>>
        /\ steady' = Fitting /\ reader \in Readers
        /\ reader' = [reader EXCEPT !.stage = "sent", !.cursor = cursor]
    BY DEF Begin, PagesInv, PagesTyped
  <1>2. cursor \in Maybe(Cursors)
    BY ElsewhereRefused, MaybeFacts DEF PagesInv
  <1>3. /\ reader' \in Readers /\ reader'.stage = "sent" /\ reader'.cursor = cursor
        /\ reader'.retry = reader.retry
    BY <1>1, <1>2 DEF Readers
  <1>4. PagesTyped' /\ Tries'
    BY <1>1, <1>3 DEF PagesInv, PagesTyped, Tries
  <1>5. read = <<>> /\ Elsewhere' = Elsewhere
    BY <1>1, SameOrder DEF PagesInv, Reading
  <1>6. Goes' \/ Strays'
    BY <1>1, <1>3, <1>5 DEF Goes, Strays
  <1>7. InOrder'
    BY <1>1, <1>5 DEF InOrder
  <1>8. steady' \subseteq Fitting'
    BY <1>1 DEF Fitting
  <1>9. Goes' => \A p : Past(Decoded(reader.cursor), p)'
    BY <1>1, <1>5 DEF Goes, Past, Decoded
  <1>10. Reading'
    BY <1>3, <1>6, <1>7, <1>8, <1>9 DEF Reading
  <1> QED BY <1>4, <1>10 DEF PagesInv

\* The call fails, or the page cannot be had: the reader stays where it was.
LEMMA FailingNext ==
    ASSUME PagesInv, NEW answer \in Errors,
           reader.stage \in {"sent", "answered"},
           reader' = [reader EXCEPT !.stage = "failing", !.answer = answer],
           UNCHANGED <<now, rows, free, listing, read, steady, failed>>
    PROVE  PagesInv'
  <1>1. reader \in Readers /\ answer \in Maybe(Errors \cup Page)
    BY DEF PagesInv, PagesTyped, Maybe
  <1>2. /\ reader' \in Readers /\ reader'.stage = "failing" /\ reader'.cursor = reader.cursor
        /\ reader'.retry = reader.retry /\ reader'.answer = answer
    BY <1>1 DEF Readers
  <1>3. PagesTyped' /\ Tries'
    BY <1>2 DEF PagesInv, PagesTyped, Tries
  <1>4. (Goes <=> Goes') /\ (Strays <=> Strays')
    BY <1>2, SameOrder DEF Goes, Strays
  <1>5. InOrder' /\ steady' \subseteq Fitting'
    BY SameOrder DEF PagesInv, Reading, InOrder, Fitting
  <1>6. Goes => \A p \in steady : p \in ToSet(read)
                                  \/ Past(Decoded(reader.cursor), p)
    BY DEF PagesInv, Reading
  <1>7. Goes' => \A p \in steady' : p \in ToSet(read)'
                                    \/ Past(Decoded(reader.cursor), p)'
    BY <1>2, <1>4, <1>6, SameOrder DEF Decoded, Past
  <1>8. Goes \/ Strays
    BY DEF PagesInv, Reading
  <1>9. Reading'
    BY <1>2, <1>4, <1>5, <1>7, <1>8 DEF Reading
  <1> QED BY <1>3, <1>9 DEF PagesInv

LEMMA FailsNext ==
    ASSUME PagesInv, Fails
    PROVE  PagesInv'
  <1>1. PICK f \in Failures : reader' = [reader EXCEPT !.stage = "failing", !.answer = f]
    BY DEF Fails
  <1>2. f \in Errors
    BY PagingAssumption DEF Errors
  <1> QED BY <1>1, <1>2, FailingNext DEF Fails

LEMMA SendAgainNext ==
    ASSUME PagesInv, SendAgain
    PROVE  PagesInv'
  <1>0. /\ reader.stage = "failing" /\ reader \in Readers /\ reader.answer \in Errors
        /\ failed = reader.retry /\ reader.retry \in 0..max_retries /\ max_retries \in Nat
        /\ UNCHANGED <<now, rows, free, listing, read, steady>>
    BY PagingAssumption DEF SendAgain, PagesInv, PagesTyped, Tries, Readers
  <1>1. failed' = reader.retry + 1
    BY <1>0 DEF SendAgain
  <1>2. InOrder' /\ steady' \subseteq Fitting'
    BY <1>0, SameOrder DEF PagesInv, Reading, InOrder, Fitting
  <1>3. CASE SentAgain(reader.answer) /\ reader.retry < max_retries
    <2>1. reader' = [reader EXCEPT !.stage = "sent", !.retry = reader.retry + 1, !.answer = None]
      BY <1>3 DEF SendAgain, Retries
    <2>2. reader.retry + 1 \in 0..max_retries /\ None \in Maybe(Errors \cup Page)
      BY <1>0, <1>3, MaybeFacts
    <2>3. /\ reader' \in Readers /\ reader'.stage = "sent" /\ reader'.cursor = reader.cursor
          /\ reader'.retry = reader.retry + 1
      BY <1>0, <2>1, <2>2 DEF Readers
    <2>4. PagesTyped' /\ Tries'
      BY <1>0, <1>1, <2>3 DEF PagesInv, PagesTyped, Tries
    <2>5. (Goes <=> Goes') /\ (Strays <=> Strays')
      BY <1>0, <2>3, SameOrder DEF Goes, Strays
    <2>6. Goes => \A p \in steady : p \in ToSet(read)
                                    \/ Past(Decoded(reader.cursor), p)
      BY <1>0 DEF PagesInv, Reading
    <2>7. Goes' => \A p \in steady' : p \in ToSet(read)'
                                      \/ Past(Decoded(reader.cursor), p)'
      BY <1>0, <2>3, <2>5, <2>6, SameOrder DEF Decoded, Past
    <2>8. Goes \/ Strays
      BY <1>0 DEF PagesInv, Reading
    <2>9. Reading'
      BY <1>2, <2>3, <2>5, <2>7, <2>8 DEF Reading
    <2> QED BY <2>4, <2>9 DEF PagesInv
  <1>4. CASE ~(SentAgain(reader.answer) /\ reader.retry < max_retries)
    <2>1. reader' = [reader EXCEPT !.stage = "raised"]
      BY <1>4 DEF SendAgain
    <2>2. reader' \in Readers /\ reader'.stage = "raised" /\ reader'.answer = reader.answer
      BY <1>0, <2>1 DEF Readers
    <2>3. PagesTyped'
      BY <1>0, <2>2 DEF PagesInv, PagesTyped
    <2>4. failed' = max_retries + 1 \/ ~SentAgain(reader.answer)
      BY <1>0, <1>1, <1>4
    <2>5. SentAgain(reader.answer)' <=> SentAgain(reader.answer)
      BY <2>2 DEF SentAgain, Again, Retryable
    <2>6. Tries'
      BY <1>0, <2>2, <2>4, <2>5 DEF Tries
    <2>7. Reading'
      BY <1>2, <2>2 DEF Reading
    <2> QED BY <2>3, <2>6, <2>7 DEF PagesInv
  <1> QED BY <1>3, <1>4

\* list: the page that is read follows what the reader was given.
LEMMA ListNext ==
    ASSUME PagesInv, List
    PROVE  PagesInv'
  <1>0. /\ reader.stage = "sent" /\ reader \in Readers /\ PagesTyped
        /\ UNCHANGED <<now, rows, free, listing, read, steady, failed>>
    BY DEF List, PagesInv, PagesTyped
  <1>1. CASE ~Issued(reader.cursor)
    <2>1. Problem("Unprocessable") \in Errors
      BY DEF Errors
    <2>2. reader' = [reader EXCEPT !.stage = "failing", !.answer = Problem("Unprocessable")]
      BY <1>1 DEF List
    <2> QED BY <1>0, <2>1, <2>2, FailingNext
  <1>2. CASE Issued(reader.cursor)
    <2>1. PICK after : after = Decoded(reader.cursor)
      OBVIOUS
    <2>2. PICK page : page = PageOf(Fetched(after))
      OBVIOUS
    <2>3. PICK S : S = {p \in Fitting : Past(after, p)}
      OBVIOUS
    <2>4. Starts(page, S)
      BY <1>0, <2>2, <2>3, PageFacts
    <2>5. page \in Page /\ page \in Maybe(Errors \cup Page) /\ page.items \in Seq(Places)
      <3>1. page \in Page
        BY <2>4 DEF Starts
      <3>2. page.items \in Seq(Places)
        BY <3>1 DEF Page
      <3> QED BY <3>1, <3>2, MaybeFacts
    <2>6. reader' = [reader EXCEPT !.stage = "answered", !.answer = page]
      BY <1>2, <2>1, <2>2 DEF List
    <2>7. /\ reader' \in Readers /\ reader'.stage = "answered" /\ reader'.cursor = reader.cursor
          /\ reader'.retry = reader.retry /\ reader'.answer = page
      BY <1>0, <2>5, <2>6 DEF Readers
    <2>8. PagesTyped' /\ Tries'
      BY <1>0, <2>7 DEF PagesInv, PagesTyped, Tries
    <2>9. Goes
      <3>1. Goes \/ Strays
        BY <1>0 DEF PagesInv, Reading
      <3>2. Strays => Goes
        BY <1>0, <1>2, ElsewhereRefused DEF Strays, Goes, Issued
      <3> QED BY <3>1, <3>2
    <2>10. Goes'
      BY <1>0, <2>7, <2>9 DEF Goes
    <2>11. steady \subseteq Fitting
           /\ \A p \in steady : p \in ToSet(read) \/ Past(after, p)
      BY <1>0, <2>1, <2>9 DEF PagesInv, Reading
    <2>12. InOrder' /\ steady' \subseteq Fitting'
      BY <1>0, SameOrder DEF PagesInv, Reading, InOrder, Fitting
    <2>13. Decoded(reader.cursor)' = after
      BY <2>1, <2>7 DEF Decoded
    <2>14. \A p \in steady' : p \in ToSet(read)'
                              \/ Past(Decoded(reader.cursor), p)'
      BY <1>0, <2>11, <2>13, SameOrder DEF Past
    <2>15. page.items # <<>> => page.items[1] \in S
      <3>1. page.items # <<>> => 1 \in 1..Len(page.items)
        BY <2>5
      <3> QED BY <2>4, <3>1 DEF Starts
    <2>16. ASSUME NEW p \in S
           PROVE  p \in ToSet(page.items) \/ (page.after # None /\ Before(page.after, p))
      <3>1. DOMAIN page.items = 1..Len(page.items)
        BY <2>5
      <3> QED BY <2>4, <3>1 DEF Starts, ToSet
    <2>17. \A p \in steady : \/ p \in ToSet(read) \cup ToSet(page.items)
                             \/ page.after # None /\ Before(page.after, p)
      BY <2>3, <2>11, <2>16
    <2>18. Follows(reader.answer)'
      <3>1. page.items # <<>> => Past(after, page.items[1])
        BY <2>3, <2>15
      <3>2. /\ \A i \in 1..Len(page.items) - 1 : Before(page.items[i], page.items[i + 1])
            /\ page.after # None => page.items # <<>> /\ page.after = Last(page.items)
        BY <2>4 DEF Starts
      <3>3. page.items # <<>> => Past(Decoded(reader.cursor), page.items[1])'
        BY <1>0, <2>13, <3>1, SameOrder DEF Past
      <3>4. \A i \in 1..Len(page.items) - 1 : Before(page.items[i], page.items[i + 1])'
        BY <1>0, <3>2, SameOrder
      <3>5. \A p \in steady' : \/ p \in ToSet(read)' \cup ToSet(page.items)
                               \/ page.after # None /\ Before(page.after, p)'
        BY <1>0, <2>17, SameOrder
      <3> QED BY <2>5, <2>7, <3>2, <3>3, <3>4, <3>5 DEF Follows
    <2>19. Reading'
      BY <2>7, <2>10, <2>12, <2>14, <2>18 DEF Reading
    <2> QED BY <2>8, <2>19 DEF PagesInv
  <1> QED BY <1>1, <1>2

\* What is read grows by the page, in order and to its end.
Grows(r, s, t) ==
    /\ r \in Seq(Places) /\ Len(r) = Len(s) + Len(t) /\ Len(s) \in Nat /\ Len(t) \in Nat
    /\ \A i \in 1..Len(s) : r[i] = s[i]
    /\ \A i \in 1..Len(t) : r[Len(s) + i] = t[i]
    /\ ToSet(r) = ToSet(s) \cup ToSet(t)
    /\ t # <<>> => r # <<>> /\ Last(r) = Last(t)

LEMMA ReadGrows ==
    ASSUME NEW s \in Seq(Places), NEW t \in Seq(Places), NEW r, r = s \o t
    PROVE  Grows(r, s, t)
  <1>1. /\ r \in Seq(Places) /\ Len(r) = Len(s) + Len(t) /\ Len(s) \in Nat /\ Len(t) \in Nat
        /\ \A i \in 1..Len(s) : r[i] = s[i]
    OBVIOUS
  <1>2. \A i \in 1..Len(t) : r[Len(s) + i] = t[i]
    OBVIOUS
  <1>3. ToSet(r) = ToSet(s) \cup ToSet(t)
    <2>1. /\ DOMAIN r = 1..Len(r) /\ DOMAIN s = 1..Len(s) /\ DOMAIN t = 1..Len(t)
      BY <1>1
    <2>2. \A i \in 1..Len(r) : i \in 1..Len(s) \/ (i - Len(s) \in 1..Len(t) /\ Len(s) + (i - Len(s)) = i)
      BY <1>1
    <2>3. ASSUME NEW i \in 1..Len(r) PROVE r[i] \in ToSet(s) \cup ToSet(t)
      BY <1>1, <1>2, <2>1, <2>2 DEF ToSet
    <2>4. \A i \in 1..Len(s) : i \in 1..Len(r)
      BY <1>1
    <2>5. \A i \in 1..Len(t) : Len(s) + i \in 1..Len(r)
      BY <1>1
    <2>6. ToSet(r) \subseteq ToSet(s) \cup ToSet(t)
      BY <2>1, <2>3 DEF ToSet
    <2>7. ToSet(s) \subseteq ToSet(r)
      BY <1>1, <2>1, <2>4 DEF ToSet
    <2>8. ToSet(t) \subseteq ToSet(r)
      BY <1>2, <2>1, <2>5 DEF ToSet
    <2> QED BY <2>6, <2>7, <2>8
  <1>4. t # <<>> => r # <<>> /\ Last(r) = Last(t)
    <2> SUFFICES ASSUME t # <<>> PROVE r # <<>> /\ Last(r) = Last(t)
      OBVIOUS
    <2>1. Len(t) \in 1..Len(t) /\ Len(r) # 0
      BY <1>1
    <2> QED BY <1>1, <1>2, <2>1 DEF Last
  <1> QED BY <1>1, <1>2, <1>3, <1>4 DEF Grows

\* A page that is yielded: what was read stays in order, and what comes after it is what came
\* after the page.
LEMMA PageRead ==
    ASSUME PagesTyped, InOrder, Goes, NEW page, Follows(page),
           NEW r, r = read \o page.items
    PROVE  /\ r \in Seq(Places)
           /\ \A i \in 1..Len(r) - 1 : Before(r[i], r[i + 1])
           /\ ToSet(r) = ToSet(read) \cup ToSet(page.items)
           /\ page.after # None => r # <<>> /\ Last(r) = page.after /\ page.after \in Places
  <1>1. PICK items : items = page.items
    OBVIOUS
  <1>2. /\ read \in Seq(Places) /\ items \in Seq(Places)
        /\ page.after \in Maybe(Places)
    BY <1>1 DEF Follows, Page, PagesTyped
  <1>3. /\ r \in Seq(Places) /\ Len(r) = Len(read) + Len(items)
        /\ Len(read) \in Nat /\ Len(items) \in Nat
        /\ \A i \in 1..Len(read) : r[i] = read[i]
        /\ \A i \in 1..Len(items) : r[Len(read) + i] = items[i]
        /\ ToSet(r) = ToSet(read) \cup ToSet(items)
        /\ items # <<>> => r # <<>> /\ Last(r) = Last(items)
    <2>1. r = read \o items
      BY <1>1
    <2>2. Grows(r, read, items)
      BY <1>2, <2>1, ReadGrows
    <2> QED BY <2>2 DEF Grows
  <1>4. read # <<>> /\ items # <<>> => Before(read[Len(read)], items[1])
    <2> SUFFICES ASSUME read # <<>>, items # <<>> PROVE Before(read[Len(read)], items[1])
      OBVIOUS
    <2>1. reader.cursor = [columns |-> listing.of.columns, position |-> read[Len(read)]]
      BY DEF Goes, Cursor, Last
    <2>2. read[Len(read)] \in Places
      <3>1. Len(read) \in 1..Len(read)
        BY <1>2
      <3> QED BY <1>2, <3>1
    <2>3. None \notin Places
          /\ None \notin [columns : {listing.of.columns}, position : Places]
      BY PagingAssumption DEF PagesTyped, Places
    <2>4. reader.cursor # None
      BY <2>1, <2>2, <2>3
    <2>5. Decoded(reader.cursor) = read[Len(read)]
      BY <2>1, <2>4 DEF Decoded
    <2>6. Past(Decoded(reader.cursor), items[1])
      BY <1>1 DEF Follows
    <2> QED BY <2>2, <2>3, <2>5, <2>6 DEF Past
  <1>5. ASSUME NEW i \in 1..Len(r) - 1 PROVE Before(r[i], r[i + 1])
    <2>1. CASE i < Len(read)
      <3>1. i \in 1..Len(read) - 1 /\ i \in 1..Len(read) /\ i + 1 \in 1..Len(read)
        BY <1>3, <2>1
      <3> QED BY <1>3, <3>1 DEF InOrder
    <2>2. CASE i = Len(read)
      <3>1. i \in 1..Len(read) /\ 1 \in 1..Len(items) /\ Len(read) + 1 = i + 1
        BY <1>3, <2>2
      <3>2. read # <<>> /\ items # <<>>
        BY <1>2, <3>1
      <3>3. r[i] = read[Len(read)] /\ r[i + 1] = items[1]
        BY <1>3, <2>2, <3>1
      <3> QED BY <1>4, <3>2, <3>3
    <2>3. CASE i > Len(read)
      <3>1. PICK j \in 1..Len(items) - 1 : i = Len(read) + j
        <4>1. i - Len(read) \in 1..Len(items) - 1 /\ i = Len(read) + (i - Len(read))
          BY <1>3, <2>3
        <4> QED BY <4>1
      <3>2. /\ j \in 1..Len(items) /\ j + 1 \in 1..Len(items)
            /\ i + 1 = Len(read) + (j + 1)
        BY <1>3, <3>1
      <3>3. r[i] = items[j] /\ r[i + 1] = items[j + 1]
        BY <1>3, <3>1, <3>2
      <3> QED BY <1>1, <3>1, <3>3 DEF Follows
    <2> QED BY <1>3, <2>1, <2>2, <2>3
  <1>6. page.after # None => r # <<>> /\ Last(r) = page.after /\ page.after \in Places
    BY <1>1, <1>2, <1>3 DEF Follows, Maybe
  <1> QED BY <1>1, <1>3, <1>5, <1>6

LEMMA PageComesNext ==
    ASSUME PagesInv, PageComes
    PROVE  PagesInv'
  <1>0. /\ reader.stage = "answered" /\ reader \in Readers /\ PagesTyped
        /\ UNCHANGED <<now, rows, free, listing, steady>> /\ failed' = 0
        /\ Goes /\ Follows(reader.answer) /\ InOrder
    BY DEF PageComes, PagesInv, PagesTyped, Reading
  <1>1. PICK page : page = reader.answer
    OBVIOUS
  <1>2. PICK r : r = read \o page.items
    OBVIOUS
  <1>3. read' = r
    BY <1>1, <1>2 DEF PageComes
  <1>4. /\ r \in Seq(Places)
        /\ \A i \in 1..Len(r) - 1 : Before(r[i], r[i + 1])
        /\ ToSet(r) = ToSet(read) \cup ToSet(page.items)
        /\ page.after # None => r # <<>> /\ Last(r) = page.after /\ page.after \in Places
    BY <1>0, <1>1, <1>2, PageRead
  <1>5. reader.pages \in Nat /\ reader.pages + 1 \in Nat
    BY <1>0 DEF Readers
  <1>6. InOrder'
    BY <1>0, <1>3, <1>4, SameOrder DEF InOrder
  <1>7. steady' \subseteq Fitting'
    BY <1>0 DEF PagesInv, Reading, Fitting
  <1>8. \A p \in steady : \/ p \in ToSet(r)
                          \/ page.after # None /\ Before(page.after, p)
    BY <1>0, <1>1, <1>4 DEF Follows
  <1>9. CASE page.after = None \/ reader.pages + 1 = listing.max_pages
    <2>1. reader' = [reader EXCEPT !.stage = "ended", !.pages = reader.pages + 1]
      BY <1>1, <1>9 DEF PageComes
    <2>2. /\ reader' \in Readers /\ reader'.stage = "ended"
          /\ reader'.pages = reader.pages + 1
      BY <1>0, <1>5, <2>1 DEF Readers
    <2>3. PagesTyped' /\ Tries'
      BY <1>0, <1>3, <1>4, <2>2 DEF PagesTyped, Tries
    <2>4. reader.pages + 1 # None
      BY <1>5, PagingAssumption
    <2>5. Reading'
      BY <1>0, <1>3, <1>6, <1>7, <1>8, <1>9, <2>2, <2>4 DEF Reading
    <2> QED BY <2>3, <2>5 DEF PagesInv
  <1>10. CASE ~(page.after = None \/ reader.pages + 1 = listing.max_pages)
    <2>1. PICK cursor : cursor = Cursor(listing.of, page.after)
      OBVIOUS
    <2>2. reader' = [reader EXCEPT !.stage = "sent", !.cursor = cursor, !.pages = reader.pages + 1,
                                   !.answer = None, !.retry = 0]
      BY <1>1, <1>10, <2>1 DEF PageComes, NextCall
    <2>3. cursor \in Cursors /\ cursor \in Maybe(Cursors) /\ cursor.position = page.after
      <3>1. listing.of \in Orders
        BY <1>0, ListingFacts
      <3>2. cursor = [columns |-> listing.of.columns, position |-> page.after]
        BY <2>1 DEF Cursor
      <3>3. cursor \in Cursors /\ cursor.position = page.after
        BY <1>4, <1>10, <3>1, <3>2 DEF Cursors
      <3> QED BY <3>3, MaybeFacts
    <2>4. 0 \in 0..max_retries /\ None \in Maybe(Errors \cup Page)
      BY MaybeFacts, PagingAssumption
    <2>5. /\ reader' \in Readers /\ reader'.stage = "sent" /\ reader'.cursor = cursor
          /\ reader'.retry = 0
      BY <1>0, <1>5, <2>2, <2>3, <2>4 DEF Readers
    <2>6. PagesTyped' /\ Tries'
      BY <1>0, <1>3, <1>4, <2>5 DEF PagesTyped, Tries
    <2>7. Goes'
      BY <1>0, <1>3, <1>4, <1>10, <2>1, <2>5 DEF Goes
    <2>8. Decoded(reader.cursor)' \in {None, page.after}
      BY <2>3, <2>5 DEF Decoded
    <2>9. \A p \in steady' : p \in ToSet(read)'
                             \/ Past(Decoded(reader.cursor), p)'
      BY <1>0, <1>3, <1>8, <2>8, SameOrder DEF Past
    <2>10. Reading'
      BY <1>6, <1>7, <2>5, <2>7, <2>9 DEF Reading
    <2> QED BY <2>6, <2>10 DEF PagesInv
  <1> QED BY <1>9, <1>10

------------------------------------------------------------------------------
LEMMA PagesInit ==
    ASSUME PagingInit
    PROVE  PagesInv
  <1>1. /\ now = 0 /\ rows = {} /\ listing \in Listings /\ read = <<>> /\ steady = {} /\ failed = 0
        /\ reader = [stage |-> "idle", cursor |-> None, retry |-> 0, pages |-> 0, answer |-> None]
    BY DEF PagingInit, Idle
  <1>2. 0 \in 0..max_retries /\ None \in Maybe(Errors \cup Page) /\ None \in Maybe(Cursors)
    BY MaybeFacts, PagingAssumption
  <1>3. reader \in Readers /\ IsFiniteSet(rows) /\ read \in Seq(Places)
    BY <1>1, <1>2, FS_EmptySet DEF Readers
  <1>4. PagesTyped
    BY <1>1, <1>3 DEF PagesTyped
  <1>5. Tries
    BY <1>1 DEF Tries
  <1>6. Reading
    BY <1>1 DEF Reading, InOrder
  <1> QED BY <1>4, <1>5, <1>6 DEF PagesInv

LEMMA PagesNext ==
    ASSUME PagesInv, [PagingNext]_pagingVars
    PROVE  PagesInv'
  <1>1. CASE UNCHANGED pagingVars
    <2>1. UNCHANGED <<now, rows, free, listing, reader, read, steady, failed>>
      BY <1>1 DEF pagingVars
    <2>2. PagesTyped' /\ Tries'
      BY <2>1 DEF PagesInv, PagesTyped, Tries, SentAgain, Again, Retryable
    <2>3. (Goes <=> Goes') /\ (Strays <=> Strays') /\ InOrder' /\ steady' \subseteq Fitting'
      BY <2>1, SameOrder DEF PagesInv, Reading, Goes, Strays, InOrder, Fitting
    <2>4. Decoded(reader.cursor)' = Decoded(reader.cursor)
      BY <2>1 DEF Decoded
    <2>5. Follows(reader.answer) => Follows(reader.answer)'
      BY <2>1, <2>4, SameOrder DEF Follows
    <2>6. Reading'
      BY <2>1, <2>3, <2>4, <2>5, SameOrder DEF PagesInv, Reading
    <2> QED BY <2>2, <2>6 DEF PagesInv
  <1>2. CASE TableStep
    BY <1>2, TableNext
  <1>3. ASSUME NEW cursor \in {None, Elsewhere}, Begin(cursor) PROVE PagesInv'
    BY <1>3, BeginNext
  <1> QED BY <1>1, <1>2, <1>3, ListNext, SendAgainNext, PageComesNext, FailsNext
          DEF PagingNext, Reads, TableStep

THEOREM PagesHold ==
    PagingSpec => []PagesInv
  BY PagesInit, PagesNext, PTL DEF PagingSpec

\* page_of, the keyset of list, iterate: whatever is written, changed and removed between the
\* pages, and however often a page is read again, a reader of any listing, in pages of any
\* size, is given each row once, in order, and every row that fitted all the while.
THEOREM ReadsEachOnce ==
    PagingSpec => []EachOnce
  <1>1. PagesInv => EachOnce
    <2> SUFFICES ASSUME PagesInv, reader.stage = "ended",
                        listing.max_pages = None \/ reader.pages < listing.max_pages
                 PROVE  steady \subseteq ToSet(read)
      BY DEF PagesInv, Reading, EachOnce, NoneMissed
    <2>1. reader.pages \in Nat
      BY DEF PagesInv, PagesTyped, Readers
    <2> QED BY <2>1 DEF PagesInv, Reading
  <1> QED BY <1>1, PagesHold, PTL

\* send, _again, error_from_problem: for any number of retries, an error reaches the caller
\* once the call has failed max_retries + 1 times, or when no attempt is worth it.
THEOREM RaisesInTurn ==
    PagingSpec => []RaisedInTurn
  <1>1. PagesInv => RaisedInTurn
    BY NotWorthIt DEF PagesInv, Tries, RaisedInTurn
  <1> QED BY <1>1, PagesHold, PTL
==============================================================================
