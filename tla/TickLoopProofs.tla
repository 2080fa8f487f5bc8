--------------------------- MODULE TickLoopProofs ----------------------------
(***************************************************************************)
(* TickLoop for every tick, cooldown, threshold and age, and any number of *)
(* outages: the breaker backs off, no step is forgotten, and the probe     *)
(* tells a ticker that works from one that hangs.  Then ScheduleStore, for *)
(* any schedules, cadences, clocks and retry policy: nothing is fired      *)
(* twice over for a backlog, strikes are spaced, and no owed tick is lost. *)
(***************************************************************************)
EXTENDS TickLoop, ScheduleStore, WellFoundedInduction, TLAPS

Time == Nat \cup {None}

\* The state is of its types; TypeOK is what a run checks of it.
Sound ==
    /\ now \in 0..MaxTime /\ {database, disk, stop} \subseteq BOOLEAN
    /\ loop \in Loop
    /\ breaker \in [failures : Nat, opened_at : Time]
    /\ configured \in [{Me, Neighbour} -> HeartbeatFiles \cup {None}]
    /\ files \in [{Me, Neighbour} \cup HeartbeatFiles -> Time]
    /\ \A p \in DOMAIN files : files[p] # None => files[p] <= now
    /\ failing \in [count : Nat, at : Time]
    /\ whole \in Nat /\ trouble \in Nat

\* No clock that was read is ahead of the clock, nor a whole tick after the last that started.
Past == loop.at <= now /\ trouble <= now /\ whole <= loop.at

\* The loop is where it may be at this time.
Paced ==
    /\ loop.stage = "waits" => now <= loop.until /\ loop.until <= now + TICK_SECONDS
    /\ loop.stage = "works" => now <= loop.at + MaxTick

\* The breaker counts the failed ticks and opens at the last of them, which was before the
\* last trouble; a tick that goes on was allowed by it.
Counts ==
    /\ breaker.failures = failing.count
    /\ failing.count > 0 <=> failing.at # None
    /\ failing.count >= BREAKER_THRESHOLD => breaker.opened_at # None
    /\ breaker.opened_at # None => breaker.opened_at = failing.at /\ breaker.opened_at <= trouble
    /\ loop.stage = "works" => Allows(breaker, loop.at)

\* The last tick that was whole, or the last trouble.
Last == Max({whole, trouble})
Most == Max({BREAKER_COOLDOWN, MaxTick})

\* How long ago that is, at each stage of the loop.
Looked ==
    /\ loop.stage = "turns" => now <= Last + Most
    /\ loop.stage = "waits" => loop.until <= Last + Most + TICK_SECONDS
    /\ loop.stage = "comes" => now <= Last + Most + TICK_SECONDS
    /\ loop.stage = "works" => loop.at <= Last + Most + TICK_SECONDS

\* The last beat into the ticker's file, at each stage of the loop; while the ticker is in a
\* tick, the last was before the tick, unless the other ticker beats into the same file.
Beaten ==
    LET beat == files[PathFor(Me)]
    IN  beat # None =>
          /\ loop.stage \in {"works", "turns", "hangs"} /\ ~Shared => beat <= loop.at
          /\ blind = None =>
                /\ loop.stage = "waits" => loop.until <= beat + TICK_SECONDS
                /\ loop.stage = "comes" => now <= beat + TICK_SECONDS
                /\ loop.stage \in {"works", "turns", "hangs"} => loop.at <= beat + TICK_SECONDS

------------------------------------------------------------------------------
LEMMA MaxOfTwo ==
    ASSUME NEW a \in Nat, NEW b \in Nat
    PROVE  Max({a, b}) = IF a >= b THEN a ELSE b
<1>1. \E x \in {a, b} : \A y \in {a, b} : x >= y
  <2>1. CASE a >= b
    BY <2>1
  <2>2. CASE ~(a >= b)
    BY <2>2
  <2> QED
    BY <2>1, <2>2
<1>2. Max({a, b}) \in {a, b} /\ \A y \in {a, b} : Max({a, b}) >= y
  BY <1>1 DEF Max
<1> QED
  BY <1>2

LEMMA LastFacts ==
    ASSUME whole \in Nat, trouble \in Nat
    PROVE  Last \in Nat /\ whole <= Last /\ trouble <= Last
  BY MaxOfTwo DEF Last

\* Time does not take back what was looked at.
LEMMA LastGrows ==
    ASSUME whole \in Nat, trouble \in Nat, whole' \in Nat, trouble' \in Nat,
           whole <= whole', trouble <= trouble'
    PROVE  Last \in Nat /\ Last' \in Nat /\ Last <= Last' /\ whole' <= Last' /\ trouble' <= Last'
  BY MaxOfTwo DEF Last

LEMMA MostFacts ==
    Most \in Nat /\ BREAKER_COOLDOWN <= Most /\ MaxTick <= Most
  BY MaxOfTwo, TickLoopAssumption DEF Most

\* The ticker's file, which the other writes only if both are configured with it.
LEMMA OwnFile ==
    ASSUME configured \in [{Me, Neighbour} -> HeartbeatFiles \cup {None}]
    PROVE  /\ PathFor(Me) \in {Me, Neighbour} \cup HeartbeatFiles
           /\ PathFor(Neighbour) \in {Me, Neighbour} \cup HeartbeatFiles
           /\ PathFor(Me) = PathFor(Neighbour) => Shared
           /\ configured[Me] # None => PathFor(Me) = configured[Me]
<1>1. configured[Me] \in HeartbeatFiles \cup {None} /\ configured[Neighbour] \in HeartbeatFiles \cup {None}
  OBVIOUS
<1>2. Me # Neighbour /\ Me \notin HeartbeatFiles /\ Neighbour \notin HeartbeatFiles
  BY TickLoopAssumption
<1> QED
  BY <1>1, <1>2 DEF PathFor, Shared

LEMMA StagesMoved ==
    ASSUME loop \in Loop,
           NEW stage \in {"waits", "comes", "works", "turns", "hangs", "stopped"},
           loop' = [loop EXCEPT !.stage = stage]
    PROVE  loop' \in Loop /\ loop'.stage = stage /\ loop'.at = loop.at /\ loop'.until = loop.until
  BY DEF Loop

LEMMA StepCount == Len(Steps) \in Nat \ {0}
  BY DEF Steps

\* The other updates of the loop.
LEMMA LoopMoved ==
    ASSUME loop \in Loop, NEW n \in Nat
    PROVE  /\ LET l == [loop EXCEPT !.stage = "waits", !.until = n]
              IN  l \in Loop /\ l.stage = "waits" /\ l.at = loop.at /\ l.until = n
           /\ LET l == [loop EXCEPT !.stage = "works", !.step = 1, !.at = n]
              IN  l \in Loop /\ l.stage = "works" /\ l.at = n /\ l.until = loop.until
           /\ LET l == [loop EXCEPT !.stage = "turns", !.at = n]
              IN  l \in Loop /\ l.stage = "turns" /\ l.at = n /\ l.until = loop.until
           /\ n \in 1..Len(Steps) =>
                 LET l == [loop EXCEPT !.step = n]
                 IN  /\ l \in Loop /\ l.stage = loop.stage /\ l.at = loop.at
                     /\ l.until = loop.until
<1>1. 1 \in 1..Len(Steps)
  BY StepCount
<1>2. loop \in [stage : {"waits", "comes", "works", "turns", "hangs", "stopped"},
                step  : 1..Len(Steps), at : Nat, until : Nat]
  BY DEF Loop
<1> QED
  BY <1>1, <1>2 DEF Loop

LEMMA LoopFacts ==
    ASSUME loop \in Loop
    PROVE  loop.at \in Nat /\ loop.until \in Nat /\ loop.step \in 1..Len(Steps)
           /\ loop.stage \in {"waits", "comes", "works", "turns", "hangs", "stopped"}
  BY DEF Loop

LEMMA FailureRecorded ==
    ASSUME NEW b \in [failures : Nat, opened_at : Time], NEW t \in Nat
    PROVE  /\ RecordFailure(b, t) \in [failures : Nat, opened_at : Time]
           /\ RecordFailure(b, t).failures = b.failures + 1
           /\ RecordFailure(b, t).opened_at # None => RecordFailure(b, t).opened_at = t
           /\ b.failures + 1 >= BREAKER_THRESHOLD => RecordFailure(b, t).opened_at = t
  BY DEF RecordFailure, Time

LEMMA SoundInit == Init => Sound /\ Past /\ Paced /\ Counts /\ Looked /\ Beaten
<1> SUFFICES ASSUME Init PROVE Sound /\ Past /\ Paced /\ Counts /\ Looked /\ Beaten
  OBVIOUS
<1>1. Sound
  <2>1. loop \in Loop
    BY StepCount DEF Init, Loop
  <2>2. breaker \in [failures : Nat, opened_at : Time] /\ failing \in [count : Nat, at : Time]
    BY DEF Init, Closed, Time
  <2>3. {database, disk, stop} \subseteq BOOLEAN
    BY DEF Init
  <2>4. files \in [{Me, Neighbour} \cup HeartbeatFiles -> Time]
       /\ (\A p \in DOMAIN files : files[p] = None)
       /\ configured \in [{Me, Neighbour} -> HeartbeatFiles \cup {None}]
    BY DEF Init, Time
  <2>5. now \in 0..MaxTime /\ whole \in Nat /\ trouble \in Nat
    BY TickLoopAssumption DEF Init
  <2> QED
    BY <2>1, <2>2, <2>3, <2>4, <2>5 DEF Sound
<1>2. Past /\ Paced
  BY DEF Init, Past, Paced
<1>3. Counts
  BY TickLoopAssumption DEF Init, Counts, Closed
<1>4. Looked
  BY LastFacts, MostFacts, TickLoopAssumption DEF Init, Looked
<1>5. Beaten
  BY OwnFile DEF Init, Beaten
<1> QED
  BY <1>1, <1>2, <1>3, <1>4, <1>5

Inv == Sound /\ Past /\ Paced /\ Counts /\ Looked /\ Beaten

\* The numbers a step computes with.
LEMMA Numbers ==
    ASSUME Inv
    PROVE  /\ now \in Nat /\ loop.at \in Nat /\ loop.until \in Nat /\ whole \in Nat
           /\ trouble \in Nat /\ Last \in Nat /\ whole <= Last /\ trouble <= Last
           /\ Most \in Nat /\ MaxTick <= Most /\ BREAKER_COOLDOWN <= Most
           /\ TICK_SECONDS \in Nat /\ MaxTick \in Nat /\ BREAKER_COOLDOWN \in Nat
           /\ None \notin Nat
           /\ files[PathFor(Me)] \in Time
           /\ files[PathFor(Me)] # None => files[PathFor(Me)] \in Nat /\ files[PathFor(Me)] <= now
           /\ breaker.failures \in Nat /\ breaker.opened_at \in Time
           /\ failing.count \in Nat /\ failing.at \in Time
<1>1. now \in Nat /\ whole \in Nat /\ trouble \in Nat
  BY TickLoopAssumption DEF Inv, Sound
<1>2. loop.at \in Nat /\ loop.until \in Nat
  BY LoopFacts DEF Inv, Sound
<1>3. files[PathFor(Me)] \in Time /\ (files[PathFor(Me)] # None => files[PathFor(Me)] <= now)
  BY OwnFile DEF Inv, Sound
<1>4. /\ breaker.failures \in Nat /\ breaker.opened_at \in Time
      /\ failing.count \in Nat /\ failing.at \in Time
  BY DEF Inv, Sound
<1> QED
  BY <1>1, <1>2, <1>3, <1>4, LastFacts, MostFacts, TickLoopAssumption DEF Time

\* Steps that change only the stage of the loop.
LEMMA StagesKeep ==
    ASSUME Inv, StepHangs \/ Wakes
    PROVE  Inv'
<1> USE Numbers
<1>0. UNCHANGED <<now, database, disk, stop, breaker, configured, files, whole, trouble, failing, blind>>
  BY DEF StepHangs, Wakes
<1>1. PICK stage \in {"hangs", "stopped", "comes"} :
         /\ loop' = [loop EXCEPT !.stage = stage]
         /\ stage = "hangs" => loop.stage = "works"
         /\ stage = "comes" => loop.stage = "waits" /\ now = loop.until
  <2>2. CASE StepHangs
    BY <2>2 DEF StepHangs
  <2>3. CASE Wakes /\ stop
    BY <2>3 DEF Wakes
  <2>4. CASE Wakes /\ ~stop
    BY <2>4 DEF Wakes
  <2> QED
    BY <2>2, <2>3, <2>4
<1>2. loop' \in Loop /\ loop'.stage = stage /\ loop'.at = loop.at /\ loop'.until = loop.until
  BY <1>1, StagesMoved DEF Inv, Sound
<1>3. Sound'
  BY <1>0, <1>2 DEF Inv, Sound
<1>4. Past' /\ Paced'
  BY <1>0, <1>1, <1>2 DEF Inv, Past, Paced
<1>5. Counts'
  BY <1>0, <1>1, <1>2 DEF Inv, Counts
<1>6. Looked'
  <2>1. Last' = Last
    BY <1>0 DEF Last
  <2> QED
    BY <1>0, <1>1, <1>2, <2>1 DEF Inv, Looked
<1>7. Beaten'
  BY <1>0, <1>1, <1>2 DEF Inv, Beaten, PathFor, Shared
<1> QED
  BY <1>3, <1>4, <1>5, <1>6, <1>7 DEF Inv

LEMMA SkippedKeeps ==
    ASSUME Inv, TickSkipped
    PROVE  Inv'
<1> USE Numbers
<1>0. UNCHANGED <<now, database, disk, stop, breaker, configured, files, whole, trouble, failing, blind>>
      /\ loop.stage = "comes" /\ ~Allows(breaker, now)
  BY DEF TickSkipped
<1>1. loop' \in Loop /\ loop'.stage = "turns" /\ loop'.at = now /\ loop'.until = loop.until
  <2>1. loop' = [loop EXCEPT !.stage = "turns", !.at = now]
    BY DEF TickSkipped
  <2> QED
    BY <2>1, LoopMoved DEF Inv, Sound
<1>2. Sound'
  BY <1>0, <1>1 DEF Inv, Sound
<1>3. Past' /\ Paced'
  BY <1>0, <1>1 DEF Inv, Past, Paced
<1>4. Counts'
  BY <1>0, <1>1 DEF Inv, Counts
<1>5. Looked'
  <2>1. Last' = Last
    BY <1>0 DEF Last
  <2>2. now <= Last + Most
    BY <1>0 DEF Inv, Counts, Allows, Time
  <2> QED
    BY <1>0, <1>1, <2>1, <2>2 DEF Looked
<1>6. Beaten'
  BY <1>0, <1>1 DEF Inv, Beaten, PathFor, Shared
<1> QED
  BY <1>2, <1>3, <1>4, <1>5, <1>6 DEF Inv

LEMMA StartKeeps ==
    ASSUME Inv, TickStarts
    PROVE  Inv'
<1> USE Numbers
<1>0. UNCHANGED <<now, database, disk, stop, breaker, configured, files, whole, trouble, failing, blind>>
      /\ loop.stage = "comes" /\ Allows(breaker, now)
  BY DEF TickStarts
<1>1. loop' \in Loop /\ loop'.stage = "works" /\ loop'.at = now /\ loop'.until = loop.until
  <2>1. loop' = [loop EXCEPT !.stage = "works", !.step = 1, !.at = now]
    BY DEF TickStarts
  <2> QED
    BY <2>1, LoopMoved DEF Inv, Sound
<1>2. Sound'
  BY <1>0, <1>1 DEF Inv, Sound
<1>3. Past' /\ Paced'
  BY <1>0, <1>1 DEF Inv, Past, Paced
<1>4. Counts'
  BY <1>0, <1>1 DEF Inv, Counts
<1>5. Looked'
  <2>1. Last' = Last
    BY <1>0 DEF Last
  <2> QED
    BY <1>0, <1>1, <2>1 DEF Inv, Looked
<1>6. Beaten'
  BY <1>0, <1>1 DEF Inv, Beaten, PathFor, Shared
<1> QED
  BY <1>2, <1>3, <1>4, <1>5, <1>6 DEF Inv

LEMMA DoneKeeps ==
    ASSUME Inv, StepDone
    PROVE  Inv'
<1> USE Numbers
<1>0. UNCHANGED <<now, database, disk, stop, configured, files, trouble, blind>> /\ loop.stage = "works"
  BY DEF StepDone
<1>1. CASE loop.step < Len(Steps)
  <2>1. UNCHANGED <<breaker, whole, failing>> /\ loop' = [loop EXCEPT !.step = @ + 1]
    BY <1>1 DEF StepDone
  <2>2. loop' \in Loop /\ loop'.stage = "works" /\ loop'.at = loop.at /\ loop'.until = loop.until
    <3>1. loop.step \in Nat /\ loop.step + 1 \in 1..Len(Steps) /\ loop.step + 1 \in Nat
      <4>1. loop.step \in 1..Len(Steps) /\ Len(Steps) \in Nat
        BY StepCount, LoopFacts DEF Inv, Sound
      <4>2. \A n \in Nat : \A s \in 1..n : s < n => s \in Nat /\ s + 1 \in 1..n /\ s + 1 \in Nat
        OBVIOUS
      <4> QED
        BY <1>1, <4>1, <4>2, Zenon
    <3>2. loop' = [loop EXCEPT !.step = loop.step + 1]
      BY <2>1 DEF Inv, Sound, Loop
    <3> QED
      BY <1>0, <3>1, <3>2, LoopMoved DEF Inv, Sound
  <2>3. Sound'
    BY <1>0, <2>1, <2>2 DEF Inv, Sound
  <2>4. Past' /\ Paced' /\ Counts'
    BY <1>0, <2>1, <2>2 DEF Inv, Past, Paced, Counts
  <2>5. Looked' /\ Beaten'
    BY <1>0, <2>1, <2>2 DEF Inv, Looked, Beaten, PathFor, Shared, Last
  <2> QED
    BY <2>3, <2>4, <2>5 DEF Inv
<1>2. CASE ~(loop.step < Len(Steps))
  <2>1. /\ loop' = [loop EXCEPT !.stage = "turns"] /\ breaker' = Closed /\ whole' = loop.at
        /\ failing' = [count |-> 0, at |-> None]
    BY <1>2 DEF StepDone
  <2>2. loop' \in Loop /\ loop'.stage = "turns" /\ loop'.at = loop.at /\ loop'.until = loop.until
    BY <2>1, StagesMoved DEF Inv, Sound
  <2>3. /\ breaker' \in [failures : Nat, opened_at : Time] /\ failing' \in [count : Nat, at : Time]
        /\ breaker'.failures = 0 /\ breaker'.opened_at = None /\ failing'.count = 0
        /\ failing'.at = None
    BY <2>1 DEF Closed, Time
  <2>4. Sound'
    BY <1>0, <2>1, <2>2, <2>3 DEF Inv, Sound
  <2>5. Past' /\ Paced'
    BY <1>0, <2>1, <2>2 DEF Inv, Past, Paced
  <2>6. Counts'
    BY <2>2, <2>3, TickLoopAssumption DEF Counts
  <2>7. Looked'
    <3>1. whole <= whole' /\ trouble <= trouble'
      BY <1>0, <2>1 DEF Inv, Past
    <3>2. Last' \in Nat /\ whole' <= Last'
      BY <3>1, <1>0, <2>1, LastGrows
    <3> QED
      BY <1>0, <2>1, <2>2, <3>2 DEF Inv, Looked, Paced, Past
  <2>8. Beaten'
    BY <1>0, <2>2 DEF Inv, Beaten, PathFor, Shared, Paced
  <2> QED
    BY <2>4, <2>5, <2>6, <2>7, <2>8 DEF Inv
<1> QED
  BY <1>1, <1>2

\* A tick that fails or crashes: what is not whole is trouble.
LEMMA FailsKeeps ==
    ASSUME Inv, StepFails \/ StepCrashes
    PROVE  Inv'
<1> USE Numbers
<1>0. /\ UNCHANGED <<now, database, disk, stop, configured, files, whole, blind>> /\ loop.stage = "works"
      /\ trouble' = now /\ loop' = [loop EXCEPT !.stage = "turns"]
  BY DEF StepFails, StepCrashes
<1>1. loop' \in Loop /\ loop'.stage = "turns" /\ loop'.at = loop.at /\ loop'.until = loop.until
  BY <1>0, StagesMoved DEF Inv, Sound
<1>2. Past' /\ Paced'
  BY <1>0, <1>1 DEF Inv, Past, Paced
<1>3. Looked'
  <2>1. trouble <= trouble'
    BY <1>0 DEF Inv, Past
  <2>2. Last' \in Nat /\ trouble' <= Last'
    BY <2>1, <1>0, LastGrows
  <2> QED
    BY <1>0, <1>1, <2>2 DEF Looked
<1>4. Beaten'
  BY <1>0, <1>1 DEF Inv, Beaten, PathFor, Shared, Paced
<1>5. /\ breaker' \in [failures : Nat, opened_at : Time]
      /\ failing' \in [count : Nat, at : Time] /\ Counts'
  <2>1. CASE StepCrashes
    <3>1. breaker' = breaker /\ failing' = failing /\ trouble <= trouble'
      BY <2>1, <1>0 DEF StepCrashes, Inv, Past
    <3>2. breaker'.opened_at # None => breaker'.opened_at <= trouble'
      BY <3>1, <1>0 DEF Inv, Counts, Time
    <3> QED
      BY <3>1, <3>2, <1>0, <1>1 DEF Inv, Sound, Counts
  <2>2. CASE StepFails
    <3>1. /\ breaker' = RecordFailure(breaker, loop.at)
          /\ failing' = [count |-> failing.count + 1, at |-> loop.at]
      BY <2>2 DEF StepFails
    <3>2. /\ failing' \in [count : Nat, at : Time] /\ failing'.count = failing.count + 1
          /\ failing'.at = loop.at
      BY <3>1 DEF Time
    <3>3. /\ breaker' \in [failures : Nat, opened_at : Time]
          /\ breaker'.failures = breaker.failures + 1
          /\ breaker'.opened_at # None => breaker'.opened_at = loop.at
          /\ breaker.failures + 1 >= BREAKER_THRESHOLD => breaker'.opened_at = loop.at
      BY <3>1, FailureRecorded DEF Inv, Sound
    <3>4. breaker.failures = failing.count /\ loop.at <= trouble' /\ loop.at # None
      BY <1>0 DEF Inv, Counts, Past
    <3>5. Counts'
      BY <1>1, <3>2, <3>3, <3>4 DEF Counts
    <3> QED
      BY <3>2, <3>3, <3>5
  <2> QED
    BY <2>1, <2>2
<1>6. Sound'
  BY <1>0, <1>1, <1>5 DEF Inv, Sound
<1> QED
  BY <1>2, <1>3, <1>4, <1>5, <1>6 DEF Inv

LEMMA BeatsKeeps ==
    ASSUME Inv, Beats
    PROVE  Inv'
<1> USE Numbers
<1>0. /\ UNCHANGED <<now, database, disk, stop, breaker, configured, whole, trouble, failing>>
      /\ loop.stage = "turns"
  BY DEF Beats
<1>1. /\ loop' \in Loop /\ loop'.stage = "waits" /\ loop'.at = loop.at
      /\ loop'.until = now + TICK_SECONDS
  <2>1. loop' = [loop EXCEPT !.stage = "waits", !.until = now + TICK_SECONDS]
        /\ now + TICK_SECONDS \in Nat
    BY DEF Beats
  <2> QED
    BY <2>1, LoopMoved DEF Inv, Sound
<1>2. \/ files' = files /\ blind' # None
      \/ files' = [files EXCEPT ![PathFor(Me)] = now]
  <2>1. CASE disk
    BY <2>1 DEF Beats
  <2>2. CASE ~disk
    BY <2>2 DEF Beats
  <2> QED
    BY <2>1, <2>2
<1>3. /\ files' \in [{Me, Neighbour} \cup HeartbeatFiles -> Time]
      /\ \A p \in DOMAIN files' : files'[p] # None => files'[p] <= now
      /\ blind' = None => files'[PathFor(Me)] = now
  BY <1>2, OwnFile DEF Inv, Sound, Time
<1>4. Sound'
  BY <1>0, <1>1, <1>3 DEF Inv, Sound
<1>5. Past' /\ Paced'
  BY <1>0, <1>1, TickLoopAssumption DEF Inv, Past, Paced
<1>6. Counts'
  BY <1>0, <1>1 DEF Inv, Counts
<1>7. Looked'
  BY <1>0, <1>1 DEF Inv, Looked, Last
<1>8. Beaten'
  BY <1>0, <1>1, <1>3 DEF Beaten, PathFor, Shared
<1> QED
  BY <1>4, <1>5, <1>6, <1>7, <1>8 DEF Inv

LEMMA EnvironmentKeeps ==
    ASSUME Inv, NeighbourBeats \/ DatabaseGoes \/ DatabaseComesBack \/ DiskFills \/ DiskEmpties \/ Stop
    PROVE  Inv'
<1> USE Numbers
<1>0. UNCHANGED <<now, loop, breaker, configured, whole, failing, blind>>
  BY DEF NeighbourBeats, DatabaseGoes, DatabaseComesBack, DiskFills, DiskEmpties, Stop
<1>1. trouble' \in {trouble, now} /\ trouble <= trouble'
  BY DEF NeighbourBeats, DatabaseGoes, DatabaseComesBack, DiskFills, DiskEmpties, Stop, Inv, Past
<1>2. files' = files \/ files' = [files EXCEPT ![PathFor(Neighbour)] = now]
  BY DEF NeighbourBeats, DatabaseGoes, DatabaseComesBack, DiskFills, DiskEmpties, Stop
<1>3. /\ files' \in [{Me, Neighbour} \cup HeartbeatFiles -> Time]
      /\ \A p \in DOMAIN files' : files'[p] # None => files'[p] <= now
      /\ \/ files'[PathFor(Me)] = files[PathFor(Me)]
         \/ files'[PathFor(Me)] = now /\ Shared
  <2>1. files \in [{Me, Neighbour} \cup HeartbeatFiles -> Time] /\ now \in Time
        /\ \A p \in DOMAIN files : files[p] # None => files[p] <= now
    BY DEF Inv, Sound, Time
  <2>2. /\ PathFor(Me) \in {Me, Neighbour} \cup HeartbeatFiles
        /\ PathFor(Neighbour) \in {Me, Neighbour} \cup HeartbeatFiles
        /\ PathFor(Me) = PathFor(Neighbour) => Shared
    BY OwnFile DEF Inv, Sound
  <2> QED
    BY <1>2, <2>1, <2>2
<1>4. {database, disk, stop}' \subseteq BOOLEAN
  <2>1. {database, disk, stop} \subseteq BOOLEAN
    BY DEF Inv, Sound
  <2>2. /\ database' = database \/ database' = TRUE \/ database' = FALSE
        /\ disk' = disk \/ disk' = TRUE \/ disk' = FALSE
        /\ stop' = stop \/ stop' = TRUE
    BY DEF NeighbourBeats, DatabaseGoes, DatabaseComesBack, DiskFills, DiskEmpties, Stop
  <2> QED
    BY <2>1, <2>2, Zenon
<1>5. Sound'
  BY <1>0, <1>1, <1>3, <1>4 DEF Inv, Sound
<1>6. Past' /\ Paced'
  BY <1>0, <1>1 DEF Inv, Past, Paced
<1>7. Counts'
  <2>1. breaker.opened_at # None => breaker.opened_at <= trouble'
    BY <1>1 DEF Inv, Counts, Time
  <2> QED
    BY <1>0, <2>1 DEF Inv, Counts
<1>8. Looked'
  <2>1. Last' \in Nat /\ Last <= Last'
    BY <1>0, <1>1, LastGrows
  <2> QED
    BY <1>0, <2>1, TickLoopAssumption DEF Inv, Looked
<1>9. Beaten'
  <2>1. PathFor(Me)' = PathFor(Me) /\ Shared' = Shared
    BY <1>0 DEF PathFor, Shared
  <2>2. CASE files'[PathFor(Me)] = files[PathFor(Me)]
    BY <1>0, <2>1, <2>2 DEF Inv, Beaten
  <2>3. CASE files'[PathFor(Me)] = now /\ Shared
    BY <1>0, <2>1, <2>3 DEF Inv, Beaten, Past, Paced
  <2> QED
    BY <1>3, <2>2, <2>3
<1> QED
  BY <1>5, <1>6, <1>7, <1>8, <1>9 DEF Inv

LEMMA PassesKeeps ==
    ASSUME Inv, Passes
    PROVE  Inv'
<1> USE Numbers
<1>0. /\ UNCHANGED <<database, disk, stop, loop, breaker, configured, files, whole, trouble, failing, blind>>
      /\ now' = now + 1 /\ now < MaxTime
      /\ loop.stage \notin {"comes", "turns"}
      /\ loop.stage = "waits" => now < loop.until
      /\ loop.stage = "works" => now < loop.at + MaxTick
  BY DEF Passes
<1>1. \A p \in DOMAIN files : files[p] # None => files[p] <= now + 1
  BY DEF Inv, Sound, Time
<1>2. Sound'
  BY <1>0, <1>1, TickLoopAssumption DEF Inv, Sound
<1>3. Past' /\ Paced'
  BY <1>0, TickLoopAssumption DEF Inv, Past, Paced
<1>4. Counts'
  BY <1>0 DEF Inv, Counts
<1>5. Looked'
  BY <1>0 DEF Inv, Looked, Last
<1>6. Beaten'
  BY <1>0 DEF Inv, Beaten, PathFor, Shared
<1> QED
  BY <1>2, <1>3, <1>4, <1>5, <1>6 DEF Inv

LEMMA InvNext ==
    ASSUME Inv, [Next]_vars
    PROVE  Inv'
<1>1. CASE UNCHANGED vars
  <2>1. Sound' /\ Past' /\ Paced' /\ Counts'
    BY <1>1 DEF vars, Inv, Sound, Past, Paced, Counts
  <2>2. Looked' /\ Beaten'
    BY <1>1 DEF vars, Inv, Looked, Last, Beaten, PathFor, Shared
  <2> QED
    BY <2>1, <2>2 DEF Inv
<1> QED
  BY <1>1, StagesKeep, SkippedKeeps, StartKeeps, DoneKeeps, FailsKeeps, BeatsKeeps, EnvironmentKeeps, PassesKeeps
  DEF Next, Turns

LEMMA InvAlways == Spec => []Inv
<1>1. Init => Inv
  BY SoundInit DEF Inv
<1> QED
  BY <1>1, InvNext, PTL DEF Spec

------------------------------------------------------------------------------
\* A database that is down is left alone for BREAKER_COOLDOWN from the start of the last
\* failed tick once BREAKER_THRESHOLD ticks failed, for every threshold and cooldown (Breaker).
THEOREM BreakerBacksOff == Spec => []BackedOff
<1>1. Inv => BackedOff
  <2> SUFFICES ASSUME Inv, loop.stage = "works", failing.count >= BREAKER_THRESHOLD
               PROVE  loop.at - failing.at >= BREAKER_COOLDOWN
    BY DEF BackedOff
  <2>1. breaker.opened_at # None /\ breaker.opened_at = failing.at /\ Allows(breaker, loop.at)
    BY DEF Inv, Counts
  <2> QED
    BY <2>1 DEF Allows
<1> QED
  BY <1>1, InvAlways, PTL

\* Every step is looked at again a cooldown (or a tick), a wait and a tick after the last
\* trouble at the latest, however long the outages were and however they fell on the ticks.
THEOREM TickerCatchesUp == Spec => []CatchesUp
<1>1. Inv => CatchesUp
  <2> SUFFICES ASSUME Inv, Working
               PROVE  now - Last <= Most + TICK_SECONDS + MaxTick
    BY DEF CatchesUp, Last, Most
  <2> USE Numbers
  <2>1. loop.stage \in {"waits", "comes", "works", "turns"}
    BY DEF Working
  <2> QED
    BY <2>1 DEF Inv, Looked, Paced
<1> QED
  BY <1>1, InvAlways, PTL

\* The probe takes a ticker that comes round for alive, for every age, wait and tick, and one
\* whose tick takes longer than HEARTBEAT_MAX_AGE_SECONDS for dead, unless another ticker beats
\* into the same configured file (heartbeat.py).
THEOREM ProbeIsRight == Spec => []ProbeTells
<1>1. Inv => SeenAlive
  <2> SUFFICES ASSUME Inv, loop.stage # "stopped", blind = None, configured[Me] # None,
                      files[PathFor(Me)] # None,
                      TickAge <= HEARTBEAT_MAX_AGE_SECONDS - TICK_SECONDS
               PROVE  Probe(Me)
    BY DEF SeenAlive
  <2> USE Numbers, TickLoopAssumption
  <2>1. now <= files[PathFor(Me)] + TICK_SECONDS + TickAge
    <3>1. loop.stage \in {"waits", "comes", "works", "turns", "hangs"}
      BY LoopFacts DEF Inv, Sound
    <3> QED
      BY <3>1 DEF Inv, Beaten, Paced, TickAge
  <2>2. PathFor(Me) = configured[Me]
    BY OwnFile DEF Inv, Sound
  <2>3. now - files[PathFor(Me)] <= HEARTBEAT_MAX_AGE_SECONDS
    <3>1. TickAge \in Int
      BY DEF TickAge
    <3> QED
      BY <2>1, <3>1
  <2> QED
    BY <2>2, <2>3 DEF Probe, Alive
<1>2. Inv => SeenHung
  <2> SUFFICES ASSUME Inv, TickAge > HEARTBEAT_MAX_AGE_SECONDS, ~Shared, Probe(Me)
               PROVE  FALSE
    BY DEF SeenHung
  <2> USE Numbers, TickLoopAssumption
  <2>1. loop.stage \in {"works", "turns", "hangs"} /\ now - loop.at > HEARTBEAT_MAX_AGE_SECONDS
    BY DEF TickAge
  <2>2. files[PathFor(Me)] # None /\ now - files[PathFor(Me)] <= HEARTBEAT_MAX_AGE_SECONDS
    BY OwnFile DEF Probe, Alive, Inv, Sound
  <2>3. files[PathFor(Me)] <= loop.at
    BY <2>1, <2>2 DEF Inv, Beaten
  <2> QED
    BY <2>1, <2>2, <2>3
<1> QED
  BY <1>1, <1>2, InvAlways, PTL DEF ProbeTells

------------------------------------------------------------------------------
(***************************************************************************)
(* The schedules a tick fires.  A caller's update computes what it writes  *)
(* from a row it read without a lock, so the invariant says of an update   *)
(* in progress what its columns will make of the row as it is by then.     *)
(***************************************************************************)
Wait(failures) == Backoff(FIRE_RETRY_BASE, failures, FIRE_RETRY_CAP)
After(row)     == NextFireAt(row, row.next_fire_at)

\* A tick that lies past t, or none.
IsPast(x, t) == x = None \/ (x \in Nat /\ x > t)

\* The columns an update may write.
Settable == {"cadence", "timezone", "enabled", "next_fire_at", "consecutive_failures",
             "retry_after"}

SetsTyped(sets) ==
    /\ DOMAIN sets \subseteq Settable
    /\ "cadence" \in DOMAIN sets => sets.cadence \in Cadences
    /\ "timezone" \in DOMAIN sets => sets.timezone \in Timezones
    /\ "enabled" \in DOMAIN sets => sets.enabled \in BOOLEAN
    /\ "next_fire_at" \in DOMAIN sets => sets.next_fire_at \in Nat \cup {None}
    /\ "consecutive_failures" \in DOMAIN sets => sets.consecutive_failures \in Nat
    /\ "retry_after" \in DOMAIN sets => sets.retry_after \in Nat \cup {None}

Retimes(sets) == "cadence" \in DOMAIN sets \/ "timezone" \in DOMAIN sets
Resumes(sets) == "enabled" \in DOMAIN sets /\ sets.enabled

\* A row armed past its last fire, honoured at h, and past its last resumption, at r.
HonestRow(row, h, r) ==
    row.next_fire_at # None =>
        /\ h < row.next_fire_at + MaxDelay
        /\ After(row) # None => r < After(row) + MaxDelay

\* A row that waits out the backoff of its last failure, at f.
SpacedRow(row, f) ==
    row.enabled /\ row.consecutive_failures > 0 =>
        /\ row.retry_after # None
        /\ f + Wait(row.consecutive_failures) <= row.retry_after + MaxDelay

\* The columns read at "at" still fit the row.
Fits(sets, at, row, r) ==
    /\ "cadence" \in DOMAIN sets => sets.cadence # row.cadence
    /\ "timezone" \in DOMAIN sets => sets.timezone # row.timezone
    /\ Resumes(sets) => ~row.enabled /\ Flushed(row, sets).consecutive_failures = 0
    /\ "next_fire_at" \notin DOMAIN sets /\ row.next_fire_at # None =>
          /\ Retimes(sets) => r < row.next_fire_at + MaxDelay
          /\ Resumes(sets) => IsPast(After(Flushed(row, sets)), at)

Columns(sets, at) ==
    /\ SetsTyped(sets)
    /\ "next_fire_at" \in DOMAIN sets =>
          IsPast(sets.next_fire_at, at) /\ (Retimes(sets) \/ Resumes(sets))
    /\ ~Resumes(sets) => "consecutive_failures" \notin DOMAIN sets
                         /\ "retry_after" \notin DOMAIN sets

------------------------------------------------------------------------------
LEMMA Least ==
    ASSUME NEW S \in SUBSET Nat, S # {}
    PROVE  \E m \in S : \A k \in S : m <= k
  <1>1. IsWellFoundedOn(OpToRel(<, Nat), Nat)
    BY NatLessThanWellFounded
  <1>2. PICK m \in S : \A k \in S : ~(<<k, m>> \in OpToRel(<, Nat))
    BY <1>1, WFMin
  <1>3. ASSUME NEW k \in S PROVE m <= k
    <2>1. k \in Nat /\ m \in Nat
      OBVIOUS
    <2>2. ~(k < m)
      BY <1>2, <2>1 DEF OpToRel
    <2> QED BY <2>1, <2>2
  <1> QED BY <1>3

LEMMA NextIsPast ==
    ASSUME NEW row,
           row.cadence \in Cadences, row.timezone \in Timezones, NEW t \in Nat
    PROVE  IsPast(NextFireAt(row, t), t)
  <1> DEFINE later == {o \in Occurrences[<<row.cadence, row.timezone>>] : o > t}
  <1>1. Occurrences[<<row.cadence, row.timezone>>] \subseteq Nat
    <2>1. Occurrences \in [Cadences \X Timezones -> SUBSET Nat]
      BY ScheduleAssumption
    <2>2. <<row.cadence, row.timezone>> \in Cadences \X Timezones
      OBVIOUS
    <2> QED BY <2>1, <2>2
  <1>2. later \in SUBSET Nat
    BY <1>1
  <1>3. CASE later = {}
    BY <1>3 DEF NextFireAt, IsPast
  <1>4. CASE later # {}
    <2>1. \E m \in later : \A k \in later : m <= k
      BY <1>2, <1>4, Least
    <2>2. (CHOOSE o \in later : \A p \in later : o <= p) \in later
      BY <2>1
    <2>3. NextFireAt(row, t) = CHOOSE o \in later : \A p \in later : o <= p
      BY <1>4 DEF NextFireAt
    <2> QED BY <2>2, <2>3, <1>2 DEF IsPast
  <1> QED BY <1>3, <1>4

\* What comes next depends on the cadence and its zone alone.
LEMMA NextOfSame ==
    ASSUME NEW row, NEW new, new.cadence = row.cadence, new.timezone = row.timezone,
           new.next_fire_at = row.next_fire_at
    PROVE  After(new) = After(row)
  BY DEF After, NextFireAt

LEMMA WaitIsNat ==
    ASSUME NEW n \in Nat
    PROVE  Wait(n) \in Nat
  <1>1. FIRE_RETRY_CAP \in Nat
    BY ScheduleAssumption
  <1> QED BY <1>1 DEF Wait, Backoff

RowTyped(row) ==
    /\ row.cadence \in Cadences /\ row.timezone \in Timezones /\ row.enabled \in BOOLEAN
    /\ row.next_fire_at \in Nat \cup {None} /\ row.last_fired_at \in Nat \cup {None}
    /\ row.consecutive_failures \in Nat /\ row.retry_after \in Nat \cup {None}

LEMMA RowFields ==
    ASSUME NEW row \in Row
    PROVE  /\ RowTyped(row)
           /\ DOMAIN row = Settable \cup {"last_fired_at"}
  BY DEF Row, Maybe, RowTyped, Settable

\* An armed row is as it was but for its next tick.
ArmedAs(row, new, t) ==
    /\ new \in Row
    /\ new.next_fire_at = NextFireAt(row, t) /\ IsPast(new.next_fire_at, t)
    /\ new.cadence = row.cadence /\ new.timezone = row.timezone
    /\ new.enabled = row.enabled /\ new.last_fired_at = row.last_fired_at
    /\ new.consecutive_failures = row.consecutive_failures
    /\ new.retry_after = row.retry_after

LEMMA Armed ==
    ASSUME NEW row \in Row, NEW t \in Nat, NEW new,
           new = Arm(row, t)
    PROVE  ArmedAs(row, new, t)
  <1>1. RowTyped(row)
    BY RowFields
  <1>2. PICK x : x = NextFireAt(row, t)
    OBVIOUS
  <1>3. IsPast(x, t)
    BY <1>1, <1>2, NextIsPast DEF RowTyped
  <1>4. new = [row EXCEPT !.next_fire_at = x]
    BY <1>2 DEF Arm
  <1>5. x \in Maybe(Nat)
    BY <1>3 DEF IsPast, Maybe
  <1> QED BY <1>2, <1>3, <1>4, <1>5 DEF Row, ArmedAs

LEMMA FlushedFields ==
    ASSUME NEW row \in Row, NEW sets, SetsTyped(sets), NEW new, new = Flushed(row, sets)
    PROVE  /\ new \in Row
           /\ new.cadence = IF "cadence" \in DOMAIN sets THEN sets.cadence ELSE row.cadence
           /\ new.timezone = IF "timezone" \in DOMAIN sets THEN sets.timezone ELSE row.timezone
           /\ new.enabled = IF "enabled" \in DOMAIN sets THEN sets.enabled ELSE row.enabled
           /\ new.next_fire_at =
                 IF "next_fire_at" \in DOMAIN sets THEN sets.next_fire_at ELSE row.next_fire_at
           /\ new.consecutive_failures =
                 IF "consecutive_failures" \in DOMAIN sets THEN sets.consecutive_failures
                 ELSE row.consecutive_failures
           /\ new.retry_after =
                 IF "retry_after" \in DOMAIN sets THEN sets.retry_after ELSE row.retry_after
  <1>1. DOMAIN row = Settable \cup {"last_fired_at"} /\ RowTyped(row)
    BY RowFields
  <1>2. new = [column \in Settable \cup {"last_fired_at"} |->
                  IF column \in DOMAIN sets THEN sets[column] ELSE row[column]]
    BY <1>1 DEF Flushed
  <1>3. "last_fired_at" \notin DOMAIN sets
    BY DEF SetsTyped, Settable
  <1>4. /\ new.cadence = IF "cadence" \in DOMAIN sets THEN sets.cadence ELSE row.cadence
        /\ new.timezone = IF "timezone" \in DOMAIN sets THEN sets.timezone ELSE row.timezone
        /\ new.enabled = IF "enabled" \in DOMAIN sets THEN sets.enabled ELSE row.enabled
        /\ new.next_fire_at =
                 IF "next_fire_at" \in DOMAIN sets THEN sets.next_fire_at ELSE row.next_fire_at
    BY <1>2 DEF Settable
  <1>5. /\ new.consecutive_failures =
                 IF "consecutive_failures" \in DOMAIN sets THEN sets.consecutive_failures
                 ELSE row.consecutive_failures
        /\ new.retry_after =
                 IF "retry_after" \in DOMAIN sets THEN sets.retry_after ELSE row.retry_after
        /\ new.last_fired_at = row.last_fired_at
    BY <1>2, <1>3 DEF Settable
  <1>6. RowTyped(new)
    BY <1>1, <1>4, <1>5 DEF RowTyped, SetsTyped
  <1>7. new \in Row
    BY <1>2, <1>6 DEF Row, Maybe, RowTyped, Settable
  <1> QED BY <1>4, <1>5, <1>7

LEMMA WrittenFields ==
    ASSUME NEW row \in Row, NEW new \in Row, new.last_fired_at = row.last_fired_at,
           NEW sets, sets = Written(row, new)
    PROVE  /\ SetsTyped(sets)
           /\ Flushed(row, sets) = new
           /\ \A column \in Settable : /\ column \in DOMAIN sets <=> new[column] # row[column]
                                       /\ column \in DOMAIN sets => sets[column] = new[column]
  <1>1. DOMAIN row = Settable \cup {"last_fired_at"} /\ DOMAIN new = DOMAIN row /\ RowTyped(new)
    BY RowFields
  <1>2. DOMAIN sets = {c \in Settable \cup {"last_fired_at"} : new[c] # row[c]}
    BY <1>1 DEF Written
  <1>3. \A column \in DOMAIN sets : sets[column] = new[column]
    BY <1>1, <1>2 DEF Written
  <1>4. DOMAIN sets \subseteq Settable
    BY <1>2
  <1>5. SetsTyped(sets)
    BY <1>1, <1>3, <1>4 DEF SetsTyped, RowTyped
  <1>6. \A column \in Settable : /\ column \in DOMAIN sets <=> new[column] # row[column]
                                 /\ column \in DOMAIN sets => sets[column] = new[column]
    BY <1>2, <1>3
  <1>7. Flushed(row, sets) = [column \in DOMAIN row |-> new[column]]
    BY <1>1, <1>2, <1>3 DEF Flushed
  <1>8. new = [column \in DOMAIN new |-> new[column]]
    BY DEF Row
  <1> QED BY <1>1, <1>5, <1>6, <1>7, <1>8

\* What a fire makes of the row.
Later(tick, t) == IF tick > t THEN tick ELSE t

Reset(row, new, tick, t) ==
    /\ new \in Row /\ new.last_fired_at = tick
    /\ new.next_fire_at = NextFireAt(row, Later(tick, t))
    /\ IsPast(new.next_fire_at, t)
    /\ new.cadence = row.cadence /\ new.timezone = row.timezone
    /\ new.consecutive_failures = 0

LEMMA SucceededFields ==
    ASSUME NEW row \in Row, NEW tick \in Nat, NEW t \in Nat,
           NEW new, new = Succeeded(row, tick, t)
    PROVE  Reset(row, new, tick, t)
  <1> DEFINE reset == [row EXCEPT !.last_fired_at = tick, !.consecutive_failures = 0,
                                  !.retry_after = None]
             at    == IF tick > t THEN tick ELSE t
  <1>1. PICK r : r = reset
    OBVIOUS
  <1>2. /\ r \in Row
        /\ r.cadence = row.cadence /\ r.timezone = row.timezone /\ r.enabled = row.enabled
        /\ r.consecutive_failures = 0 /\ r.last_fired_at = tick
    BY <1>1 DEF Row, Maybe
  <1>3. PICK a \in Nat : a = at
    OBVIOUS
  <1>4. new = Arm(r, a)
    BY <1>1, <1>3 DEF Succeeded
  <1>5. a >= t
    BY <1>3
  <1>6. /\ new \in Row
        /\ new.next_fire_at = NextFireAt(r, a) /\ IsPast(new.next_fire_at, a)
        /\ new.cadence = r.cadence /\ new.timezone = r.timezone
        /\ new.consecutive_failures = r.consecutive_failures
        /\ new.last_fired_at = r.last_fired_at
    <2>1. ArmedAs(r, new, a)
      BY <1>2, <1>4, Armed
    <2> QED BY <2>1 DEF ArmedAs
  <1>7. IsPast(new.next_fire_at, t)
    BY <1>5, <1>6 DEF IsPast
  <1>8. NextFireAt(r, a) = NextFireAt(row, a)
    BY <1>2 DEF NextFireAt
  <1> QED BY <1>2, <1>3, <1>6, <1>7, <1>8 DEF Reset, Later

LEMMA FailedFields ==
    ASSUME NEW row \in Row, NEW retryable \in BOOLEAN,
           NEW t \in Nat, NEW new, new = Failed(row, retryable, t)
    PROVE  /\ new \in Row
           /\ new.next_fire_at = row.next_fire_at
           /\ new.cadence = row.cadence /\ new.timezone = row.timezone
           /\ new.enabled => row.enabled
           /\ new.enabled => new.retry_after = t + Wait(new.consecutive_failures)
  <1>1. PICK n : n = row.consecutive_failures + 1
    OBVIOUS
  <1>2. n \in Nat
    BY <1>1, RowFields DEF RowTyped
  <1>3. PICK w \in Nat : w = Wait(n)
    BY <1>2, WaitIsNat
  <1>4. t + w \in Nat
    OBVIOUS
  <1>5. CASE retryable /\ n < MAX_CONSECUTIVE_FAILURES
    <2>1. new = [row EXCEPT !.consecutive_failures = n, !.retry_after = t + w]
      BY <1>1, <1>3, <1>5 DEF Failed, Wait
    <2>2. /\ new \in Row
          /\ new.next_fire_at = row.next_fire_at
          /\ new.cadence = row.cadence /\ new.timezone = row.timezone
          /\ new.enabled = row.enabled /\ new.consecutive_failures = n
          /\ new.retry_after = t + w
      BY <1>2, <1>4, <2>1 DEF Row, Maybe
    <2> QED BY <1>3, <2>2
  <1>6. CASE ~(retryable /\ n < MAX_CONSECUTIVE_FAILURES)
    <2>1. new = [row EXCEPT !.consecutive_failures = n, !.enabled = FALSE, !.retry_after = None]
      BY <1>1, <1>6 DEF Failed
    <2>2. /\ new \in Row
          /\ new.next_fire_at = row.next_fire_at
          /\ new.cadence = row.cadence /\ new.timezone = row.timezone
          /\ new.enabled = FALSE
      BY <1>2, <2>1 DEF Row, Maybe
    <2> QED BY <2>2
  <1> QED BY <1>5, <1>6

\* The tick after the one a row is armed for.
LEMMA AfterIsPast ==
    ASSUME NEW row \in Row, row.next_fire_at # None
    PROVE  row.next_fire_at \in Nat /\ IsPast(After(row), row.next_fire_at)
  <1>1. row.next_fire_at \in Nat /\ row.cadence \in Cadences /\ row.timezone \in Timezones
    BY RowFields DEF RowTyped
  <1> QED BY <1>1, NextIsPast DEF After

LEMMA AfterArmed ==
    ASSUME NEW row \in Row, NEW t \in Nat,
           IsPast(row.next_fire_at, t), row.next_fire_at # None
    PROVE  IsPast(After(row), t)
  <1>1. row.next_fire_at \in Nat /\ IsPast(After(row), row.next_fire_at)
    BY AfterIsPast
  <1> QED BY <1>1 DEF IsPast

\* What an update makes of the row it read.
Updated(row, new, t) ==
    /\ new \in Row /\ new.last_fired_at = row.last_fired_at
    /\ new.next_fire_at # row.next_fire_at =>
          /\ IsPast(new.next_fire_at, t)
          /\ \/ new.cadence # row.cadence \/ new.timezone # row.timezone
             \/ new.enabled /\ ~row.enabled
    /\ new.cadence # row.cadence \/ new.timezone # row.timezone => IsPast(new.next_fire_at, t)
    /\ new.enabled /\ ~row.enabled =>
          /\ new.consecutive_failures = 0
          /\ new.next_fire_at # None => IsPast(After(new), t)
    /\ ~(new.enabled /\ ~row.enabled) => /\ new.consecutive_failures = row.consecutive_failures
                                         /\ new.retry_after = row.retry_after

LEMMA Rearmed ==
    ASSUME NEW row \in Row, NEW t \in Nat,
           NEW new, new = Rearm(row, t)
    PROVE  /\ new = row \/ new = Arm(row, t)
           /\ new.next_fire_at # None => IsPast(After(new), t)
  <1>1. PICK pending : pending = row.next_fire_at
    OBVIOUS
  <1>2. PICK following : following = After(row)
    OBVIOUS
  <1>3. PICK armed : armed = Arm(row, t)
    OBVIOUS
  <1>4. new = IF pending # None /\ (pending > t \/ (following # None /\ following > t))
              THEN row ELSE armed
    BY <1>1, <1>2, <1>3 DEF Rearm, After
  <1>5. CASE new = armed
    <2>1. armed \in Row /\ IsPast(armed.next_fire_at, t)
      <3>1. ArmedAs(row, armed, t)
        BY <1>3, Armed
      <3> QED BY <3>1 DEF ArmedAs
    <2> QED BY <1>3, <1>5, <2>1, AfterArmed
  <1>6. CASE new = row /\ pending # None /\ (pending > t \/ (following # None /\ following > t))
    <2>1. pending \in Nat /\ IsPast(following, pending)
      BY <1>1, <1>2, <1>6, AfterIsPast
    <2>2. IsPast(following, t)
      BY <1>6, <2>1 DEF IsPast
    <2> QED BY <1>2, <1>6, <2>2
  <1> QED BY <1>4, <1>5, <1>6

LEMMA Cleared ==
    ASSUME NEW row \in Row, NEW new,
           new = [row EXCEPT !.consecutive_failures = 0, !.retry_after = None]
    PROVE  /\ new \in Row /\ new.last_fired_at = row.last_fired_at
           /\ new.cadence = row.cadence /\ new.timezone = row.timezone
           /\ new.enabled = row.enabled /\ new.next_fire_at = row.next_fire_at
           /\ new.consecutive_failures = 0
  BY DEF Row, Maybe

LEMMA ChangedFields ==
    ASSUME NEW row \in Row, NEW change \in Change,
           NEW t \in Nat, NEW new, new = Changed(row, change, t)
    PROVE  Updated(row, new, t)
  <1>1. PICK c : c = Sent(change.cadence, row.cadence)
    OBVIOUS
  <1>2. PICK z : z = Sent(change.timezone, row.timezone)
    OBVIOUS
  <1>3. PICK e : e = Sent(change.enabled, row.enabled)
    OBVIOUS
  <1>4. PICK spec : spec = [row EXCEPT !.cadence = c, !.timezone = z, !.enabled = e]
    OBVIOUS
  <1>5. c \in Cadences /\ z \in Timezones /\ e \in BOOLEAN
    <2>1. RowTyped(row)
      BY RowFields
    <2>2. /\ change.cadence \in Cadences \cup {None} /\ change.timezone \in Timezones \cup {None}
          /\ change.enabled \in BOOLEAN \cup {None}
      BY DEF Change, Maybe
    <2> QED BY <1>1, <1>2, <1>3, <2>1, <2>2 DEF Sent, RowTyped
  <1>6. /\ spec \in Row
        /\ spec.cadence = c /\ spec.timezone = z /\ spec.enabled = e
        /\ spec.next_fire_at = row.next_fire_at /\ spec.last_fired_at = row.last_fired_at
        /\ spec.consecutive_failures = row.consecutive_failures
        /\ spec.retry_after = row.retry_after
    BY <1>4, <1>5 DEF Row
  <1>7. PICK retimed \in BOOLEAN : retimed = (c # row.cadence \/ z # row.timezone)
    OBVIOUS
  <1>8. PICK resumes \in BOOLEAN : resumes = (e /\ ~row.enabled)
    BY <1>5, RowFields DEF RowTyped
  <1>9. PICK armed : armed = IF retimed THEN Arm(spec, t)
                             ELSE IF resumes THEN Rearm(spec, t) ELSE spec
    OBVIOUS
  <1>10. new = IF resumes THEN [armed EXCEPT !.consecutive_failures = 0, !.retry_after = None]
               ELSE armed
    <2>1. (<<spec.cadence, spec.timezone>> # <<row.cadence, row.timezone>>) = retimed
      BY <1>6, <1>7
    <2>2. (spec.enabled /\ ~row.enabled) = resumes
      BY <1>6, <1>8
    <2>3. spec = [row EXCEPT !.cadence = Sent(change.cadence, @),
                             !.timezone = Sent(change.timezone, @),
                             !.enabled = Sent(change.enabled, @)]
      BY <1>1, <1>2, <1>3, <1>4
    <2> QED BY <1>9, <2>1, <2>2, <2>3 DEF Changed
  <1>11. PICK other : other = Arm(spec, t)
    OBVIOUS
  <1>12. /\ other \in Row /\ IsPast(other.next_fire_at, t)
         /\ other.cadence = c /\ other.timezone = z /\ other.enabled = e
         /\ other.last_fired_at = row.last_fired_at
         /\ other.consecutive_failures = row.consecutive_failures
         /\ other.retry_after = row.retry_after
    <2>1. ArmedAs(spec, other, t)
      BY <1>6, <1>11, Armed
    <2> QED BY <1>6, <2>1 DEF ArmedAs
  <1>13. /\ armed = other \/ (armed = spec /\ ~retimed)
         /\ resumes /\ armed.next_fire_at # None => IsPast(After(armed), t)
    <2>1. CASE retimed
      BY <1>9, <1>11, <1>12, <2>1, AfterArmed
    <2>2. CASE ~retimed /\ resumes
      BY <1>6, <1>9, <1>11, <2>2, Rearmed
    <2>3. CASE ~retimed /\ ~resumes
      BY <1>9, <2>3
    <2> QED BY <2>1, <2>2, <2>3
  <1>14. /\ armed \in Row /\ armed.last_fired_at = row.last_fired_at
         /\ armed.cadence = c /\ armed.timezone = z /\ armed.enabled = e
         /\ armed.consecutive_failures = row.consecutive_failures
         /\ armed.retry_after = row.retry_after
         /\ armed.next_fire_at # row.next_fire_at => IsPast(armed.next_fire_at, t)
         /\ retimed => IsPast(armed.next_fire_at, t)
    BY <1>6, <1>12, <1>13
  <1>15. CASE ~resumes
    <2>1. new = armed
      BY <1>10, <1>15
    <2>2. ~(new.enabled /\ ~row.enabled)
      BY <1>8, <1>14, <1>15, <2>1
    <2>3. armed.next_fire_at # row.next_fire_at => retimed
      BY <1>6, <1>9, <1>15
    <2> QED BY <1>7, <1>14, <2>1, <2>2, <2>3 DEF Updated
  <1>16. CASE resumes
    <2>1. new = [armed EXCEPT !.consecutive_failures = 0, !.retry_after = None]
      BY <1>10, <1>16
    <2>2. /\ new \in Row /\ new.last_fired_at = armed.last_fired_at
          /\ new.cadence = armed.cadence /\ new.timezone = armed.timezone
          /\ new.enabled = armed.enabled /\ new.next_fire_at = armed.next_fire_at
          /\ new.consecutive_failures = 0
      BY <1>14, <2>1, Cleared
    <2>3. After(new) = After(armed)
      BY <2>2, NextOfSame
    <2>4. new.enabled /\ ~row.enabled
      BY <1>8, <1>14, <1>16, <2>2
    <2>5. new.next_fire_at # None => IsPast(After(new), t)
      BY <1>13, <1>16, <2>2, <2>3
    <2> QED BY <1>7, <1>14, <2>2, <2>4, <2>5 DEF Updated
  <1> QED BY <1>15, <1>16

\* A clock read at t, used at n.
Recent(t, n) == t \in Nat /\ n \in Nat /\ t <= n /\ n <= t + MaxDelay

LEMMA DelayIsNat ==
    MaxDelay \in Nat /\ None \notin Nat
  BY ScheduleAssumption

\* A row armed past the clock a step read is honest, whatever was done by then.
LEMMA ArmedIsHonest ==
    ASSUME NEW row \in Row, NEW t, NEW n, Recent(t, n),
           IsPast(row.next_fire_at, t), NEW h \in Nat, NEW r \in Nat, h <= n, r <= n
    PROVE  HonestRow(row, h, r)
  <1> SUFFICES ASSUME row.next_fire_at # None PROVE HonestRow(row, h, r)
    BY DEF HonestRow
  <1>1. row.next_fire_at \in Nat /\ row.next_fire_at > t
    BY DEF IsPast
  <1>2. IsPast(After(row), t)
    BY AfterArmed DEF Recent
  <1>3. PICK tick \in Nat : tick = row.next_fire_at
    BY <1>1
  <1>4. PICK a : a = After(row)
    OBVIOUS
  <1>5. h < tick + MaxDelay
    BY <1>1, <1>3, DelayIsNat DEF Recent
  <1>6. a # None => r < a + MaxDelay
    BY <1>2, <1>4, DelayIsNat DEF Recent, IsPast
  <1> QED BY <1>3, <1>4, <1>5, <1>6 DEF HonestRow

LEMMA SuccessKeeps ==
    ASSUME NEW row \in Row, NEW tick \in Nat,
           NEW t, NEW n, Recent(t, n), NEW new, new = Succeeded(row, tick, t),
           NEW r \in Nat, r <= n, NEW f \in Nat
    PROVE  HonestRow(new, n, r) /\ SpacedRow(new, f)
  <1>0. t \in Nat
    BY DEF Recent
  <1>1. new \in Row /\ IsPast(new.next_fire_at, t) /\ new.consecutive_failures = 0
    <2>1. Reset(row, new, tick, t)
      BY <1>0, SucceededFields
    <2> QED BY <2>1 DEF Reset
  <1>2. n \in Nat /\ n <= n
    BY DEF Recent
  <1>3. HonestRow(new, n, r)
    BY <1>1, <1>2, ArmedIsHonest
  <1>4. SpacedRow(new, f)
    BY <1>1 DEF SpacedRow
  <1> QED BY <1>3, <1>4

LEMMA FailureKeeps ==
    ASSUME NEW row \in Row, NEW retryable \in BOOLEAN,
           NEW t, NEW n, Recent(t, n), NEW new, new = Failed(row, retryable, t),
           NEW h, NEW r, HonestRow(row, h, r)
    PROVE  HonestRow(new, h, r) /\ SpacedRow(new, n)
  <1>1. /\ new \in Row /\ new.next_fire_at = row.next_fire_at
        /\ new.cadence = row.cadence /\ new.timezone = row.timezone
        /\ new.enabled => new.retry_after = t + Wait(new.consecutive_failures)
    BY FailedFields DEF Recent
  <1>2. HonestRow(new, h, r)
    BY <1>1, NextOfSame DEF HonestRow
  <1>3. new.consecutive_failures \in Nat
    BY <1>1, RowFields DEF RowTyped
  <1>4. PICK w \in Nat : w = Wait(new.consecutive_failures)
    BY <1>3, WaitIsNat
  <1>5. n + w <= t + w + MaxDelay /\ t + w \in Nat
    BY DelayIsNat DEF Recent
  <1>6. t + w # None
    BY <1>5, DelayIsNat
  <1>7. SpacedRow(new, n)
    BY <1>1, <1>4, <1>5, <1>6 DEF SpacedRow
  <1> QED BY <1>2, <1>7

\* A fire does not unfit the columns of an update in progress: none of them resumes.
LEMMA FireKeepsFitting ==
    ASSUME NEW row \in Row, row.enabled,
           NEW sets, NEW at, NEW r \in Nat, Fits(sets, at, row, r),
           NEW t, NEW n, Recent(t, n), r <= n, NEW new \in Row,
           new.cadence = row.cadence, new.timezone = row.timezone,
           new.next_fire_at = row.next_fire_at \/ IsPast(new.next_fire_at, t)
    PROVE  Fits(sets, at, new, r)
  <1>1. ~Resumes(sets)
    BY DEF Fits
  <1>2. ASSUME "next_fire_at" \notin DOMAIN sets, new.next_fire_at # None, Retimes(sets)
        PROVE  r < new.next_fire_at + MaxDelay
    <2>1. CASE new.next_fire_at = row.next_fire_at
      BY <1>2, <2>1 DEF Fits
    <2>2. CASE IsPast(new.next_fire_at, t)
      <3>1. PICK x \in Nat : x = new.next_fire_at /\ x > t
        BY <1>2, <2>2 DEF IsPast
      <3>2. r < x + MaxDelay
        BY <3>1, DelayIsNat DEF Recent
      <3> QED BY <3>1, <3>2
    <2> QED BY <2>1, <2>2
  <1> QED BY <1>1, <1>2 DEF Fits

\* The columns an update writes, as it reads the row ...
LEMMA ReadFits ==
    ASSUME NEW row \in Row, NEW new, NEW t, NEW n, Recent(t, n),
           Updated(row, new, t), NEW sets, sets = Written(row, new), NEW r \in Nat, r <= n
    PROVE  Columns(sets, t) /\ Fits(sets, t, row, r)
  <1>1. new \in Row /\ new.last_fired_at = row.last_fired_at
    BY DEF Updated
  <1>2. /\ SetsTyped(sets) /\ Flushed(row, sets) = new
        /\ \A column \in Settable : /\ column \in DOMAIN sets <=> new[column] # row[column]
                                    /\ column \in DOMAIN sets => sets[column] = new[column]
    BY <1>1, WrittenFields
  <1>3. /\ "cadence" \in DOMAIN sets <=> new.cadence # row.cadence
        /\ "cadence" \in DOMAIN sets => sets.cadence = new.cadence
        /\ "timezone" \in DOMAIN sets <=> new.timezone # row.timezone
        /\ "timezone" \in DOMAIN sets => sets.timezone = new.timezone
        /\ "enabled" \in DOMAIN sets <=> new.enabled # row.enabled
        /\ "enabled" \in DOMAIN sets => sets.enabled = new.enabled
        /\ "next_fire_at" \in DOMAIN sets <=> new.next_fire_at # row.next_fire_at
        /\ "next_fire_at" \in DOMAIN sets => sets.next_fire_at = new.next_fire_at
        /\ "consecutive_failures" \in DOMAIN sets
              => new.consecutive_failures # row.consecutive_failures
        /\ "retry_after" \in DOMAIN sets => new.retry_after # row.retry_after
    BY <1>2 DEF Settable
  <1>4. new.enabled \in BOOLEAN /\ row.enabled \in BOOLEAN
    BY <1>1, RowFields DEF RowTyped
  <1>5. Resumes(sets) <=> new.enabled /\ ~row.enabled
    BY <1>3, <1>4 DEF Resumes
  <1>6. Columns(sets, t)
    BY <1>2, <1>3, <1>5 DEF Columns, Updated, Retimes
  <1>7. Resumes(sets) => ~row.enabled /\ Flushed(row, sets).consecutive_failures = 0
    BY <1>2, <1>5 DEF Updated
  <1>8. ASSUME "next_fire_at" \notin DOMAIN sets, row.next_fire_at # None, Retimes(sets)
        PROVE  r < row.next_fire_at + MaxDelay
    <2>1. new.next_fire_at = row.next_fire_at
      BY <1>3, <1>8
    <2>2. IsPast(row.next_fire_at, t)
      BY <1>3, <1>8, <2>1 DEF Updated, Retimes
    <2>3. PICK x \in Nat : x = row.next_fire_at /\ x > t
      BY <1>8, <2>2 DEF IsPast
    <2>4. r < x + MaxDelay
      BY <2>3, DelayIsNat DEF Recent
    <2> QED BY <2>3, <2>4
  <1>9. ASSUME "next_fire_at" \notin DOMAIN sets, row.next_fire_at # None, Resumes(sets)
        PROVE  IsPast(After(Flushed(row, sets)), t)
    <2>1. new.next_fire_at # None
      BY <1>3, <1>9
    <2>2. IsPast(After(new), t)
      BY <1>5, <1>9, <2>1 DEF Updated
    <2> QED BY <1>2, <2>2
  <1> QED BY <1>3, <1>6, <1>7, <1>8, <1>9 DEF Fits

\* ... and when it writes them.
LEMMA FlushKeeps ==
    ASSUME NEW row \in Row, NEW at, NEW n, Recent(at, n),
           NEW sets, Columns(sets, at), NEW h \in Nat, NEW r \in Nat, NEW f, h <= n, r <= n,
           Fits(sets, at, row, r), HonestRow(row, h, r), SpacedRow(row, f),
           NEW new, new = Flushed(row, sets),
           NEW r2, r2 = IF new.enabled /\ ~row.enabled THEN n ELSE r
    PROVE  new \in Row /\ HonestRow(new, h, r2) /\ SpacedRow(new, f)
  <1>1. /\ new \in Row
        /\ new.cadence = IF "cadence" \in DOMAIN sets THEN sets.cadence ELSE row.cadence
        /\ new.timezone = IF "timezone" \in DOMAIN sets THEN sets.timezone ELSE row.timezone
        /\ new.enabled = IF "enabled" \in DOMAIN sets THEN sets.enabled ELSE row.enabled
        /\ new.next_fire_at =
              IF "next_fire_at" \in DOMAIN sets THEN sets.next_fire_at ELSE row.next_fire_at
        /\ new.consecutive_failures =
              IF "consecutive_failures" \in DOMAIN sets THEN sets.consecutive_failures
              ELSE row.consecutive_failures
        /\ new.retry_after =
              IF "retry_after" \in DOMAIN sets THEN sets.retry_after ELSE row.retry_after
    BY FlushedFields DEF Columns
  <1>2. new.enabled \in BOOLEAN /\ row.enabled \in BOOLEAN
    BY <1>1, RowFields DEF RowTyped
  <1>3. new.enabled /\ ~row.enabled => Resumes(sets)
    BY <1>1, <1>2 DEF Resumes
  <1>4. r2 \in Nat /\ r2 <= n
    BY DEF Recent
  <1>5. SpacedRow(new, f)
    <2>1. CASE Resumes(sets)
      <3>1. new.consecutive_failures = 0
        BY <2>1 DEF Fits
      <3> QED BY <3>1 DEF SpacedRow
    <2>2. CASE ~Resumes(sets)
      <3>1. /\ new.consecutive_failures = row.consecutive_failures
            /\ new.retry_after = row.retry_after
        BY <1>1, <2>2 DEF Columns
      <3>2. new.enabled => row.enabled
        BY <1>2, <1>3, <2>2
      <3> QED BY <3>1, <3>2 DEF SpacedRow
    <2> QED BY <2>1, <2>2
  <1>6. CASE "next_fire_at" \in DOMAIN sets
    <2>1. IsPast(new.next_fire_at, at)
      BY <1>1, <1>6 DEF Columns
    <2>2. HonestRow(new, h, r2)
      BY <1>1, <1>4, <2>1, ArmedIsHonest
    <2> QED BY <1>1, <1>5, <2>2
  <1>7. CASE "next_fire_at" \notin DOMAIN sets
    <2>1. new.next_fire_at = row.next_fire_at
      BY <1>1, <1>7
    <2>2. ASSUME row.next_fire_at # None, After(new) # None
          PROVE  r2 < After(new) + MaxDelay
      <3>1. PICK a : a = After(new)
        OBVIOUS
      <3>2. row.next_fire_at \in Nat /\ a \in Nat /\ a > row.next_fire_at
        BY <1>1, <2>1, <2>2, <3>1, AfterIsPast DEF IsPast
      <3>3. CASE Resumes(sets)
        <4>1. IsPast(a, at)
          BY <1>7, <2>2, <3>1, <3>3 DEF Fits
        <4>2. r2 < a + MaxDelay
          BY <1>4, <2>2, <3>1, <4>1, DelayIsNat DEF IsPast, Recent
        <4> QED BY <3>1, <4>2
      <3>4. CASE ~Resumes(sets) /\ Retimes(sets)
        <4>1. r2 = r
          BY <1>2, <1>3, <3>4
        <4>2. r < row.next_fire_at + MaxDelay
          BY <1>7, <2>2, <3>4 DEF Fits
        <4>3. r2 < a + MaxDelay
          BY <3>2, <4>1, <4>2, DelayIsNat
        <4> QED BY <3>1, <4>3
      <3>5. CASE ~Resumes(sets) /\ ~Retimes(sets)
        <4>1. r2 = r
          BY <1>2, <1>3, <3>5
        <4>2. new.cadence = row.cadence /\ new.timezone = row.timezone
          BY <1>1, <3>5 DEF Retimes
        <4>3. After(new) = After(row)
          BY <2>1, <4>2, NextOfSame
        <4> QED BY <2>2, <4>1, <4>3 DEF HonestRow
      <3> QED BY <3>3, <3>4, <3>5
    <2>3. HonestRow(new, h, r2)
      BY <2>1, <2>2 DEF HonestRow
    <2> QED BY <1>1, <1>5, <2>3
  <1> QED BY <1>6, <1>7

------------------------------------------------------------------------------
SchedulesTyped ==
    /\ now \in Nat /\ used \subseteq Schedules
    /\ rows \in [Schedules -> Row \cup {None}]
    /\ updates = [u \in Updates |-> updates[u]]
    /\ honoured \in [Schedules -> Nat] /\ resumed \in [Schedules -> Nat]
    /\ failed \in [Schedules -> Nat]
    /\ overtaken \subseteq Updates /\ mixed \subseteq Schedules

Remembered(s) == honoured[s] <= now /\ resumed[s] <= now /\ failed[s] <= now

Kept(s) ==
    rows[s] # None =>
        /\ s \in used
        /\ s \notin mixed => /\ HonestRow(rows[s], honoured[s], resumed[s])
                             /\ SpacedRow(rows[s], failed[s])

InFlight(u) ==
    updates[u] # None =>
        LET s == updates[u].schedule
        IN  /\ s \in used
            /\ Recent(updates[u].at, now)
            /\ Columns(updates[u].sets, updates[u].at)
            /\ u \notin overtaken /\ rows[s] # None =>
                  Fits(updates[u].sets, updates[u].at, rows[s], resumed[s])

FiringInv ==
    /\ SchedulesTyped
    /\ \A s \in Schedules : Remembered(s) /\ Kept(s)
    /\ \A u \in Updates : InFlight(u)

LEMMA ClockIsRecent ==
    ASSUME SchedulesTyped, NEW t \in Clock
    PROVE  t \in Nat /\ Recent(t, now)
  BY DEF SchedulesTyped, Clock, Recent

\* A step that changes one row, and no update.
LEMMA OneRowChanges ==
    ASSUME FiringInv, NEW s \in Schedules, NEW new \in Row \cup {None},
           NEW h \in Nat, NEW f \in Nat, h <= now, f <= now,
           rows' = [rows EXCEPT ![s] = new],
           honoured' = [honoured EXCEPT ![s] = h], failed' = [failed EXCEPT ![s] = f],
           resumed' = resumed, updates' = updates, now' = now,
           used \subseteq used', used' \subseteq Schedules,
           overtaken' = overtaken, mixed' \subseteq mixed, mixed \subseteq mixed' \cup {s},
           new # None => s \in used',
           new # None /\ s \notin mixed' => HonestRow(new, h, resumed[s]) /\ SpacedRow(new, f),
           \A u \in Updates :
              updates[u] # None /\ updates[u].schedule = s /\ u \notin overtaken /\ new # None =>
                  Fits(updates[u].sets, updates[u].at, new, resumed[s])
    PROVE  FiringInv'
  <1>1. SchedulesTyped'
    BY DEF FiringInv, SchedulesTyped
  <1>2. ASSUME NEW q \in Schedules PROVE Remembered(q)' /\ Kept(q)'
    <2>1. CASE q = s
      BY <2>1 DEF FiringInv, SchedulesTyped, Remembered, Kept
    <2>2. CASE q # s
      BY <2>2 DEF FiringInv, SchedulesTyped, Remembered, Kept
    <2> QED BY <2>1, <2>2
  <1>3. ASSUME NEW u \in Updates PROVE InFlight(u)'
    <2> SUFFICES ASSUME updates[u] # None PROVE InFlight(u)'
      BY DEF InFlight
    <2>1. PICK q : q = updates[u].schedule
      OBVIOUS
    <2>2. InFlight(u)
      BY DEF FiringInv
    <2>3. q \in used /\ q \in Schedules
      BY <2>1, <2>2 DEF InFlight, FiringInv, SchedulesTyped
    <2>4. rows'[q] = IF q = s THEN new ELSE rows[q]
      BY <2>3 DEF FiringInv, SchedulesTyped
    <2>5. u \notin overtaken /\ rows'[q] # None =>
              Fits(updates[u].sets, updates[u].at, rows'[q], resumed[q])
      BY <2>1, <2>2, <2>4 DEF InFlight
    <2> QED BY <2>1, <2>2, <2>3, <2>5 DEF InFlight
  <1> QED BY <1>1, <1>2, <1>3 DEF FiringInv

LEMMA UpsertStep ==
    ASSUME FiringInv, now' = now,
           NEW s \in Schedules, NEW t \in Clock,
           NEW c \in Cadences, NEW z \in Timezones, NEW enabled \in BOOLEAN,
           Upsert(s, c, z, enabled, t)
    PROVE  FiringInv'
  <1>1. t \in Nat /\ Recent(t, now)
    BY ClockIsRecent DEF FiringInv
  <1>2. PICK blank : blank = [cadence |-> c, timezone |-> z, enabled |-> enabled,
                              next_fire_at |-> None, last_fired_at |-> None,
                              consecutive_failures |-> 0, retry_after |-> None]
    OBVIOUS
  <1>3. blank \in Row /\ blank.consecutive_failures = 0
    BY <1>2 DEF Row, Maybe
  <1>4. PICK new : new = Arm(blank, t)
    OBVIOUS
  <1>5. /\ new \in Row /\ IsPast(new.next_fire_at, t) /\ new.consecutive_failures = 0
    <2>1. ArmedAs(blank, new, t)
      BY <1>1, <1>3, <1>4, Armed
    <2> QED BY <1>3, <2>1 DEF ArmedAs
  <1>6. /\ s \notin used /\ rows' = [rows EXCEPT ![s] = new]
        /\ used' = used \cup {s} /\ honoured' = [honoured EXCEPT ![s] = now]
        /\ updates' = updates /\ resumed' = resumed /\ failed' = failed
        /\ overtaken' = overtaken /\ mixed' = mixed
    BY <1>2, <1>4 DEF Upsert
  <1>7. /\ now \in Nat /\ resumed[s] \in Nat /\ resumed[s] <= now
        /\ failed[s] \in Nat /\ failed[s] <= now /\ failed' = [failed EXCEPT ![s] = failed[s]]
        /\ used \subseteq Schedules
    BY <1>6 DEF FiringInv, SchedulesTyped, Remembered
  <1>8. HonestRow(new, now, resumed[s])
    BY <1>1, <1>5, <1>7, ArmedIsHonest
  <1>9. SpacedRow(new, failed[s])
    BY <1>5 DEF SpacedRow
  <1>10. \A u \in Updates : updates[u] # None => updates[u].schedule # s
    BY <1>6 DEF FiringInv, InFlight
  <1>11. /\ used \subseteq used' /\ used' \subseteq Schedules /\ s \in used' /\ now <= now
    BY <1>6, <1>7
  <1> QED BY <1>5, <1>6, <1>7, <1>8, <1>9, <1>10, <1>11, OneRowChanges

LEMMA DeleteStep ==
    ASSUME FiringInv, now' = now, NEW s \in Schedules, Delete(s)
    PROVE  FiringInv'
  <1>1. /\ rows' = [rows EXCEPT ![s] = None]
        /\ updates' = updates /\ used' = used
        /\ honoured' = honoured /\ resumed' = resumed /\ failed' = failed
        /\ overtaken' = overtaken /\ mixed' = mixed
    BY DEF Delete
  <1>2. /\ honoured[s] \in Nat /\ honoured[s] <= now /\ failed[s] \in Nat /\ failed[s] <= now
        /\ honoured' = [honoured EXCEPT ![s] = honoured[s]]
        /\ failed' = [failed EXCEPT ![s] = failed[s]] /\ used' \subseteq Schedules
    BY <1>1 DEF FiringInv, SchedulesTyped, Remembered
  <1> QED BY <1>1, <1>2, OneRowChanges

LEMMA FiringStep ==
    ASSUME FiringInv, now' = now,
           NEW s \in Schedules, NEW t \in Clock, NEW tick \in Nat,
           rows[s] # None, rows[s].enabled, FireFor(s, tick, t)
    PROVE  FiringInv'
  <1>1. t \in Nat /\ Recent(t, now)
    BY ClockIsRecent DEF FiringInv
  <1>2. PICK row \in Row : row = rows[s]
    BY DEF FiringInv, SchedulesTyped
  <1>3. /\ now \in Nat /\ now <= now /\ s \in used /\ used \subseteq Schedules
        /\ honoured[s] \in Nat /\ honoured[s] <= now
        /\ resumed[s] \in Nat /\ resumed[s] <= now
        /\ failed[s] \in Nat /\ failed[s] <= now
        /\ s \notin mixed => HonestRow(row, honoured[s], resumed[s])
        /\ honoured = [honoured EXCEPT ![s] = honoured[s]]
        /\ failed = [failed EXCEPT ![s] = failed[s]]
    BY <1>2 DEF FiringInv, SchedulesTyped, Remembered, Kept
  <1>4. ASSUME NEW new \in Row,
               new.cadence = row.cadence, new.timezone = row.timezone,
               new.next_fire_at = row.next_fire_at \/ IsPast(new.next_fire_at, t),
               NEW u \in Updates, updates[u] # None, updates[u].schedule = s, u \notin overtaken
        PROVE  Fits(updates[u].sets, updates[u].at, new, resumed[s])
    <2>1. InFlight(u)
      BY DEF FiringInv
    <2>2. Fits(updates[u].sets, updates[u].at, row, resumed[s])
      BY <1>2, <1>4, <2>1 DEF InFlight
    <2> QED BY <1>1, <1>2, <1>3, <1>4, <2>2, FireKeepsFitting
  <1>5. CASE /\ rows' = [rows EXCEPT ![s] = Succeeded(@, tick, t)]
             /\ honoured' = [honoured EXCEPT ![s] = now]
             /\ mixed' = mixed \ {s}
             /\ UNCHANGED <<updates, used, resumed, failed, overtaken>>
    <2>1. PICK new : new = Succeeded(row, tick, t)
      OBVIOUS
    <2>0. Reset(row, new, tick, t)
      BY <1>1, <2>1, SucceededFields
    <2>2. /\ new \in Row /\ IsPast(new.next_fire_at, t)
          /\ new.cadence = row.cadence /\ new.timezone = row.timezone
      BY <2>0 DEF Reset
    <2>3. HonestRow(new, now, resumed[s]) /\ SpacedRow(new, failed[s])
      BY <1>1, <1>3, <2>1, SuccessKeeps
    <2>4. /\ rows' = [rows EXCEPT ![s] = new]
          /\ updates' = updates /\ used' = used /\ resumed' = resumed
          /\ failed' = [failed EXCEPT ![s] = failed[s]]
          /\ overtaken' = overtaken /\ mixed' \subseteq mixed /\ mixed \subseteq mixed' \cup {s}
      BY <1>2, <1>3, <1>5, <2>1
    <2>5. \A u \in Updates :
             updates[u] # None /\ updates[u].schedule = s /\ u \notin overtaken /\ new # None =>
                 Fits(updates[u].sets, updates[u].at, new, resumed[s])
      BY <1>4, <2>2
    <2>6. /\ now <= now /\ now' = now /\ honoured' = [honoured EXCEPT ![s] = now]
          /\ used \subseteq used' /\ used' \subseteq Schedules /\ s \in used'
      BY <1>3, <1>5, <2>4
    <2> QED BY <1>3, <2>2, <2>3, <2>4, <2>5, <2>6, OneRowChanges
  <1>6. ASSUME NEW retryable \in BOOLEAN,
               rows' = [rows EXCEPT ![s] = Failed(@, retryable, t)],
               failed' = [failed EXCEPT ![s] = now],
               UNCHANGED <<updates, used, honoured, resumed, overtaken, mixed>>
        PROVE  FiringInv'
    <2>1. PICK new : new = Failed(row, retryable, t)
      OBVIOUS
    <2>2. /\ new \in Row /\ new.next_fire_at = row.next_fire_at
          /\ new.cadence = row.cadence /\ new.timezone = row.timezone
      BY <1>1, <2>1, FailedFields
    <2>3. s \notin mixed => HonestRow(new, honoured[s], resumed[s]) /\ SpacedRow(new, now)
      BY <1>1, <1>3, <2>1, FailureKeeps
    <2>4. /\ rows' = [rows EXCEPT ![s] = new]
          /\ updates' = updates /\ used' = used /\ resumed' = resumed
          /\ honoured' = [honoured EXCEPT ![s] = honoured[s]]
          /\ overtaken' = overtaken /\ mixed' = mixed
      BY <1>2, <1>3, <1>6, <2>1
    <2>5. \A u \in Updates :
             updates[u] # None /\ updates[u].schedule = s /\ u \notin overtaken /\ new # None =>
                 Fits(updates[u].sets, updates[u].at, new, resumed[s])
      BY <1>4, <2>2
    <2> QED BY <1>3, <1>6, <2>2, <2>3, <2>4, <2>5, OneRowChanges
  <1> QED BY <1>5, <1>6 DEF FireFor

LEMMA FireStep ==
    ASSUME FiringInv, now' = now,
           NEW s \in Schedules, NEW t \in Clock,
           NEW at \in Maybe(Ats), Fire(s, at, t)
    PROVE  FiringInv'
  <1>1. t \in Nat
    BY ClockIsRecent DEF FiringInv
  <1>2. rows[s] # None /\ rows[s].enabled /\ rows[s] \in Row
    BY DEF Fire, FiringInv, SchedulesTyped
  <1>3. PICK due : due = rows[s].next_fire_at
    OBVIOUS
  <1>4. PICK tick : tick = IF at # None THEN at ELSE IF due # None /\ due <= t THEN due ELSE t
    OBVIOUS
  <1>5. FireFor(s, tick, t)
    BY <1>3, <1>4 DEF Fire
  <1>6. due \in Nat \cup {None}
    BY <1>2, <1>3, RowFields DEF RowTyped
  <1>7. at \in Nat \cup {None}
    BY ScheduleAssumption DEF Maybe
  <1>8. tick \in Nat
    BY <1>1, <1>4, <1>6, <1>7
  <1> QED BY <1>2, <1>5, <1>8, FiringStep

LEMMA FireDueStep ==
    ASSUME FiringInv, now' = now,
           NEW s \in Schedules, NEW t \in Clock, FireDue(s, t)
    PROVE  FiringInv'
  <1>1. /\ rows[s] # None /\ rows[s].enabled /\ rows[s] \in Row
        /\ rows[s].next_fire_at # None /\ FireFor(s, rows[s].next_fire_at, t)
    BY DEF FireDue, Due, FiringInv, SchedulesTyped
  <1>2. rows[s].next_fire_at \in Nat
    BY <1>1, RowFields DEF RowTyped
  <1> QED BY <1>1, <1>2, FiringStep

LEMMA ReadStep ==
    ASSUME FiringInv, now' = now,
           NEW s \in Schedules, NEW t \in Clock,
           NEW u \in Updates, NEW change \in Change, ReadForUpdate(u, s, change, t)
    PROVE  FiringInv'
  <1>1. t \in Nat /\ Recent(t, now)
    BY ClockIsRecent DEF FiringInv
  <1>2. PICK row \in Row : row = rows[s]
    BY DEF ReadForUpdate, FiringInv, SchedulesTyped
  <1>3. PICK new : new = Changed(row, change, t)
    OBVIOUS
  <1>4. PICK sets : sets = Written(row, new)
    OBVIOUS
  <1>5. Updated(row, new, t)
    BY <1>1, <1>3, ChangedFields
  <1>6. resumed[s] \in Nat /\ resumed[s] <= now /\ s \in used
    BY <1>2 DEF ReadForUpdate, FiringInv, SchedulesTyped, Remembered, Kept
  <1>7. Columns(sets, t) /\ Fits(sets, t, row, resumed[s])
    BY <1>1, <1>4, <1>5, <1>6, ReadFits
  <1>8. PICK update : update = [schedule |-> s, sets |-> sets, at |-> t]
    OBVIOUS
  <1>9. /\ updates' = [updates EXCEPT ![u] = update]
        /\ rows' = rows /\ used' = used /\ honoured' = honoured /\ resumed' = resumed
        /\ failed' = failed /\ overtaken' = overtaken /\ mixed' = mixed
    BY <1>2, <1>3, <1>4, <1>8 DEF ReadForUpdate
  <1>10. SchedulesTyped'
    BY <1>9 DEF FiringInv, SchedulesTyped
  <1>11. \A q \in Schedules : Remembered(q)' /\ Kept(q)'
    BY <1>9 DEF FiringInv, Remembered, Kept
  <1>12. ASSUME NEW v \in Updates PROVE InFlight(v)'
    <2>1. updates'[v] = IF v = u THEN update ELSE updates[v]
      BY <1>9 DEF FiringInv, SchedulesTyped
    <2>2. CASE v # u
      <3>1. InFlight(v)
        BY DEF FiringInv
      <3> QED BY <1>9, <2>1, <2>2, <3>1 DEF InFlight
    <2>3. CASE v = u
      <3>1. /\ update.schedule = s /\ update.sets = sets /\ update.at = t
        BY <1>8
      <3> QED BY <1>1, <1>2, <1>6, <1>7, <1>9, <2>1, <2>3, <3>1 DEF InFlight
    <2> QED BY <2>2, <2>3
  <1> QED BY <1>10, <1>11, <1>12 DEF FiringInv

LEMMA WriteStep ==
    ASSUME FiringInv, now' = now,
           NEW u \in Updates, WriteUpdate(u)
    PROVE  FiringInv'
  <1>1. PICK s : s = updates[u].schedule
    OBVIOUS
  <1>2. PICK sets : sets = updates[u].sets
    OBVIOUS
  <1>3. PICK at : at = updates[u].at
    OBVIOUS
  <1>4. /\ updates[u] # None /\ updates' = [updates EXCEPT ![u] = None]
        /\ used' = used /\ honoured' = honoured /\ failed' = failed
    BY DEF WriteUpdate
  <1>5. \/ /\ ~Refused(s, sets)
           /\ rows' = [rows EXCEPT ![s] = Flushed(@, sets)]
           /\ resumed' = IF rows'[s].enabled /\ ~rows[s].enabled
                         THEN [resumed EXCEPT ![s] = now] ELSE resumed
           /\ overtaken' = (overtaken \ {u}) \cup Others(u)
           /\ mixed' = IF u \in overtaken THEN mixed \cup {s} ELSE mixed
        \/ UNCHANGED <<rows, resumed, mixed>> /\ overtaken' = overtaken \ {u}
    BY <1>1, <1>2 DEF WriteUpdate
  <1>6. InFlight(u)
    BY DEF FiringInv
  <1>7. /\ s \in used /\ s \in Schedules /\ Recent(at, now) /\ Columns(sets, at)
        /\ u \notin overtaken /\ rows[s] # None => Fits(sets, at, rows[s], resumed[s])
    BY <1>1, <1>2, <1>3, <1>4, <1>6 DEF InFlight, FiringInv, SchedulesTyped
  <1>8. ASSUME NEW v \in Updates PROVE InFlight(v)'
    <2>1. CASE v = u
      BY <1>4, <2>1 DEF InFlight, FiringInv, SchedulesTyped
    <2>2. CASE v # u /\ updates[v] = None
      BY <1>4, <2>2 DEF InFlight, FiringInv, SchedulesTyped
    <2>3. CASE v # u /\ updates[v] # None
      <3>1. PICK q : q = updates[v].schedule
        OBVIOUS
      <3>2. updates'[v] = updates[v] /\ InFlight(v)
        BY <1>4, <2>3 DEF FiringInv, SchedulesTyped
      <3>3. q \in used /\ q \in Schedules
        BY <2>3, <3>1, <3>2 DEF InFlight, FiringInv, SchedulesTyped
      <3>4. v \in overtaken' \/ (v \notin overtaken /\ rows'[q] = rows[q] /\ resumed'[q] = resumed[q])
        <4>1. CASE q = s /\ overtaken' = (overtaken \ {u}) \cup Others(u)
          BY <1>1, <1>4, <2>3, <3>1, <4>1 DEF Others
        <4>2. CASE q # s \/ UNCHANGED <<rows, resumed>>
          BY <1>5, <1>7, <2>3, <3>3, <4>2 DEF FiringInv, SchedulesTyped
        <4> QED BY <1>5, <4>1, <4>2
      <3> QED BY <1>4, <2>3, <3>1, <3>2, <3>3, <3>4 DEF InFlight
    <2> QED BY <2>1, <2>2, <2>3
  <1>9. CASE UNCHANGED <<rows, resumed, mixed>> /\ overtaken' = overtaken \ {u}
    <2>1. SchedulesTyped'
      BY <1>4, <1>9 DEF FiringInv, SchedulesTyped
    <2>2. \A q \in Schedules : Remembered(q)' /\ Kept(q)'
      BY <1>4, <1>9 DEF FiringInv, Remembered, Kept
    <2> QED BY <1>8, <2>1, <2>2 DEF FiringInv
  <1>10. CASE /\ ~Refused(s, sets)
              /\ rows' = [rows EXCEPT ![s] = Flushed(@, sets)]
              /\ resumed' = IF rows'[s].enabled /\ ~rows[s].enabled
                            THEN [resumed EXCEPT ![s] = now] ELSE resumed
              /\ overtaken' = (overtaken \ {u}) \cup Others(u)
              /\ mixed' = IF u \in overtaken THEN mixed \cup {s} ELSE mixed
    <2>1. rows[s] # None
      BY <1>10 DEF Refused
    <2>2. PICK row \in Row : row = rows[s]
      BY <1>7, <2>1 DEF FiringInv, SchedulesTyped
    <2>3. PICK new : new = Flushed(row, sets)
      OBVIOUS
    <2>4. PICK r : r = IF new.enabled /\ ~row.enabled THEN now ELSE resumed[s]
      OBVIOUS
    <2>5. /\ now \in Nat /\ honoured[s] \in Nat /\ resumed[s] \in Nat
          /\ honoured[s] <= now /\ resumed[s] <= now
          /\ s \notin mixed => HonestRow(row, honoured[s], resumed[s]) /\ SpacedRow(row, failed[s])
      BY <1>7, <2>1, <2>2 DEF FiringInv, SchedulesTyped, Remembered, Kept
    <2>6. new \in Row
      BY <1>7, <2>2, <2>3, FlushedFields DEF Columns
    <2>7. ASSUME s \notin mixed' PROVE HonestRow(new, honoured[s], r) /\ SpacedRow(new, failed[s])
      <3>1. s \notin mixed /\ u \notin overtaken
        BY <1>10, <2>7
      <3>2. Fits(sets, at, row, resumed[s])
        BY <1>7, <2>1, <2>2, <3>1
      <3> QED BY <1>7, <2>2, <2>3, <2>4, <2>5, <3>1, <3>2, FlushKeeps
    <2>8. /\ rows' = [rows EXCEPT ![s] = new] /\ rows'[s] = new
      BY <1>7, <1>10, <2>2, <2>3 DEF FiringInv, SchedulesTyped
    <2>9. r \in Nat /\ r <= now /\ resumed' = [resumed EXCEPT ![s] = r]
      <3>1. resumed = [resumed EXCEPT ![s] = resumed[s]]
        BY <1>7 DEF FiringInv, SchedulesTyped
      <3>2. resumed' = IF new.enabled /\ ~row.enabled
                       THEN [resumed EXCEPT ![s] = now] ELSE resumed
        BY <1>10, <2>2, <2>8
      <3>3. CASE new.enabled /\ ~row.enabled
        BY <2>4, <2>5, <3>2, <3>3
      <3>4. CASE ~(new.enabled /\ ~row.enabled)
        <4>1. r = resumed[s] /\ resumed' = resumed
          BY <2>4, <3>2, <3>4
        <4> QED BY <2>5, <3>1, <4>1
      <3> QED BY <3>3, <3>4
    <2>10. SchedulesTyped'
      <3>1. overtaken' \subseteq Updates /\ mixed' \subseteq Schedules
        BY <1>7, <1>10 DEF FiringInv, SchedulesTyped, Others
      <3> QED BY <1>4, <1>7, <2>6, <2>8, <2>9, <3>1 DEF FiringInv, SchedulesTyped
    <2>11. ASSUME NEW q \in Schedules PROVE Remembered(q)' /\ Kept(q)'
      <3>1. CASE q = s
        BY <1>4, <1>7, <2>5, <2>7, <2>8, <2>9, <3>1 DEF FiringInv, SchedulesTyped, Remembered, Kept
      <3>2. CASE q # s
        BY <1>4, <1>10, <2>8, <2>9, <3>2 DEF FiringInv, SchedulesTyped, Remembered, Kept
      <3> QED BY <3>1, <3>2
    <2> QED BY <1>8, <2>10, <2>11 DEF FiringInv
  <1> QED BY <1>5, <1>9, <1>10

LEMMA TimeStep ==
    ASSUME FiringInv, Tick
    PROVE  FiringInv'
  <1>1. /\ now \in Nat /\ now' = now + 1 /\ now <= now'
        /\ UNCHANGED <<rows, updates, used, honoured, resumed, failed, overtaken, mixed>>
        /\ \A u \in Updates : updates[u] # None => now < updates[u].at + MaxDelay
    BY DEF Tick, FiringInv, SchedulesTyped
  <1>2. SchedulesTyped'
    BY <1>1 DEF FiringInv, SchedulesTyped
  <1>3. ASSUME NEW s \in Schedules PROVE Remembered(s)' /\ Kept(s)'
    <2>1. Remembered(s)'
      BY <1>1 DEF FiringInv, SchedulesTyped, Remembered
    <2>2. Kept(s)'
      BY <1>1 DEF FiringInv, Kept
    <2> QED BY <2>1, <2>2
  <1>4. ASSUME NEW u \in Updates PROVE InFlight(u)'
    <2> SUFFICES ASSUME updates[u] # None PROVE InFlight(u)'
      BY <1>1 DEF InFlight
    <2>1. InFlight(u) /\ now < updates[u].at + MaxDelay
      BY <1>1 DEF FiringInv
    <2>2. PICK at : at = updates[u].at
      OBVIOUS
    <2>3. Recent(at, now) /\ now < at + MaxDelay
      BY <2>1, <2>2 DEF InFlight
    <2>4. Recent(at, now')
      BY <1>1, <2>3, DelayIsNat DEF Recent
    <2> QED BY <1>1, <2>1, <2>2, <2>4 DEF InFlight
  <1> QED BY <1>2, <1>3, <1>4 DEF FiringInv

\* The invariant the theorems below rest on, however many updates of a schedule overlap: a row
\* is armed past its last fire and resumption, one that failed waits out its backoff, unless an
\* update was written to it over another it had not read; and the columns of an update in
\* progress that was not overtaken still fit the row they were read from (ScheduleStore,
\* schedules.py).
THEOREM FiringKept == FiringSpec => []FiringInv
  <1>1. FiringInit => FiringInv
    <2> SUFFICES ASSUME FiringInit PROVE FiringInv
      OBVIOUS
    <2>1. SchedulesTyped
      BY DEF FiringInit, SchedulesTyped
    <2>2. \A s \in Schedules : Remembered(s) /\ Kept(s)
      BY DEF FiringInit, Remembered, Kept
    <2>3. \A u \in Updates : InFlight(u)
      BY DEF FiringInit, InFlight
    <2> QED BY <2>1, <2>2, <2>3 DEF FiringInv
  <1>2. FiringInv /\ [FiringNext]_firingVars => FiringInv'
    <2> SUFFICES ASSUME FiringInv, [FiringNext]_firingVars PROVE FiringInv'
      OBVIOUS
    <2>1. CASE UNCHANGED firingVars
      BY <2>1 DEF firingVars, FiringInv, SchedulesTyped, Remembered, Kept, InFlight
    <2>2. ASSUME NEW s \in Schedules, NEW t \in Clock, Step(s, t), UNCHANGED now
          PROVE  FiringInv'
      <3>1. ASSUME NEW c \in Cadences, NEW z \in Timezones, NEW enabled \in BOOLEAN,
                   Upsert(s, c, z, enabled, t)
            PROVE  FiringInv'
        BY <2>2, <3>1, UpsertStep
      <3>2. ASSUME NEW u \in Updates, NEW change \in Change,
                   ReadForUpdate(u, s, change, t)
            PROVE  FiringInv'
        BY <2>2, <3>2, ReadStep
      <3>3. CASE Delete(s)
        BY <2>2, <3>3, DeleteStep
      <3>4. ASSUME NEW at \in Maybe(Ats), Fire(s, at, t)
            PROVE  FiringInv'
        BY <2>2, <3>4, FireStep
      <3>5. CASE FireDue(s, t)
        BY <2>2, <3>5, FireDueStep
      <3> QED BY <2>2, <3>1, <3>2, <3>3, <3>4, <3>5 DEF Step
    <2>3. ASSUME NEW u \in Updates, WriteUpdate(u), UNCHANGED now PROVE FiringInv'
      BY <2>3, WriteStep
    <2>4. CASE Tick
      BY <2>4, TimeStep
    <2> QED BY <2>1, <2>2, <2>3, <2>4 DEF FiringNext
  <1> QED BY <1>1, <1>2, PTL DEF FiringSpec

\* A schedule that failed is fired by the ticker only after its backoff, which starts at its
\* last failure and lasts by the failures in a row (record_failure, claim_due), but for one an
\* overtaken update was written to since its last fire: of two updates that read the row while
\* it was off, the later to write can put back on a schedule that was auto-paused in between,
\* with its failures and no backoff.
THEOREM StrikesAreSpaced == FiringSpec => []StrikesSpaced
  <1>1. ASSUME FiringInv PROVE StrikesSpaced
    <2> SUFFICES ASSUME NEW s \in Schedules \ mixed, rows[s] # None,
                        rows[s].consecutive_failures > 0, Due(rows[s], now)
                 PROVE  failed[s] + Wait(rows[s].consecutive_failures) <= now + MaxDelay
      BY DEF StrikesSpaced, Spaced, Wait
    <2>1. PICK row \in Row : row = rows[s]
      BY <1>1 DEF FiringInv, SchedulesTyped
    <2>2. /\ row.enabled /\ row.consecutive_failures > 0
          /\ row.retry_after # None => row.retry_after <= now
      BY <2>1 DEF Due
    <2>3. SpacedRow(row, failed[s])
      BY <1>1, <2>1 DEF FiringInv, Kept
    <2>4. /\ row.retry_after # None
          /\ failed[s] + Wait(row.consecutive_failures) <= row.retry_after + MaxDelay
      BY <2>2, <2>3 DEF SpacedRow
    <2>5. row.retry_after \in Nat /\ row.consecutive_failures \in Nat
      BY <2>4, RowFields DEF RowTyped
    <2>6. PICK w \in Nat : w = Wait(row.consecutive_failures)
      BY <1>1, <2>5, WaitIsNat
    <2>7. failed[s] \in Nat /\ now \in Nat /\ MaxDelay \in Nat
      BY <1>1, DelayIsNat DEF FiringInv, SchedulesTyped
    <2>8. failed[s] + w <= now + MaxDelay
      BY <2>2, <2>4, <2>5, <2>6, <2>7
    <2> QED BY <2>1, <2>6, <2>8
  <1> QED BY <1>1, FiringKept, PTL

------------------------------------------------------------------------------
(***************************************************************************)
(* What holds however many updates of a schedule overlap.                  *)
(***************************************************************************)

\* Armed past the last fire, at h, within the age of a clock reading.
PastFire(row, h) == row.next_fire_at # None => h < row.next_fire_at + MaxDelay

ArmedPastFire == \A s \in Schedules : rows[s] # None => PastFire(rows[s], honoured[s])

\* An update arms past the clock it read.
Pending(u) ==
    updates[u] # None => /\ updates[u].schedule \in Schedules
                         /\ Recent(updates[u].at, now)
                         /\ Columns(updates[u].sets, updates[u].at)

OverlapInv ==
    /\ SchedulesTyped /\ ArmedPastFire
    /\ \A s \in Schedules : Remembered(s)
    /\ \A u \in Updates : Pending(u)

LEMMA PastClock ==
    ASSUME NEW t, NEW n, Recent(t, n), NEW h \in Nat, h <= n,
           NEW row, IsPast(row.next_fire_at, t)
    PROVE  PastFire(row, h)
  <1> SUFFICES ASSUME row.next_fire_at # None PROVE h < row.next_fire_at + MaxDelay
    BY DEF PastFire
  <1>1. row.next_fire_at \in Nat /\ row.next_fire_at > t
    BY DEF IsPast
  <1>2. MaxDelay \in Nat
    BY DelayIsNat
  <1> QED BY <1>1, <1>2 DEF Recent

\* A step that writes one row, honoured at h, and leaves the updates.
LEMMA RowWritten ==
    ASSUME OverlapInv, NEW s \in Schedules, NEW new \in Row \cup {None},
           NEW h \in Nat, h <= now, NEW f \in Nat, f <= now, now' = now,
           rows' = [rows EXCEPT ![s] = new], honoured' = [honoured EXCEPT ![s] = h],
           failed' = [failed EXCEPT ![s] = f], resumed' = resumed,
           updates' = updates, used' \subseteq Schedules, new # None => PastFire(new, h),
           overtaken' = overtaken, mixed' \subseteq Schedules
    PROVE  OverlapInv'
  <1>1. SchedulesTyped'
    BY DEF OverlapInv, SchedulesTyped
  <1>2. ASSUME NEW q \in Schedules
        PROVE  Remembered(q)' /\ (rows'[q] # None => PastFire(rows'[q], honoured'[q]))
    <2>1. CASE q = s
      BY <2>1 DEF OverlapInv, SchedulesTyped, Remembered
    <2>2. CASE q # s
      BY <2>2 DEF OverlapInv, SchedulesTyped, Remembered, ArmedPastFire
    <2> QED BY <2>1, <2>2
  <1>3. \A u \in Updates : Pending(u)'
    BY DEF OverlapInv, Pending
  <1> QED BY <1>1, <1>2, <1>3 DEF OverlapInv, ArmedPastFire

LEMMA OverlapFire ==
    ASSUME OverlapInv, now' = now,
           NEW s \in Schedules, NEW t \in Clock, NEW tick \in Nat,
           rows[s] # None, FireFor(s, tick, t)
    PROVE  OverlapInv'
  <1>1. t \in Nat /\ Recent(t, now)
    BY ClockIsRecent DEF OverlapInv
  <1>2. PICK row \in Row : row = rows[s]
    BY DEF OverlapInv, SchedulesTyped
  <1>3. /\ now \in Nat /\ now <= now /\ used \subseteq Schedules /\ mixed \subseteq Schedules
        /\ honoured[s] \in Nat /\ honoured[s] <= now /\ failed[s] \in Nat /\ failed[s] <= now
        /\ honoured = [honoured EXCEPT ![s] = honoured[s]]
        /\ failed = [failed EXCEPT ![s] = failed[s]]
    BY DEF OverlapInv, SchedulesTyped, Remembered
  <1>4. PastFire(row, honoured[s])
    BY <1>2 DEF OverlapInv, ArmedPastFire
  <1>5. CASE /\ rows' = [rows EXCEPT ![s] = Succeeded(@, tick, t)]
             /\ honoured' = [honoured EXCEPT ![s] = now]
             /\ mixed' = mixed \ {s}
             /\ UNCHANGED <<updates, used, resumed, failed, overtaken>>
    <2>1. PICK new : new = Succeeded(row, tick, t)
      OBVIOUS
    <2>2. Reset(row, new, tick, t)
      BY <1>1, <2>1, SucceededFields
    <2>3. new \in Row /\ IsPast(new.next_fire_at, t)
      BY <2>2 DEF Reset
    <2>4. PastFire(new, now)
      BY <1>1, <1>3, <2>3, PastClock
    <2>5. /\ rows' = [rows EXCEPT ![s] = new] /\ failed' = [failed EXCEPT ![s] = failed[s]]
          /\ mixed' \subseteq Schedules
      BY <1>2, <1>3, <1>5, <2>1
    <2> QED BY <1>3, <1>5, <2>3, <2>4, <2>5, RowWritten
  <1>6. ASSUME NEW retryable \in BOOLEAN,
               rows' = [rows EXCEPT ![s] = Failed(@, retryable, t)],
               failed' = [failed EXCEPT ![s] = now],
               UNCHANGED <<updates, used, honoured, resumed, overtaken, mixed>>
        PROVE  OverlapInv'
    <2>1. PICK new : new = Failed(row, retryable, t)
      OBVIOUS
    <2>2. new \in Row /\ new.next_fire_at = row.next_fire_at
      BY <1>1, <2>1, FailedFields
    <2>3. PastFire(new, honoured[s])
      BY <1>4, <2>2 DEF PastFire
    <2>4. rows' = [rows EXCEPT ![s] = new] /\ honoured' = [honoured EXCEPT ![s] = honoured[s]]
      BY <1>2, <1>3, <1>6, <2>1
    <2> QED BY <1>3, <1>6, <2>2, <2>3, <2>4, RowWritten
  <1> QED BY <1>5, <1>6 DEF FireFor

LEMMA OverlapUpsert ==
    ASSUME OverlapInv, now' = now,
           NEW s \in Schedules, NEW t \in Clock,
           NEW c \in Cadences, NEW z \in Timezones, NEW enabled \in BOOLEAN,
           Upsert(s, c, z, enabled, t)
    PROVE  OverlapInv'
  <1>1. t \in Nat /\ Recent(t, now)
    BY ClockIsRecent DEF OverlapInv
  <1>2. PICK blank : blank = [cadence |-> c, timezone |-> z, enabled |-> enabled,
                              next_fire_at |-> None, last_fired_at |-> None,
                              consecutive_failures |-> 0, retry_after |-> None]
    OBVIOUS
  <1>3. blank \in Row
    BY <1>2 DEF Row, Maybe
  <1>4. PICK new : new = Arm(blank, t)
    OBVIOUS
  <1>5. new \in Row /\ IsPast(new.next_fire_at, t)
    <2>1. ArmedAs(blank, new, t)
      BY <1>1, <1>3, <1>4, Armed
    <2> QED BY <2>1 DEF ArmedAs
  <1>6. /\ rows' = [rows EXCEPT ![s] = new]
        /\ used' = used \cup {s} /\ honoured' = [honoured EXCEPT ![s] = now]
        /\ updates' = updates /\ resumed' = resumed /\ failed' = failed
        /\ overtaken' = overtaken /\ mixed' = mixed
    BY <1>2, <1>4 DEF Upsert
  <1>7. /\ now \in Nat /\ now <= now /\ used' \subseteq Schedules /\ mixed' \subseteq Schedules
        /\ failed[s] \in Nat /\ failed[s] <= now /\ failed' = [failed EXCEPT ![s] = failed[s]]
    BY <1>6 DEF OverlapInv, SchedulesTyped, Remembered
  <1>8. PastFire(new, now)
    BY <1>1, <1>5, <1>7, PastClock
  <1> QED BY <1>5, <1>6, <1>7, <1>8, RowWritten

LEMMA OverlapRead ==
    ASSUME OverlapInv, now' = now,
           NEW s \in Schedules, NEW t \in Clock,
           NEW u \in Updates, NEW change \in Change, ReadForUpdate(u, s, change, t)
    PROVE  OverlapInv'
  <1>1. t \in Nat /\ Recent(t, now)
    BY ClockIsRecent DEF OverlapInv
  <1>2. PICK row \in Row : row = rows[s]
    BY DEF ReadForUpdate, OverlapInv, SchedulesTyped
  <1>3. PICK new : new = Changed(row, change, t)
    OBVIOUS
  <1>4. PICK sets : sets = Written(row, new)
    OBVIOUS
  <1>5. Updated(row, new, t)
    BY <1>1, <1>3, ChangedFields
  <1>6. resumed[s] \in Nat /\ resumed[s] <= now
    BY DEF OverlapInv, SchedulesTyped, Remembered
  <1>7. Columns(sets, t)
    BY <1>1, <1>4, <1>5, <1>6, ReadFits
  <1>8. PICK update : update = [schedule |-> s, sets |-> sets, at |-> t]
    OBVIOUS
  <1>9. /\ updates' = [updates EXCEPT ![u] = update]
        /\ rows' = rows /\ used' = used /\ honoured' = honoured /\ resumed' = resumed
        /\ failed' = failed /\ overtaken' = overtaken /\ mixed' = mixed
    BY <1>2, <1>3, <1>4, <1>8 DEF ReadForUpdate
  <1>10. SchedulesTyped' /\ ArmedPastFire' /\ \A q \in Schedules : Remembered(q)'
    BY <1>9 DEF OverlapInv, SchedulesTyped, ArmedPastFire, Remembered
  <1>11. ASSUME NEW v \in Updates PROVE Pending(v)'
    <2>1. updates'[v] = IF v = u THEN update ELSE updates[v]
      BY <1>9 DEF OverlapInv, SchedulesTyped
    <2>2. update.schedule = s /\ update.sets = sets /\ update.at = t
      BY <1>8
    <2>3. CASE v = u
      BY <1>1, <1>7, <2>1, <2>2, <2>3 DEF Pending
    <2>4. CASE v # u
      BY <2>1, <2>4 DEF OverlapInv, Pending
    <2> QED BY <2>3, <2>4
  <1> QED BY <1>10, <1>11 DEF OverlapInv

LEMMA OverlapWrite ==
    ASSUME OverlapInv, now' = now,
           NEW u \in Updates, WriteUpdate(u)
    PROVE  OverlapInv'
  <1>1. PICK s : s = updates[u].schedule
    OBVIOUS
  <1>2. PICK sets : sets = updates[u].sets
    OBVIOUS
  <1>3. PICK at : at = updates[u].at
    OBVIOUS
  <1>4. /\ updates[u] # None /\ updates' = [updates EXCEPT ![u] = None]
        /\ used' = used /\ honoured' = honoured /\ failed' = failed
    BY DEF WriteUpdate
  <1>5. s \in Schedules /\ Recent(at, now) /\ Columns(sets, at)
    BY <1>1, <1>2, <1>3, <1>4 DEF OverlapInv, Pending
  <1>0. overtaken' \subseteq Updates /\ mixed' \subseteq Schedules
    BY <1>1, <1>5 DEF WriteUpdate, Others, OverlapInv, SchedulesTyped
  <1>6. ASSUME NEW v \in Updates PROVE Pending(v)'
    BY <1>4 DEF OverlapInv, SchedulesTyped, Pending
  <1>7. CASE UNCHANGED <<rows, resumed>>
    <2>1. SchedulesTyped' /\ ArmedPastFire' /\ \A q \in Schedules : Remembered(q)'
      BY <1>0, <1>4, <1>7 DEF OverlapInv, SchedulesTyped, ArmedPastFire, Remembered
    <2> QED BY <1>6, <2>1 DEF OverlapInv
  <1>8. CASE /\ rows[s] # None
             /\ rows' = [rows EXCEPT ![s] = Flushed(@, sets)]
             /\ resumed' \in {resumed, [resumed EXCEPT ![s] = now]}
    <2>1. PICK row \in Row : row = rows[s]
      BY <1>5, <1>8 DEF OverlapInv, SchedulesTyped
    <2>2. PICK new : new = Flushed(row, sets)
      OBVIOUS
    <2>3. /\ new \in Row
          /\ new.next_fire_at =
                IF "next_fire_at" \in DOMAIN sets THEN sets.next_fire_at ELSE row.next_fire_at
      BY <1>5, <2>2, FlushedFields DEF Columns
    <2>4. honoured[s] \in Nat /\ honoured[s] <= now /\ PastFire(row, honoured[s])
      BY <1>5, <1>8, <2>1 DEF OverlapInv, SchedulesTyped, Remembered, ArmedPastFire
    <2>5. PastFire(new, honoured[s])
      <3>1. CASE "next_fire_at" \in DOMAIN sets
        <4>1. IsPast(new.next_fire_at, at)
          BY <1>5, <2>3, <3>1 DEF Columns
        <4> QED BY <1>5, <2>4, <4>1, PastClock
      <3>2. CASE "next_fire_at" \notin DOMAIN sets
        BY <2>3, <2>4, <3>2 DEF PastFire
      <3> QED BY <3>1, <3>2
    <2>6. rows' = [rows EXCEPT ![s] = new]
      BY <1>8, <2>1, <2>2
    <2>7. /\ now \in Nat /\ now <= now /\ resumed' \in [Schedules -> Nat]
          /\ \A q \in Schedules : resumed'[q] <= now
      BY <1>5, <1>8 DEF OverlapInv, SchedulesTyped, Remembered
    <2>8. SchedulesTyped'
      BY <1>0, <1>4, <2>3, <2>6, <2>7 DEF OverlapInv, SchedulesTyped
    <2>9. \A q \in Schedules : Remembered(q)'
      BY <1>4, <2>7 DEF OverlapInv, Remembered
    <2>10. ASSUME NEW q \in Schedules, rows'[q] # None PROVE PastFire(rows'[q], honoured'[q])
      <3>1. CASE q = s
        BY <1>4, <2>5, <2>6, <3>1 DEF OverlapInv, SchedulesTyped
      <3>2. CASE q # s
        BY <1>4, <2>6, <2>10, <3>2 DEF OverlapInv, SchedulesTyped, ArmedPastFire
      <3> QED BY <3>1, <3>2
    <2> QED BY <1>6, <2>8, <2>9, <2>10 DEF OverlapInv, ArmedPastFire
  <1>9. \/ UNCHANGED <<rows, resumed>>
        \/ /\ rows[s] # None
           /\ rows' = [rows EXCEPT ![s] = Flushed(@, sets)]
           /\ resumed' \in {resumed, [resumed EXCEPT ![s] = now]}
    BY <1>1, <1>2 DEF WriteUpdate, Refused
  <1> QED BY <1>7, <1>8, <1>9

LEMMA OverlapTime ==
    ASSUME OverlapInv, Tick
    PROVE  OverlapInv'
  <1>1. /\ now \in Nat /\ now' = now + 1 /\ now <= now'
        /\ UNCHANGED <<rows, updates, used, honoured, resumed, failed, overtaken, mixed>>
        /\ \A u \in Updates : updates[u] # None => now < updates[u].at + MaxDelay
    BY DEF Tick, OverlapInv, SchedulesTyped
  <1>2. SchedulesTyped' /\ ArmedPastFire'
    BY <1>1 DEF OverlapInv, SchedulesTyped, ArmedPastFire
  <1>3. ASSUME NEW s \in Schedules PROVE Remembered(s)'
    BY <1>1 DEF OverlapInv, SchedulesTyped, Remembered
  <1>4. ASSUME NEW u \in Updates PROVE Pending(u)'
    <2> SUFFICES ASSUME updates[u] # None PROVE Pending(u)'
      BY <1>1 DEF Pending
    <2>1. Pending(u) /\ now < updates[u].at + MaxDelay
      BY <1>1 DEF OverlapInv
    <2>2. PICK at : at = updates[u].at
      OBVIOUS
    <2>3. Recent(at, now) /\ now < at + MaxDelay
      BY <2>1, <2>2 DEF Pending
    <2>4. Recent(at, now')
      BY <1>1, <2>3, DelayIsNat DEF Recent
    <2> QED BY <1>1, <2>1, <2>2, <2>4 DEF Pending
  <1> QED BY <1>2, <1>3, <1>4 DEF OverlapInv

LEMMA OverlapKept ==
    FiringSpec => []OverlapInv
  <1>1. FiringInit => OverlapInv
    <2> SUFFICES ASSUME FiringInit PROVE OverlapInv
      OBVIOUS
    <2>1. SchedulesTyped
      BY DEF FiringInit, SchedulesTyped
    <2>2. ArmedPastFire /\ \A s \in Schedules : Remembered(s)
      BY DEF FiringInit, ArmedPastFire, Remembered
    <2>3. \A u \in Updates : Pending(u)
      BY DEF FiringInit, Pending
    <2> QED BY <2>1, <2>2, <2>3 DEF OverlapInv
  <1>2. OverlapInv /\ [FiringNext]_firingVars => OverlapInv'
    <2> SUFFICES ASSUME OverlapInv, [FiringNext]_firingVars PROVE OverlapInv'
      OBVIOUS
    <2>1. CASE UNCHANGED firingVars
      BY <2>1 DEF firingVars, OverlapInv, SchedulesTyped, ArmedPastFire, Remembered, Pending
    <2>2. ASSUME NEW s \in Schedules, NEW t \in Clock, Step(s, t), UNCHANGED now
          PROVE  OverlapInv'
      <3>1. ASSUME NEW c \in Cadences, NEW z \in Timezones, NEW enabled \in BOOLEAN,
                   Upsert(s, c, z, enabled, t)
            PROVE  OverlapInv'
        BY <2>2, <3>1, OverlapUpsert
      <3>2. ASSUME NEW u \in Updates, NEW change \in Change,
                   ReadForUpdate(u, s, change, t)
            PROVE  OverlapInv'
        BY <2>2, <3>2, OverlapRead
      <3>3. ASSUME Delete(s) PROVE OverlapInv'
        <4>1. /\ rows' = [rows EXCEPT ![s] = None]
              /\ updates' = updates /\ used' = used
              /\ honoured' = honoured /\ resumed' = resumed /\ failed' = failed
              /\ overtaken' = overtaken /\ mixed' = mixed
          BY <3>3 DEF Delete
        <4>2. /\ honoured[s] \in Nat /\ honoured[s] <= now /\ failed[s] \in Nat /\ failed[s] <= now
              /\ honoured' = [honoured EXCEPT ![s] = honoured[s]]
              /\ failed' = [failed EXCEPT ![s] = failed[s]]
              /\ used' \subseteq Schedules /\ mixed' \subseteq Schedules
          BY <4>1 DEF OverlapInv, SchedulesTyped, Remembered
        <4> QED BY <2>2, <4>1, <4>2, RowWritten
      <3>4. ASSUME NEW at \in Maybe(Ats), Fire(s, at, t) PROVE OverlapInv'
        <4>1. rows[s] # None /\ rows[s] \in Row /\ t \in Nat
          BY <3>4, ClockIsRecent DEF Fire, OverlapInv, SchedulesTyped
        <4>2. PICK due : due = rows[s].next_fire_at
          OBVIOUS
        <4>3. PICK tick : tick = IF at # None THEN at
                                 ELSE IF due # None /\ due <= t THEN due ELSE t
          OBVIOUS
        <4>4. FireFor(s, tick, t)
          BY <3>4, <4>2, <4>3 DEF Fire
        <4>5. due \in Nat \cup {None}
          BY <4>1, <4>2, RowFields DEF RowTyped
        <4>6. at \in Nat \cup {None}
          BY ScheduleAssumption DEF Maybe
        <4>7. tick \in Nat
          BY <4>1, <4>3, <4>5, <4>6
        <4> QED BY <2>2, <4>1, <4>4, <4>7, OverlapFire
      <3>5. ASSUME FireDue(s, t) PROVE OverlapInv'
        <4>1. /\ rows[s] # None /\ rows[s] \in Row
              /\ rows[s].next_fire_at # None /\ FireFor(s, rows[s].next_fire_at, t)
          BY <3>5 DEF FireDue, Due, OverlapInv, SchedulesTyped
        <4>2. rows[s].next_fire_at \in Nat
          BY <4>1, RowFields DEF RowTyped
        <4> QED BY <2>2, <4>1, <4>2, OverlapFire
      <3> QED BY <2>2, <3>1, <3>2, <3>3, <3>4, <3>5 DEF Step
    <2>3. ASSUME NEW u \in Updates, WriteUpdate(u), UNCHANGED now PROVE OverlapInv'
      BY <2>3, OverlapWrite
    <2>4. CASE Tick
      BY <2>4, OverlapTime
    <2> QED BY <2>1, <2>2, <2>3, <2>4 DEF FiringNext
  <1> QED BY <1>1, <1>2, PTL DEF FiringSpec

\* Downtime is never replayed, however many updates overlap, and though each writes columns it
\* computed from a row it read without a lock: a schedule is armed for a tick later than its
\* last fire (record_success), within the age of a clock reading.
THEOREM NeverReplays ==
    FiringSpec => []ArmedPastFire
  <1>1. OverlapInv => ArmedPastFire
    BY DEF OverlapInv
  <1> QED BY <1>1, OverlapKept, PTL

\* Never the backlog, whatever callers and tickers do, with clocks of any age and any number of
\* updates under way: a schedule is armed for a tick later than its last fire (record_success)
\* and, once resumed, for none that a later one had superseded (update, _rearm), but for one an
\* overtaken update was written to since its last fire: of two that overlap, the later to write
\* can resume once more what the first resumed and a fire then paused, armed as it was read.
THEOREM ArmsPastItsFires == FiringSpec => []NoBacklog
  <1>1. FiringInv /\ OverlapInv => NoBacklog
    <2> SUFFICES ASSUME FiringInv, OverlapInv, NEW s \in Schedules, rows[s] # None,
                        rows[s].next_fire_at # None
                 PROVE  /\ honoured[s] < rows[s].next_fire_at + MaxDelay
                        /\ s \notin mixed /\ After(rows[s]) # None
                           => resumed[s] < After(rows[s]) + MaxDelay
      BY DEF NoBacklog, After
    <2>1. PastFire(rows[s], honoured[s])
      BY DEF OverlapInv, ArmedPastFire
    <2>2. s \notin mixed => HonestRow(rows[s], honoured[s], resumed[s])
      BY DEF FiringInv, Kept
    <2> QED BY <2>1, <2>2 DEF HonestRow, PastFire
  <1> QED BY <1>1, FiringKept, OverlapKept, PTL

\* A row stays a row whatever mix of columns the updates in progress write into it
\* (update, _flush).
THEOREM SchedulesStayTyped ==
    FiringSpec => []FiringTypeOK
  <1>1. OverlapInv => FiringTypeOK
    <2> SUFFICES ASSUME OverlapInv PROVE FiringTypeOK
      OBVIOUS
    <2>1. rows \in [Schedules -> Maybe(Row)] /\ DOMAIN updates = Updates
      BY DEF OverlapInv, SchedulesTyped, Maybe
    <2>2. ASSUME NEW u \in Updates, updates[u] # None
          PROVE  /\ updates[u].schedule \in Schedules /\ updates[u].at \in Nat
                 /\ SetsTyped(updates[u].sets)
      BY <2>2 DEF OverlapInv, Pending, Recent, Columns
    <2>3. ASSUME NEW u \in Updates, updates[u] # None, NEW s \in Schedules, rows[s] # None
          PROVE  Flushed(rows[s], updates[u].sets) \in Row
      <3>1. PICK row \in Row : row = rows[s]
        BY <2>3 DEF OverlapInv, SchedulesTyped
      <3>2. PICK sets : sets = updates[u].sets
        OBVIOUS
      <3>3. SetsTyped(sets)
        BY <2>2, <2>3, <3>2
      <3>4. Flushed(row, sets) \in Row
        BY <3>3, FlushedFields
      <3> QED BY <3>1, <3>2, <3>4
    <2>4. /\ now \in Nat /\ used \subseteq Schedules
          /\ honoured \in [Schedules -> Nat] /\ resumed \in [Schedules -> Nat]
          /\ failed \in [Schedules -> Nat]
          /\ overtaken \subseteq Updates /\ mixed \subseteq Schedules
      BY DEF OverlapInv, SchedulesTyped
    <2> QED BY <2>1, <2>2, <2>3, <2>4 DEF FiringTypeOK
  <1> QED BY <1>1, OverlapKept, PTL

------------------------------------------------------------------------------
\* Arming at an instant before a tick arms for none later than that tick.
LEMMA ArmsNoLater ==
    ASSUME NEW row \in Row, NEW t \in Nat,
           NEW due \in Occurrences[<<row.cadence, row.timezone>>], t < due
    PROVE  NextFireAt(row, t) \in Nat /\ NextFireAt(row, t) <= due
  <1>1. PICK ticks : ticks = Occurrences[<<row.cadence, row.timezone>>]
    OBVIOUS
  <1>2. row.cadence \in Cadences /\ row.timezone \in Timezones
    BY RowFields DEF RowTyped
  <1>3. ticks \subseteq Nat
    <2>1. Occurrences \in [Cadences \X Timezones -> SUBSET Nat]
      BY ScheduleAssumption
    <2>2. <<row.cadence, row.timezone>> \in Cadences \X Timezones
      BY <1>2
    <2> QED BY <1>1, <2>1, <2>2
  <1> DEFINE later == {o \in ticks : o > t}
  <1>4. later \in SUBSET Nat /\ due \in later
    BY <1>1, <1>3
  <1>5. \E m \in later : \A k \in later : m <= k
    BY <1>4, Least
  <1>6. PICK m : m = CHOOSE o \in later : \A p \in later : o <= p
    OBVIOUS
  <1>7. m \in later /\ m <= due
    BY <1>4, <1>5, <1>6
  <1>8. NextFireAt(row, t) = m
    BY <1>1, <1>4, <1>6 DEF NextFireAt
  <1> QED BY <1>4, <1>7, <1>8

\* No tick is armed, or one past due.
ArmedPast(row, due) == row.next_fire_at # None => row.next_fire_at > due

\* What a step may have done to a schedule whose tick is owed.
Accounted(row, new, tick) ==
    \/ new.last_fired_at = tick
    \/ <<new.cadence, new.timezone>> # <<row.cadence, row.timezone>>

\* A fire keeps the tick, or is for it, unless a caller asked for another instant.
LEMMA FireAccounts ==
    ASSUME FiringInv, NEW s \in Schedules,
           NEW t \in Clock, NEW q \in Schedules, NEW tick \in Nat, FireFor(q, tick, t),
           rows[s] # None, rows'[s] # None,
           NEW due \in Nat, due = rows[s].next_fire_at, ArmedPast(rows'[s], due),
           due \in Occurrences[<<rows[s].cadence, rows[s].timezone>>],
           q = s => tick = due \/ (tick = t /\ t < due)
    PROVE  Accounted(rows[s], rows'[s], due)
  <1>1. t \in Nat /\ Recent(t, now)
    BY ClockIsRecent DEF FiringInv
  <1>2. PICK row \in Row : row = rows[s]
    BY DEF FiringInv, SchedulesTyped
  <1>3. CASE q # s
    <2>1. rows'[s] = rows[s]
      BY <1>3 DEF FireFor, FiringInv, SchedulesTyped
    <2> QED BY <2>1, DelayIsNat DEF ArmedPast
  <1>4. CASE q = s /\ rows' = [rows EXCEPT ![q] = Succeeded(@, tick, t)]
    <2>1. PICK new : new = Succeeded(row, tick, t)
      OBVIOUS
    <2>2. rows'[s] = new
      BY <1>2, <1>4, <2>1 DEF FiringInv, SchedulesTyped
    <2>3. Reset(row, new, tick, t)
      BY <1>1, <2>1, SucceededFields
    <2>4. CASE tick = due
      BY <2>2, <2>3, <2>4 DEF Reset, Accounted
    <2>5. CASE tick = t /\ t < due
      <3>1. Later(tick, t) = t
        BY <1>1, <2>5 DEF Later
      <3>2. NextFireAt(row, t) \in Nat /\ NextFireAt(row, t) <= due
        BY <1>1, <1>2, <2>5, ArmsNoLater
      <3> QED BY <2>2, <2>3, <3>1, <3>2, DelayIsNat DEF Reset, ArmedPast
    <2> QED BY <1>4, <2>4, <2>5
  <1>5. ASSUME q = s, NEW retryable \in BOOLEAN,
               rows' = [rows EXCEPT ![q] = Failed(@, retryable, t)]
        PROVE  FALSE
    <2>1. PICK new : new = Failed(row, retryable, t)
      OBVIOUS
    <2>2. rows'[s] = new
      BY <1>2, <1>5, <2>1 DEF FiringInv, SchedulesTyped
    <2>3. new.next_fire_at = row.next_fire_at
      BY <1>1, <2>1, FailedFields
    <2> QED BY <1>2, <2>2, <2>3, DelayIsNat DEF ArmedPast
  <1> QED BY <1>3, <1>4, <1>5 DEF FireFor

\* An update that takes an owed tick away is a retiming, or was overtaken.
LEMMA WriteAccounts ==
    ASSUME FiringInv, NEW s \in Schedules,
           NEW u \in Updates \ overtaken, WriteUpdate(u),
           rows[s] # None, rows[s].enabled, rows'[s] # None,
           rows'[s].next_fire_at # rows[s].next_fire_at
    PROVE  Accounted(rows[s], rows'[s], rows[s].next_fire_at)
  <1>1. PICK row \in Row : row = rows[s]
    BY DEF FiringInv, SchedulesTyped
  <1>2. PICK q : q = updates[u].schedule
    OBVIOUS
  <1>3. PICK sets : sets = updates[u].sets
    OBVIOUS
  <1>4. updates[u] # None /\ InFlight(u)
    BY DEF WriteUpdate, FiringInv
  <1>5. rows' = [rows EXCEPT ![q] = Flushed(@, sets)] \/ rows' = rows
    BY <1>2, <1>3 DEF WriteUpdate
  <1>6. q = s /\ rows'[s] = Flushed(row, sets)
    BY <1>1, <1>5 DEF FiringInv, SchedulesTyped
  <1>7. Columns(sets, updates[u].at) /\ Fits(sets, updates[u].at, row, resumed[s])
    BY <1>1, <1>2, <1>3, <1>4, <1>6 DEF InFlight
  <1>8. PICK new : new = Flushed(row, sets)
    OBVIOUS
  <1>9. /\ new.cadence = IF "cadence" \in DOMAIN sets THEN sets.cadence ELSE row.cadence
        /\ new.timezone = IF "timezone" \in DOMAIN sets THEN sets.timezone ELSE row.timezone
        /\ new.next_fire_at =
              IF "next_fire_at" \in DOMAIN sets THEN sets.next_fire_at ELSE row.next_fire_at
    BY <1>7, <1>8, FlushedFields DEF Columns
  <1>10. "next_fire_at" \in DOMAIN sets
    BY <1>1, <1>6, <1>8, <1>9
  <1>11. ~Resumes(sets)
    BY <1>1, <1>7 DEF Fits
  <1>12. Retimes(sets)
    BY <1>7, <1>10, <1>11 DEF Columns
  <1>13. new.cadence # row.cadence \/ new.timezone # row.timezone
    BY <1>7, <1>9, <1>12 DEF Retimes, Fits
  <1> QED BY <1>1, <1>6, <1>8, <1>13 DEF Accounted

\* The schedule's tick is owed, and a step arms it past the tick; a caller asked for another
\* instant; an overtaken update is written.
Owed(s) ==
    /\ rows[s] # None /\ rows[s].enabled
    /\ rows[s].next_fire_at \in Occurrences[<<rows[s].cadence, rows[s].timezone>>]
    /\ rows[s].next_fire_at <= now
    /\ rows'[s] # None /\ ArmedPast(rows'[s], rows[s].next_fire_at)

Asked(s) == \E at \in Ats, t \in Clock : Fire(s, at, t)

Overwritten(s) == \E u \in overtaken : updates[u].schedule = s /\ WriteUpdate(u)

LEMMA OwedNext ==
    ASSUME FiringInv, FiringNext, NEW s \in Schedules, Owed(s)
    PROVE  Accounted(rows[s], rows'[s], rows[s].next_fire_at) \/ Asked(s) \/ Overwritten(s)
  <1>0. rows[s] \in Row /\ rows[s] # None /\ rows[s].enabled /\ rows'[s] # None
    BY DEF Owed, FiringInv, SchedulesTyped
  <1>2. PICK due : due = rows[s].next_fire_at
    OBVIOUS
  <1>3. /\ due \in Occurrences[<<rows[s].cadence, rows[s].timezone>>] /\ due <= now
        /\ ArmedPast(rows'[s], due)
    BY <1>2 DEF Owed
  <1>4. due \in Nat /\ due # None
    <2>1. Occurrences \in [Cadences \X Timezones -> SUBSET Nat] /\ None \notin Nat
      BY ScheduleAssumption
    <2>2. <<rows[s].cadence, rows[s].timezone>> \in Cadences \X Timezones
      BY <1>0, RowFields DEF RowTyped
    <2> QED BY <1>3, <2>1, <2>2
  <1>1. /\ rows'[s] # rows[s] /\ rows[s] \in Row /\ rows[s] # None /\ rows[s].enabled
        /\ rows'[s] # None /\ rows'[s].next_fire_at # due
    BY <1>0, <1>2, <1>3, <1>4 DEF ArmedPast
  <1>5. ASSUME NEW q \in Schedules, NEW t \in Clock, NEW tick \in Nat,
               FireFor(q, tick, t), q = s => tick = due \/ (tick = t /\ t < due)
        PROVE  Accounted(rows[s], rows'[s], rows[s].next_fire_at)
    BY <1>1, <1>2, <1>3, <1>4, <1>5, FireAccounts
  <1>6. ASSUME NEW q \in Schedules, NEW t \in Clock, Step(q, t)
        PROVE  Accounted(rows[s], rows'[s], rows[s].next_fire_at) \/ Asked(s)
    <2>1. t \in Nat
      BY <1>6, ClockIsRecent DEF FiringInv
    <2>2. ASSUME NEW c \in Cadences, NEW z \in Timezones, NEW enabled \in BOOLEAN,
                 Upsert(q, c, z, enabled, t)
          PROVE  FALSE
      <3>1. q # s
        BY <1>1, <2>2 DEF Upsert, FiringInv, Kept
      <3>2. rows'[s] = rows[s]
        BY <2>2, <3>1 DEF Upsert, FiringInv, SchedulesTyped
      <3> QED BY <1>1, <3>2
    <2>3. ASSUME NEW u \in Updates, NEW change \in Change,
                 ReadForUpdate(u, q, change, t)
          PROVE  FALSE
      BY <1>1, <2>3 DEF ReadForUpdate
    <2>4. ASSUME Delete(q) PROVE FALSE
      BY <1>1, <2>4 DEF Delete, FiringInv, SchedulesTyped
    <2>5. ASSUME NEW at \in Maybe(Ats), Fire(q, at, t)
          PROVE  Accounted(rows[s], rows'[s], rows[s].next_fire_at) \/ Asked(s)
      <3>1. PICK armed : armed = rows[q].next_fire_at
        OBVIOUS
      <3>2. PICK tick : tick = IF at # None THEN at
                               ELSE IF armed # None /\ armed <= t THEN armed ELSE t
        OBVIOUS
      <3>3. FireFor(q, tick, t) /\ rows[q] # None
        BY <2>5, <3>1, <3>2 DEF Fire
      <3>4. rows[q] \in Row
        BY <3>3 DEF FiringInv, SchedulesTyped
      <3>5. armed \in Nat \cup {None}
        BY <3>1, <3>4, RowFields DEF RowTyped
      <3>6. at \in Nat \cup {None}
        BY ScheduleAssumption DEF Maybe
      <3>7. tick \in Nat
        BY <2>1, <3>2, <3>5, <3>6
      <3>8. CASE q = s /\ at # None
        <4>1. at \in Ats
          BY <3>8 DEF Maybe
        <4> QED BY <2>5, <3>8, <4>1 DEF Asked
      <3>9. CASE q # s \/ at = None
        <4>1. q = s => tick = due \/ (tick = t /\ t < due)
          BY <1>2, <1>4, <2>1, <3>1, <3>2, <3>9
        <4> QED BY <1>5, <3>3, <3>7, <4>1
      <3> QED BY <3>8, <3>9
    <2>6. ASSUME FireDue(q, t)
          PROVE  Accounted(rows[s], rows'[s], rows[s].next_fire_at)
      <3>1. PICK tick : tick = rows[q].next_fire_at
        OBVIOUS
      <3>2. /\ rows[q] # None /\ rows[q] \in Row /\ tick # None
            /\ FireFor(q, tick, t)
        BY <2>6, <3>1 DEF FireDue, Due, FiringInv, SchedulesTyped
      <3>3. tick \in Nat
        BY <3>1, <3>2, RowFields DEF RowTyped
      <3> QED BY <1>2, <1>5, <3>1, <3>2, <3>3
    <2> QED BY <1>6, <2>2, <2>3, <2>4, <2>5, <2>6 DEF Step
  <1>7. ASSUME NEW u \in Updates, WriteUpdate(u)
        PROVE  Accounted(rows[s], rows'[s], rows[s].next_fire_at) \/ Overwritten(s)
    <2>1. CASE u \notin overtaken
      BY <1>1, <1>2, <1>7, <2>1, WriteAccounts
    <2>2. CASE u \in overtaken
      <3>1. updates[u].schedule = s
        BY <1>1, <1>7 DEF WriteUpdate, FiringInv, SchedulesTyped
      <3> QED BY <1>7, <2>2, <3>1 DEF Overwritten
    <2> QED BY <2>1, <2>2
  <1>8. ASSUME Tick PROVE FALSE
    BY <1>1, <1>8 DEF Tick
  <1> QED BY <1>6, <1>7, <1>8 DEF FiringNext

\* A tick that is owed is fired, whatever failed, was read stale or was updated meanwhile:
\* nothing but a retiming, a delete, a fire a caller asked for another instant or an overtaken
\* update arms its schedule past it (_rearm, record_success, fire).
THEOREM OwedTicksAreFired == FiringSpec => OwedTickKept
  <1> DEFINE TickKept ==
        \A s \in Schedules :
          LET tick  == rows[s].next_fire_at
              armed == rows'[s].next_fire_at
          IN  /\ rows[s] # None /\ rows[s].enabled
              /\ tick \in Occurrences[<<rows[s].cadence, rows[s].timezone>>] /\ tick <= now
              /\ rows'[s] # None /\ (armed # None => armed > tick)
              => \/ rows'[s].last_fired_at = tick
                 \/ <<rows'[s].cadence, rows'[s].timezone>> # <<rows[s].cadence, rows[s].timezone>>
                 \/ \E at \in Ats, t \in Clock : Fire(s, at, t)
                 \/ \E u \in overtaken : updates[u].schedule = s /\ WriteUpdate(u)
  <1>1. ASSUME FiringInv, [FiringNext]_firingVars
        PROVE  [TickKept]_firingVars
    <2> SUFFICES ASSUME FiringNext, NEW s \in Schedules, Owed(s)
                 PROVE  Accounted(rows[s], rows'[s], rows[s].next_fire_at) \/ Asked(s)
                        \/ Overwritten(s)
      BY <1>1 DEF Owed, ArmedPast, Asked, Accounted, Overwritten
    <2> QED BY <1>1, OwedNext
  <1>2. [][TickKept]_firingVars => OwedTickKept
    BY PTL DEF OwedTickKept
  <1> QED BY <1>1, <1>2, FiringKept, PTL DEF FiringSpec
==============================================================================
