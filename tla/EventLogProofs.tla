---------------------------- MODULE EventLogProofs ----------------------------
(***************************************************************************)
(* What EventLog guarantees for every value of its constants: any number   *)
(* of workers and appends, any sizes of page, any limit on retries.        *)
(***************************************************************************)
EXTENDS EventLog, SequenceTheorems, WellFoundedInduction, TLAPS

------------------------------------------------------------------------------
(***************************************************************************)
(* What an append adds, by induction on the events of its batch.           *)
(***************************************************************************)

\* Induction on the natural numbers, for a set of them.
LEMMA NaturalsFrom ==
    ASSUME NEW T, 0 \in T, \A n \in Nat : n \in T => n + 1 \in T
    PROVE  \A n \in Nat : n \in T
  <1> SUFFICES ASSUME NEW n \in Nat, n \notin T PROVE FALSE
    OBVIOUS
  <1> DEFINE Rest == {m \in Nat : m \notin T}
  <1>1. IsWellFoundedOn(OpToRel(<, Nat), Nat)
    BY NatLessThanWellFounded
  <1>2. Rest \subseteq Nat /\ Rest # {}
    OBVIOUS
  <1>3. PICK m \in Rest : \A k \in Rest : ~(<<k, m>> \in OpToRel(<, Nat))
    BY <1>1, <1>2, WFMin
  <1>4. \A k \in Rest : ~(k < m)
    BY <1>3 DEF OpToRel
  <1>5. m \in Nat /\ m \notin T /\ m # 0
    OBVIOUS
  <1>6. m - 1 \in Nat /\ m - 1 < m /\ (m - 1) + 1 = m
    BY <1>5
  <1>7. m - 1 \in T
    BY <1>4, <1>6
  <1> QED BY <1>5, <1>6, <1>7

\* One event of the batch, after those before it came to s.
Adds(s, e) == IF Contains(log, e) \/ Contains(s, e) THEN s ELSE Append(s, e)

\* f[i] is what the first i events come to, for i up to n.
Adding(f, batch, n) ==
    f = [i \in 0..n |-> IF i = 0 THEN <<>> ELSE Adds(f[i - 1], batch[i])]

LEMMA AddingExists ==
    ASSUME NEW batch
    PROVE  \A n \in Nat : \E f : Adding(f, batch, n)
  <1> DEFINE T == {n \in Nat : \E f : Adding(f, batch, n)}
  <1>1. 0 \in T
    <2>1. Adding([i \in 0..0 |-> <<>>], batch, 0)
      BY DEF Adding
    <2> QED BY <2>1
  <1>2. ASSUME NEW n \in Nat, n \in T PROVE n + 1 \in T
    <2>1. PICK f : Adding(f, batch, n)
      BY <1>2
    <2> DEFINE g == [i \in 0..(n + 1) |-> IF i = n + 1 THEN Adds(f[n], batch[n + 1]) ELSE f[i]]
    <2>2. \A i \in 0..n : g[i] = f[i]
      OBVIOUS
    <2>3. \A i \in 0..n : f[i] = IF i = 0 THEN <<>> ELSE Adds(f[i - 1], batch[i])
      BY <2>1 DEF Adding
    <2>4. g[n + 1] = Adds(g[n], batch[n + 1])
      BY <2>2
    <2>5. \A i \in 0..(n + 1) : g[i] = IF i = 0 THEN <<>> ELSE Adds(g[i - 1], batch[i])
      <3> SUFFICES ASSUME NEW i \in 0..(n + 1)
                   PROVE  g[i] = IF i = 0 THEN <<>> ELSE Adds(g[i - 1], batch[i])
        OBVIOUS
      <3>1. CASE i = n + 1
        BY <2>4, <3>1
      <3>2. CASE i # n + 1
        <4>1. i \in 0..n /\ (i # 0 => i - 1 \in 0..n)
          BY <3>2
        <4>2. g[i] = f[i] /\ (i # 0 => g[i - 1] = f[i - 1])
          BY <2>2, <4>1
        <4> QED BY <2>3, <4>1, <4>2
      <3> QED BY <3>1, <3>2
    <2>6. Adding(g, batch, n + 1)
      <3> HIDE DEF Adding
      <3>1. g = [i \in 0..(n + 1) |-> g[i]]
        OBVIOUS
      <3> HIDE DEF g
      <3> QED BY <2>5, <3>1 DEF Adding
    <2> QED BY <2>6
  <1> HIDE DEF T
  <1>3. \A n \in Nat : n \in T
    BY <1>1, <1>2, NaturalsFrom
  <1> QED BY <1>3 DEF T

\* Events, each once, none of them in the log.
New(s) ==
    /\ s \in Seq(Event)
    /\ \A i, j \in 1..Len(s) : s[i] = s[j] => i = j
    /\ \A i \in 1..Len(s) : ~Contains(log, s[i])

LEMMA AddsNew ==
    ASSUME NEW s, New(s), NEW e \in Event
    PROVE  New(Adds(s, e))
  <1>1. CASE Contains(log, e) \/ Contains(s, e)
    BY <1>1 DEF Adds
  <1>2. CASE ~(Contains(log, e) \/ Contains(s, e))
    <2>1. Adds(s, e) = Append(s, e)
      BY <1>2 DEF Adds
    <2> DEFINE a == Append(s, e)
    <2>2. /\ a \in Seq(Event) /\ Len(a) = Len(s) + 1 /\ a[Len(s) + 1] = e
          /\ \A i \in 1..Len(s) : a[i] = s[i]
          /\ Len(s) \in Nat
      BY DEF New
    <2>3. \A i \in 1..Len(s) : s[i] # e
      BY <1>2 DEF Contains
    <2> HIDE DEF a
    <2>4. \A i \in 1..Len(a) : i \in 1..Len(s) \/ i = Len(s) + 1
      BY <2>2
    <2>5. \A i, j \in 1..Len(a) : a[i] = a[j] => i = j
      BY <2>2, <2>3, <2>4 DEF New
    <2>6. \A i \in 1..Len(a) : ~Contains(log, a[i])
      BY <1>2, <2>2, <2>4 DEF New
    <2> QED BY <2>1, <2>2, <2>5, <2>6 DEF New, a
  <1> QED BY <1>1, <1>2

LEMMA AddedNew ==
    ASSUME NEW batch \in Seq(Event)
    PROVE  New(Added(batch))
  <1> DEFINE f == CHOOSE g : Adding(g, batch, Len(batch))
             T == {n \in Nat : n <= Len(batch) => New(f[n])}
  <1>1. Len(batch) \in Nat
    OBVIOUS
  <1>2. Added(batch) = f[Len(batch)]
    BY DEF Added, Adding, Adds
  <1>3. Adding(f, batch, Len(batch))
    BY <1>1, AddingExists
  <1> HIDE DEF f
  <1>4. \A i \in 0..Len(batch) : f[i] = IF i = 0 THEN <<>> ELSE Adds(f[i - 1], batch[i])
    BY <1>3 DEF Adding
  <1>5. 0 \in T
    <2>1. f[0] = <<>>
      BY <1>1, <1>4
    <2>2. <<>> \in Seq(Event) /\ Len(<<>>) = 0
      OBVIOUS
    <2>3. New(<<>>)
      BY <2>2 DEF New
    <2> QED BY <2>1, <2>3
  <1>6. ASSUME NEW n \in Nat, n \in T PROVE n + 1 \in T
    <2> SUFFICES ASSUME n + 1 <= Len(batch) PROVE New(f[n + 1])
      OBVIOUS
    <2>1. New(f[n]) /\ batch[n + 1] \in Event
      BY <1>1, <1>6
    <2>2. f[n + 1] = Adds(f[n], batch[n + 1])
      BY <1>1, <1>4
    <2> QED BY <2>1, <2>2, AddsNew
  <1> HIDE DEF T
  <1>7. \A n \in Nat : n \in T
    BY <1>5, <1>6, NaturalsFrom
  <1> QED BY <1>1, <1>2, <1>7 DEF T

------------------------------------------------------------------------------
(***************************************************************************)
(* The inductive invariant.  What a reader was given is what the log holds *)
(* only because what is on its way to it is: on the wire, in the page the  *)
(* stream sends, and in the position the stream and the reader are at.     *)
(***************************************************************************)
InLog(entry, p) == p \in 1..Len(log) /\ entry = [position |-> p, event |-> log[p]]

\* The rows an open append is to insert are new, and its lock keeps the run RUNNING.
AppendSound == Locked => run.status = "RUNNING" /\ New(appending)

\* Nothing is under way but to a reader that reads, and nothing follows the end.
Orderly ==
    /\ reader.stage # "reading" => conn.stage = "closed" /\ wire = <<>>
    /\ conn.stage = "broken" => wire = <<>>
    /\ \A i \in 1..Len(wire) : wire[i] = End => i = Len(wire) /\ conn.stage = "closed"

Given ==
    /\ Len(got) = reader.after /\ reader.after <= Len(log)
    /\ \A i \in 1..Len(got) : InLog(got[i], i)

OnWire ==
    \A i \in 1..Len(wire) :
        IF wire[i] = End
        THEN Final /\ reader.after + i = Len(log) + 1
        ELSE InLog(wire[i], reader.after + i)

Following ==
    /\ conn.stage \in {"status", "rows", "send"} =>
          conn.after = reader.after + Len(wire) /\ conn.after <= Len(log)
    /\ conn.stage \in {"rows", "send"} /\ conn.final => Final
    /\ conn.stage = "send" => \A i \in 1..Len(conn.page) : InLog(conn.page[i], conn.after + i)
    /\ conn.stage = "send" /\ conn.final /\ ~conn.full =>
          conn.after + Len(conn.page) = Len(log)

Ended == reader.stage = "done" => Final /\ reader.after = Len(log)

Tracked == ~Gone => Given /\ OnWire /\ Following /\ Ended

Inv == TypeOK /\ LoggedOnce /\ AppendSound /\ Orderly /\ Tracked

------------------------------------------------------------------------------
(***************************************************************************)
(* Types.                                                                  *)
(***************************************************************************)
LEMMA BatchEvents ==
    ASSUME NEW batch \in Batches
    PROVE  batch \in Seq(Event)
  <1>1. batch \in Seq([attempt : Nat, sequence : Nat])
    BY EventLogAssumption
  <1>2. \A i \in 1..Len(batch) : batch[i] \in ToSet(batch)
    BY <1>1 DEF ToSet
  <1>3. \A i \in 1..Len(batch) : batch[i] \in Event
    BY <1>2 DEF Event
  <1>4. Len(batch) \in Nat /\ batch \in [1..Len(batch) -> Event]
    BY <1>1, <1>3
  <1> QED BY <1>4, SeqDef

\* A read: entries of the log from the next position on, all of them unless the page is full.
LEMMA EventsAfterIs ==
    ASSUME log \in Seq(Event), NEW after \in Nat, NEW limit \in Nat
    PROVE  LET page == EventsAfter(after, limit)
           IN  /\ page \in Seq(Entry)
               /\ Len(page) <= limit
               /\ \A i \in 1..Len(page) : InLog(page[i], after + i)
               /\ after <= Len(log) => /\ after + Len(page) <= Len(log)
                                       /\ Len(page) # limit => after + Len(page) = Len(log)
  <1> DEFINE left == Max({Len(log) - after, 0})
             n    == Min({limit, left})
             page == EventsAfter(after, limit)
  <1>1. Len(log) \in Nat
    OBVIOUS
  <1>2. left = IF Len(log) - after >= 0 THEN Len(log) - after ELSE 0
    <2>1. \A x, y \in Int : Max({x, y}) = IF x >= y THEN x ELSE y
      BY DEF Max
    <2> QED BY <1>1, <2>1
  <1>3. n = IF limit <= left THEN limit ELSE left
    <2>1. \A x, y \in Int : Min({x, y}) = IF x <= y THEN x ELSE y
      BY DEF Min
    <2>2. left \in Int
      BY <1>1, <1>2
    <2> HIDE DEF left
    <2> QED BY <2>1, <2>2
  <1>4. page = [i \in 1..n |-> [position |-> after + i, event |-> log[after + i]]]
    BY DEF EventsAfter
  <1> HIDE DEF left, n
  <1>5. n \in Nat /\ n <= limit /\ \A i \in 1..n : after + i \in 1..Len(log)
    BY <1>1, <1>2, <1>3
  <1>6. \A i \in 1..n : [position |-> after + i, event |-> log[after + i]] \in Entry
    <2> SUFFICES ASSUME NEW i \in 1..n
                 PROVE  [position |-> after + i, event |-> log[after + i]] \in Entry
      OBVIOUS
    <2>1. after + i \in 1..Len(log) /\ after + i \in Nat \ {0}
      BY <1>5
    <2>2. log[after + i] \in Event
      BY <2>1
    <2> QED BY <2>1, <2>2 DEF Entry
  <1>7. page \in Seq(Entry) /\ Len(page) = n
    <2>1. page \in [1..n -> Entry] /\ DOMAIN page = 1..n
      BY <1>4, <1>6
    <2>2. page \in Seq(Entry)
      BY <1>5, <2>1, SeqDef
    <2> HIDE DEF page
    <2>3. Len(page) \in Nat /\ DOMAIN page = 1..Len(page)
      BY <2>2
    <2> QED BY <1>5, <2>1, <2>2, <2>3
  <1>8. \A i \in 1..n : InLog(page[i], after + i)
    BY <1>4, <1>5 DEF InLog
  <1>9. after <= Len(log) => after + n <= Len(log) /\ (n # limit => after + n = Len(log))
    BY <1>1, <1>2, <1>3
  <1> QED BY <1>5, <1>7, <1>8, <1>9

LEMMA NotEnd ==
    ASSUME NEW entry \in Entry
    PROVE  entry # End
  BY DEF Entry, End

LEMMA ConnColumns ==
    ASSUME NEW c \in Conn
    PROVE  /\ c.stage \in {"closed", "status", "rows", "send", "broken"}
           /\ c.after \in Nat /\ c.final \in BOOLEAN /\ c.full \in BOOLEAN
           /\ c.page \in Seq(Entry) /\ Len(c.page) \in Nat
  BY DEF Conn

LEMMA NoConnType == NoConn \in Conn
  BY DEF NoConn, Conn

LEMMA TypesInit == Init => TypeOK
  <1> SUFFICES ASSUME Init PROVE TypeOK
    OBVIOUS
  <1>1. NoConn \in Conn
    BY NoConnType
  <1>2. [stage |-> "pages", after |-> 0, failures |-> 0] \in Reader
    BY EventLogAssumption DEF Reader
  <1> QED BY <1>1, <1>2 DEF Init, TypeOK

LEMMA TypesNext == TypeOK /\ [Next]_vars => TypeOK'
  <1> SUFFICES ASSUME TypeOK, [Next]_vars PROVE TypeOK'
    OBVIOUS
  <1>0. /\ log \in Seq(Event) /\ appending \in {None} \cup Seq(Event)
        /\ conn \in Conn /\ wire \in Seq(Entry \cup {End})
        /\ reader \in Reader /\ got \in Seq(Entry)
    BY DEF TypeOK
  <1>1. ASSUME NEW w, NEW batch \in Batches, AppendEvents(w, batch) PROVE TypeOK'
    <2>1. New(Added(batch))
      BY BatchEvents, AddedNew
    <2> QED BY <1>0, <1>1, <2>1 DEF AppendEvents, New, TypeOK
  <1>2. CASE AppendCommitted
    <2>1. log \o appending \in Seq(Event)
      BY <1>0, <1>2 DEF AppendCommitted, Locked
    <2> QED BY <1>0, <1>2, <2>1 DEF AppendCommitted, TypeOK
  <1>3. CASE AppendFailed
    BY <1>0, <1>3 DEF AppendFailed, TypeOK
  <1>4. CASE RunMoves
    BY <1>0, <1>4 DEF RunMoves, TypeOK
  <1>5. CASE FollowStatus
    <2>1. [conn EXCEPT !.stage = "broken"] \in Conn
      BY <1>0 DEF Conn
    <2>2. [conn EXCEPT !.stage = "rows", !.final = Final] \in Conn
      <3>1. Final \in BOOLEAN
        <4>1. \A x, S : (x \in S) \in BOOLEAN
          OBVIOUS
        <4> QED BY <4>1 DEF Final
      <3> QED BY <1>0, <3>1 DEF Conn
    <2> QED BY <1>0, <1>5, <2>1, <2>2 DEF FollowStatus, TypeOK
  <1>6. CASE FollowRows
    <2> DEFINE page == EventsAfter(conn.after, MAX_PAGE)
    <2>1. page \in Seq(Entry)
      BY <1>0, ConnColumns, EventsAfterIs, EventLogAssumption
    <2> HIDE DEF page
    <2>2. [conn EXCEPT !.stage = "send", !.page = page, !.full = Len(page) = MAX_PAGE] \in Conn
      BY <1>0, <2>1 DEF Conn
    <2> QED BY <1>0, <1>6, <2>2 DEF FollowRows, TypeOK, page
  <1>7. CASE FollowSend
    <2>1. /\ conn.page \in Seq(Entry) /\ conn.page # <<>>
          /\ Head(conn.page) \in Entry /\ Tail(conn.page) \in Seq(Entry)
      BY <1>0, <1>7, ConnColumns DEF FollowSend
    <2>2. Head(conn.page).position \in Nat
      BY <2>1 DEF Entry
    <2>3. [conn EXCEPT !.after = Head(conn.page).position, !.page = Tail(@)] \in Conn
      BY <1>0, <2>1, <2>2 DEF Conn
    <2>4. Append(wire, Head(conn.page)) \in Seq(Entry \cup {End})
      BY <1>0, <2>1
    <2> QED BY <1>0, <1>7, <2>3, <2>4 DEF FollowSend, TypeOK
  <1>8. CASE FollowOn
    <2>1. \A stage \in {"status", "closed"} : [conn EXCEPT !.stage = stage] \in Conn
      BY <1>0 DEF Conn
    <2>2. Append(wire, End) \in Seq(Entry \cup {End})
      BY <1>0
    <2>3. conn' \in Conn /\ wire' \in Seq(Entry \cup {End})
      BY <1>0, <1>8, <2>1, <2>2 DEF FollowOn
    <2> QED BY <1>0, <1>8, <2>3 DEF FollowOn, TypeOK
  <1>9. [NoConn EXCEPT !.stage = "broken"] \in Conn /\ NoConn \in Conn
    BY NoConnType DEF Conn
  <1>10. CASE Breaks
    BY <1>0, <1>9, <1>10 DEF Breaks, TypeOK
  <1>11. reader.after \in Nat /\ reader.failures \in 0..max_retries
    BY <1>0 DEF Reader
  <1>12. \A stage \in {"connect", "reading", "done", "raised"} : [reader EXCEPT !.stage = stage] \in Reader
    BY <1>0 DEF Reader
  <1>13. CASE ReadPage
    <2> DEFINE page == EventsAfter(reader.after, PAGE_LIMIT)
    <2>1. page \in Seq(Entry)
      BY <1>0, <1>11, EventsAfterIs, EventLogAssumption
    <2> HIDE DEF page
    <2>2. reader.after + Len(page) \in Nat
      BY <1>11, <2>1
    <2>3. [reader EXCEPT !.after = @ + Len(page)] \in Reader
      BY <1>0, <2>2 DEF Reader
    <2>4. got \o page \in Seq(Entry)
      BY <1>0, <2>1
    <2> QED BY <1>0, <1>12, <1>13, <2>3, <2>4 DEF ReadPage, TypeOK, page
  <1>14. CASE OpenStream
    <2>1. [NoConn EXCEPT !.stage = "status", !.after = reader.after] \in Conn
      BY <1>9, <1>11 DEF Conn
    <2> QED BY <1>0, <1>12, <1>14, <2>1 DEF OpenStream, TypeOK
  <1>15. CASE StreamRefused
    BY <1>0, <1>12, <1>15 DEF StreamRefused, TypeOK
  <1>16. CASE Take
    <2>1. Head(wire) \in Entry \cup {End} /\ Tail(wire) \in Seq(Entry \cup {End})
      BY <1>0, <1>16 DEF Take
    <2>2. CASE Head(wire) = End
      BY <1>0, <1>12, <1>16, <2>1, <2>2 DEF Take, TypeOK
    <2>3. CASE Head(wire) # End
      <3>1. Head(wire) \in Entry
        BY <2>1, <2>3
      <3>2. Head(wire).position \in Nat
        BY <3>1 DEF Entry
      <3>3. [reader EXCEPT !.after = Head(wire).position, !.failures = 0] \in Reader
        <4>1. 0 \in 0..max_retries
          BY EventLogAssumption
        <4> QED BY <1>0, <3>2, <4>1 DEF Reader
      <3>4. Append(got, Head(wire)) \in Seq(Entry)
        BY <1>0, <3>1
      <3> QED BY <1>0, <1>16, <2>1, <2>3, <3>3, <3>4 DEF Take, TypeOK
    <2> QED BY <2>2, <2>3
  <1>17. CASE OpenAgain
    BY <1>0, <1>12, <1>17 DEF OpenAgain, TypeOK
  <1>18. CASE StreamBroken
    <2>1. Failed(reader) \in Reader
      <3>1. ~(reader.failures >= max_retries) => reader.failures + 1 \in 0..max_retries
        BY <1>11, EventLogAssumption
      <3>2. ~(reader.failures >= max_retries) =>
               [reader EXCEPT !.stage = "connect", !.failures = @ + 1] \in Reader
        BY <1>0, <3>1 DEF Reader
      <3> QED BY <1>12, <3>2 DEF Failed
    <2> QED BY <1>0, <1>9, <1>18, <2>1 DEF StreamBroken, TypeOK
  <1>19. CASE UNCHANGED vars
    BY <1>19 DEF vars, TypeOK
  <1> QED BY <1>1, <1>2, <1>3, <1>4, <1>5, <1>6, <1>7, <1>8, <1>10, <1>13, <1>14, <1>15, <1>16,
             <1>17, <1>18, <1>19 DEF Next, Follow, Reads

LEMMA TypesAlways == Spec => []TypeOK
  BY TypesInit, TypesNext, PTL DEF Spec

------------------------------------------------------------------------------
(***************************************************************************)
(* The log.                                                                *)
(***************************************************************************)

\* An ended run is only deleted.
LEMMA EndsStay ==
    ASSUME Life!Step(run, run'), Final
    PROVE  run'.status = "ABSENT"
  BY DEF Life!Step, Life!Begin, Life!Take, Life!Ask, Life!Continue, Life!GiveBack,
         Life!AskToStop, Life!End, Life!Forget, Life!Unborn, Life!At, Life!Ends, Final

LEMMA StatusApart ==
    /\ Final => ~Gone /\ run.status # "RUNNING"
    /\ Gone => run.status # "RUNNING"
  BY DEF Final, Gone, Life!Ends

LEMMA LogNext ==
    ASSUME TypeOK, LoggedOnce, AppendSound, [Next]_vars
    PROVE  LoggedOnce' /\ AppendSound'
  <1>0. log \in Seq(Event) /\ appending \in {None} \cup Seq(Event)
    BY DEF TypeOK
  <1>1. ASSUME NEW w, NEW batch \in Batches, AppendEvents(w, batch)
        PROVE  LoggedOnce' /\ AppendSound'
    <2>1. New(Added(batch))
      BY BatchEvents, AddedNew
    <2>2. log' = log /\ run' = run /\ run.status = "RUNNING" /\ appending' = Added(batch)
      BY <1>1 DEF AppendEvents
    <2> QED BY <2>1, <2>2 DEF LoggedOnce, AppendSound, New
  <1>2. CASE AppendCommitted
    <2>1. New(appending) /\ log' = log \o appending /\ appending' = None
      BY <1>2 DEF AppendCommitted, AppendSound
    <2>2. appending \in Seq(Event)
      BY <2>1 DEF New
    <2>3. /\ Len(log') = Len(log) + Len(appending) /\ DOMAIN log' = 1..Len(log')
          /\ \A i \in 1..Len(log) : log'[i] = log[i]
          /\ \A i \in 1..Len(appending) : log'[Len(log) + i] = appending[i]
          /\ Len(log) \in Nat /\ Len(appending) \in Nat /\ DOMAIN log = 1..Len(log)
      BY <1>0, <2>1, <2>2
    <2>4. \A i \in 1..Len(log') : \/ i \in 1..Len(log)
                                  \/ \E k \in 1..Len(appending) : i = Len(log) + k
      <3> SUFFICES ASSUME NEW i \in 1..Len(log'), i \notin 1..Len(log)
                   PROVE  \E k \in 1..Len(appending) : i = Len(log) + k
        OBVIOUS
      <3>1. i - Len(log) \in 1..Len(appending) /\ i = Len(log) + (i - Len(log))
        BY <2>3
      <3> QED BY <3>1
    <2>5. \A i \in 1..Len(log), k \in 1..Len(appending) : log[i] # appending[k]
      BY <2>1, <2>2 DEF New, Contains
    <2>6. \A i, j \in 1..Len(log') : log'[i] = log'[j] => i = j
      <3> SUFFICES ASSUME NEW i \in 1..Len(log'), NEW j \in 1..Len(log'), log'[i] = log'[j]
                   PROVE  i = j
        OBVIOUS
      <3>1. CASE i \in 1..Len(log) /\ j \in 1..Len(log)
        BY <2>3, <3>1 DEF LoggedOnce
      <3>2. CASE i \in 1..Len(log) /\ j \notin 1..Len(log)
        <4>1. PICK k \in 1..Len(appending) : j = Len(log) + k
          BY <2>4, <3>2
        <4>2. log'[j] = appending[k]
          BY <2>3, <4>1
        <4>3. log'[i] = log[i]
          BY <2>3, <3>2
        <4> QED BY <2>5, <3>2, <4>2, <4>3
      <3>3. CASE i \notin 1..Len(log) /\ j \in 1..Len(log)
        <4>1. PICK k \in 1..Len(appending) : i = Len(log) + k
          BY <2>4, <3>3
        <4>2. log'[i] = appending[k]
          BY <2>3, <4>1
        <4>3. log'[j] = log[j]
          BY <2>3, <3>3
        <4> QED BY <2>5, <3>3, <4>2, <4>3
      <3>4. CASE i \notin 1..Len(log) /\ j \notin 1..Len(log)
        <4>1. PICK k \in 1..Len(appending) : i = Len(log) + k
          BY <2>4, <3>4
        <4>2. PICK l \in 1..Len(appending) : j = Len(log) + l
          BY <2>4, <3>4
        <4>3. appending[k] = appending[l]
          BY <2>3, <4>1, <4>2
        <4> QED BY <2>1, <4>1, <4>2, <4>3 DEF New
      <3> QED BY <3>1, <3>2, <3>3, <3>4
    <2> QED BY <2>1, <2>3, <2>6 DEF LoggedOnce, AppendSound, Locked
  <1>3. CASE AppendFailed
    BY <1>3 DEF AppendFailed, LoggedOnce, AppendSound, Locked
  <1>4. CASE RunMoves
    <2>1. DOMAIN <<>> = {}
      OBVIOUS
    <2> QED BY <1>4, <2>1 DEF RunMoves, LoggedOnce, AppendSound, Locked
  <1>5. CASE UNCHANGED <<run, log, appending>>
    BY <1>5 DEF LoggedOnce, AppendSound, Locked, New
  <1> QED BY <1>1, <1>2, <1>3, <1>4, <1>5
          DEF Next, Follow, FollowStatus, FollowRows, FollowSend, FollowOn, Breaks, ReadPage,
              StreamRefused, Reads, OpenStream, Take, OpenAgain, StreamBroken, vars

------------------------------------------------------------------------------
(***************************************************************************)
(* The way to the reader.                                                  *)
(***************************************************************************)
LEMMA OrderlyNext ==
    ASSUME TypeOK, Orderly, [Next]_vars
    PROVE  Orderly'
  <1>0. /\ conn \in Conn /\ wire \in Seq(Entry \cup {End}) /\ reader \in Reader
        /\ Len(wire) \in Nat
    BY DEF TypeOK
  <1> DEFINE EndLast == \A i \in 1..Len(wire) : wire[i] = End => i = Len(wire) /\ conn.stage = "closed"
  <1>2. ASSUME wire' = <<>> PROVE EndLast'
    <2>1. Len(wire') = 0
      BY <1>2
    <2> QED BY <2>1
  <1>3. ASSUME wire' = wire, conn.stage # "closed" \/ conn'.stage = "closed" PROVE EndLast'
    BY <1>3 DEF Orderly
  <1>4. ASSUME NEW e \in Entry \cup {End}, wire' = Append(wire, e), conn.stage # "closed",
               e = End => conn'.stage = "closed"
        PROVE  EndLast'
    <2>1. /\ Len(wire') = Len(wire) + 1 /\ wire'[Len(wire) + 1] = e
          /\ \A i \in 1..Len(wire) : wire'[i] = wire[i]
      BY <1>0, <1>4
    <2>2. \A i \in 1..Len(wire) : wire[i] # End
      BY <1>4 DEF Orderly
    <2>3. \A i \in 1..Len(wire') : i \in 1..Len(wire) \/ i = Len(wire) + 1
      BY <1>0, <2>1
    <2> QED BY <1>4, <2>1, <2>2, <2>3
  <1>5. CASE FollowStatus
    <2>1. reader.stage = "reading" /\ reader' = reader
      BY <1>5 DEF FollowStatus, Orderly
    <2>2. conn'.stage = "broken" => wire' = <<>>
      BY <1>0, <1>5 DEF FollowStatus, Conn
    <2>3. conn.stage # "closed" /\ (wire' = wire \/ wire' = <<>>)
      BY <1>5 DEF FollowStatus
    <2>4. EndLast'
      BY <1>2, <1>3, <2>3
    <2> QED BY <2>1, <2>2, <2>4 DEF Orderly
  <1>6. CASE FollowRows
    <2>1. reader.stage = "reading" /\ reader' = reader /\ conn.stage # "closed" /\ wire' = wire
      BY <1>6 DEF FollowRows, Orderly
    <2>2. conn'.stage # "broken"
      BY <1>0, <1>6 DEF FollowRows, Conn
    <2>3. EndLast'
      BY <1>3, <2>1
    <2> QED BY <2>1, <2>2, <2>3 DEF Orderly
  <1>7. CASE FollowSend
    <2>1. /\ reader.stage = "reading" /\ reader' = reader /\ conn.stage # "closed"
          /\ wire' = Append(wire, Head(conn.page))
      BY <1>7 DEF FollowSend, Orderly
    <2>2. conn'.stage # "broken"
      BY <1>0, <1>7 DEF FollowSend, Conn
    <2>3. Head(conn.page) \in Entry
      BY <1>0, <1>7, ConnColumns DEF FollowSend
    <2>4. EndLast'
      BY <1>4, <2>1, <2>3, NotEnd
    <2> QED BY <2>1, <2>2, <2>4 DEF Orderly
  <1>8. CASE FollowOn
    <2>1. reader.stage = "reading" /\ reader' = reader /\ conn.stage # "closed"
      BY <1>8 DEF FollowOn, Orderly
    <2>2. /\ conn'.stage # "broken"
          /\ wire' = wire \/ (wire' = Append(wire, End) /\ conn'.stage = "closed")
      BY <1>0, <1>8 DEF FollowOn, Conn
    <2>3. EndLast'
      BY <1>3, <1>4, <2>1, <2>2
    <2> QED BY <2>1, <2>2, <2>3 DEF Orderly
  <1>9. CASE Breaks
    <2>1. reader.stage = "reading" /\ reader' = reader /\ wire' = <<>>
      BY <1>9 DEF Breaks
    <2> QED BY <1>2, <2>1 DEF Orderly
  <1>10. CASE ReadPage
    <2>1. reader.stage # "reading" /\ reader'.stage # "reading" /\ conn' = conn /\ wire' = wire
      BY <1>0, <1>10 DEF ReadPage, Reader
    <2> QED BY <1>2, <2>1 DEF Orderly
  <1>11. CASE OpenStream
    <2>1. reader.stage # "reading" /\ wire' = wire
      BY <1>11 DEF OpenStream
    <2>2. wire = <<>> /\ conn.stage = "closed"
      BY <2>1 DEF Orderly
    <2>3. (reader'.stage # "reading" => conn' = conn) /\ conn'.stage # "broken"
      BY <1>0, <1>11, <2>2 DEF OpenStream, Reader, NoConn
    <2> QED BY <1>2, <2>1, <2>2, <2>3 DEF Orderly
  <1>12. CASE StreamRefused
    <2>1. reader.stage # "reading" /\ conn' = conn /\ wire' = wire
      BY <1>12 DEF StreamRefused
    <2> QED BY <1>2, <2>1 DEF Orderly
  <1>13. CASE Take
    <2>1. /\ reader.stage = "reading" /\ wire # <<>> /\ wire' = Tail(wire) /\ conn' = conn
          /\ conn.stage # "broken"
      BY <1>13 DEF Take, Orderly
    <2>2. /\ Len(wire) \in Nat \ {0} /\ Len(wire') = Len(wire) - 1 /\ Head(wire) = wire[1]
          /\ \A i \in 1..Len(wire') : wire'[i] = wire[i + 1]
          /\ wire' \in Seq(Entry \cup {End})
      BY <1>0, <2>1
    <2>3. EndLast'
      <3>1. \A i \in 1..Len(wire') : /\ i + 1 \in 1..Len(wire)
                                     /\ i + 1 = Len(wire) => i = Len(wire')
        BY <2>2
      <3> QED BY <2>1, <2>2, <3>1 DEF Orderly
    <2>4. CASE Head(wire) = End
      <3>1. Len(wire) = 1 /\ conn.stage = "closed"
        BY <2>2, <2>4 DEF Orderly
      <3>2. wire' = <<>>
        BY <2>2, <3>1
      <3> QED BY <2>1, <2>3, <3>1, <3>2 DEF Orderly
    <2>5. CASE Head(wire) # End
      <3>1. reader'.stage = "reading"
        BY <1>0, <1>13, <2>5 DEF Take, Reader
      <3> QED BY <2>1, <2>3, <3>1 DEF Orderly
    <2> QED BY <2>4, <2>5
  <1>14. CASE OpenAgain
    <2>1. wire' = <<>> /\ conn'.stage = "closed"
      BY <1>14 DEF OpenAgain
    <2> QED BY <1>2, <2>1 DEF Orderly
  <1>15. CASE StreamBroken
    <2>1. wire' = <<>> /\ conn'.stage = "closed"
      BY <1>15 DEF StreamBroken, NoConn, Orderly
    <2> QED BY <1>2, <2>1 DEF Orderly
  <1>16. CASE UNCHANGED <<conn, wire, reader>>
    BY <1>16 DEF Orderly
  <1> QED BY <1>5, <1>6, <1>7, <1>8, <1>9, <1>10, <1>11, <1>12, <1>13, <1>14, <1>15, <1>16
          DEF Next, Follow, Reads, AppendEvents, AppendCommitted, AppendFailed, RunMoves, vars

\* Positions count on when the first of n entries is taken.
LEMMA Shift ==
    ASSUME NEW n \in Nat \ {0}, NEW a \in Nat
    PROVE  \A i \in 1..(n - 1) : i + 1 \in 1..n /\ (a + 1) + i = a + (i + 1)
  OBVIOUS

LEMMA TrackedNext ==
    ASSUME TypeOK, AppendSound, Orderly, Tracked, [Next]_vars
    PROVE  Tracked'
  <1> SUFFICES ASSUME ~Gone' PROVE Given' /\ OnWire' /\ Following' /\ Ended'
    BY DEF Tracked
  <1>1. /\ log \in Seq(Event) /\ Len(log) \in Nat
        /\ conn \in Conn /\ wire \in Seq(Entry \cup {End}) /\ Len(wire) \in Nat
        /\ reader \in Reader /\ reader.after \in Nat /\ got \in Seq(Entry) /\ Len(got) \in Nat
    BY DEF TypeOK, Reader
  <1>2. ~Gone
    BY DEF Gone, Next, Follow, FollowStatus, FollowRows, FollowSend, FollowOn, Breaks, ReadPage,
           StreamRefused, Reads, OpenStream, Take, OpenAgain, StreamBroken, vars, AppendEvents,
           AppendCommitted, AppendFailed, RunMoves
  <1>3. Given /\ OnWire /\ Following /\ Ended
    BY <1>2 DEF Tracked
  <1>4. CASE UNCHANGED <<run, log, conn, wire, reader, got>>
    BY <1>3, <1>4 DEF Given, OnWire, Following, Ended, InLog, Final
  \* The log and the run.
  <1>5. ASSUME ~Final, UNCHANGED <<conn, wire, reader, got>>, Len(log') \in Nat,
               \A p \in 1..Len(log) : p \in 1..Len(log') /\ log'[p] = log[p]
        PROVE  Given' /\ OnWire' /\ Following' /\ Ended'
    <2>1. Len(log) <= Len(log')
      BY <1>1, <1>5
    <2>2. Given'
      BY <1>1, <1>3, <1>5, <2>1 DEF Given, InLog
    <2>3. \A i \in 1..Len(wire) : wire[i] # End
      BY <1>3, <1>5 DEF OnWire
    <2>4. OnWire'
      BY <1>3, <1>5, <2>3 DEF OnWire, InLog
    <2>5. Following'
      <3>1. conn.stage \in {"rows", "send"} => ~conn.final
        BY <1>3, <1>5 DEF Following
      <3>2. conn.stage \in {"status", "rows", "send"} =>
               conn.after = reader.after + Len(wire) /\ conn.after <= Len(log')
        BY <1>1, <1>3, <2>1, ConnColumns DEF Following
      <3>3. conn.stage = "send" =>
               \A i \in 1..Len(conn.page) :
                   /\ conn.after + i \in 1..Len(log')
                   /\ conn.page[i] = [position |-> conn.after + i, event |-> log'[conn.after + i]]
        BY <1>3, <1>5 DEF Following, InLog
      <3> QED BY <1>5, <3>1, <3>2, <3>3 DEF Following, InLog
    <2>6. Ended'
      BY <1>3, <1>5 DEF Ended
    <2> QED BY <2>2, <2>4, <2>5, <2>6
  <1>6. CASE AppendCommitted
    <2>1. ~Final /\ appending \in Seq(Event)
      BY <1>6, StatusApart DEF AppendCommitted, AppendSound, New
    <2>2. log' = log \o appending /\ UNCHANGED <<conn, wire, reader, got>>
      BY <1>6 DEF AppendCommitted
    <2>3. Len(log') \in Nat /\ \A p \in 1..Len(log) : p \in 1..Len(log') /\ log'[p] = log[p]
      BY <1>1, <2>1, <2>2
    <2> QED BY <1>5, <2>1, <2>2, <2>3
  <1>7. CASE RunMoves
    <2>1. ~Final
      BY <1>7, EndsStay DEF RunMoves, Gone
    <2>2. log' = log /\ UNCHANGED <<conn, wire, reader, got>>
      BY <1>7 DEF RunMoves, Gone
    <2> QED BY <1>1, <1>5, <2>1, <2>2
  \* The stream.
  <1>8. CASE FollowStatus
    <2>1. /\ conn.stage = "status" /\ conn' = [conn EXCEPT !.stage = "rows", !.final = Final]
          /\ UNCHANGED <<run, log, wire, reader, got>>
      BY <1>2, <1>8 DEF FollowStatus
    <2>2. conn'.stage = "rows" /\ conn'.final = Final /\ conn'.after = conn.after
      BY <1>1, <2>1 DEF Conn
    <2>3. \A i \in 1..Len(wire) : wire[i] # End
      BY <2>1 DEF Orderly
    <2>4. Given' /\ OnWire' /\ Ended'
      BY <1>3, <2>1, <2>3 DEF Given, OnWire, Ended, InLog, Final
    <2>5. Following'
      BY <1>3, <2>1, <2>2 DEF Following, Final
    <2> QED BY <2>4, <2>5
  <1>9. CASE FollowRows
    <2>1. PICK page : page = EventsAfter(conn.after, MAX_PAGE)
      OBVIOUS
    <2>2. /\ conn.stage = "rows" /\ UNCHANGED <<run, log, wire, reader, got>>
          /\ conn' = [conn EXCEPT !.stage = "send", !.page = page, !.full = Len(page) = MAX_PAGE]
      BY <1>9, <2>1 DEF FollowRows
    <2>3. /\ conn'.stage = "send" /\ conn'.page = page /\ conn'.full = (Len(page) = MAX_PAGE)
          /\ conn'.after = conn.after /\ conn'.final = conn.final
      BY <1>1, <2>2 DEF Conn
    <2>4. /\ conn.after \in Nat /\ conn.after <= Len(log)
          /\ conn.after = reader.after + Len(wire) /\ (conn.final => Final)
      BY <1>1, <1>3, <2>2, ConnColumns DEF Following
    <2>5. /\ \A i \in 1..Len(page) : InLog(page[i], conn.after + i)
          /\ Len(page) # MAX_PAGE => conn.after + Len(page) = Len(log)
      BY <1>1, <2>1, <2>4, EventsAfterIs, EventLogAssumption
    <2>6. \A i \in 1..Len(wire) : wire[i] # End
      BY <2>2 DEF Orderly
    <2>7. Given' /\ OnWire' /\ Ended'
      BY <1>3, <2>2, <2>6 DEF Given, OnWire, Ended, InLog, Final
    <2>8. Following'
      BY <2>2, <2>3, <2>4, <2>5 DEF Following, Final, InLog
    <2> QED BY <2>7, <2>8
  <1>10. CASE FollowSend
    <2>1. PICK page : page = conn.page
      OBVIOUS
    <2>2. /\ conn.stage = "send" /\ page # <<>> /\ page \in Seq(Entry)
          /\ UNCHANGED <<run, log, reader, got>>
          /\ wire' = Append(wire, Head(page))
          /\ conn' = [conn EXCEPT !.after = Head(page).position, !.page = Tail(page)]
      BY <1>1, <1>10, <2>1, ConnColumns DEF FollowSend
    <2>3. /\ conn'.stage = "send" /\ conn'.after = Head(page).position /\ conn'.page = Tail(page)
          /\ conn'.full = conn.full /\ conn'.final = conn.final
      BY <1>1, <2>2 DEF Conn
    <2>4. /\ Len(page) \in Nat \ {0} /\ Head(page) = page[1] /\ Len(Tail(page)) = Len(page) - 1
          /\ \A i \in 1..Len(Tail(page)) : Tail(page)[i] = page[i + 1]
          /\ Head(page) \in Entry
      BY <2>2
    <2>5. /\ conn.after \in Nat /\ conn.after = reader.after + Len(wire)
          /\ conn.final => Final
          /\ \A i \in 1..Len(page) : InLog(page[i], conn.after + i)
          /\ conn.final /\ ~conn.full => conn.after + Len(page) = Len(log)
      BY <1>1, <1>3, <2>1, <2>2, ConnColumns DEF Following
    <2>6. InLog(Head(page), conn.after + 1)
      BY <2>4, <2>5
    <2>7. Head(page).position = conn.after + 1 /\ conn.after + 1 <= Len(log)
      BY <1>1, <2>5, <2>6 DEF InLog
    <2>8. \A i \in 1..Len(wire) : wire[i] # End
      BY <2>2 DEF Orderly
    <2>9. /\ Len(wire') = Len(wire) + 1 /\ wire'[Len(wire) + 1] = Head(page)
          /\ \A i \in 1..Len(wire) : wire'[i] = wire[i]
      BY <1>1, <2>2, <2>4
    <2>10. \A i \in 1..Len(wire') : i \in 1..Len(wire) \/ i = Len(wire) + 1
      BY <1>1, <2>9
    <2>11. \A i \in 1..Len(wire') : InLog(wire'[i], reader.after + i)
      <3>1. \A i \in 1..Len(wire) : InLog(wire'[i], reader.after + i)
        BY <1>3, <2>8, <2>9 DEF OnWire
      <3>2. reader.after + (Len(wire) + 1) = conn.after + 1
        BY <1>1, <2>5
      <3> QED BY <2>6, <2>9, <2>10, <3>1, <3>2
    <2>12. OnWire'
      <3>1. \A i \in 1..Len(wire') : wire'[i] # End
        BY <2>4, <2>8, <2>9, <2>10, NotEnd
      <3> QED BY <2>2, <2>11, <3>1 DEF OnWire, InLog
    <2>13. Given' /\ Ended'
      BY <1>3, <2>2 DEF Given, Ended, InLog, Final
    <2>14. Following'
      <3>1. \A i \in 1..Len(Tail(page)) : InLog(Tail(page)[i], (conn.after + 1) + i)
        <4>1. \A i \in 1..Len(Tail(page)) : i + 1 \in 1..Len(page) /\ (conn.after + 1) + i = conn.after + (i + 1)
          <5>1. Len(page) \in Nat \ {0} /\ Len(Tail(page)) = Len(page) - 1 /\ conn.after \in Nat
            BY <2>4, <2>5
          <5> QED BY <5>1, Shift
        <4> QED BY <2>4, <2>5, <4>1
      <3>2. conn'.after = reader.after + Len(wire') /\ conn'.after <= Len(log)
        BY <1>1, <2>3, <2>5, <2>7, <2>9
      <3>3. conn.final /\ ~conn.full => conn'.after + Len(Tail(page)) = Len(log)
        BY <2>3, <2>4, <2>5, <2>7
      <3> QED BY <2>2, <2>3, <2>5, <2>7, <3>1, <3>2, <3>3 DEF Following, Final, InLog
    <2> QED BY <2>12, <2>13, <2>14
  <1>11. CASE FollowOn
    <2>1. /\ conn.stage = "send" /\ conn.page = <<>> /\ UNCHANGED <<run, log, reader, got>>
          /\ Len(conn.page) = 0
      BY <1>11 DEF FollowOn
    <2>2. /\ conn.after \in Nat /\ conn.after = reader.after + Len(wire) /\ conn.after <= Len(log)
          /\ conn.final => Final
          /\ conn.final /\ ~conn.full => conn.after = Len(log)
      BY <1>1, <1>3, <2>1, ConnColumns DEF Following
    <2>3. \A i \in 1..Len(wire) : wire[i] # End
      BY <2>1 DEF Orderly
    <2>4. Given' /\ Ended'
      BY <1>3, <2>1 DEF Given, Ended, InLog, Final
    <2>5. CASE wire' = wire
      <3>1. conn'.stage \in {"status", "closed"} /\ conn'.after = conn.after
        BY <1>1, <1>11, <2>5 DEF FollowOn, Conn
      <3>2. OnWire'
        BY <1>3, <2>1, <2>3, <2>5 DEF OnWire, InLog
      <3>3. Following'
        BY <2>1, <2>2, <2>5, <3>1 DEF Following
      <3> QED BY <2>4, <3>2, <3>3
    <2>6. CASE ~conn.full /\ conn.final /\ conn'.stage = "closed" /\ wire' = Append(wire, End)
      <3>1. /\ Len(wire') = Len(wire) + 1 /\ wire'[Len(wire) + 1] = End
            /\ \A i \in 1..Len(wire) : wire'[i] = wire[i]
        BY <1>1, <2>6
      <3>2. \A i \in 1..Len(wire') : i \in 1..Len(wire) \/ i = Len(wire) + 1
        BY <1>1, <3>1
      <3>3. reader.after + (Len(wire) + 1) = Len(log) + 1
        <4>1. Len(log) = reader.after + Len(wire)
          BY <2>2, <2>6
        <4>2. \A a, w \in Nat : a + (w + 1) = (a + w) + 1
          OBVIOUS
        <4> QED BY <1>1, <4>1, <4>2
      <3>4. \A i \in 1..Len(wire) : InLog(wire[i], reader.after + i)
        BY <1>3, <2>3 DEF OnWire
      <3>5. OnWire'
        <4> SUFFICES ASSUME NEW i \in 1..Len(wire')
                     PROVE  IF wire'[i] = End
                            THEN Final' /\ reader'.after + i = Len(log') + 1
                            ELSE InLog(wire[i], reader.after + i)'
          BY DEF OnWire
        <4>1. CASE i \in 1..Len(wire)
          BY <2>1, <2>3, <3>1, <3>4, <4>1 DEF InLog
        <4>2. CASE i = Len(wire) + 1
          BY <2>1, <2>2, <2>6, <3>1, <3>3, <4>2 DEF Final
        <4> QED BY <3>2, <4>1, <4>2
      <3>6. Following'
        BY <2>6 DEF Following
      <3> QED BY <2>4, <3>5, <3>6
    <2>7. conn.full \in BOOLEAN /\ conn.final \in BOOLEAN
      BY <1>1, ConnColumns
    <2>8. \/ wire' = wire
          \/ ~conn.full /\ conn.final /\ conn'.stage = "closed" /\ wire' = Append(wire, End)
      BY <1>1, <1>11 DEF FollowOn, Conn
    <2> QED BY <2>5, <2>6, <2>8
  <1>12. CASE Breaks
    <2>1. /\ UNCHANGED <<run, log, reader, got>> /\ conn'.stage = "broken" /\ Len(wire') = 0
      BY <1>12 DEF Breaks, NoConn
    <2> QED BY <1>3, <2>1 DEF Given, OnWire, Following, Ended, InLog, Final
  \* The reader.
  <1>13. CASE ReadPage
    <2>1. PICK page : page = EventsAfter(reader.after, PAGE_LIMIT)
      OBVIOUS
    <2>2. /\ reader.stage = "pages" /\ UNCHANGED <<run, log, conn, wire>>
          /\ got' = got \o page /\ reader' = [reader EXCEPT !.after = @ + Len(page)]
      BY <1>2, <1>13, <2>1 DEF ReadPage
    <2>3. reader'.after = reader.after + Len(page) /\ reader'.stage = "pages"
      BY <1>1, <2>2 DEF Reader
    <2>4. Len(got) = reader.after /\ reader.after <= Len(log)
      BY <1>3 DEF Given
    <2>5. /\ page \in Seq(Entry) /\ reader.after + Len(page) <= Len(log)
          /\ \A i \in 1..Len(page) : InLog(page[i], reader.after + i)
      BY <1>1, <2>1, <2>4, EventsAfterIs, EventLogAssumption
    <2>6. /\ Len(got') = Len(got) + Len(page) /\ Len(page) \in Nat
          /\ \A i \in 1..Len(got) : got'[i] = got[i]
          /\ \A i \in 1..Len(page) : got'[Len(got) + i] = page[i]
      BY <1>1, <2>2, <2>5
    <2>7. \A i \in 1..Len(got') : InLog(got'[i], i)
      <3> SUFFICES ASSUME NEW i \in 1..Len(got') PROVE InLog(got'[i], i)
        OBVIOUS
      <3>1. CASE i \in 1..Len(got)
        BY <1>3, <2>6, <3>1 DEF Given
      <3>2. CASE i \notin 1..Len(got)
        <4>1. i - Len(got) \in 1..Len(page) /\ Len(got) + (i - Len(got)) = i
          BY <1>1, <2>6, <3>2
        <4> QED BY <2>4, <2>5, <2>6, <4>1
      <3> QED BY <3>1, <3>2
    <2>8. Given'
      BY <2>2, <2>3, <2>4, <2>5, <2>6, <2>7 DEF Given, InLog
    <2>9. conn'.stage = "closed" /\ wire' = <<>> /\ Len(wire') = 0
      BY <2>2 DEF Orderly
    <2>10. OnWire' /\ Following' /\ Ended'
      BY <2>3, <2>9 DEF OnWire, Following, Ended
    <2> QED BY <2>8, <2>10
  <1>14. CASE OpenStream
    <2>1. /\ reader.stage \in {"pages", "connect"} /\ UNCHANGED <<run, log, wire, got>>
          /\ reader' = [reader EXCEPT !.stage = "reading"]
          /\ conn' = [NoConn EXCEPT !.stage = "status", !.after = reader.after]
      BY <1>2, <1>14 DEF OpenStream
    <2>2. reader'.after = reader.after /\ reader'.stage = "reading"
      BY <1>1, <2>1 DEF Reader
    <2>3. conn'.stage = "status" /\ conn'.after = reader.after
      BY <2>1 DEF NoConn
    <2>4. Len(wire') = 0
      BY <2>1 DEF Orderly
    <2>5. Given'
      BY <1>3, <2>1, <2>2 DEF Given, InLog
    <2>6. OnWire' /\ Ended'
      BY <2>2, <2>4 DEF OnWire, Ended
    <2>7. Following'
      BY <1>1, <1>3, <2>1, <2>2, <2>3, <2>4 DEF Given, Following
    <2> QED BY <2>5, <2>6, <2>7
  <1>15. ASSUME UNCHANGED <<run, log, wire, got>>, Len(wire) = 0, reader'.after = reader.after,
                reader'.stage # "done", conn'.stage \in {"closed", "broken"}
         PROVE  Given' /\ OnWire' /\ Following' /\ Ended'
    BY <1>3, <1>15 DEF Given, OnWire, Following, Ended, InLog
  <1>16. CASE StreamRefused
    <2>1. reader'.after = reader.after /\ reader'.stage = "raised"
      BY <1>1, <1>16 DEF StreamRefused, Reader
    <2>2. conn'.stage = "closed" /\ Len(wire) = 0
      BY <1>16 DEF StreamRefused, Orderly
    <2> QED BY <1>15, <1>16, <2>1, <2>2 DEF StreamRefused
  <1>17. CASE Take
    <2>1. /\ reader.stage = "reading" /\ wire # <<>> /\ wire' = Tail(wire)
          /\ UNCHANGED <<run, log, conn>>
      BY <1>17 DEF Take
    <2>2. /\ Len(wire) \in Nat \ {0} /\ Len(wire') = Len(wire) - 1 /\ Head(wire) = wire[1]
          /\ \A i \in 1..Len(wire') : wire'[i] = wire[i + 1]
          /\ wire[1] \in Entry \cup {End}
      BY <1>1, <2>1
    <2>3. CASE Head(wire) = End
      <3>1. reader'.stage = "done" /\ reader'.after = reader.after /\ got' = got
        BY <1>1, <1>17, <2>3 DEF Take, Reader
      <3>2. Len(wire) = 1 /\ conn.stage = "closed"
        BY <2>2, <2>3 DEF Orderly
      <3>3. Final /\ reader.after + 1 = Len(log) + 1
        BY <1>3, <2>2, <2>3 DEF OnWire
      <3>4. Given'
        BY <1>3, <2>1, <3>1 DEF Given, InLog
      <3>5. OnWire' /\ Following'
        <4>1. Len(wire') = 0 /\ conn'.stage = "closed"
          BY <2>1, <2>2, <3>2
        <4> QED BY <4>1 DEF OnWire, Following
      <3>6. Ended'
        BY <1>1, <2>1, <3>1, <3>3 DEF Ended, Final
      <3> QED BY <3>4, <3>5, <3>6
    <2>4. CASE Head(wire) # End
      <3>1. InLog(Head(wire), reader.after + 1) /\ Head(wire) \in Entry
        BY <1>3, <2>2, <2>4 DEF OnWire
      <3>2. Head(wire).position = reader.after + 1 /\ reader.after + 1 <= Len(log)
        BY <1>1, <3>1 DEF InLog
      <3>3. reader'.stage = "reading" /\ reader'.after = reader.after + 1
        BY <1>1, <1>17, <2>4, <3>2 DEF Take, Reader
      <3>4. /\ Len(got') = Len(got) + 1 /\ got'[Len(got) + 1] = Head(wire)
            /\ \A i \in 1..Len(got) : got'[i] = got[i]
        BY <1>1, <1>17, <2>4, <3>1 DEF Take
      <3>5. Given'
        <4>1. Len(got) = reader.after /\ \A i \in 1..Len(got) : InLog(got[i], i)
          BY <1>3 DEF Given
        <4>2. \A i \in 1..Len(got') : i \in 1..Len(got) \/ i = Len(got) + 1
          BY <1>1, <3>4
        <4>3. \A i \in 1..Len(got') : InLog(got'[i], i)
          BY <3>1, <3>4, <4>1, <4>2
        <4> QED BY <2>1, <3>2, <3>3, <3>4, <4>1, <4>3 DEF Given, InLog
      <3>6. \A i \in 1..Len(wire') : i + 1 \in 1..Len(wire) /\ reader'.after + i = reader.after + (i + 1)
        <4>1. Len(wire) \in Nat \ {0} /\ Len(wire') = Len(wire) - 1 /\ reader.after \in Nat
          BY <1>1, <2>2
        <4>2. \A i \in 1..(Len(wire) - 1) :
                 i + 1 \in 1..Len(wire) /\ (reader.after + 1) + i = reader.after + (i + 1)
          BY <4>1, Shift
        <4> QED BY <3>3, <4>1, <4>2
      <3>7. OnWire'
        <4> SUFFICES ASSUME NEW i \in 1..Len(wire')
                     PROVE  IF wire'[i] = End
                            THEN Final' /\ reader'.after + i = Len(log') + 1
                            ELSE InLog(wire[i], reader.after + i)'
          BY DEF OnWire
        <4>1. IF wire[i + 1] = End
              THEN Final /\ reader.after + (i + 1) = Len(log) + 1
              ELSE InLog(wire[i + 1], reader.after + (i + 1))
          BY <1>3, <3>6 DEF OnWire
        <4> QED BY <2>1, <2>2, <3>6, <4>1 DEF InLog, Final
      <3>8. Following'
        <4>1. reader'.after + Len(wire') = reader.after + Len(wire)
          BY <1>1, <2>2, <3>3
        <4> QED BY <1>3, <2>1, <4>1 DEF Following, InLog, Final
      <3>9. Ended'
        BY <3>3 DEF Ended
      <3> QED BY <3>5, <3>7, <3>8, <3>9
    <2> QED BY <2>3, <2>4
  <1>18. CASE OpenAgain
    <2>1. reader'.after = reader.after /\ reader'.stage = "connect"
      BY <1>1, <1>18 DEF OpenAgain, Reader
    <2>2. conn'.stage = "closed" /\ Len(wire) = 0
      BY <1>18 DEF OpenAgain
    <2> QED BY <1>15, <1>18, <2>1, <2>2 DEF OpenAgain
  <1>19. CASE StreamBroken
    <2>1. reader'.after = reader.after /\ reader'.stage \in {"connect", "raised"}
      BY <1>1, <1>19 DEF StreamBroken, Failed, Reader
    <2>2. conn'.stage = "closed" /\ Len(wire) = 0
      BY <1>19 DEF StreamBroken, NoConn, Orderly
    <2> QED BY <1>15, <1>19, <2>1, <2>2 DEF StreamBroken
  <1> QED BY <1>4, <1>6, <1>7, <1>8, <1>9, <1>10, <1>11, <1>12, <1>13, <1>14, <1>16, <1>17,
             <1>18, <1>19
          DEF Next, Follow, Reads, AppendEvents, AppendFailed, vars

------------------------------------------------------------------------------
LEMMA InvInit == Init => Inv
  <1> SUFFICES ASSUME Init PROVE Inv
    OBVIOUS
  <1>1. Len(log) = 0 /\ Len(wire) = 0 /\ Len(got) = 0 /\ DOMAIN log = {} /\ reader.after = 0
    BY DEF Init
  <1>2. LoggedOnce /\ AppendSound
    BY <1>1 DEF Init, LoggedOnce, AppendSound, Locked
  <1>3. Orderly
    BY <1>1 DEF Init, Orderly, NoConn
  <1>4. Tracked
    BY <1>1 DEF Init, Tracked, Given, OnWire, Following, Ended, NoConn
  <1> QED BY <1>2, <1>3, <1>4, TypesInit DEF Inv

LEMMA InvAlways == Spec => []Inv
  <1>1. Inv /\ [Next]_vars => Inv'
    BY TypesNext, LogNext, OrderlyNext, TrackedNext DEF Inv
  <1> QED BY <1>1, InvInit, PTL DEF Spec

\* An event is in the log once, however often and late its append is repeated, and whichever
\* of its events are repeated within one (append_events).
THEOREM LogsOnce == Spec => []LoggedOnce
  BY InvAlways, PTL DEF Inv

\* What the caller was given is the log from its first event on, for pages and streams of any
\* size, broken and opened again any number of times (_follow, stream_events).
THEOREM ReadsAreInOrder == Spec => []ReadsInOrder
  <1>1. Inv => ReadsInOrder
    <2> SUFFICES ASSUME Inv, ~Gone, NEW i \in DOMAIN got
                 PROVE  i <= Len(log) /\ got[i] = [position |-> i, event |-> log[i]]
      BY DEF ReadsInOrder
    <2>1. i \in 1..Len(got) /\ Len(log) \in Nat /\ Len(got) \in Nat
      BY DEF Inv, TypeOK
    <2>2. InLog(got[i], i)
      BY <2>1 DEF Inv, Tracked, Given
    <2> QED BY <2>1, <2>2 DEF InLog
  <1> QED BY <1>1, InvAlways, PTL

\* A stream that came to its end gave every event there will ever be: the status is read
\* before the rows, an append holds the run's lock, and a full page is never the last.
THEOREM EndsAreLast == Spec => []EndIsLast
  <1>1. Inv => EndIsLast
    <2> SUFFICES ASSUME Inv, reader.stage = "done", ~Gone
                 PROVE  Final /\ appending = None /\ Len(got) = Len(log)
      BY DEF EndIsLast
    <2>1. Final /\ Len(got) = Len(log)
      BY DEF Inv, Tracked, Given, Ended
    <2>2. appending = None
      BY <2>1, StatusApart DEF Inv, AppendSound, Locked
    <2> QED BY <2>1, <2>2
  <1> QED BY <1>1, InvAlways, PTL
===============================================================================
