---------------------------- MODULE AccessProofs ----------------------------
(***************************************************************************)
(* Access for every key, name and budget: who may cancel a run; no stretch *)
(* of time sees more of a budget than its burst and what it regains; and   *)
(* a request is judged by a verdict no older than the cache allows.        *)
(***************************************************************************)
EXTENDS Access, TLAPS

\* require_may_cancel answers as the assignee when the key may act for them, as itself
\* otherwise: no other reviewer could do better.
LEMMA CancelAsAnyone ==
    ASSUME NEW info, NEW assignee, NEW reviewer,
           MayAnswer(info, assignee, reviewer)
    PROVE  MayCancel(info, assignee)
<1>1. CASE info.role \in ADMINISTERING_ROLES \/ Anyone \in info.may_act_as
    BY <1>1 DEF MayCancel, MayAnswer
<1>2. CASE assignee = None
    BY <1>2 DEF MayCancel, MayAnswer, MayActFor
<1>3. CASE /\ ~(info.role \in ADMINISTERING_ROLES \/ Anyone \in info.may_act_as)
           /\ assignee # None
    <2>1. /\ AsPrincipal(assignee).kind \in INDIVIDUAL_KINDS
          /\ MayActFor(info, AsPrincipal(assignee))
        BY <1>3 DEF MayAnswer
    <2>2. QED
        BY <1>3, <2>1 DEF MayCancel, MayAnswer
<1>4. QED
    BY <1>1, <1>2, <1>3

\* And what it answers as is a name somebody can give.
LEMMA CancelIsAnAnswer ==
    ASSUME NEW info, NEW assignee \in Parties \cup {None}, MayCancel(info, assignee)
    PROVE  \E reviewer \in Parties \cup {None} : MayAnswer(info, assignee, reviewer)
<1>1. CASE assignee # None /\ MayActFor(info, AsPrincipal(assignee))
    BY <1>1 DEF MayCancel
<1>2. CASE ~(assignee # None /\ MayActFor(info, AsPrincipal(assignee)))
    BY <1>2 DEF MayCancel
<1>3. QED
    BY <1>1, <1>2

\* Who may answer a run may cancel it, and nobody else (require_may_cancel), for all keys and
\* names there can be.
THEOREM CancellersDoAnswer == AccessSpec => []CancellersAnswer
<1>1. CancellersAnswer
    BY CancelAsAnyone, CancelIsAnAnswer DEF CancellersAnswer
<1>2. QED
    BY <1>1, PTL

------------------------------------------------------------------------------
(***************************************************************************)
(* The budget.                                                             *)
(***************************************************************************)

\* A statement under way has a clock that was read.
Clocked ==
    /\ time \in 0..MaxClock
    /\ requests = [q \in Requests |-> requests[q]]
    /\ \A q \in Requests : requests[q].stage = "taking" => requests[q].clock \in 0..time

\* What a budget gave since a time is paid for by its row: tat is that much later.
Paid ==
    /\ tat \in [Buckets -> Nat \cup {None}]
    /\ taken \in [Buckets -> [Stretches -> Nat]]
    /\ \A b \in Buckets : \A s \in Stretches :
          taken[b][s] > 0 => tat[b] # None /\ s[1] + Interval * taken[b][s] <= tat[b]

LEMMA Multiples ==
    ASSUME NEW i \in Nat, NEW n \in Nat
    PROVE  i * n \in Nat /\ i * (n + 1) = i * n + i /\ i * (n - 1) = i * n - i
  OBVIOUS

LEMMA TheLater ==
    ASSUME NEW a \in Nat, NEW b \in Nat
    PROVE  Max({a, b}) \in Nat /\ Max({a, b}) >= a /\ Max({a, b}) >= b
<1>1. \E x \in {a, b} : \A y \in {a, b} : x >= y
  <2>1. CASE a >= b
    BY <2>1
  <2>2. CASE ~(a >= b)
    BY <2>2
  <2> QED
    BY <2>1, <2>2
<1>2. Max({a, b}) \in {a, b} /\ \A y \in {a, b} : Max({a, b}) >= y
  BY <1>1 DEF Max
<1> QED
  BY <1>2

LEMMA DueFacts ==
    ASSUME tat \in [Buckets -> Nat \cup {None}], NEW b \in Buckets, NEW c \in Nat
    PROVE  Due(b, c) \in Nat /\ Due(b, c) >= c /\ (tat[b] # None => Due(b, c) >= tat[b])
<1>1. CASE tat[b] = None
  BY <1>1 DEF Due
<1>2. CASE tat[b] # None
  <2>1. tat[b] \in Nat
    BY <1>2
  <2> QED
    BY <1>2, <2>1, TheLater DEF Due
<1> QED
  BY <1>1, <1>2

LEMMA StretchFacts ==
    ASSUME NEW s \in Stretches
    PROVE  s[1] \in Nat /\ s[2] \in Nat /\ s[1] <= s[2]
  BY AccessAssumption DEF Stretches

\* A request given by the row: the stretches that hold its clock count it, and the row is
\* later by an interval.
LEMMA GivenIsPaid ==
    ASSUME Paid, BudgetKept, NEW b \in Buckets, NEW c \in 0..MaxClock,
           Due(b, c) - c <= Tolerance,
           tat' = [tat EXCEPT ![b] = Due(b, c) + Interval],
           taken' = [taken EXCEPT ![b] =
                       [s \in Stretches |-> IF c \in s[1]..s[2] THEN @[s] + 1 ELSE @[s]]]
    PROVE  Paid' /\ BudgetKept'
<1>0. /\ tat \in [Buckets -> Nat \cup {None}] /\ taken \in [Buckets -> [Stretches -> Nat]]
      /\ Interval \in Nat /\ Burst \in Nat /\ MaxClock \in Nat /\ None \notin Nat
  BY AccessAssumption DEF Paid
<1>1. Due(b, c) \in Nat /\ Due(b, c) >= c /\ (tat[b] # None => Due(b, c) >= tat[b]) /\ c \in Nat
  BY <1>0, DueFacts
<1>2. Due(b, c) + Interval <= c + Interval * Burst
  <2>1. Tolerance = Interval * Burst - Interval /\ Interval * Burst \in Nat
    BY <1>0, Multiples DEF Tolerance
  <2> QED
    BY <1>0, <1>1, <2>1
<1>3. tat'[b] = Due(b, c) + Interval /\ tat'[b] \in Nat /\ tat'[b] # None
  BY <1>0, <1>1
<1>4. tat' \in [Buckets -> Nat \cup {None}]
  BY <1>0, <1>1
<1>5. taken' \in [Buckets -> [Stretches -> Nat]]
  BY <1>0
<1>6. ASSUME NEW a \in Buckets, NEW s \in Stretches
      PROVE  /\ taken'[a][s] > 0 => tat'[a] # None /\ s[1] + Interval * taken'[a][s] <= tat'[a]
             /\ Interval * taken'[a][s] <= Interval * Burst + (s[2] - s[1])
  <2>0. /\ taken[a][s] > 0 => tat[a] # None /\ s[1] + Interval * taken[a][s] <= tat[a]
        /\ Interval * taken[a][s] <= Interval * Burst + (s[2] - s[1])
    BY DEF Paid, BudgetKept
  <2>1. CASE a # b
    <3>1. taken'[a][s] = taken[a][s] /\ tat'[a] = tat[a]
      BY <1>0, <2>1
    <3> QED
      BY <2>0, <3>1
  <2>2. CASE a = b /\ ~(c \in s[1]..s[2])
    <3>1. taken'[a][s] = taken[a][s] /\ tat'[a] = Due(b, c) + Interval
      BY <1>0, <2>2
    <3>2. taken[a][s] \in Nat /\ Interval * taken[a][s] \in Nat /\ s[1] \in Nat
      BY <1>0, Multiples, StretchFacts
    <3>3. taken[a][s] > 0 => s[1] + Interval * taken[a][s] <= Due(b, c) + Interval
      <4>1. SUFFICES ASSUME taken[a][s] > 0
                     PROVE  s[1] + Interval * taken[a][s] <= Due(b, c) + Interval
        OBVIOUS
      <4>2. tat[b] # None /\ s[1] + Interval * taken[a][s] <= tat[b] /\ tat[b] \in Nat
        BY <1>0, <2>0, <2>2, <4>1
      <4>3. tat[b] <= Due(b, c)
        BY <1>1, <4>2
      <4> QED
        BY <1>0, <1>1, <3>2, <4>2, <4>3
    <3> QED
      BY <1>3, <2>0, <2>2, <3>1, <3>3
  <2>3. CASE a = b /\ c \in s[1]..s[2]
    <3>1. taken'[a][s] = taken[a][s] + 1 /\ tat'[a] = Due(b, c) + Interval
      BY <1>0, <2>3
    <3>2. /\ taken[a][s] \in Nat /\ Interval * taken[a][s] \in Nat
          /\ s[1] \in Nat /\ s[2] \in Nat /\ s[1] <= c /\ c <= s[2]
      BY <1>0, <2>3, Multiples, StretchFacts
    <3>3. Interval * taken'[a][s] = Interval * taken[a][s] + Interval
      BY <1>0, <3>1, <3>2, Multiples
    <3>4. s[1] + Interval * taken[a][s] <= Due(b, c)
      <4>1. CASE taken[a][s] > 0
        <5>1. tat[b] # None /\ s[1] + Interval * taken[a][s] <= tat[b] /\ tat[b] \in Nat
          BY <1>0, <2>0, <2>3, <4>1
        <5> QED
          BY <1>1, <3>2, <5>1
      <4>2. CASE taken[a][s] = 0
        <5>1. Interval * taken[a][s] = 0
          BY <1>0, <4>2
        <5> QED
          BY <1>1, <3>2, <5>1
      <4> QED
        BY <3>2, <4>1, <4>2
    <3>5. s[1] + Interval * taken'[a][s] <= tat'[a]
      BY <1>0, <1>1, <3>1, <3>2, <3>3, <3>4
    <3>6. Interval * taken'[a][s] <= Interval * Burst + (s[2] - s[1])
      <4>1. Interval * Burst \in Nat
        BY <1>0, Multiples
      <4> QED
        BY <1>0, <1>1, <1>2, <3>1, <3>2, <3>3, <3>5, <4>1
    <3> QED
      BY <1>3, <2>3, <3>5, <3>6
  <2> QED
    BY <2>1, <2>2, <2>3
<1> QED
  BY <1>4, <1>5, <1>6 DEF Paid, BudgetKept

LEMMA ClockedKept ==
    ASSUME Clocked, [AccessNext]_accessVars
    PROVE  Clocked'
<1> USE DEF Clocked
<1>0. time \in Nat /\ MaxClock \in Nat
  BY AccessAssumption
<1>1. ASSUME NEW q \in Requests, NEW record, requests' = [requests EXCEPT ![q] = record],
             record.stage = "taking" => record.clock = time, time' = time
      PROVE  Clocked'
  BY <1>0, <1>1
<1>2. CASE UNCHANGED <<time, requests>>
  BY <1>2
<1>3. CASE TimePasses
  BY <1>0, <1>3 DEF TimePasses
<1>4. ASSUME NEW q \in Requests, NEW k \in Keys, Resolve(q, k)  PROVE Clocked'
  <2>1. CASE requests' = [requests EXCEPT ![q] = [stage |-> "asking", key |-> k, at |-> time]]
    BY <1>1, <1>4, <2>1 DEF Resolve
  <2>2. CASE \E e : requests' = [requests EXCEPT ![q] =
                                   [stage |-> "known", key |-> k, verdict |-> e.answer]]
    BY <1>1, <1>4, <2>2 DEF Resolve
  <2> QED
    BY <1>4, <2>1, <2>2 DEF Resolve
<1>5. ASSUME NEW q \in Requests, RegistryAnswers(q)  PROVE Clocked'
  BY <1>1, <1>5 DEF RegistryAnswers
<1>6. ASSUME NEW q \in Requests, RegistryFails(q) \/ TakeRuns(q)  PROVE Clocked'
  BY <1>1, <1>6 DEF RegistryFails, TakeRuns, NoRequest
<1>7. ASSUME NEW q \in Requests, AnswerArrives(q)  PROVE Clocked'
  BY <1>1, <1>7 DEF AnswerArrives
<1>8. ASSUME NEW q \in Requests, NEW named, NEW claims,
             Refuses(q, named, claims) \/ TakeStarts(q, named, claims)
      PROVE  Clocked'
  BY <1>1, <1>8 DEF Refuses, TakeStarts, NoRequest
<1>9. ASSUME NEW k \in Keys, RegistryChanges(k)  PROVE Clocked'
  BY <1>2, <1>9 DEF RegistryChanges
<1> QED
  BY <1>2, <1>3, <1>4, <1>5, <1>6, <1>7, <1>8, <1>9 DEF AccessNext, accessVars

LEMMA BudgetStep ==
    ASSUME Clocked, Paid, BudgetKept, [AccessNext]_accessVars
    PROVE  Paid' /\ BudgetKept'
<1>1. CASE UNCHANGED <<tat, taken>>
  BY <1>1 DEF Paid, BudgetKept
<1>2. ASSUME NEW q \in Requests, TakeRuns(q)  PROVE Paid' /\ BudgetKept'
  <2> DEFINE b == requests[q].bucket
             c == requests[q].clock
  <2>1. c \in 0..MaxClock
    BY <1>2, AccessAssumption DEF TakeRuns, Clocked
  <2>2. CASE Due(b, c) - c <= Tolerance
    <3>1. /\ tat' = [tat EXCEPT ![b] = Due(b, c) + Interval]
          /\ taken' = [taken EXCEPT ![b] =
                [s \in Stretches |-> IF c \in s[1]..s[2] THEN @[s] + 1 ELSE @[s]]]
      BY <1>2, <2>2 DEF TakeRuns
    <3>2. CASE b \in Buckets
      BY <2>1, <2>2, <3>1, <3>2, GivenIsPaid
    <3>3. CASE b \notin Buckets
      <4>1. tat' = tat /\ taken' = taken
        BY <3>1, <3>3 DEF Paid
      <4> QED
        BY <1>1, <4>1
    <3> QED
      BY <3>2, <3>3
  <2>3. CASE ~(Due(b, c) - c <= Tolerance)
    BY <1>1, <1>2, <2>3 DEF TakeRuns
  <2> QED
    BY <2>2, <2>3
<1> QED
  BY <1>1, <1>2
  DEF AccessNext, accessVars, Resolve, RegistryAnswers, RegistryFails, AnswerArrives, Refuses, TakeStarts,
      RegistryChanges, TimePasses

\* Whatever the burst and the rate, no stretch of time, however long, gives more than the burst
\* and what is regained in it, to statements that reach the row in any order (take).
THEOREM BudgetIsKept == AccessSpec => []BudgetKept
<1>1. AccessInit => Clocked /\ Paid /\ BudgetKept
  <2> SUFFICES ASSUME AccessInit PROVE Clocked /\ Paid /\ BudgetKept
    OBVIOUS
  <2>1. Clocked
    BY AccessAssumption DEF AccessInit, Clocked, NoRequest
  <2>2. Paid
    BY DEF AccessInit, Paid
  <2>3. BudgetKept
    <3>1. ASSUME NEW s \in Stretches PROVE Interval * 0 <= Interval * Burst + (s[2] - s[1])
      <4>1. Interval \in Nat /\ Burst \in Nat
        BY AccessAssumption
      <4>2. Interval * Burst \in Nat /\ Interval * 0 = 0
        BY <4>1, Multiples
      <4> QED
        BY <4>2, StretchFacts
    <3> QED
      BY <3>1 DEF AccessInit, BudgetKept
  <2> QED
    BY <2>1, <2>2, <2>3
<1> QED
  BY <1>1, ClockedKept, BudgetStep, PTL DEF AccessSpec

------------------------------------------------------------------------------
(***************************************************************************)
(* The cached verdicts.                                                    *)
(***************************************************************************)
AllVerdicts == UNION {Verdicts[k] : k \in Keys}

\* The registry and what is remembered of it.
Remembered ==
    /\ time \in Nat
    /\ registry = [k \in Keys |-> registry[k]] /\ left = [k \in Keys |-> left[k]]
    /\ \A k \in Keys : registry[k] \in Verdicts[k] /\ left[k] \in [Verdicts[k] -> Nat]
    /\ \A k \in Keys : \A v \in Verdicts[k] : left[k][v] <= time

\* The entries that are good no longer than their time after the registry last said so.
GoodEntries ==
    {e \in [key : Keys, expires : Nat, answer : AllVerdicts] :
        /\ e.answer \in Verdicts[e.key]
        /\ e.expires <= LastSaid(e.key, e.answer) + Ttl(e.answer)}

\* A question was put before now, and its answer was true after that.
Asks(request) ==
    /\ request.stage = "asking" => request.key \in Keys /\ request.at \in 0..time
    /\ request.stage = "answered" =>
          /\ request.key \in Keys /\ request.at \in 0..time
          /\ request.verdict \in Verdicts[request.key]
          /\ request.at <= LastSaid(request.key, request.verdict)

Judged ==
    /\ Remembered
    /\ cache \in Seq(GoodEntries)
    /\ requests = [q \in Requests |-> requests[q]]
    /\ \A q \in Requests : Asks(requests[q])

LEMMA TtlFacts ==
    ASSUME NEW v
    PROVE  Ttl(v) \in Nat /\ MaxAsk <= Ttl(v) /\ MaxAsk \in Nat
  BY AccessAssumption DEF Ttl

LEMMA SaidFacts ==
    ASSUME Remembered, NEW k \in Keys, NEW v \in Verdicts[k]
    PROVE  LastSaid(k, v) \in Nat /\ LastSaid(k, v) <= time /\ v \in AllVerdicts
  BY DEF Remembered, LastSaid, AllVerdicts

LEMMA RememberedKept ==
    ASSUME Remembered, [AccessNext]_accessVars
    PROVE  /\ Remembered' /\ time <= time'
           /\ \A k \in Keys : \A v \in Verdicts[k] : LastSaid(k, v) <= LastSaid(k, v)'
<1> USE DEF Remembered
<1>1. CASE UNCHANGED <<time, registry, left>>
  BY <1>1, SaidFacts DEF LastSaid
<1>2. CASE TimePasses
  BY <1>2 DEF TimePasses, LastSaid
<1>3. ASSUME NEW k \in Keys, RegistryChanges(k)
      PROVE  /\ Remembered' /\ time <= time'
             /\ \A j \in Keys : \A v \in Verdicts[j] : LastSaid(j, v) <= LastSaid(j, v)'
  <2>1. PICK v \in Verdicts[k] : registry' = [registry EXCEPT ![k] = v]
    BY <1>3 DEF RegistryChanges
  <2>2. time' = time /\ left' = [left EXCEPT ![k] = [left[k] EXCEPT ![registry[k]] = time]]
    BY <1>3 DEF RegistryChanges
  <2>3. /\ \A j \in Keys : j # k => registry'[j] = registry[j] /\ left'[j] = left[j]
        /\ registry'[k] = v /\ left'[k] = [left[k] EXCEPT ![registry[k]] = time]
        /\ registry' = [j \in Keys |-> registry'[j]] /\ left' = [j \in Keys |-> left'[j]]
    BY <2>1, <2>2
  <2>4. Remembered'
    BY <2>2, <2>3
  <2>5. ASSUME NEW j \in Keys, NEW u \in Verdicts[j]
        PROVE  LastSaid(j, u) <= LastSaid(j, u)'
    BY <2>2, <2>3 DEF LastSaid
  <2> QED
    BY <2>2, <2>4, <2>5
<1> QED
  BY <1>1, <1>2, <1>3
  DEF AccessNext, accessVars, Resolve, RegistryAnswers, RegistryFails, AnswerArrives, Refuses, TakeStarts,
      TakeRuns

LEMMA EntriesStayGood ==
    ASSUME Remembered, [AccessNext]_accessVars
    PROVE  GoodEntries \subseteq GoodEntries'
<1> SUFFICES ASSUME NEW e \in GoodEntries PROVE e \in GoodEntries'
  OBVIOUS
<1>1. /\ e \in [key : Keys, expires : Nat, answer : AllVerdicts]
      /\ e.key \in Keys /\ e.answer \in Verdicts[e.key] /\ e.expires \in Nat
      /\ e.expires <= LastSaid(e.key, e.answer) + Ttl(e.answer)
  BY DEF GoodEntries
<1>2. LastSaid(e.key, e.answer) \in Nat /\ Ttl(e.answer) \in Nat
  BY <1>1, SaidFacts, TtlFacts
<1>3. Remembered' /\ LastSaid(e.key, e.answer) <= LastSaid(e.key, e.answer)'
  BY <1>1, RememberedKept
<1>4. LastSaid(e.key, e.answer)' \in Nat
  BY <1>1, <1>3 DEF Remembered, LastSaid
<1>5. e.expires <= LastSaid(e.key, e.answer)' + Ttl(e.answer)
  BY <1>1, <1>2, <1>3, <1>4
<1> QED
  BY <1>1, <1>5 DEF GoodEntries, LastSaid

LEMMA AsksStay ==
    ASSUME Remembered, [AccessNext]_accessVars, NEW request, Asks(request)
    PROVE  Asks(request)'
<1>1. Remembered' /\ time <= time' /\ time \in Nat /\ time' \in Nat
  BY RememberedKept DEF Remembered
<1>2. CASE request.stage = "answered"
  <2>1. /\ request.key \in Keys /\ request.at \in 0..time
        /\ request.verdict \in Verdicts[request.key]
        /\ request.at <= LastSaid(request.key, request.verdict)
    BY <1>2 DEF Asks
  <2>2. LastSaid(request.key, request.verdict) \in Nat
    BY <2>1, SaidFacts
  <2>3. LastSaid(request.key, request.verdict) <= LastSaid(request.key, request.verdict)'
    BY <2>1, RememberedKept
  <2>4. LastSaid(request.key, request.verdict)' \in Nat
    BY <1>1, <2>1 DEF Remembered, LastSaid
  <2> QED
    BY <1>1, <1>2, <2>1, <2>2, <2>3, <2>4 DEF Asks
<1>3. CASE request.stage # "answered"
  BY <1>1, <1>3 DEF Asks
<1> QED
  BY <1>2, <1>3

LEMMA WithoutGood ==
    ASSUME NEW S, cache \in Seq(S), NEW k
    PROVE  Without(k) \in Seq(S)
<1> DEFINE at == {i \in DOMAIN cache : cache[i].key = k}
<1>1. CASE at = {}
  BY <1>1 DEF Without
<1>2. CASE at # {}
  <2>1. (CHOOSE i \in at : TRUE) \in 1..Len(cache)
    BY <1>2
  <2>2. \A i \in 1..Len(cache) : RemoveAt(cache, i) \in Seq(S)
    <3> TAKE i \in 1..Len(cache)
    <3>1. SubSeq(cache, 1, i - 1) \in Seq(S) /\ SubSeq(cache, i + 1, Len(cache)) \in Seq(S)
      OBVIOUS
    <3> QED
      BY <3>1 DEF RemoveAt
  <2> QED
    BY <1>2, <2>1, <2>2 DEF Without
<1> QED
  BY <1>1, <1>2

\* A request that is judged now, by an entry of the cache or by an answer, is judged by a
\* recent verdict.
LEMMA ResolveRecent ==
    ASSUME Judged, NEW q \in Requests, NEW k \in Keys, Resolve(q, k)
    PROVE  /\ \E record : requests' = [requests EXCEPT ![q] = record] /\ Asks(record)'
           /\ cache' \in Seq(GoodEntries)
           /\ requests'[q].stage = "known" =>
                 LET v == requests'[q].verdict
                 IN  time - LastSaid(requests'[q].key, v) <= Ttl(v)
<1>0. /\ UNCHANGED <<time, registry, left>> /\ time \in Nat /\ Remembered
      /\ requests = [p \in Requests |-> requests[p]]
  BY DEF Resolve, Judged, Remembered
<1>1. CASE /\ requests' = [requests EXCEPT ![q] = [stage |-> "asking", key |-> k, at |-> time]]
           /\ cache' = cache
  <2>0. PICK record : record = [stage |-> "asking", key |-> k, at |-> time]
    OBVIOUS
  <2>1. record.stage = "asking" /\ record.key = k /\ record.at = time
    BY <2>0
  <2>2. requests' = [requests EXCEPT ![q] = record]
    BY <1>1, <2>0
  <2>3. Asks(record)'
    BY <1>0, <2>1 DEF Asks
  <2>4. requests'[q] = record
    BY <1>0, <2>2
  <2> QED
    BY <1>1, <2>1, <2>2, <2>3, <2>4 DEF Judged
<1>2. ASSUME NEW e \in Entry(k), e.expires > time,
             requests' = [requests EXCEPT ![q] =
                            [stage |-> "known", key |-> k, verdict |-> e.answer]],
             cache' = Append(Without(k), e)
      PROVE  /\ \E record : requests' = [requests EXCEPT ![q] = record] /\ Asks(record)'
             /\ cache' \in Seq(GoodEntries)
             /\ LET v == requests'[q].verdict
                IN  time - LastSaid(requests'[q].key, v) <= Ttl(v)
  <2>1. e \in GoodEntries /\ e.key = k
    BY <1>2 DEF Judged, Entry, ToSet
  <2>2. cache' \in Seq(GoodEntries)
    BY <1>2, <2>1, WithoutGood DEF Judged
  <2>3. /\ e.answer \in Verdicts[k] /\ e.expires \in Nat
        /\ e.expires <= LastSaid(k, e.answer) + Ttl(e.answer)
    BY <2>1 DEF GoodEntries
  <2>4. time - LastSaid(k, e.answer) <= Ttl(e.answer)
    BY <1>0, <1>2, <2>3, SaidFacts, TtlFacts
  <2>0. PICK record : record = [stage |-> "known", key |-> k, verdict |-> e.answer]
    OBVIOUS
  <2>5. record.stage = "known" /\ record.key = k /\ record.verdict = e.answer
    BY <2>0
  <2>6. requests' = [requests EXCEPT ![q] = record]
    BY <1>2, <2>0
  <2>7. Asks(record)'
    BY <2>5 DEF Asks
  <2>8. requests'[q] = record
    BY <1>0, <2>6
  <2> QED
    BY <2>2, <2>4, <2>5, <2>6, <2>7, <2>8
<1>3. \/ /\ requests' = [requests EXCEPT ![q] = [stage |-> "asking", key |-> k, at |-> time]]
         /\ cache' = cache
      \/ \E e \in Entry(k) :
            /\ e.expires > time
            /\ requests' = [requests EXCEPT ![q] =
                               [stage |-> "known", key |-> k, verdict |-> e.answer]]
            /\ cache' = Append(Without(k), e)
  BY DEF Resolve
<1> QED
  BY <1>1, <1>2, <1>3

LEMMA ArrivalRecent ==
    ASSUME Judged, NEW q \in Requests, AnswerArrives(q)
    PROVE  /\ \E record : requests' = [requests EXCEPT ![q] = record] /\ Asks(record)'
           /\ cache' \in Seq(GoodEntries)
           /\ LET v == requests'[q].verdict
              IN  time - LastSaid(requests'[q].key, v) <= Ttl(v)
<1> DEFINE k == requests[q].key
           v == requests[q].verdict
           e == Cached(requests[q])
<1>0. requests = [p \in Requests |-> requests[p]] /\ Remembered /\ time \in Nat
  BY DEF Judged, Remembered
<1>1. /\ requests[q].at \in Nat /\ k \in Keys /\ v \in Verdicts[k]
      /\ requests[q].at <= LastSaid(k, v) /\ time <= requests[q].at + MaxAsk
  BY <1>0 DEF AnswerArrives, Judged, Asks
<1>2. LastSaid(k, v) \in Nat /\ Ttl(v) \in Nat /\ MaxAsk <= Ttl(v) /\ MaxAsk \in Nat
      /\ v \in AllVerdicts
  BY <1>0, <1>1, SaidFacts, TtlFacts
<1>3. time - LastSaid(k, v) <= Ttl(v)
  BY <1>0, <1>1, <1>2
<1>4. e \in GoodEntries
  <2>1. e = [key |-> k, expires |-> requests[q].at + Ttl(v), answer |-> v]
    BY DEF Cached
  <2>2. requests[q].at + Ttl(v) \in Nat /\ requests[q].at + Ttl(v) <= LastSaid(k, v) + Ttl(v)
    BY <1>1, <1>2
  <2> HIDE DEF e, k, v
  <2> QED
    BY <1>1, <1>2, <2>1, <2>2 DEF GoodEntries
<1>5. cache' \in Seq(GoodEntries)
  <2> DEFINE kept == Append(Without(k), e)
  <2>1. kept \in Seq(GoodEntries)
    BY <1>4, WithoutGood DEF Judged
  <2>2. cache' = SubSeq(kept, Max({1, Len(kept) - MAX_CACHED_KEYS + 1}), Len(kept))
    BY DEF AnswerArrives
  <2> HIDE DEF kept
  <2>3. Max({1, Len(kept) - MAX_CACHED_KEYS + 1}) \in Int
        /\ Max({1, Len(kept) - MAX_CACHED_KEYS + 1}) >= 1
    <3> DEFINE n == Len(kept) - MAX_CACHED_KEYS + 1
    <3>1. n \in Int
      BY <2>1, AccessAssumption
    <3> HIDE DEF n
    <3>2. \E x \in {1, n} : \A y \in {1, n} : x >= y
      <4>1. CASE n >= 1
        BY <3>1, <4>1
      <4>2. CASE ~(n >= 1)
        BY <3>1, <4>2
      <4> QED
        BY <4>1, <4>2
    <3>3. Max({1, n}) \in {1, n} /\ Max({1, n}) >= 1
      BY <3>2 DEF Max
    <3> QED
      BY <3>1, <3>3 DEF n
  <2>4. \A m \in Int : m >= 1 => SubSeq(kept, m, Len(kept)) \in Seq(GoodEntries)
    <3> TAKE m \in Int
    <3> HAVE m >= 1
    <3>1. \A i \in 1..Len(kept) : kept[i] \in GoodEntries
      BY <2>1
    <3> QED
      BY <2>1, <3>1
  <2> QED
    BY <2>2, <2>3, <2>4
<1>a. PICK record : record = [stage |-> "known", key |-> k, verdict |-> v]
  OBVIOUS
<1>6. record.stage = "known" /\ record.key = k /\ record.verdict = v
  BY <1>a
<1>7. requests' = [requests EXCEPT ![q] = record]
  BY <1>0, <1>a DEF AnswerArrives
<1>8. Asks(record)'
  BY <1>6 DEF Asks
<1>9. requests'[q] = record
  BY <1>0, <1>7
<1> QED
  BY <1>3, <1>5, <1>6, <1>7, <1>8, <1>9

LEMMA JudgedStep ==
    ASSUME Judged, [AccessNext]_accessVars
    PROVE  /\ Judged'
           /\ \A q \in Requests :
                 requests[q].stage # "known" /\ requests'[q].stage = "known" =>
                     LET v == requests'[q].verdict
                     IN  time - LastSaid(requests'[q].key, v) <= Ttl(v)
<1>0. /\ Remembered /\ Remembered' /\ cache \in Seq(GoodEntries)
      /\ requests = [q \in Requests |-> requests[q]]
  BY RememberedKept DEF Judged
<1>1. GoodEntries \subseteq GoodEntries'
  BY <1>0, EntriesStayGood
<1>2. cache' \in Seq(GoodEntries) => cache' \in Seq(GoodEntries')
  BY <1>1
<1>3. ASSUME NEW q \in Requests, requests'[q] = requests[q]
      PROVE  Asks(requests[q])'
  <2>1. PICK record : record = requests[q]
    OBVIOUS
  <2>2. Asks(record)'
    BY <1>0, <2>1, AsksStay DEF Judged
  <2> QED
    BY <1>3, <2>1, <2>2 DEF Asks, LastSaid
<1>4. ASSUME NEW q \in Requests, NEW record,
             requests' = [requests EXCEPT ![q] = record], Asks(record)',
             cache' \in Seq(GoodEntries)
      PROVE  Judged' /\ \A p \in Requests : p # q => requests'[p] = requests[p]
  <2>1. /\ requests' = [p \in Requests |-> requests'[p]] /\ requests'[q] = record
        /\ \A p \in Requests : p # q => requests'[p] = requests[p]
    BY <1>0, <1>4
  <2>2. Asks(requests[q])'
    BY <1>4, <2>1 DEF Asks, LastSaid
  <2>3. \A p \in Requests : Asks(requests[p])'
    BY <1>3, <2>1, <2>2
  <2> QED
    BY <1>0, <1>2, <1>4, <2>1, <2>3 DEF Judged
<1>5. ASSUME NEW q \in Requests, NEW record,
             requests' = [requests EXCEPT ![q] = record],
             record.stage \in {"idle", "taking"}, cache' = cache
      PROVE  Judged' /\ \A p \in Requests : requests'[p].stage = "known" => requests[p].stage = "known"
  <2>1. Asks(record)'
    BY <1>5 DEF Asks
  <2>2. requests'[q] = record
    BY <1>0, <1>5
  <2> QED
    BY <1>0, <1>4, <1>5, <2>1, <2>2
<1> DEFINE Fine == \A q \in Requests :
                      requests[q].stage # "known" /\ requests'[q].stage = "known" =>
                         LET v == requests'[q].verdict
                         IN  time - LastSaid(requests'[q].key, v) <= Ttl(v)
<1> SUFFICES Judged' /\ Fine
  OBVIOUS
<1> HIDE DEF Fine
<1>6. CASE UNCHANGED <<requests, cache>>
  <2>1. \A q \in Requests : Asks(requests[q])'
    BY <1>3, <1>6
  <2>2. Judged'
    BY <1>0, <1>2, <1>6, <2>1 DEF Judged
  <2> QED
    BY <1>6, <2>2 DEF Fine
<1>7. ASSUME NEW q \in Requests, NEW k \in Keys, Resolve(q, k)  PROVE Judged' /\ Fine
  <2>1. PICK record : requests' = [requests EXCEPT ![q] = record] /\ Asks(record)'
    BY <1>7, ResolveRecent
  <2>2. /\ cache' \in Seq(GoodEntries)
        /\ requests'[q].stage = "known" =>
              LET v == requests'[q].verdict
              IN  time - LastSaid(requests'[q].key, v) <= Ttl(v)
    BY <1>7, ResolveRecent
  <2>3. Judged' /\ \A p \in Requests : p # q => requests'[p] = requests[p]
    BY <1>4, <2>1, <2>2
  <2> QED
    BY <2>2, <2>3 DEF Fine
<1>8. ASSUME NEW q \in Requests, AnswerArrives(q)  PROVE Judged' /\ Fine
  <2>1. PICK record : requests' = [requests EXCEPT ![q] = record] /\ Asks(record)'
    BY <1>8, ArrivalRecent
  <2>2. /\ cache' \in Seq(GoodEntries)
        /\ LET v == requests'[q].verdict
           IN  time - LastSaid(requests'[q].key, v) <= Ttl(v)
    BY <1>8, ArrivalRecent
  <2>3. Judged' /\ \A p \in Requests : p # q => requests'[p] = requests[p]
    BY <1>4, <2>1, <2>2
  <2> QED
    BY <2>2, <2>3 DEF Fine
<1>9. ASSUME NEW q \in Requests, RegistryAnswers(q)  PROVE Judged' /\ Fine
  <2>0. UNCHANGED <<time, registry, left, cache>> /\ requests[q].stage = "asking"
    BY <1>9 DEF RegistryAnswers
  <2>1. requests[q].key \in Keys /\ requests[q].at \in 0..time
    BY <2>0 DEF Judged, Asks
  <2>2. PICK record : record = [stage |-> "answered", key |-> requests[q].key,
                                at |-> requests[q].at, verdict |-> registry[requests[q].key]]
    OBVIOUS
  <2>3. /\ record.stage = "answered" /\ record.key = requests[q].key
        /\ record.at = requests[q].at /\ record.verdict = registry[requests[q].key]
    BY <2>2
  <2>4. requests' = [requests EXCEPT ![q] = record]
    BY <1>0, <1>9, <2>2 DEF RegistryAnswers
  <2>5. Asks(record)'
    BY <1>0, <2>0, <2>1, <2>3 DEF Asks, LastSaid, Remembered
  <2>6. Judged' /\ \A p \in Requests : p # q => requests'[p] = requests[p]
    BY <1>0, <1>4, <2>0, <2>4, <2>5
  <2>7. requests'[q].stage = "answered"
    BY <1>0, <2>3, <2>4
  <2> QED
    BY <2>6, <2>7 DEF Fine
<1>10. ASSUME NEW q \in Requests, RegistryFails(q) \/ TakeRuns(q)  PROVE Judged' /\ Fine
  BY <1>5, <1>10 DEF RegistryFails, TakeRuns, NoRequest, Fine
<1>11. ASSUME NEW q \in Requests, NEW named, NEW claims,
              Refuses(q, named, claims) \/ TakeStarts(q, named, claims)
       PROVE  Judged' /\ Fine
  <2>1. PICK record : /\ requests' = [requests EXCEPT ![q] = record]
                      /\ record.stage \in {"idle", "taking"}
    <3>1. CASE Refuses(q, named, claims)
      <4>1. PICK record : record = NoRequest
        OBVIOUS
      <4>2. record.stage = "idle" /\ requests' = [requests EXCEPT ![q] = record]
        BY <3>1, <4>1 DEF Refuses, NoRequest
      <4> QED
        BY <4>2
    <3>2. CASE TakeStarts(q, named, claims)
      <4>1. PICK bucket \in Acting(requests[q], named, claims) :
               requests' = [requests EXCEPT ![q] =
                              [stage |-> "taking", bucket |-> bucket, clock |-> time]]
        BY <3>2 DEF TakeStarts
      <4>2. PICK record : record = [stage |-> "taking", bucket |-> bucket, clock |-> time]
        OBVIOUS
      <4>3. record.stage = "taking"
        BY <4>2
      <4> QED
        BY <4>1, <4>2, <4>3
    <3> QED
      BY <1>11, <3>1, <3>2
  <2>2. cache' = cache
    BY <1>11 DEF Refuses, TakeStarts
  <2> QED
    BY <1>5, <2>1, <2>2 DEF Fine
<1>12. CASE TimePasses \/ \E k \in Keys : RegistryChanges(k)
  BY <1>6, <1>12 DEF TimePasses, RegistryChanges
<1>13. CASE UNCHANGED accessVars
  BY <1>6, <1>13 DEF accessVars
<1>14. CASE AccessNext
  BY <1>7, <1>8, <1>9, <1>10, <1>11, <1>12, <1>14 DEF AccessNext
<1> QED
  BY <1>13, <1>14

\* A request is judged by a verdict the registry gave at most KEY_CACHE_SECONDS (a refusal:
\* KEY_NEGATIVE_CACHE_SECONDS) ago, for any number of keys, verdicts and requests and however
\* the cache was filled and emptied (resolve).
THEOREM VerdictsAreRecent == AccessSpec => RecentVerdict
<1>1. AccessInit => Judged
  <2> SUFFICES ASSUME AccessInit PROVE Judged
    OBVIOUS
  <2>1. Remembered
    BY DEF AccessInit, Remembered
  <2>2. requests = [q \in Requests |-> requests[q]] /\ \A q \in Requests : requests[q].stage = "idle"
    BY DEF AccessInit, NoRequest
  <2>3. \A q \in Requests : Asks(requests[q])
    BY <2>2 DEF Asks
  <2>4. cache \in Seq(GoodEntries)
    BY DEF AccessInit
  <2> QED
    BY <2>1, <2>2, <2>3, <2>4 DEF Judged
<1> QED
  BY <1>1, JudgedStep, PTL DEF AccessSpec, RecentVerdict
=============================================================================
