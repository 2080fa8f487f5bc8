------------------------- MODULE WebhookOutboxProofs -------------------------
(***************************************************************************)
(* What WebhookOutbox guarantees for any number of subscriptions, events   *)
(* and tickers, and for every lease, overlap and limit.                    *)
(***************************************************************************)
EXTENDS WebhookOutbox, TLAPS

------------------------------------------------------------------------------
(***************************************************************************)
(* Types.                                                                  *)
(***************************************************************************)
LEMMA MaybeFacts == \A S : None \in Maybe(S) /\ (\A x \in S : x \in Maybe(S))
  BY DEF Maybe

\* What a ticker is about, taken apart.
LEMMA TickFacts ==
    ASSUME OutboxTypeOK, NEW k \in Tickers, ticks[k] # None
    PROVE  /\ ticks[k].at \in Nat
           /\ DOMAIN ticks[k].batch \subseteq Deliveries
           /\ DOMAIN ticks[k].answers = DOMAIN ticks[k].batch
           /\ \A d \in DOMAIN ticks[k].batch : /\ ticks[k].batch[d] \in Held
                                               /\ ticks[k].answers[d] \in Maybe(Answers)
           /\ ticks[k] \in [at      : Nat,
                            batch   : [DOMAIN ticks[k].batch -> Held],
                            answers : [DOMAIN ticks[k].batch -> Maybe(Answers)]]
  <1>1. PICK S \in SUBSET Deliveries :
            ticks[k] \in [at : Nat, batch : [S -> Held], answers : [S -> Maybe(Answers)]]
    BY DEF OutboxTypeOK
  <1> QED BY <1>1

LEMMA ClockType == ASSUME OutboxTypeOK, NEW t \in Clock PROVE t \in Nat /\ t <= now /\ now <= t + MaxDelay
  BY DEF OutboxTypeOK, Clock

LEMMA HookFacts ==
    ASSUME OutboxTypeOK, NEW h \in Hooks, hooks[h] # None
    PROVE  /\ hooks[h] \in Hook /\ hooks[h].secret \in Nat
           /\ hooks[h].previous_secret \in Maybe(Nat)
           /\ hooks[h].previous_secret_expires_at \in Maybe(Nat)
  BY DEF OutboxTypeOK, Maybe, Hook

LEMMA RowFacts ==
    ASSUME OutboxTypeOK, NEW d \in Deliveries, outbox[d] # None
    PROVE  /\ outbox[d] \in DeliveryRow /\ outbox[d].attempts \in Nat
           /\ outbox[d].next_attempt_at \in Nat /\ outbox[d].dead_at \in Maybe(Nat)
  BY DEF OutboxTypeOK, Maybe, DeliveryRow

LEMMA BackoffType ==
    ASSUME NEW base, NEW failures, NEW cap \in Nat
    PROVE  Backoff(base, failures, cap) \in Nat
  BY DEF Backoff

LEMMA FreshRow ==
    ASSUME NEW t \in Nat
    PROVE  [attempts |-> 0, next_attempt_at |-> t, dead_at |-> None] \in DeliveryRow
  BY MaybeFacts DEF DeliveryRow

LEMMA SettledType ==
    ASSUME NEW row \in Maybe(DeliveryRow), NEW held \in Held, NEW answer, NEW t \in Nat
    PROVE  Settled(row, held, answer, t) \in Maybe(DeliveryRow)
  <1>1. RetryAt(held, t) \in Nat
    BY BackoffType, OutboxAssumption DEF RetryAt, Held
  <1>2. CASE row = None
    BY <1>2 DEF Settled, Maybe
  <1>3. CASE row \in DeliveryRow
    <2>1. [row EXCEPT !.next_attempt_at = RetryAt(held, t)] \in DeliveryRow
      BY <1>1, <1>3 DEF DeliveryRow
    <2>2. [row EXCEPT !.dead_at = t] \in DeliveryRow
      BY <1>3, MaybeFacts DEF DeliveryRow
    <2> QED BY <2>1, <2>2 DEF Settled, Maybe
  <1> QED BY <1>2, <1>3 DEF Maybe

LEMMA HeldRowType ==
    ASSUME NEW row \in DeliveryRow, NEW t \in Nat
    PROVE  HeldForRow(row, t) \in DeliveryRow
  <1>1. row.attempts + 1 \in Nat /\ t + WEBHOOK_LEASE \in Nat
    BY OutboxAssumption DEF DeliveryRow
  <1> QED BY <1>1 DEF HeldForRow, DeliveryRow

LEMMA RotatedType ==
    ASSUME NEW hook \in Hook, NEW t \in Nat
    PROVE  [hook EXCEPT !.secret = @ + 1, !.previous_secret = hook.secret,
                        !.previous_secret_expires_at = t + SecretOverlap] \in Hook
  <1>1. /\ hook.secret + 1 \in Nat /\ hook.secret \in Maybe(Nat)
        /\ t + SecretOverlap \in Maybe(Nat)
    BY OutboxAssumption DEF Hook, Maybe
  <1> QED BY <1>1 DEF Hook

\* A delivery is owed to a subscription that is there (ON DELETE CASCADE), was written once,
\* and an id is given once.
Ids ==
    /\ counting \cap used = {}
    /\ \A h \in Hooks : hooks[h] # None => h \in used
    /\ \A d \in owed : d[2] \in used
    /\ \A d \in Deliveries : outbox[d] # None => d \in owed /\ hooks[d[2]] # None
    /\ \A k \in Tickers, d \in Deliveries : HeldBy(k, d) => d \in owed

Sound == OutboxTypeOK /\ Ids

LEMMA SoundInit == OutboxInit => Sound
  BY MaybeFacts DEF OutboxInit, OutboxTypeOK, Ids, Sound, HeldBy

LEMMA PairFacts == ASSUME NEW d \in Deliveries PROVE d[1] \in Events /\ d[2] \in Hooks
  BY DEF Deliveries

LEMMA TypeNext == Sound /\ [OutboxNext]_outboxVars => OutboxTypeOK'
  <1> SUFFICES ASSUME Sound, [OutboxNext]_outboxVars PROVE OutboxTypeOK'
    OBVIOUS
  <1> USE OutboxAssumption DEF Sound
  <1>1. ASSUME NEW h \in Hooks, CountHooks(h), UNCHANGED now PROVE OutboxTypeOK'
    BY <1>1 DEF CountHooks, OutboxTypeOK
  <1>2. ASSUME NEW h \in Hooks, InsertHook(h), UNCHANGED now PROVE OutboxTypeOK'
    <2>1. [secret |-> 0, previous_secret |-> None, previous_secret_expires_at |-> None]
             \in Maybe(Hook)
      BY DEF Hook, Maybe
    <2> QED BY <1>2, <2>1 DEF InsertHook, OutboxTypeOK
  <1>3. ASSUME NEW h \in Hooks, NEW t \in Clock, RotateSecret(h, t), UNCHANGED now PROVE OutboxTypeOK'
    <2>1. hooks[h] \in Hook /\ t \in Nat
      BY <1>3, HookFacts, ClockType DEF RotateSecret
    <2>2. hooks'[h] \in Maybe(Hook)
      BY <1>3, <2>1, RotatedType, MaybeFacts DEF RotateSecret, OutboxTypeOK
    <2> QED BY <1>3, <2>2 DEF RotateSecret, OutboxTypeOK
  <1>4. ASSUME NEW h \in Hooks, DeleteHook(h), UNCHANGED now PROVE OutboxTypeOK'
    BY <1>4, MaybeFacts DEF DeleteHook, OutboxTypeOK
  <1>5. ASSUME NEW h \in Hooks, MoveReceiver(h), UNCHANGED now PROVE OutboxTypeOK'
    BY <1>5, HookFacts DEF MoveReceiver, OutboxTypeOK
  <1>6. ASSUME NEW e \in Events, NEW t \in Clock, Announce(e, t), UNCHANGED now PROVE OutboxTypeOK'
    <2>1. [attempts |-> 0, next_attempt_at |-> t, dead_at |-> None] \in Maybe(DeliveryRow)
      BY ClockType, FreshRow, MaybeFacts
    <2> QED BY <1>6, <2>1 DEF Announce, OutboxTypeOK
  <1>7. ASSUME NEW k \in Tickers, NEW S \in SUBSET Deliveries, NEW t \in Clock,
               ClaimDue(k, S, t), UNCHANGED now
        PROVE  OutboxTypeOK'
    <2>1. ASSUME NEW d \in S
          PROVE  /\ HeldForRow(outbox[d], t) \in Maybe(DeliveryRow)
                 /\ [attempts        |-> outbox[d].attempts + 1,
                     secret          |-> SignedBy(d[2], t).secret,
                     previous_secret |-> SignedBy(d[2], t).previous] \in Held
      <3>1. outbox[d] # None /\ d \in Deliveries /\ t \in Nat
        BY <1>7, ClockType DEF ClaimDue, Due, Owed
      <3>2. outbox[d] \in DeliveryRow /\ outbox[d].attempts + 1 \in Nat
        BY <3>1, RowFacts
      <3>3. d[2] \in Hooks /\ hooks[d[2]] # None
        BY <3>1, PairFacts DEF Ids
      <3>4. SignedBy(d[2], t).secret \in Nat /\ SignedBy(d[2], t).previous \in Maybe(Nat)
        BY <3>3, HookFacts, MaybeFacts DEF SignedBy
      <3> QED BY <3>1, <3>2, <3>4, HeldRowType, MaybeFacts DEF Held
    <2>2. outbox' \in [Deliveries -> Maybe(DeliveryRow)]
      BY <1>7, <2>1 DEF ClaimDue, OutboxTypeOK
    <2>3. ticks'[k] \in [at : Nat, batch : [S -> Held], answers : [S -> Maybe(Answers)]]
      BY <1>7, <2>1, ClockType, MaybeFacts DEF ClaimDue, OutboxTypeOK
    <2> QED BY <1>7, <2>2, <2>3 DEF ClaimDue, OutboxTypeOK
  <1>8. ASSUME NEW k \in Tickers, NEW d \in Deliveries, NEW answer \in Answers,
               Send(k, d, answer), UNCHANGED now
        PROVE  OutboxTypeOK'
    <2>1. ticks'[k] \in [at      : Nat,
                         batch   : [DOMAIN ticks[k].batch -> Held],
                         answers : [DOMAIN ticks[k].batch -> Maybe(Answers)]]
      BY <1>8, TickFacts, MaybeFacts DEF Send, OutboxTypeOK
    <2>2. DOMAIN ticks[k].batch \in SUBSET Deliveries
      BY <1>8, TickFacts DEF Send
    <2> QED BY <1>8, <2>1, <2>2 DEF Send, OutboxTypeOK
  <1>9. ASSUME NEW k \in Tickers, Settle(k), UNCHANGED now PROVE OutboxTypeOK'
    <2>1. outbox' \in [Deliveries -> Maybe(DeliveryRow)]
      BY <1>9, TickFacts, SettledType DEF Settle, OutboxTypeOK
    <2> QED BY <1>9, <2>1 DEF Settle, OutboxTypeOK
  <1>10. ASSUME NEW k \in Tickers, Die(k), UNCHANGED now PROVE OutboxTypeOK'
    <2>1. deaths' \in Nat
      BY <1>10 DEF Die, OutboxTypeOK
    <2> QED BY <1>10, <2>1 DEF Die, OutboxTypeOK
  <1>11. ASSUME NEW d \in Deliveries, NEW t \in Clock, Redeliver(d, t), UNCHANGED now PROVE OutboxTypeOK'
    <2>1. [attempts |-> 0, next_attempt_at |-> t, dead_at |-> None] \in Maybe(DeliveryRow)
      BY ClockType, FreshRow, MaybeFacts
    <2> QED BY <1>11, <2>1 DEF Redeliver, OutboxTypeOK
  <1>12. ASSUME NEW S \in SUBSET Deliveries, NEW t \in Clock, DropDead(S, t), UNCHANGED now
         PROVE  OutboxTypeOK'
    BY <1>12, MaybeFacts DEF DropDead, OutboxTypeOK
  <1>13. CASE Tick
    BY <1>13 DEF Tick, OutboxTypeOK
  <1>14. CASE UNCHANGED outboxVars
    BY <1>14 DEF outboxVars, OutboxTypeOK
  <1> QED BY <1>1, <1>2, <1>3, <1>4, <1>5, <1>6, <1>7, <1>8, <1>9, <1>10, <1>11, <1>12, <1>13, <1>14
          DEF OutboxNext, Step, Subscription, TickerStep, Attempt

------------------------------------------------------------------------------
(***************************************************************************)
(* What the tickers hold, from one step to the next.                       *)
(***************************************************************************)
HeldStill(l, d) == HeldBy(l, d) /\ ticks'[l] = ticks[l]

LEMMA ClaimHolds ==
    ASSUME OutboxTypeOK, NEW k \in Tickers, NEW S \in SUBSET Deliveries, NEW t, ClaimDue(k, S, t),
           NEW l \in Tickers, NEW d \in Deliveries, HeldBy(l, d)'
    PROVE  \/ l # k /\ HeldStill(l, d)
           \/ /\ l = k /\ d \in S
              /\ ticks'[l].at = t /\ ticks'[l].answers[d] = None
              /\ ticks'[l].batch[d].secret = SignedBy(d[2], t).secret
              /\ ticks'[l].batch[d].previous_secret = SignedBy(d[2], t).previous
  BY DEF ClaimDue, HeldBy, HeldStill, OutboxTypeOK

LEMMA SendHolds ==
    ASSUME OutboxTypeOK, NEW k \in Tickers, NEW d0 \in Deliveries, NEW answer, Send(k, d0, answer),
           NEW l \in Tickers, NEW d \in Deliveries, HeldBy(l, d)'
    PROVE  /\ HeldBy(l, d)
           /\ ticks'[l].at = ticks[l].at /\ ticks'[l].batch = ticks[l].batch
           /\ ticks'[l].answers[d] = IF l = k /\ d = d0 THEN answer ELSE ticks[l].answers[d]
  <1>1. CASE l # k
    BY <1>1 DEF Send, HeldBy, OutboxTypeOK
  <1>2. CASE l = k
    BY <1>2, TickFacts DEF Send, HeldBy, OutboxTypeOK
  <1> QED BY <1>1, <1>2

LEMMA LetGo ==
    ASSUME OutboxTypeOK, NEW k \in Tickers, Settle(k) \/ Die(k),
           NEW l \in Tickers, NEW d \in Deliveries, HeldBy(l, d)'
    PROVE  l # k /\ HeldStill(l, d)
  BY DEF Settle, Die, HeldBy, HeldStill, OutboxTypeOK

LEMMA HeldUnchanged ==
    ASSUME UNCHANGED ticks, NEW l, NEW d, HeldBy(l, d)'
    PROVE  HeldStill(l, d)
  BY DEF HeldBy, HeldStill

LEMMA IdsNext == Sound /\ [OutboxNext]_outboxVars => Ids'
  <1> SUFFICES ASSUME Sound, [OutboxNext]_outboxVars PROVE Ids'
    OBVIOUS
  <1> USE OutboxAssumption DEF Sound
  <1>0. OutboxTypeOK'
    BY TypeNext
  <1>1. ASSUME NEW h \in Hooks, CountHooks(h), UNCHANGED now PROVE Ids'
    BY <1>1, HeldUnchanged DEF CountHooks, Ids, HeldStill
  <1>2. ASSUME NEW h \in Hooks, InsertHook(h), UNCHANGED now PROVE Ids'
    <2>1. \A g \in Hooks : hooks'[g] # None => hooks[g] # None \/ g = h
      BY <1>2 DEF InsertHook, OutboxTypeOK
    <2>2. \A g \in Hooks : hooks[g] # None => hooks'[g] # None
      <3>1. h \notin used /\ hooks[h] = None
        BY <1>2 DEF InsertHook, Ids
      <3> QED BY <1>2, <3>1 DEF InsertHook, OutboxTypeOK
    <2>3. \A d \in Deliveries : d[2] \in Hooks
      BY PairFacts
    <2> QED BY <1>2, <2>1, <2>2, <2>3, HeldUnchanged DEF InsertHook, Ids, HeldStill
  <1>3. ASSUME NEW h \in Hooks, NEW t \in Clock, RotateSecret(h, t), UNCHANGED now PROVE Ids'
    <2>1. \A g \in Hooks : hooks'[g] # None <=> hooks[g] # None
      <3>1. hooks[h] \in Hook /\ t \in Nat
        BY <1>3, HookFacts, ClockType DEF RotateSecret
      <3>2. hooks'[h] \in Hook
        BY <1>3, <3>1, RotatedType DEF RotateSecret, OutboxTypeOK
      <3> QED BY <1>3, <3>1, <3>2 DEF RotateSecret, OutboxTypeOK
    <2>2. \A d \in Deliveries : d[2] \in Hooks
      BY PairFacts
    <2> QED BY <1>3, <2>1, <2>2, HeldUnchanged DEF RotateSecret, Ids, HeldStill
  <1>4. ASSUME NEW h \in Hooks, DeleteHook(h), UNCHANGED now PROVE Ids'
    <2>1. \A d \in Deliveries : d[2] \in Hooks
      BY PairFacts
    <2>2. \A d \in Deliveries : outbox'[d] # None => outbox[d] # None /\ d[2] # h
      BY <1>4 DEF DeleteHook
    <2>3. \A g \in Hooks : hooks'[g] = IF g = h THEN None ELSE hooks[g]
      BY <1>4 DEF DeleteHook, OutboxTypeOK
    <2> QED BY <1>4, <2>1, <2>2, <2>3, HeldUnchanged DEF DeleteHook, Ids, HeldStill
  <1>5. ASSUME NEW h \in Hooks, MoveReceiver(h), UNCHANGED now PROVE Ids'
    BY <1>5, HeldUnchanged DEF MoveReceiver, Ids, HeldStill
  <1>6. ASSUME NEW e \in Events, NEW t \in Clock, Announce(e, t), UNCHANGED now PROVE Ids'
    <2>1. \A d \in Deliveries : d[2] \in Hooks
      BY PairFacts
    <2>2. \A d \in owed' : d \in owed \/ (d \in Deliveries /\ hooks[d[2]] # None)
      BY <1>6 DEF Announce
    <2>3. \A d \in Deliveries : outbox'[d] # None =>
              outbox[d] # None \/ (d \in owed' /\ hooks[d[2]] # None)
      BY <1>6 DEF Announce
    <2>4. owed \subseteq owed'
      BY <1>6 DEF Announce
    <2> QED BY <1>6, <2>1, <2>2, <2>3, <2>4, HeldUnchanged DEF Announce, Ids, HeldStill
  <1>7. ASSUME NEW k \in Tickers, NEW S \in SUBSET Deliveries, NEW t \in Clock,
               ClaimDue(k, S, t), UNCHANGED now
        PROVE  Ids'
    <2>1. \A d \in S : outbox[d] # None
      BY <1>7 DEF ClaimDue, Due, Owed
    <2>2. \A d \in Deliveries : outbox'[d] # None => outbox[d] # None
      BY <1>7, <2>1 DEF ClaimDue
    <2>3. \A l \in Tickers, d \in Deliveries : HeldBy(l, d)' => HeldBy(l, d) \/ d \in S
      BY <1>7, ClaimHolds DEF HeldStill
    <2> QED BY <1>7, <2>1, <2>2, <2>3 DEF ClaimDue, Ids
  <1>8. ASSUME NEW k \in Tickers, NEW d \in Deliveries, NEW answer \in Answers,
               Send(k, d, answer), UNCHANGED now
        PROVE  Ids'
    <2>1. \A l \in Tickers, c \in Deliveries : HeldBy(l, c)' => HeldBy(l, c)
      BY <1>8, SendHolds
    <2> QED BY <1>8, <2>1 DEF Send, Ids
  <1>9. ASSUME NEW k \in Tickers, Settle(k), UNCHANGED now PROVE Ids'
    <2>1. \A d \in Deliveries : outbox'[d] # None => outbox[d] # None
      BY <1>9 DEF Settle, Settled
    <2>2. \A l \in Tickers, d \in Deliveries : HeldBy(l, d)' => HeldBy(l, d)
      BY <1>9, LetGo DEF HeldStill
    <2> QED BY <1>9, <2>1, <2>2 DEF Settle, Ids
  <1>10. ASSUME NEW k \in Tickers, Die(k), UNCHANGED now PROVE Ids'
    <2>1. \A l \in Tickers, d \in Deliveries : HeldBy(l, d)' => HeldBy(l, d)
      BY <1>10, LetGo DEF HeldStill
    <2> QED BY <1>10, <2>1 DEF Die, Ids
  <1>11. ASSUME NEW d \in Deliveries, NEW t \in Clock, Redeliver(d, t), UNCHANGED now PROVE Ids'
    <2>1. \A c \in Deliveries : outbox'[c] # None => outbox[c] # None
      BY <1>11 DEF Redeliver, OutboxTypeOK
    <2> QED BY <1>11, <2>1, HeldUnchanged DEF Redeliver, Ids, HeldStill
  <1>12. ASSUME NEW S \in SUBSET Deliveries, NEW t \in Clock, DropDead(S, t), UNCHANGED now
         PROVE  Ids'
    <2>1. \A c \in Deliveries : outbox'[c] # None => outbox[c] # None
      BY <1>12 DEF DropDead
    <2> QED BY <1>12, <2>1, HeldUnchanged DEF DropDead, Ids, HeldStill
  <1>13. CASE Tick
    BY <1>13, HeldUnchanged DEF Tick, Ids, HeldStill
  <1>14. CASE UNCHANGED outboxVars
    BY <1>14, HeldUnchanged DEF outboxVars, Ids, HeldStill
  <1> QED BY <1>1, <1>2, <1>3, <1>4, <1>5, <1>6, <1>7, <1>8, <1>9, <1>10, <1>11, <1>12, <1>13, <1>14
          DEF OutboxNext, Step, Subscription, TickerStep, Attempt

LEMMA SoundAlways == OutboxSpec => []Sound
  <1>1. Sound /\ [OutboxNext]_outboxVars => Sound'
    BY TypeNext, IdsNext DEF Sound
  <1> QED BY SoundInit, <1>1, PTL DEF OutboxSpec

\* Every column, batch and answer has its type; in particular a delivery is always claimed
\* with the secret of a subscription that is there (claim_due joins the two tables).
THEOREM OutboxTyped == OutboxSpec => []OutboxTypeOK
  <1>1. Sound => OutboxTypeOK
    BY DEF Sound
  <1> QED BY <1>1, SoundAlways, PTL

------------------------------------------------------------------------------
(***************************************************************************)
(* At least once.                                                          *)
(***************************************************************************)

\* An answer that says the delivery was accepted is one of a receiver that took it.
AcceptedIsTaken ==
    \A k \in Tickers, d \in Deliveries :
        HeldBy(k, d) /\ ticks[k].answers[d] = "accepted" => d \in taken

\* What receivers took, what was dropped and which ids were given is never forgotten.
LEMMA HistoryGrows ==
    ASSUME [OutboxNext]_outboxVars
    PROVE  taken \subseteq taken' /\ dropped \subseteq dropped' /\ owed \subseteq owed'
  <1>1. ASSUME NEW h \in Hooks, NEW t \in Clock, Subscription(h, t)
        PROVE  UNCHANGED <<taken, dropped, owed>>
    BY <1>1 DEF Subscription, CountHooks, InsertHook, RotateSecret, DeleteHook, MoveReceiver
  <1>2. ASSUME NEW e \in Events, NEW t \in Clock, Announce(e, t)
        PROVE  UNCHANGED <<taken, dropped>> /\ owed \subseteq owed'
    BY <1>2 DEF Announce
  <1>3. ASSUME NEW k \in Tickers, NEW t \in Clock, TickerStep(k, t)
        PROVE  taken \subseteq taken' /\ UNCHANGED <<dropped, owed>>
    BY <1>3 DEF TickerStep, Attempt, ClaimDue, Send, Settle, Die
  <1>4. ASSUME NEW d \in Deliveries, NEW t \in Clock, Redeliver(d, t)
        PROVE  UNCHANGED <<taken, dropped, owed>>
    BY <1>4 DEF Redeliver
  <1>5. ASSUME NEW S \in SUBSET Deliveries, NEW t \in Clock, DropDead(S, t)
        PROVE  UNCHANGED <<taken, owed>> /\ dropped \subseteq dropped'
    BY <1>5 DEF DropDead
  <1>6. CASE Tick
    BY <1>6 DEF Tick
  <1>7. CASE UNCHANGED outboxVars
    BY <1>7 DEF outboxVars
  <1> QED BY <1>1, <1>2, <1>3, <1>4, <1>5, <1>6, <1>7 DEF OutboxNext, Step

LEMMA AcceptedNext == Sound /\ AcceptedIsTaken /\ [OutboxNext]_outboxVars => AcceptedIsTaken'
  <1> SUFFICES ASSUME Sound, AcceptedIsTaken, [OutboxNext]_outboxVars,
                      NEW l \in Tickers, NEW c \in Deliveries,
                      HeldBy(l, c)', ticks'[l].answers[c] = "accepted"
               PROVE  c \in taken'
    BY DEF AcceptedIsTaken
  <1> USE DEF Sound
  <1>0. taken \subseteq taken'
    BY HistoryGrows
  <1>1. CASE HeldStill(l, c)
    BY <1>0, <1>1 DEF HeldStill, AcceptedIsTaken
  <1>2. ASSUME NEW k \in Tickers, NEW S \in SUBSET Deliveries, NEW t \in Clock, ClaimDue(k, S, t)
        PROVE  c \in taken'
    <2>1. HeldStill(l, c) \/ ticks'[l].answers[c] = None
      BY <1>2, ClaimHolds, SMTT(30)
    <2> QED BY <1>1, <2>1, OutboxAssumption DEF Answers
  <1>3. ASSUME NEW k \in Tickers, NEW d \in Deliveries, NEW answer \in Answers, Send(k, d, answer)
        PROVE  c \in taken'
    <2>1. /\ HeldBy(l, c)
          /\ ticks'[l].answers[c] = IF l = k /\ c = d THEN answer ELSE ticks[l].answers[c]
      BY <1>3, SendHolds
    <2>2. answer = "accepted" => d \in taken'
      BY <1>3 DEF Send
    <2> QED BY <1>0, <2>1, <2>2 DEF AcceptedIsTaken
  <1>4. ASSUME NEW k \in Tickers, Settle(k) \/ Die(k) PROVE c \in taken'
    BY <1>1, <1>4, LetGo
  <1>5. CASE UNCHANGED ticks
    BY <1>1, <1>5, HeldUnchanged
  <1> QED BY <1>2, <1>3, <1>4, <1>5
          DEF OutboxNext, Step, Subscription, TickerStep, Attempt, CountHooks, InsertHook, RotateSecret,
              DeleteHook, MoveReceiver, Announce, Redeliver, DropDead, Tick, outboxVars

\* A delivery leaves the outbox for a reason.
LEMMA LeavesForAReason ==
    ASSUME Sound, AcceptedIsTaken, [OutboxNext]_outboxVars, NEW d \in Deliveries,
           outbox[d] # None, outbox'[d] = None
    PROVE  d \in taken \/ hooks'[d[2]] = None \/ d \in dropped'
  <1> USE OutboxAssumption DEF Sound
  <1>1. ASSUME NEW h \in Hooks, DeleteHook(h) PROVE hooks'[d[2]] = None
    BY <1>1, PairFacts DEF DeleteHook, OutboxTypeOK
  <1>2. ASSUME NEW e \in Events, NEW t \in Clock, Announce(e, t) PROVE FALSE
    <2>1. [attempts |-> 0, next_attempt_at |-> t, dead_at |-> None] # None
      BY ClockType, FreshRow
    <2> QED BY <1>2, <2>1 DEF Announce
  <1>3. ASSUME NEW k \in Tickers, NEW S \in SUBSET Deliveries, NEW t \in Clock, ClaimDue(k, S, t)
        PROVE  FALSE
    <2>1. HeldForRow(outbox[d], t) # None
      BY ClockType, RowFacts, HeldRowType
    <2> QED BY <1>3, <2>1 DEF ClaimDue
  <1>4. ASSUME NEW k \in Tickers, Settle(k) PROVE d \in taken
    <2>1. /\ HeldBy(k, d)
          /\ Settled(outbox[d], ticks[k].batch[d], ticks[k].answers[d], ticks[k].at) = None
      BY <1>4 DEF Settle, HeldBy
    <2>2. ticks[k].batch[d] \in Held /\ ticks[k].at \in Nat /\ outbox[d] \in DeliveryRow
      BY <2>1, TickFacts, RowFacts DEF HeldBy
    <2>3. [outbox[d] EXCEPT !.next_attempt_at = RetryAt(ticks[k].batch[d], ticks[k].at)] \in DeliveryRow
      BY <2>2, BackoffType DEF RetryAt, DeliveryRow
    <2>4. [outbox[d] EXCEPT !.dead_at = ticks[k].at] \in DeliveryRow
      BY <2>2, MaybeFacts DEF DeliveryRow
    <2>5. ticks[k].answers[d] = "accepted"
      BY <2>1, <2>3, <2>4 DEF Settled
    <2> QED BY <2>1, <2>5 DEF AcceptedIsTaken
  <1>5. ASSUME NEW c \in Deliveries, NEW t \in Clock, Redeliver(c, t) PROVE FALSE
    <2>1. [attempts |-> 0, next_attempt_at |-> t, dead_at |-> None] # None
      BY ClockType, FreshRow
    <2> QED BY <1>5, <2>1 DEF Redeliver, OutboxTypeOK
  <1>6. ASSUME NEW S \in SUBSET Deliveries, NEW t \in Clock, DropDead(S, t) PROVE d \in dropped'
    BY <1>6 DEF DropDead
  <1>7. CASE UNCHANGED outbox
    BY <1>7
  <1> QED BY <1>1, <1>2, <1>3, <1>4, <1>5, <1>6, <1>7
          DEF OutboxNext, Step, Subscription, TickerStep, Attempt, CountHooks, InsertHook, RotateSecret,
              MoveReceiver, Send, Die, Tick, outboxVars

\* A subscription that was deleted does not come back: its id is not given again.
LEMMA DeletedStays ==
    ASSUME Sound, [OutboxNext]_outboxVars, NEW h \in used, h \in Hooks, hooks[h] = None
    PROVE  hooks'[h] = None
  <1>1. ASSUME NEW g \in Hooks, InsertHook(g) PROVE hooks'[h] = None
    BY <1>1 DEF InsertHook, Sound, Ids, OutboxTypeOK
  <1>2. ASSUME NEW g \in Hooks, NEW t \in Clock, RotateSecret(g, t) \/ DeleteHook(g)
        PROVE  hooks'[h] = None
    BY <1>2 DEF RotateSecret, DeleteHook, Sound, OutboxTypeOK
  <1>3. ASSUME NEW g \in Hooks, CountHooks(g) \/ MoveReceiver(g) PROVE UNCHANGED hooks
    BY <1>3 DEF CountHooks, MoveReceiver
  <1>4. ASSUME NEW k \in Tickers, NEW t \in Clock, TickerStep(k, t) PROVE UNCHANGED hooks
    BY <1>4 DEF TickerStep, Attempt, ClaimDue, Send, Settle, Die
  <1>5. ASSUME NEW t \in Clock, \/ \E e \in Events : Announce(e, t)
                                \/ \E d \in Deliveries : Redeliver(d, t)
                                \/ \E S \in SUBSET Deliveries : DropDead(S, t)
        PROVE  UNCHANGED hooks
    BY <1>5 DEF Announce, Redeliver, DropDead
  <1>6. CASE Tick \/ UNCHANGED outboxVars
    BY <1>6 DEF Tick, outboxVars
  <1> QED BY <1>1, <1>2, <1>3, <1>4, <1>5, <1>6 DEF OutboxNext, Step, Subscription

LEMMA OwedByAnnounce ==
    ASSUME [OutboxNext]_outboxVars, owed' # owed
    PROVE  \E e \in Events, t \in Clock : Announce(e, t)
  <1>1. ASSUME NEW h \in Hooks, NEW t \in Clock, Subscription(h, t) PROVE UNCHANGED owed
    BY <1>1 DEF Subscription, CountHooks, InsertHook, RotateSecret, DeleteHook, MoveReceiver
  <1>2. ASSUME NEW k \in Tickers, NEW t \in Clock, TickerStep(k, t) PROVE UNCHANGED owed
    BY <1>2 DEF TickerStep, Attempt, ClaimDue, Send, Settle, Die
  <1>3. ASSUME NEW t \in Clock, \/ \E d \in Deliveries : Redeliver(d, t)
                                \/ \E S \in SUBSET Deliveries : DropDead(S, t)
        PROVE  UNCHANGED owed
    BY <1>3 DEF Redeliver, DropDead
  <1>4. CASE Tick \/ UNCHANGED outboxVars
    BY <1>4 DEF Tick, outboxVars
  <1> QED BY <1>1, <1>2, <1>3, <1>4 DEF OutboxNext, Step

LEMMA AtLeastOnceNext ==
    Sound /\ Sound' /\ AcceptedIsTaken /\ AtLeastOnce /\ [OutboxNext]_outboxVars => AtLeastOnce'
  <1> SUFFICES ASSUME Sound, Sound', AcceptedIsTaken, AtLeastOnce, [OutboxNext]_outboxVars, NEW d \in owed',
                      outbox'[d] = None
               PROVE  d \in taken' \/ hooks'[d[2]] = None \/ d \in dropped'
    BY DEF AtLeastOnce
  <1>1. d \in Deliveries /\ taken \subseteq taken' /\ dropped \subseteq dropped'
    BY HistoryGrows DEF Sound, OutboxTypeOK
  <1>2. CASE outbox[d] # None
    BY <1>1, <1>2, LeavesForAReason
  <1>3. CASE outbox[d] = None /\ d \in owed
    <2>1. hooks[d[2]] = None => hooks'[d[2]] = None
      BY <1>1, <1>3, DeletedStays, PairFacts DEF Sound, Ids
    <2> QED BY <1>1, <1>3, <2>1 DEF AtLeastOnce
  <1>4. CASE outbox[d] = None /\ d \notin owed
    <2>1. PICK e \in Events, t \in Clock : Announce(e, t)
      BY <1>4, OwedByAnnounce
    <2>2. outbox'[d] = [attempts |-> 0, next_attempt_at |-> t, dead_at |-> None]
      BY <1>1, <1>4, <2>1 DEF Announce
    <2>3. outbox'[d] \in DeliveryRow
      BY <2>2, ClockType, FreshRow DEF Sound
    <2> QED BY <2>3, OutboxAssumption
  <1> QED BY <1>2, <1>3, <1>4

\* At least once (webhooks.py), for any number of tickers that die or overlap, however long
\* they take, and whatever the receivers answer.
THEOREM DeliversAtLeastOnce == OutboxSpec => []AtLeastOnce
  <1>1. OutboxInit => AcceptedIsTaken /\ AtLeastOnce
    BY DEF OutboxInit, AcceptedIsTaken, AtLeastOnce, HeldBy
  <1> QED BY <1>1, SoundAlways, AcceptedNext, AtLeastOnceNext, PTL DEF OutboxSpec

------------------------------------------------------------------------------
(***************************************************************************)
(* The lease of a batch.                                                   *)
(***************************************************************************)

\* How long a ticker has been about its batch.
HoldTimes ==
    \A k \in Tickers : ticks[k] # None =>
        /\ ticks[k].at <= now
        /\ now <= ticks[k].at + MaxHold \/ now <= ticks[k].at + MaxDelay

LEMMA HoldTimesNext == Sound /\ HoldTimes /\ [OutboxNext]_outboxVars => HoldTimes'
  <1> SUFFICES ASSUME Sound, HoldTimes, [OutboxNext]_outboxVars, NEW l \in Tickers, ticks'[l] # None
               PROVE  /\ ticks'[l].at <= now'
                      /\ now' <= ticks'[l].at + MaxHold \/ now' <= ticks'[l].at + MaxDelay
    BY DEF HoldTimes
  <1> USE OutboxAssumption DEF Sound
  <1>1. ASSUME NEW k \in Tickers, NEW S \in SUBSET Deliveries, NEW t \in Clock,
               ClaimDue(k, S, t), UNCHANGED now
        PROVE  /\ ticks'[l].at <= now'
               /\ now' <= ticks'[l].at + MaxHold \/ now' <= ticks'[l].at + MaxDelay
    BY <1>1, ClockType DEF ClaimDue, HoldTimes, OutboxTypeOK
  <1>2. ASSUME ticks[l] # None, ticks'[l].at = ticks[l].at, UNCHANGED now
        PROVE  /\ ticks'[l].at <= now'
               /\ now' <= ticks'[l].at + MaxHold \/ now' <= ticks'[l].at + MaxDelay
    BY <1>2 DEF HoldTimes
  <1>3. ASSUME NEW k \in Tickers, NEW d \in Deliveries, NEW answer \in Answers, Send(k, d, answer)
        PROVE  ticks[l] # None /\ ticks'[l].at = ticks[l].at
    BY <1>3, TickFacts DEF Send, OutboxTypeOK
  <1>4. ASSUME NEW k \in Tickers, Settle(k) \/ Die(k)
        PROVE  ticks[l] # None /\ ticks'[l].at = ticks[l].at
    BY <1>4 DEF Settle, Die, OutboxTypeOK
  <1>5. CASE Tick
    BY <1>5, TickFacts DEF Tick, HoldTimes, OutboxTypeOK
  <1>6. CASE UNCHANGED <<ticks, now>>
    BY <1>2, <1>6
  <1> QED BY <1>1, <1>2, <1>3, <1>4, <1>5, <1>6
          DEF OutboxNext, Step, Subscription, TickerStep, Attempt, CountHooks, InsertHook, RotateSecret,
              DeleteHook, MoveReceiver, Announce, Redeliver, DropDead, outboxVars

LEMMA HoldTimesAlways == OutboxSpec => []HoldTimes
  <1>1. OutboxInit => HoldTimes
    BY DEF OutboxInit, HoldTimes
  <1> QED BY <1>1, SoundAlways, HoldTimesNext, PTL DEF OutboxSpec

\* A row a ticker holds is alive and due again only after the lease.
RowsHeld ==
    \A k \in Tickers, d \in Deliveries : HeldBy(k, d) /\ outbox[d] # None =>
        /\ outbox[d].dead_at = None
        /\ ticks[k].at + WEBHOOK_LEASE <= outbox[d].next_attempt_at

LEMMA RowsHeldNext ==
    ASSUME MaxHold < WEBHOOK_LEASE, MaxDelay < WEBHOOK_LEASE,
           Sound, HoldTimes, RowsHeld, HeldApart, [OutboxNext]_outboxVars
    PROVE  RowsHeld' /\ HeldApart'
  <1> USE OutboxAssumption DEF Sound
  \* Nobody claims what another holds.
  <1>1. ASSUME NEW k \in Tickers, NEW S \in SUBSET Deliveries, NEW t \in Clock,
               ClaimDue(k, S, t), UNCHANGED now, NEW l \in Tickers, NEW d \in S, HeldBy(l, d)
        PROVE  FALSE
    <2>1. d \in Deliveries /\ outbox[d] # None /\ outbox[d].next_attempt_at <= t
      BY <1>1 DEF ClaimDue, Due, Owed
    <2>2. ticks[l].at + WEBHOOK_LEASE <= outbox[d].next_attempt_at
      BY <1>1, <2>1 DEF RowsHeld
    <2>3. /\ ticks[l].at \in Nat /\ outbox[d].next_attempt_at \in Nat /\ now \in Nat
          /\ t \in Nat /\ t <= now
      BY <1>1, <2>1, TickFacts, RowFacts, ClockType DEF HeldBy, OutboxTypeOK
    <2>4. now <= ticks[l].at + MaxHold \/ now <= ticks[l].at + MaxDelay
      BY <1>1 DEF HoldTimes, HeldBy
    <2> QED BY <2>1, <2>2, <2>3, <2>4
  <1>2. ASSUME NEW k \in Tickers, NEW S \in SUBSET Deliveries, NEW t \in Clock,
               ClaimDue(k, S, t), UNCHANGED now
        PROVE  RowsHeld' /\ HeldApart'
    <2>1. HeldApart'
      <3> SUFFICES ASSUME NEW l \in Tickers, NEW m \in Tickers, NEW d \in Deliveries,
                          HeldBy(l, d)', HeldBy(m, d)'
                   PROVE  l = m
        BY DEF HeldApart
      <3>1. /\ (l # k /\ HeldStill(l, d)) \/ (l = k /\ d \in S)
            /\ (m # k /\ HeldStill(m, d)) \/ (m = k /\ d \in S)
        BY <1>2, ClaimHolds
      <3>2. d \in S => ~HeldBy(l, d) /\ ~HeldBy(m, d)
        BY <1>1, <1>2
      <3> QED BY <3>1, <3>2 DEF HeldApart, HeldStill
    <2>2. ASSUME NEW l \in Tickers, NEW d \in Deliveries, HeldBy(l, d)', outbox'[d] # None
          PROVE  /\ outbox'[d].dead_at = None
                 /\ ticks'[l].at + WEBHOOK_LEASE <= outbox'[d].next_attempt_at
      <3>1. CASE l # k /\ HeldStill(l, d)
        <4>1. d \notin S
          BY <1>1, <1>2, <3>1 DEF HeldStill
        <4> QED BY <1>2, <2>2, <3>1, <4>1 DEF HeldStill, RowsHeld, ClaimDue
      <3>2. CASE l = k /\ d \in S /\ ticks'[l].at = t
        <4>1. outbox[d] # None /\ outbox[d].dead_at = None
          BY <1>2, <3>2 DEF ClaimDue, Due, Owed
        <4>2. outbox'[d] = HeldForRow(outbox[d], t) /\ outbox[d] \in DeliveryRow /\ t \in Nat
          BY <1>2, <3>2, <4>1, RowFacts, ClockType DEF ClaimDue
        <4> QED BY <3>2, <4>1, <4>2 DEF HeldForRow, DeliveryRow
      <3>3. (l # k /\ HeldStill(l, d)) \/ (l = k /\ d \in S /\ ticks'[l].at = t)
        BY <1>2, <2>2, ClaimHolds
      <3> QED BY <3>1, <3>2, <3>3
    <2> QED BY <2>1, <2>2 DEF RowsHeld
  <1>3. ASSUME NEW k \in Tickers, NEW d0 \in Deliveries, NEW answer \in Answers,
               Send(k, d0, answer)
        PROVE  RowsHeld' /\ HeldApart'
    <2>1. \A l \in Tickers, d \in Deliveries :
              HeldBy(l, d)' => HeldBy(l, d) /\ ticks'[l].at = ticks[l].at
      BY <1>3, SendHolds
    <2> QED BY <1>3, <2>1 DEF Send, RowsHeld, HeldApart
  <1>4. ASSUME \A l \in Tickers, d \in Deliveries :
                  HeldBy(l, d)' => /\ HeldStill(l, d)
                                   /\ outbox'[d] # None => outbox'[d] = outbox[d]
        PROVE  RowsHeld' /\ HeldApart'
    BY <1>4 DEF HeldStill, RowsHeld, HeldApart
  <1>5. ASSUME NEW k \in Tickers, Settle(k) PROVE RowsHeld' /\ HeldApart'
    <2>1. ASSUME NEW l \in Tickers, NEW d \in Deliveries, HeldBy(l, d)'
          PROVE  HeldStill(l, d) /\ outbox'[d] = outbox[d]
      <3>1. l # k /\ HeldStill(l, d)
        BY <1>5, <2>1, LetGo
      <3>2. ~HeldBy(k, d)
        BY <3>1 DEF HeldStill, HeldApart
      <3> QED BY <1>5, <3>1, <3>2 DEF Settle, HeldBy
    <2> QED BY <1>4, <2>1
  <1>6. ASSUME NEW k \in Tickers, Die(k) PROVE RowsHeld' /\ HeldApart'
    BY <1>4, <1>6, LetGo DEF Die
  \* Whoever else writes the outbox leaves the rows that are held, or removes them.
  <1>7. ASSUME UNCHANGED ticks,
               \A d \in Deliveries : (\E k \in Tickers : HeldBy(k, d)) =>
                   outbox'[d] = outbox[d] \/ outbox'[d] = None
        PROVE  RowsHeld' /\ HeldApart'
    BY <1>4, <1>7, HeldUnchanged DEF HeldStill
  <1>8. ASSUME NEW h \in Hooks, DeleteHook(h) PROVE RowsHeld' /\ HeldApart'
    BY <1>7, <1>8 DEF DeleteHook
  <1>9. ASSUME NEW e \in Events, NEW t \in Clock, Announce(e, t) PROVE RowsHeld' /\ HeldApart'
    <2>1. \A d \in Deliveries : (\E k \in Tickers : HeldBy(k, d)) => d[1] # e
      BY <1>9 DEF Announce, Ids
    <2> QED BY <1>7, <1>9, <2>1 DEF Announce
  <1>10. ASSUME NEW c \in Deliveries, NEW t \in Clock, Redeliver(c, t)
         PROVE  RowsHeld' /\ HeldApart'
    <2>1. \A k \in Tickers : ~HeldBy(k, c)
      BY <1>10 DEF Redeliver, RowsHeld
    <2> QED BY <1>7, <1>10, <2>1 DEF Redeliver, OutboxTypeOK
  <1>11. ASSUME NEW S \in SUBSET Deliveries, NEW t \in Clock, DropDead(S, t)
         PROVE  RowsHeld' /\ HeldApart'
    BY <1>7, <1>11 DEF DropDead
  <1>12. CASE UNCHANGED <<ticks, outbox>>
    BY <1>7, <1>12
  <1> QED BY <1>2, <1>3, <1>5, <1>6, <1>8, <1>9, <1>10, <1>11, <1>12
          DEF OutboxNext, Step, Subscription, TickerStep, Attempt, CountHooks, InsertHook, RotateSecret,
              MoveReceiver, Tick, outboxVars

\* Tickers that settle or die within the lease, by clocks that agree to within it, never hold
\* a delivery two at a time (claim_due), whoever redelivers, deletes or drops meanwhile.
THEOREM HoldersApart ==
    ASSUME MaxHold < WEBHOOK_LEASE, MaxDelay < WEBHOOK_LEASE
    PROVE  OutboxSpec => []HeldApart
  <1>1. OutboxInit => RowsHeld /\ HeldApart
    BY DEF OutboxInit, RowsHeld, HeldApart, HeldBy
  <1>2. Sound /\ HoldTimes /\ RowsHeld /\ HeldApart /\ [OutboxNext]_outboxVars => RowsHeld' /\ HeldApart'
    BY RowsHeldNext
  <1> QED BY <1>1, <1>2, SoundAlways, HoldTimesAlways, PTL DEF OutboxSpec

------------------------------------------------------------------------------
(***************************************************************************)
(* Signatures.  A batch is signed with what a subscription's secrets were  *)
(* when it was claimed; SecretsKept says how they relate to what they are. *)
(***************************************************************************)

\* The secret before this one is the one that overlaps, and a receiver verifies with none
\* that was not made yet.
Secrets(h) ==
    /\ hooks[h] # None =>
          /\ verifies[h] <= hooks[h].secret
          /\ IF hooks[h].secret = 0 THEN hooks[h].previous_secret = None
             ELSE /\ hooks[h].previous_secret = hooks[h].secret - 1
                  /\ hooks[h].previous_secret_expires_at # None
    /\ h \notin used => verifies[h] = 0

SecretsMade == \A h \in Hooks : Secrets(h)

\* A batch holds the secrets of its subscription as they are, or they were replaced since.
Kept(tick, held, h) ==
    LET hook == hooks[h]
    IN  \/ /\ held.secret = hook.secret
           /\ hook.previous_secret_expires_at # None /\ tick.at < hook.previous_secret_expires_at
              => held.previous_secret = hook.previous_secret
        \/ held.secret < hook.secret

SecretsKept ==
    \A k \in Tickers, d \in Deliveries :
        HeldBy(k, d) /\ hooks[d[2]] # None => Kept(ticks[k], ticks[k].batch[d], d[2])

LEMMA RotateEffect ==
    ASSUME OutboxTypeOK, NEW h \in Hooks, NEW t \in Clock, RotateSecret(h, t)
    PROVE  /\ hooks[h] # None /\ hooks'[h].secret = hooks[h].secret + 1
           /\ hooks'[h].previous_secret = hooks[h].secret
           /\ hooks'[h].previous_secret_expires_at = t + SecretOverlap
           /\ hooks[h].secret \in Nat /\ t + SecretOverlap \in Nat
           /\ \A g \in Hooks : g # h => hooks'[g] = hooks[g]
           /\ UNCHANGED <<ticks, verifies, used>>
  <1>1. hooks[h] # None /\ hooks[h] \in Hook /\ hooks[h].secret \in Nat /\ t \in Nat
    BY HookFacts, ClockType DEF RotateSecret
  <1> QED BY <1>1, OutboxAssumption DEF RotateSecret, OutboxTypeOK, Hook

LEMMA SecretsMadeNext == Sound /\ SecretsMade /\ [OutboxNext]_outboxVars => SecretsMade'
  <1> SUFFICES ASSUME Sound, SecretsMade, [OutboxNext]_outboxVars, NEW g \in Hooks PROVE Secrets(g)'
    BY DEF SecretsMade
  <1> USE OutboxAssumption DEF Sound
  <1>0. Secrets(g) /\ verifies[g] \in Nat
    BY DEF SecretsMade, OutboxTypeOK
  <1>1. ASSUME NEW h \in Hooks, InsertHook(h) PROVE Secrets(g)'
    <2>1. CASE g = h
      <3>1. verifies[h] = 0
        BY <1>0, <1>1, <2>1 DEF InsertHook, Ids, Secrets
      <3>2. hooks'[g] = [secret |-> 0, previous_secret |-> None,
                         previous_secret_expires_at |-> None]
        BY <1>1, <2>1 DEF InsertHook, OutboxTypeOK
      <3> QED BY <1>1, <2>1, <3>1, <3>2 DEF InsertHook, Secrets
    <2>2. CASE g # h
      BY <1>0, <1>1, <2>2 DEF InsertHook, Secrets, OutboxTypeOK
    <2> QED BY <2>1, <2>2
  <1>2. ASSUME NEW h \in Hooks, NEW t \in Clock, RotateSecret(h, t) PROVE Secrets(g)'
    <2>1. CASE g = h
      BY <1>0, <1>2, <2>1, RotateEffect DEF Secrets
    <2>2. CASE g # h
      BY <1>0, <1>2, <2>2, RotateEffect DEF Secrets
    <2> QED BY <2>1, <2>2
  <1>3. ASSUME NEW h \in Hooks, DeleteHook(h) PROVE Secrets(g)'
    BY <1>0, <1>3 DEF DeleteHook, Secrets, OutboxTypeOK
  <1>4. ASSUME NEW h \in Hooks, MoveReceiver(h) PROVE Secrets(g)'
    <2>1. hooks[h].secret \in Nat /\ h \in used
      BY <1>4, HookFacts DEF MoveReceiver, Ids
    <2> QED BY <1>0, <1>4, <2>1 DEF MoveReceiver, Secrets, OutboxTypeOK
  <1>5. CASE UNCHANGED <<hooks, verifies, used>>
    BY <1>0, <1>5 DEF Secrets
  <1>6. ASSUME NEW h \in Hooks, CountHooks(h) PROVE UNCHANGED <<hooks, verifies, used>>
    BY <1>6 DEF CountHooks
  <1>7. ASSUME NEW k \in Tickers, NEW t \in Clock, TickerStep(k, t)
        PROVE  UNCHANGED <<hooks, verifies, used>>
    BY <1>7 DEF TickerStep, Attempt, ClaimDue, Send, Settle, Die
  <1>8. ASSUME NEW t \in Clock, \/ \E e \in Events : Announce(e, t)
                                \/ \E d \in Deliveries : Redeliver(d, t)
                                \/ \E S \in SUBSET Deliveries : DropDead(S, t)
        PROVE  UNCHANGED <<hooks, verifies, used>>
    BY <1>8 DEF Announce, Redeliver, DropDead
  <1>9. CASE Tick \/ UNCHANGED outboxVars
    BY <1>5, <1>9 DEF Tick, outboxVars
  <1> QED BY <1>1, <1>2, <1>3, <1>4, <1>5, <1>6, <1>7, <1>8, <1>9 DEF OutboxNext, Step, Subscription

LEMMA SecretsKeptNext ==
    ASSUME Sound, SecretsKept, [OutboxNext]_outboxVars
    PROVE  SecretsKept'
  <1> SUFFICES ASSUME NEW l \in Tickers, NEW c \in Deliveries, HeldBy(l, c)', hooks'[c[2]] # None
               PROVE  Kept(ticks[l], ticks[l].batch[c], c[2])'
    BY DEF SecretsKept
  <1> DEFINE g == c[2]
  <1> USE OutboxAssumption DEF Sound
  <1>0. g \in Hooks
    BY PairFacts DEF OutboxTypeOK
  <1>1. ASSUME HeldBy(l, c)
        PROVE  /\ ticks[l].at \in Nat /\ ticks[l].batch[c].secret \in Nat
               /\ hooks[g] # None => Kept(ticks[l], ticks[l].batch[c], g)
    BY <1>1, TickFacts DEF HeldBy, Held, SecretsKept
  <1>2. ASSUME NEW h \in Hooks, InsertHook(h) PROVE Kept(ticks[l], ticks[l].batch[c], g)'
    <2>1. HeldStill(l, c)
      BY <1>2, HeldUnchanged DEF InsertHook
    <2>2. g \in used
      BY <2>1 DEF HeldStill, Ids
    <2>3. g # h /\ hooks'[g] = hooks[g]
      BY <1>2, <1>0, <2>2 DEF InsertHook, Ids, OutboxTypeOK
    <2> QED BY <1>0, <1>1, <2>1, <2>3 DEF HeldStill, Kept
  <1>3. ASSUME NEW h \in Hooks, NEW t \in Clock, RotateSecret(h, t)
        PROVE  Kept(ticks[l], ticks[l].batch[c], g)'
    <2>1. HeldStill(l, c)
      BY <1>3, HeldUnchanged DEF RotateSecret
    <2>2. CASE g # h
      BY <1>0, <1>1, <1>3, <2>1, <2>2, RotateEffect DEF HeldStill, Kept
    <2>3. CASE g = h
      <3>1. /\ hooks[g] # None /\ hooks[g].secret \in Nat
            /\ hooks'[g].secret = hooks[g].secret + 1
        BY <1>3, <2>3, RotateEffect
      <3>2. Kept(ticks[l], ticks[l].batch[c], g)
        BY <1>1, <2>1, <3>1 DEF HeldStill
      <3>3. ticks[l].batch[c].secret < hooks'[g].secret
        BY <1>1, <2>1, <3>1, <3>2 DEF HeldStill, Kept
      <3> QED BY <2>1, <3>3 DEF HeldStill, Kept
    <2> QED BY <2>2, <2>3
  <1>4. ASSUME NEW h \in Hooks, DeleteHook(h) PROVE Kept(ticks[l], ticks[l].batch[c], g)'
    <2>1. HeldStill(l, c) /\ hooks'[g] = hooks[g]
      BY <1>0, <1>4, HeldUnchanged DEF DeleteHook, OutboxTypeOK
    <2> QED BY <1>1, <2>1 DEF HeldStill, Kept
  <1>5. ASSUME NEW k \in Tickers, NEW S \in SUBSET Deliveries, NEW t \in Clock, ClaimDue(k, S, t)
        PROVE  Kept(ticks[l], ticks[l].batch[c], g)'
    <2>1. UNCHANGED hooks
      BY <1>5 DEF ClaimDue
    <2>2. CASE HeldStill(l, c)
      BY <1>1, <2>1, <2>2 DEF HeldStill, Kept
    <2>3. CASE /\ ticks'[l].at = t
               /\ ticks'[l].batch[c].secret = SignedBy(g, t).secret
               /\ ticks'[l].batch[c].previous_secret = SignedBy(g, t).previous
      <3>1. /\ hooks[g] # None
            /\ hooks[g].previous_secret_expires_at # None =>
                  hooks[g].previous_secret_expires_at \in Nat
        BY <1>0, <2>1, HookFacts DEF Maybe
      <3>2. t \in Nat
        BY ClockType
      <3>3. ticks'[l].batch[c].secret = hooks[g].secret
        BY <2>3 DEF SignedBy
      <3>4. hooks[g].previous_secret_expires_at # None /\ t < hooks[g].previous_secret_expires_at
            => ticks'[l].batch[c].previous_secret = hooks[g].previous_secret
        BY <2>3, <3>1, <3>2 DEF SignedBy
      <3> QED BY <2>1, <2>3, <3>3, <3>4 DEF Kept
    <2>4. OutboxTypeOK /\ HeldBy(l, c)'
      OBVIOUS
    <2>5. \/ l # k /\ HeldStill(l, c)
          \/ /\ l = k /\ c \in S
             /\ ticks'[l].at = t /\ ticks'[l].answers[c] = None
             /\ ticks'[l].batch[c].secret = SignedBy(c[2], t).secret
             /\ ticks'[l].batch[c].previous_secret = SignedBy(c[2], t).previous
      BY <1>5, <2>4, ClaimHolds
    <2> QED BY <2>2, <2>3, <2>5
  <1>6. ASSUME NEW k \in Tickers, NEW d \in Deliveries, NEW answer \in Answers, Send(k, d, answer)
        PROVE  Kept(ticks[l], ticks[l].batch[c], g)'
    <2>1. /\ HeldBy(l, c) /\ ticks'[l].at = ticks[l].at /\ ticks'[l].batch = ticks[l].batch
          /\ UNCHANGED hooks
      BY <1>6, SendHolds DEF Send
    <2> QED BY <1>1, <2>1 DEF Kept
  <1>7. CASE HeldStill(l, c) /\ UNCHANGED hooks
    BY <1>1, <1>7 DEF HeldStill, Kept
  <1>8. ASSUME NEW k \in Tickers, Settle(k) \/ Die(k)
        PROVE  Kept(ticks[l], ticks[l].batch[c], g)'
    BY <1>7, <1>8, LetGo DEF Settle, Die
  <1>9. ASSUME NEW h \in Hooks, CountHooks(h) \/ MoveReceiver(h)
         PROVE  Kept(ticks[l], ticks[l].batch[c], g)'
    BY <1>7, <1>9, HeldUnchanged DEF CountHooks, MoveReceiver
  <1>10. ASSUME NEW t \in Clock, \/ \E e \in Events : Announce(e, t)
                                 \/ \E d \in Deliveries : Redeliver(d, t)
                                 \/ \E S \in SUBSET Deliveries : DropDead(S, t)
         PROVE  Kept(ticks[l], ticks[l].batch[c], g)'
    <2>1. UNCHANGED <<ticks, hooks>>
      BY <1>10 DEF Announce, Redeliver, DropDead
    <2> QED BY <1>7, <2>1, HeldUnchanged
  <1>11. CASE Tick \/ UNCHANGED outboxVars
    <2>1. UNCHANGED <<ticks, hooks>>
      BY <1>11 DEF Tick, outboxVars
    <2> QED BY <1>7, <2>1, HeldUnchanged
  <1> QED BY <1>2, <1>3, <1>4, <1>5, <1>6, <1>8, <1>9, <1>10, <1>11
          DEF OutboxNext, Step, Subscription, TickerStep, Attempt

\* A delivery that a receiver within the overlap refuses is one claimed before the rotation
\* whose secret the receiver verifies with already, however claims, rotations, moves and sends
\* fall (rotate_secret, claim_due, send): with any other, the receiver verifies it.
THEOREM DeliveriesVerify == OutboxSpec => []OnlyMovedRefuse
  <1>1. OutboxInit => SecretsMade /\ SecretsKept
    BY DEF OutboxInit, SecretsMade, Secrets, SecretsKept, HeldBy
  <1>2. Sound /\ SecretsKept /\ [OutboxNext]_outboxVars => SecretsKept'
    BY SecretsKeptNext
  <1>3. Sound /\ HoldTimes /\ SecretsMade /\ SecretsKept => OnlyMovedRefuse
    <2> SUFFICES ASSUME Sound, HoldTimes, SecretsMade, SecretsKept,
                        NEW k \in Tickers, NEW d \in Deliveries, HeldBy(k, d),
                        hooks[d[2]] # None, Trusted(d[2]),
                        ~(ticks[k].batch[d].secret < verifies[d[2]])
                 PROVE  Verifies(ticks[k].batch[d], d[2])
      BY DEF OnlyMovedRefuse, Refused
    <2> DEFINE h == d[2]
               held == ticks[k].batch[d]
    <2>1. /\ h \in Hooks /\ verifies[h] \in Nat /\ now \in Nat
          /\ hooks[h].secret \in Nat /\ hooks[h].previous_secret_expires_at \in Maybe(Nat)
      BY PairFacts, HookFacts DEF Sound, OutboxTypeOK
    <2>2. held.secret \in Nat /\ ticks[k].at \in Nat /\ ticks[k].at <= now
      BY TickFacts DEF Sound, HoldTimes, HeldBy, Held
    <2>3. Kept(ticks[k], held, h) /\ Secrets(h)
      BY <2>1 DEF SecretsKept, SecretsMade
    <2>4. CASE verifies[h] = hooks[h].secret
      BY <2>1, <2>2, <2>3, <2>4 DEF Kept, Verifies
    <2>5. CASE /\ verifies[h] = hooks[h].previous_secret
               /\ now < hooks[h].previous_secret_expires_at
      <3>1. /\ hooks[h].secret # 0 /\ verifies[h] = hooks[h].secret - 1
            /\ hooks[h].previous_secret_expires_at \in Nat
        BY <2>1, <2>3, <2>5, OutboxAssumption DEF Secrets, Maybe
      <3>2. ticks[k].at < hooks[h].previous_secret_expires_at
        BY <2>1, <2>2, <2>5, <3>1
      \* Signed by the newest secret: the one it replaced signs it too.
      <3>3. CASE held.secret = hooks[h].secret
        <4>1. held.previous_secret = hooks[h].previous_secret
          BY <2>1, <2>2, <2>3, <3>1, <3>2, <3>3, OutboxAssumption DEF Kept
        <4> QED BY <2>5, <4>1 DEF Verifies
      \* Signed by an older one: not older than the receiver's, so it is the receiver's.
      <3>4. CASE held.secret < hooks[h].secret
        BY <2>1, <2>2, <3>1, <3>4 DEF Verifies
      <3> QED BY <2>3, <3>3, <3>4 DEF Kept
    <2> QED BY <2>4, <2>5 DEF Trusted
  <1> QED BY <1>1, <1>2, <1>3, SoundAlways, HoldTimesAlways, SecretsMadeNext, PTL DEF OutboxSpec
==============================================================================
