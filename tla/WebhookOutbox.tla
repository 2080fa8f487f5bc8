---------------------------- MODULE WebhookOutbox ----------------------------
(***************************************************************************)
(* The webhooks of one tenant: subscriptions with their secrets, the       *)
(* outbox, and the tickers that send it (store/webhooks.py, webhooks.py    *)
(* and _send_webhooks of ticker.py), against receivers that may refuse, be *)
(* down, or take a delivery and lose the answer.                           *)
(*                                                                         *)
(* A tick holds its batch in a short transaction, posts each delivery with *)
(* no transaction open, and settles them all in another, so tickers that   *)
(* overlap, die or take longer than WEBHOOK_LEASE are among the            *)
(* behaviours.  A settle writes only the columns it sets, so reading the   *)
(* row without a lock changes nothing: it is one step here.                *)
(*                                                                         *)
(* A secret is the number of the rotation that made it; a delivery is an   *)
(* event and the subscription it is owed to.                               *)
(*                                                                         *)
(* The specification is Outbox..., EventLog has the plain names: TLC checks*)
(* the two, and Artifacts, side by side.                                   *)
(***************************************************************************)
EXTENDS Null, Retry, FiniteSets

CONSTANTS
    Hooks, Events,
    Wants,                    \* the events each subscription asked for
    Tickers,
    MAX_WEBHOOKS_PER_TENANT,  \* config/constants.py
    WEBHOOK_LEASE, WEBHOOK_ATTEMPTS,
    WEBHOOK_RETRY_BASE, WEBHOOK_RETRY_CAP,
    DeadRetention,            \* RUNS__WEBHOOKS__DEAD_RETENTION_DAYS
    SecretOverlap,            \* RUNS__WEBHOOKS__SECRET_OVERLAP_HOURS
    MaxHold,                  \* the longest a ticker is about a batch before it settles or dies
    MaxDelay,                 \* how old a clock reading may be
    MaxTime, MaxDeaths, MaxRotations, MaxRedeliveries   \* bounds

VARIABLES
    hooks,       \* the subscriptions: None, or a row
    counting,    \* subscriptions being made: counted, not yet inserted
    outbox,      \* the deliveries: None, or a row
    ticks,       \* the batch each ticker holds, or None
    now,
    \* the receivers
    verifies,    \* the secret each verifies signatures with
    taken,       \* the deliveries they took
    \* history
    used,        \* the subscriptions ever made (ids are never reused)
    owed,        \* the deliveries ever written
    dropped,     \* the dead deliveries whose retention ended
    deaths, redeliveries

outboxVars == <<hooks, counting, outbox, ticks, now, verifies, taken, used, owed, dropped,
                deaths, redeliveries>>

Deliveries == Events \X Hooks

Hook == [secret : Nat, previous_secret : Maybe(Nat), previous_secret_expires_at : Maybe(Nat)]

DeliveryRow == [attempts : Nat, next_attempt_at : Nat, dead_at : Maybe(Nat)]

\* Delivery: what the ticker holds of a row, read when it was claimed.
Held == [attempts : Nat, secret : Nat, previous_secret : Maybe(Nat)]

Clock == {t \in 0..now : now <= t + MaxDelay}

Owed(d) == outbox[d] # None /\ outbox[d].dead_at = None

------------------------------------------------------------------------------
(***************************************************************************)
(* Subscriptions.                                                          *)
(***************************************************************************)

\* create: the count, and, in a later statement, the insert.
CountHooks(h) ==
    /\ h \notin used \cup counting
    /\ Cardinality({g \in Hooks : hooks[g] # None}) < MAX_WEBHOOKS_PER_TENANT
    /\ counting' = counting \cup {h}
    /\ UNCHANGED <<hooks, outbox, ticks, verifies, taken, used, owed, dropped, deaths,
                   redeliveries>>

InsertHook(h) ==
    /\ h \in counting
    /\ hooks'    = [hooks EXCEPT ![h] = [secret                     |-> 0,
                                         previous_secret            |-> None,
                                         previous_secret_expires_at |-> None]]
    /\ counting' = counting \ {h}
    /\ used'     = used \cup {h}
    /\ UNCHANGED <<outbox, ticks, verifies, taken, owed, dropped, deaths, redeliveries>>

RotateSecret(h, t) ==
    /\ hooks[h] # None /\ hooks[h].secret < MaxRotations
    /\ hooks'   = [hooks EXCEPT ![h].secret                     = @ + 1,
                                ![h].previous_secret            = hooks[h].secret,
                                ![h].previous_secret_expires_at = t + SecretOverlap]
    /\ UNCHANGED <<counting, outbox, ticks, verifies, taken, used, owed, dropped, deaths,
                   redeliveries>>

\* delete: with every delivery owed to it (ON DELETE CASCADE).
DeleteHook(h) ==
    /\ hooks[h] # None
    /\ hooks'  = [hooks EXCEPT ![h] = None]
    /\ outbox' = [d \in Deliveries |-> IF d[2] = h THEN None ELSE outbox[d]]
    /\ UNCHANGED <<counting, ticks, verifies, taken, used, owed, dropped, deaths, redeliveries>>

------------------------------------------------------------------------------
(***************************************************************************)
(* The outbox.                                                             *)
(***************************************************************************)

\* announce: a row for every subscription that wants the event.  RunStore announces an
\* event once (RunStore!AnnouncedOnce).
Announce(e, t) ==
    /\ \A d \in owed : d[1] # e
    /\ LET new == {d \in Deliveries : d[1] = e /\ hooks[d[2]] # None /\ e \in Wants[d[2]]}
       IN  /\ new # {}
           /\ outbox' = [d \in Deliveries |->
                            IF d \in new
                            THEN [attempts |-> 0, next_attempt_at |-> t, dead_at |-> None]
                            ELSE outbox[d]]
           /\ owed'   = owed \cup new
    /\ UNCHANGED <<hooks, counting, ticks, verifies, taken, used, dropped, deaths, redeliveries>>

WrongDueWithAttemptsLeft(t) ==
    {d \in Deliveries : /\ Owed(d) /\ outbox[d].next_attempt_at <= t
                        /\ outbox[d].attempts < WEBHOOK_ATTEMPTS}

Due(t) == {d \in Deliveries : Owed(d) /\ outbox[d].next_attempt_at <= t}

WrongHeldForRow(row, t) == [row EXCEPT !.attempts = @ + 1]

HeldForRow(row, t) == [row EXCEPT !.attempts = @ + 1, !.next_attempt_at = t + WEBHOOK_LEASE]

WrongSignedBy(h, t) == [secret |-> hooks[h].secret, previous |-> None]

\* What signs a delivery claimed at t: the secret, and the one it replaced while it overlaps.
SignedBy(h, t) ==
    LET expires == hooks[h].previous_secret_expires_at
    IN  [secret   |-> hooks[h].secret,
         previous |-> IF expires # None /\ expires > t THEN hooks[h].previous_secret ELSE None]

\* claim_due: some of the due rows, those no other transaction has locked.
ClaimDue(k, S, t) ==
    /\ ticks[k] = None
    /\ S # {} /\ S \subseteq Due(t)
    /\ outbox' = [d \in Deliveries |-> IF d \in S THEN HeldForRow(outbox[d], t) ELSE outbox[d]]
    /\ ticks'  = [ticks EXCEPT ![k] =
                    [at      |-> t,
                     batch   |-> [d \in S |-> [attempts        |-> outbox[d].attempts + 1,
                                               secret          |-> SignedBy(d[2], t).secret,
                                               previous_secret |-> SignedBy(d[2], t).previous]],
                     answers |-> [d \in S |-> None]]]
    /\ UNCHANGED <<hooks, counting, verifies, taken, used, owed, dropped, deaths, redeliveries>>

(***************************************************************************)
(* send: one attempt, and how it went.  "busy": a status of                *)
(* WEBHOOK_RETRYABLE; "refused": any other answer (the other 5xx too), a   *)
(* scheme or an address this deployment refuses; "unreachable": no answer, *)
(* though the receiver may have taken the delivery.                        *)
(***************************************************************************)
Answers == {"accepted", "busy", "refused", "unreachable"}

WorthAnother(answer) == answer \in {"busy", "unreachable"}

Verifies(held, h) == verifies[h] \in {held.secret, held.previous_secret}

Send(k, d, answer) ==
    /\ ticks[k] # None /\ d \in DOMAIN ticks[k].batch
    /\ ticks[k].answers[d] = None
    /\ answer = "accepted" => Verifies(ticks[k].batch[d], d[2])
    /\ ticks' = [ticks EXCEPT ![k].answers[d] = answer]
    /\ \/ answer \in {"accepted", "unreachable"} /\ taken' = taken \cup {d}
       \/ answer # "accepted" /\ taken' = taken
    /\ UNCHANGED <<hooks, counting, outbox, verifies, used, owed, dropped, deaths, redeliveries>>

RetryAt(held, t) == t + Backoff(WEBHOOK_RETRY_BASE, held.attempts, WEBHOOK_RETRY_CAP)

WrongSettledDropsRefused(row, held, answer, t) ==
    IF row = None \/ answer \in {"accepted", "refused"} THEN None
    ELSE IF WorthAnother(answer) /\ held.attempts < WEBHOOK_ATTEMPTS
    THEN [row EXCEPT !.next_attempt_at = RetryAt(held, t)]
    ELSE [row EXCEPT !.dead_at = t]

\* settle, of one delivery: t is when the tick began.
Settled(row, held, answer, t) ==
    IF row = None \/ answer = "accepted" THEN None
    ELSE IF WorthAnother(answer) /\ held.attempts < WEBHOOK_ATTEMPTS
    THEN [row EXCEPT !.next_attempt_at = RetryAt(held, t)]
    ELSE [row EXCEPT !.dead_at = t]

\* The second transaction of _send_webhooks.
Settle(k) ==
    /\ ticks[k] # None
    /\ \A d \in DOMAIN ticks[k].batch : ticks[k].answers[d] # None
    /\ outbox' = [d \in Deliveries |->
                    IF d \in DOMAIN ticks[k].batch
                    THEN Settled(outbox[d], ticks[k].batch[d], ticks[k].answers[d], ticks[k].at)
                    ELSE outbox[d]]
    /\ ticks' = [ticks EXCEPT ![k] = None]
    /\ UNCHANGED <<hooks, counting, verifies, taken, used, owed, dropped, deaths, redeliveries>>

\* The ticker dies, or its settle fails and is rolled back.
Die(k) ==
    /\ ticks[k] # None /\ deaths < MaxDeaths
    /\ ticks'  = [ticks EXCEPT ![k] = None]
    /\ deaths' = deaths + 1
    /\ UNCHANGED <<hooks, counting, outbox, verifies, taken, used, owed, dropped, redeliveries>>

\* redeliver: a delivery still owed is a conflict.
Redeliver(d, t) ==
    /\ outbox[d] # None /\ outbox[d].dead_at # None
    /\ redeliveries < MaxRedeliveries
    /\ outbox' = [outbox EXCEPT ![d] = [attempts |-> 0, next_attempt_at |-> t, dead_at |-> None]]
    /\ redeliveries' = redeliveries + 1
    /\ UNCHANGED <<hooks, counting, ticks, verifies, taken, used, owed, dropped, deaths>>

DropDead(S, t) ==
    /\ S # {}
    /\ \A d \in S : /\ outbox[d] # None /\ outbox[d].dead_at # None
                    /\ outbox[d].dead_at < t - DeadRetention
    /\ outbox'  = [d \in Deliveries |-> IF d \in S THEN None ELSE outbox[d]]
    /\ dropped' = dropped \cup S
    /\ UNCHANGED <<hooks, counting, ticks, verifies, taken, used, owed, deaths, redeliveries>>

------------------------------------------------------------------------------
\* A receiver moves to the secret a rotation made.
MoveReceiver(h) ==
    /\ hooks[h] # None /\ verifies[h] # hooks[h].secret
    /\ verifies' = [verifies EXCEPT ![h] = hooks[h].secret]
    /\ UNCHANGED <<hooks, counting, outbox, ticks, taken, used, owed, dropped, deaths,
                   redeliveries>>

Tick ==
    /\ now < MaxTime
    /\ \A k \in Tickers : ticks[k] # None => now < ticks[k].at + MaxHold
    /\ now' = now + 1
    /\ UNCHANGED <<hooks, counting, outbox, ticks, verifies, taken, used, owed, dropped, deaths,
                   redeliveries>>

OutboxInit ==
    /\ hooks        = [h \in Hooks |-> None]
    /\ counting     = {}
    /\ outbox       = [d \in Deliveries |-> None]
    /\ ticks        = [k \in Tickers |-> None]
    /\ now          = 0
    /\ verifies     = [h \in Hooks |-> 0]
    /\ taken        = {}
    /\ used         = {}
    /\ owed         = {}
    /\ dropped      = {}
    /\ deaths       = 0
    /\ redeliveries = 0

Subscription(h, t) ==
    CountHooks(h) \/ InsertHook(h) \/ RotateSecret(h, t) \/ DeleteHook(h) \/ MoveReceiver(h)

Attempt(k) == \E d \in Deliveries, answer \in Answers : Send(k, d, answer)

TickerStep(k, t) ==
    \/ \E S \in SUBSET Deliveries : ClaimDue(k, S, t)
    \/ Attempt(k)
    \/ Settle(k)
    \/ Die(k)

Step(t) ==
    \/ \E h \in Hooks : Subscription(h, t)
    \/ \E e \in Events : Announce(e, t)
    \/ \E k \in Tickers : TickerStep(k, t)
    \/ \E d \in Deliveries : Redeliver(d, t)
    \/ \E S \in SUBSET Deliveries : DropDead(S, t)

OutboxNext ==
    \/ \E t \in Clock : Step(t) /\ UNCHANGED now
    \/ Tick

OutboxSpec == OutboxInit /\ [][OutboxNext]_outboxVars

\* The tickers come round, finish what they hold unless they die, and time passes; nothing is
\* assumed of receivers but an answer or none.
Claims(k) == \E t \in Clock, S \in SUBSET Deliveries : ClaimDue(k, S, t) /\ UNCHANGED now

FairOutboxSpec ==
    /\ OutboxSpec
    /\ WF_outboxVars(Tick)
    /\ \A k \in Tickers : /\ WF_outboxVars(Claims(k))
                          /\ WF_outboxVars(Attempt(k) /\ UNCHANGED now)
                          /\ WF_outboxVars(Settle(k) /\ UNCHANGED now)

------------------------------------------------------------------------------
OutboxTypeOK ==
    /\ hooks \in [Hooks -> Maybe(Hook)]
    /\ counting \subseteq Hooks /\ used \subseteq Hooks
    /\ outbox \in [Deliveries -> Maybe(DeliveryRow)]
    /\ DOMAIN ticks = Tickers
    /\ \A k \in Tickers : ticks[k] # None =>
          \E S \in SUBSET Deliveries :
             ticks[k] \in [at : Nat, batch : [S -> Held], answers : [S -> Maybe(Answers)]]
    /\ verifies \in [Hooks -> Nat]
    /\ taken \subseteq Deliveries /\ owed \subseteq Deliveries /\ dropped \subseteq Deliveries
    /\ now \in Nat /\ deaths \in Nat /\ redeliveries \in Nat

\* At least once: a delivery written is still in the outbox, or its receiver took it, or its
\* subscription was deleted, or it was dead for its whole retention (webhooks.py: "At least
\* once"), whatever tickers died or answers were lost.
AtLeastOnce ==
    \A d \in owed :
        \/ outbox[d] # None
        \/ d \in taken
        \/ hooks[d[2]] = None
        \/ d \in dropped

\* A ticker that settles within its lease has its deliveries to itself: no other ticker
\* sends them meanwhile (claim_due: "another ticker skips them").
HeldBy(k, d) == ticks[k] # None /\ d \in DOMAIN ticks[k].batch

HeldApart == \A k, l \in Tickers, d \in Deliveries : HeldBy(k, d) /\ HeldBy(l, d) => k = l

\* The receivers a rotation promises to keep: they verify with the secret, or with the one it
\* replaced until that expires (rotate_secret).
Trusted(h) ==
    \/ verifies[h] = hooks[h].secret
    \/ verifies[h] = hooks[h].previous_secret /\ now < hooks[h].previous_secret_expires_at

Refused(k, d) ==
    /\ HeldBy(k, d) /\ ticks[k].answers[d] = None
    /\ hooks[d[2]] # None /\ Trusted(d[2])
    /\ ~Verifies(ticks[k].batch[d], d[2])

\* What the documents promise: such a receiver verifies every delivery, whenever it moves
\* within the overlap (docs/api.md: "no delivery is refused").
EveryDeliveryVerifies == \A k \in Tickers, d \in Deliveries : ~Refused(k, d)

\* What holds: the only delivery it refuses is one claimed before the rotation whose secret
\* the receiver has already moved to, so that it carries older signatures only.
OnlyMovedRefuse ==
    \A k \in Tickers, d \in Deliveries :
        Refused(k, d) => ticks[k].batch[d].secret < verifies[d[2]]

\* Every delivery comes to an end: taken, dead, or gone with its subscription.  The clock
\* being bounded, or due only after it.
EveryDeliveryEnds ==
    \A d \in Deliveries :
        Owed(d) ~> (~Owed(d) \/ outbox[d].next_attempt_at > MaxTime)

------------------------------------------------------------------------------
ASSUME OutboxAssumption ==
    /\ None \notin Nat /\ None \notin Hook /\ None \notin DeliveryRow /\ None \notin Answers
    /\ IsFiniteSet(Hooks) /\ IsFiniteSet(Events)
    /\ Wants \in [Hooks -> SUBSET Events]
    /\ MAX_WEBHOOKS_PER_TENANT \in Nat /\ WEBHOOK_LEASE \in Nat /\ WEBHOOK_ATTEMPTS \in Nat \ {0}
    /\ WEBHOOK_RETRY_BASE \in Nat /\ WEBHOOK_RETRY_CAP \in Nat
    /\ DeadRetention \in Nat /\ SecretOverlap \in Nat
    /\ MaxHold \in Nat /\ MaxDelay \in Nat /\ MaxTime \in Nat
    /\ MaxDeaths \in Nat /\ MaxRotations \in Nat /\ MaxRedeliveries \in Nat
==============================================================================
