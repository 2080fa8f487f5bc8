# agent-runs in TLA+

agent-runs keeps what must outlive a process that runs an agent: the runs and their queue, the
inbox of runs waiting for a person, schedules, webhooks and artifacts. It never runs an agent.
An HTTP API (`src/agent_runs/api`) and a ticker (`src/agent_runs/ticker.py`), each in any number
of processes, work on one PostgreSQL database and one blob store; workers and applications use
the SDK (`sdk/python`). This directory models that system in TLA+, checks the models with TLC
and proves the most important properties with TLAPS. Paths below are relative to `src/`.

## Inventory

| Component | State it keeps | Operations | Hard behaviour |
|---|---|---|---|
| Run store (`store/runs.py`) | the `runs` row (status, attempt, lease, cancel, waits, retries, working time), `resolutions` | start, pause, resume, cancel, finish, claim, heartbeat, release; the sweeps of the ticker | late and repeated requests; a cancel racing everything else; clock readings older than the row lock; leases that lapse; long sequences that leave a column behind |
| Queue claims (`RunStore.claim`) | row locks, transaction locks, what a claim passed over | look, count the tenant's room, count the key's room, take | many claims at once; counts that go stale; passing over without hiding a run; never waiting |
| Webhooks (`store/webhooks.py`, `webhooks.py`) | subscriptions with secrets, the outbox | announce, claim_due, send, settle, redeliver, drop_dead, create, delete, rotate_secret | tickers that die or outlive their lease; answers that are lost; a rotation while a delivery is in flight |
| Schedules (`store/schedules.py`, `firing.py`) | cadence, next fire, failures, backoff | upsert, update, delete, fire, fire_due, record_success, record_failure | an unlocked update racing a fire or another update; downtime and backlog; repeated fires |
| Ticker (`ticker.py`, `retry.py`, `heartbeat.py`) | the breaker, the liveness file | one tick: fire, four run sweeps, webhooks, three purges; the beat | one failing step stops the rest of the tick; the breaker must let the loop back in; a probe that tells a hang from an outage |
| Artifacts (`store/artifacts.py`, `api/routers/artifacts.py`, `blob/`) | artifact rows, blobs | upload, download, expire, purge | blob and row are two stores: a crash or an ambiguous commit between them |
| Event log (`append_events`, `events`, `stream_events`) | events of an attempt, positions | append, page, follow, open again | repeated and late appends; a stream that breaks, and must not end before the last event |
| Worker and transport (`sdk/python/.../worker.py`, `_transport.py`) | the runs a worker holds, its heartbeats | claim loop, run, heartbeat, finish, release on shutdown, retries | a lost lease while the handler runs; retries of requests already applied |
| Rate limit (`api/ratelimit.py`) | the tenant's bucket row | take | concurrent takes with clocks read before the row lock |
| Keys and answering (`keys.py`, `answering.py`, `api/deps.py`) | cached introspections | resolve; the tenant a request acts in; who may answer and cancel | answers that are slow and out of date; a registry that is down; names with and without a kind |
| Listings (`store/paging.py`, `api/pagination.py`, the SDK's `iterate`) | a reader's position | list, next page | rows written late, changed and removed between pages; calls that are repeated |
| Errors (`domain/errors.py`, `api/errors.py`, the SDK's `errors.py`) | none | raise, send, raise again | what may be tried again must survive the way through a status, a document or a proxy |
| HTTP layer, configuration, observability, migrations | none of their own | | not modelled |

How they interact: the API's routes and the ticker call the stores in one transaction each and
commit; `announce` writes the outbox in the transaction that moved the run; `_ended` starts the
retention of a run's artifacts in it; the ticker's sweeps take rows with `FOR UPDATE SKIP
LOCKED`; a fire queues a run through `RunStore.start` under the schedule's row lock; workers and
applications see all this only through requests whose answers may be lost.

What makes each part correct is under "Runs" below.

## Modules

`Retry` holds `backoff` and `jittered` of `retry.py`; a jittered wait is any wait between half
the backoff and the whole.

**`RunRows`** is one row of `runs` and the functions of `store/runs.py` that rewrite a row held
under its lock: `Move` (`_move`), `Requeue`, `Lease`, `Worked`, `Fence`, `HeldBy`, `Settled`,
`Retried`, `Instead` (`_cancelled_instead`), `ArtifactWriter`. **`RunStore`** composes them: its
variables are the tables `rows`, `resolutions`, `artifacts` and `outbox`, the present `now`, and
two history variables (`releases`, `ran`). Each route of `api/routers/runs.py` that writes is an
action (`Start`, `Pause`, `Resume`, `Cancel`, `Finish`, `Claim`, `Heartbeat`, `Release`,
`AddArtifact`), and so is each sweep of the ticker (`TimeOutPastDeadline`, `TimeOutOverworked`,
`RequeueLapsed`, `EscalateOverdue`, `PurgeEnded`, `PurgeArtifacts`). An action is the whole
transaction, with the events it announces and the retention `_ended` starts. A transaction reads
its clock before it has the row: its `t` is any of the last `MaxDelay` instants. Any request may
come at any time from any caller, in particular again.

**`RunLifecycle`** is the abstract specification: the life of a run as a status, an attempt and
whether its cancel is pending, with the moves a client may rely on. `RunStore!LifeOf` is the
refinement mapping, `RunStore!Lifecycle` the claim that `RunStore` implements it.

**`ClaimQueue`** takes `RunStore.claim` apart, statement by statement: `Look` (the next queued
row, `FOR UPDATE SKIP LOCKED`), `LockForClaim` (`pg_try_advisory_xact_lock` on a tenant or a
key), the counts, `Take`, and `Pass` for what has no room. Every other operation on a run is one
of `Enqueue`, `RunInProcess`, `Leave`, between any two statements. The life of a run is
`RunStore`'s; here a run is away, queued, leased or running in its caller's process.

**`WebhookOutbox`** has the subscriptions, the deliveries and the batch each ticker holds between
`ClaimDue` and `Settle`, and the receivers, which take, refuse, or take and lose the answer.
`create`'s count and insert are two actions. A tick takes at most `MaxHold`. A receiver moves to
the secret of a rotation whenever it likes.

**`ScheduleStore`** has the schedules' rows and the updates between their unlocked read
(`ReadForUpdate`) and their write of the columns that differ (`WriteUpdate`); `Fire` and
`FireDue` hold the row. Any number of updates may be in progress; `overtaken` remembers those
whose schedule another one was written to since they read it, `mixed` the schedules such an update
was then written to, until they are next fired. A cadence is the set of its instants, so any cron
expression or interval is covered by what `next_fire_at` promises of it.

**`WorkerLoop`** is one worker process of the SDK and one run: `mode` and `claiming` are `run()`,
`jobs` the task of each attempt, `held` the entry of `_held`, `wire` the writes under way. What
agent-runs does with a request is `Served`, `Beaten`, `Written`: `RunStore` as this worker sees
it. Every answer may be lost, a request may be applied after its sender gave up (a claim and a
heartbeat too: `LateClaim`, `LateBeat`), and a handler is any code: it may go on after a write or a
failed call, and stops some time after it is cancelled. `Stop` and `WindDown` are the graceful end,
`CancelRun` the cancelling of `run()` itself, `Die` the death of the process. `crowded` remembers
that the run was given to the worker while an earlier job of it still waited for another.

**`Artifacts`** is the artifacts of one run in two stores that share no transaction: `rows` and
`blobs`, with `uploads`, the tickers' purges and a download in between, each a step at a time.

**`EventLog`** is the log of one run and one reader of it. The run lives as `RunLifecycle` says
(an `INSTANCE` of it, in which a step of the run is a move of that specification), so that
whatever `RunStore` does is among its moves. An append holds the row lock from `AppendEvents` to
`AppendCommitted`; `_follow`'s turn is `FollowStatus`, `FollowRows`, `FollowSend` and `FollowOn`,
because the status and the rows are two reads; `wire` is what was sent and not taken; the reader
is `RunsClient.events` and then `stream_events`, which opens the stream again.

**`TickLoop`** is `run_forever` and the tick it is in, a step at a time, with the `Breaker`, the
liveness file (`PathFor`, `Alive`) and the probe (`Probe`, which is `heartbeat.main` and fails
without the setting). What a step does is the other modules'; here it is done, fails (the database
is away), crashes (any other exception) or hangs. A tick that does not hang may still work for
longer than the probe waits. Two tickers are on the host, each with a file configured, perhaps the
same, or none.

**`Access`** is the way of a request up to its route: `KeyRegistry.resolve` with its cache and the
registry's answer on its way (`Resolve`, `RegistryAnswers`, `AnswerArrives`), `_acting`, and the
statement of the rate limit from its clock (`TakeStarts`) to its row (`TakeRuns`). **`Answering`**
has the rules of `answering.py` and a key's rights, as predicates; the actions of `RunStore` are
open to every caller, which is more than these rules allow.

**`Paging`** has the five listings of the stores, each with its order, its columns and what may
happen to its rows, `page_of`, the cursor, and a reader (`iterate` over `Transport.send`).
**`Problems`** has the errors of the service, the problems they are sent as, and what the SDK
makes of an answer: its error class and whether the call is sent again.

`Null` has the value of a column or a field that holds nothing (`Maybe`), and `Present` the time that
`TickLoop` and `ScheduleStore` go by. Where two modules are checked or proved about in one, one of
them has its name before its specification's parts: `FiringSpec` in `ScheduleStore` (proved in
`TickLoopProofs`), `PagingSpec` in `Paging` (proved in `SdkProofs`), `ArtifactsSpec` and
`OutboxSpec` (checked beside `EventLog`), `AccessSpec` (checked beside `TickLoop`).

`MCRunStore`, `MCClaimQueue`, `MCScheduleStore`, `MCWorkerLoop`, `MCWebhookOutbox` and `MCPaging`
name the values the configurations use. `MCOutputs` and `MCService` have several modules side by
side: artifacts, events and webhooks; requests and the ticker's loop. These share no state, so a
behaviour chooses one of them in its initial state (`part`) and the others stay as they began: what
is checked is each of them alone, in one run, and the states add up instead of multiplying.
`RunStoreProofs`, `ClaimQueueProofs`, `EventLogProofs`, `WebhookOutboxProofs`, `ArtifactsProofs`,
`TickLoopProofs` (of the loop, and of the schedules it fires), `AccessProofs` and `SdkProofs` (of the
SDK's loops: the worker and the reader of a listing) hold the proofs.

## Runs

| Run | Result | What it shows |
|---|---|---|
| `lifecycle` | pass | All requests and sweeps in every order over one run, with clocks read late: columns, retry and lapse counters and artifacts agree (`RowsSound`: `RowsConsistent`, `RetriesBounded`, `ArtifactsExpire`), the life is the one promised (`Lifecycle`; an ending and a pending cancel are final), every attempt is accounted for and runs once (`AttemptAccounting`, `AttemptRunsOnce`), working time is the truth within the readings' age (`WorkedIsRunningTime`), heartbeats do not outrun a cancel (`CancelBound`), no event is announced twice or lost to an id of an earlier one (`AnnouncedOnce`). |
| `live` | pass | With nothing assumed of callers, cancels (also of a run whose worker is gone), deadlines, overdue questions and working-time limits take effect (`LimitsTakeEffect`). |
| `room` | pass | Two claims at once over five runs of two tenants keep the caps of keys and tenants (`CapsHold`); a claim that nobody disturbs takes the next run in claim order among those with room, and answers nothing only when there is none (`ClaimFindsNext`); a claim that looks again has passed over one name more (`ClaimProgresses`), so it ends. |
| `firing` | pass | With two updates in progress at once, a schedule fires what it owes (`OwedTickKept`) and not the backlog (`NoBacklog`), and its failures are spaced (`StrikesSpaced`), except for what an update writes over another one it had not read. |
| `worker` | pass | A handler at work is the one the worker keeps track of, so there are never two of a run (`ApartUnlessCrowded`); no run is handed back while something of the worker still writes to it (`ReleasedOnceStopped`), a handler whose run is another's stops (`LostLeaseStops`), a run nobody works comes back (`UnworkedLapses`). |
| `outputs` | pass | *Artifacts:* an answered reference can be read until its retention is over, and altered or truncated bytes are never served whole (`ReadsSound`), bytes without a record come only of a failure (`NoStrayBytes`), an upload racing the end of its run leaves nothing behind for ever (`AllExpire`), purges finish what they began (`ExpiredGo`). *Events:* an event is logged once (`LoggedOnce`), a reader is given the log in order, nothing twice and nothing left out, across pages, breaks and reconnections (`ReadsInOrder`), a stream's `end` comes after the last event there will ever be (`EndIsLast`), and who follows an ended or purged run comes to an end (`FollowerEnds`). *Webhooks:* with two tickers of which one may die nothing owed is lost (`AtLeastOnce`), no two that settle within their lease have one delivery at once (`HeldApart`), every delivery ends (`EveryDeliveryEnds`), and a receiver that keeps to the overlap refuses only what was claimed before a rotation it has already followed (`OnlyMovedRefuse`). |
| `service` | pass | *Requests:* nobody is let in or refused on a verdict older than the cache may keep it (`RecentVerdict`), a budget gives no more than its burst and refill in any stretch of time (`BudgetKept`), and exactly who may answer a run may cancel it (`CancellersAnswer`). *The ticker:* a database that is down is called once per cooldown (`BackedOff`), every step has looked at what was due a cooldown, a wait and a tick ago, unless the database was away or a step crashed since (`CatchesUp`), and the probe tells a ticker that comes round from one that hangs as far as the length of its ticks and the files configured let it (`ProbeTells`). |
| `repeats`, `handlers`, `strikes`, `secrets` | violation | the findings below |
| `pages` | pass | A reader is given each row once, in order, and leaves none out that was there all the while (`EachOnce`), an answer that says "try again" is raised only after all tries of that page's call (`RaisedInTurn`), and reading ends (`ReadingEnds`). |

`CHECK_DEADLOCK FALSE` in every configuration: a run may be over with nothing left to ask, and
the clocks are bounded.

### Bounds

- One run id in `RunStore`: no operation but a claim relates two rows, and claims are
  `ClaimQueue`'s; the proofs cover any number of runs. Two workers, so that one holds the run
  while the other, or the caller's own process, writes late. `lifecycle` permutes the workers
  (`WorkerSymmetry`): they are only ever compared.
- `MaxTime` is large enough for two lapses, or a retry and a lapse, with their waits; leases,
  retries and limits are 1 or 2, so the last allowed and the first refused both happen. `lifecycle`
  has `MaxDelay` 1, for clocks that are read late, and no deadlines or working-time limits; `live`
  has those, an overdue question that escalates and one that ends the run, and `MaxDelay` 0.
  `MaxReleases` bounds how often a worker lets go of a run, which the code does not bound.
  Checkpoints have no value in the runs: no property tells one from another.
- `ClaimQueue`: five runs of two tenants with and without a key, of two priorities, one place per
  key and two per tenant; two claims, which `ClaimSymmetry` permutes, both of a platform worker.
  A claim within one tenant is left to the proofs.
- `WebhookOutbox`: one subscription and one event, because deliveries meet only in a batch;
  two tickers, two attempts, two rotations, a death and a redelivery. `MaxHold` (1) is below
  `WEBHOOK_LEASE` (2), as `config/constants.py` has it: a tick ends before its lease does. What
  happens otherwise is under "Divergences". `secrets` has one ticker.
- `ScheduleStore`: a cadence that fires twice in a row and then after the end of the clock, so that
  ticks are late, superseded and owed within three instants, and a manual one; two updates in
  progress, which `UpdateSymmetry` permutes. TLC keeps one state of those that
  differ only in history that nothing to come depends on (`VIEW Differing`).
- `WorkerLoop`: in `worker` two attempts and two slots, so that a later attempt meets an earlier
  one; one write under way at a time; a lease of one tick. A third claim is what crowds a worker, so
  `crowded` stays false there and `ApartUnlessCrowded` is `OneHandler`; `handlers` has three
  attempts and three slots and shows that the exception is needed, and `HandlersApart` proves the
  property for any number of both.
- `Artifacts`: two uploads of one or two chunks (a retry is the second), two tickers, two
  failures in all. Safety was also checked with three uploads (511 009 states).
- `EventLog`: four events of two attempts, in four appends that overlap, repeat an event within
  themselves and come late, from two workers and the caller; pages of one and of two, so that a
  page is full, and two connection failures in a row before the reader gives up.
- `TickLoop`: the breaker opens at two failures and cools down for four; a tick takes up to three,
  which is more than the two the probe allows; each ticker is configured with the one file or with
  none; two faults (outages, crashes, a hang, a full disk) in any combination. TLC keeps one
  state of those that differ only in when things happened and not in how long ago (`VIEW AtWork`,
  of `Ages`): the loop, the breaker, the probe and the properties compare ages only, none of them
  longer than `Longest`.
- `Access`: one key, which is a tenant's, the platform's or refused and changes once; two requests
  at once, which `RequestSymmetry` permutes; a budget of two that regains one in two instants. With
  one key the cache never has to evict. Names are a person's with and without a kind, another's, a
  key's, an agent's and a role's; `CancellersDoAnswer` covers all others.
- `Paging`: three rows, two of which can share a time, in pages of one or two; one retry per call.
  Each of the five listings is read.

### Fairness

Liveness assumes that time passes and that the loops that are meant to go on do: `run_forever`
keeps ticking, so each sweep is weakly fair for each run it could take (`RunStore`), due
deliveries are claimed, sent (`httpx` times out) and settled (`WebhookOutbox`), and expired
artifacts are purged (`Artifacts`, where the failures are finitely many). In `EventLog` the
stream's loop turns and the reader reads what came and opens the stream again (`stream_events` is
a loop without a pause but the backoff); that a connection breaks is never owed, nor is it
bounded. In `Paging` a call is answered or fails (`httpx` times out) and the reader's loop goes
on. In `WorkerLoop` the event loop runs what can run: a heartbeat comes, a call ends, and a
cancelled handler stops, which is asked of handlers by `worker.py`. Nothing is assumed of callers,
receivers, other workers or the network. The bounds of `TickLoop` need no fairness: they are
stated as invariants over a clock that does not pass a wait or a tick that is over.

### Mutants

A definition named `Wrong...` is the one that follows it with a defect a change to the code could
introduce: a dropped lock, a missing reset, a limit off by one, the wrong key deleted. In place of
the right one it makes the property it is listed with in `PROJECT.json` fail under the same
configuration. A property that is a conjunction has one for each of its parts. No specification
uses them.

## Proofs

TLAPS proves, for any sets of runs, workers, claims, keys, names, events, subscriptions, schedules,
cadences, tickers, artifacts and listings, any limits and any age of clock readings, every safety
invariant and action property the passing runs check. Each module's assumption on its constants
(`StoreAssumption`, `QueueAssumption`, `OutboxAssumption`, ...) says that the null is no other value,
that limits are naturals and, where something is counted, that the sets are finite.

| Of | Theorems |
|---|---|
| `RunStore` | `TypeCorrect`, `RowsAreSound` (from `ColumnsAgree`, `RetriesAreBounded` and `ArtifactsDoExpire`), `CancelIsHonoured`, `CancelIsBounded`, `WorkedTime`, `AttemptsRunOnce`, `AttemptsAccounted`, `AnnouncesOnce`, `EndedStaysEnded`, and `ImplementsLifecycle`, the refinement of `RunLifecycle` |
| `ClaimQueue` | `CapsAreKept` (from `KeyIsBounded` and `TenantIsBounded`), `RunIsHeld`, `ClaimsProgress`, `ClaimsFindTheNext` |
| `EventLog` | `LogsOnce`, `ReadsAreInOrder`, `EndsAreLast` |
| `WebhookOutbox` | `OutboxTyped`, `DeliversAtLeastOnce`, `HoldersApart`, `DeliveriesVerify` |
| `ScheduleStore` | `SchedulesStayTyped`, `NeverReplays`, `ArmsPastItsFires`, `StrikesAreSpaced`, `OwedTicksAreFired` |
| `WorkerLoop` | `WorkerTyped`, `ReleasesOnceStopped`, `HandlersApart` |
| `Artifacts` | `ArtifactsTyped`, `ArtifactsRead`, `BytesAccountedFor`, `ArtifactsExpire` |
| `TickLoop` | `BreakerBacksOff`, `TickerCatchesUp`, `ProbeIsRight` |
| `Access` | `BudgetIsKept`, `VerdictsAreRecent`, `CancellersDoAnswer` |
| `Paging` | `ReadsEachOnce`, `RaisesInTurn` |

### Arguments

*`RunStore`.* Every request and sweep changes a row by one of the functions of `RunRows`.
`RunStoreProofs` defines that relation (`RowStep`), shows that every action obeys it
(`RequestRows`, `SweepRows`), and proves once, by cases over it, that it keeps a row's type and
its columns' agreement and what it does to a run that leaves its worker (`RowStepCases`). The
inductive invariant is `TypeOK /\ RowsConsistent /\ BeganKnown`: types alone do not tell that a
`RUNNING` row has a `running_since`, which working time needs, nor that only a leased run has a
pending cancel, which `CancelHonoured` needs. `CancelBound` adds that every lease ends within its
length of the present, working time that the histories match the columns (`HistoriesMatch`).
`ImplementsLifecycle` goes through each kind of row step and finds its move in `RunLifecycle`.

`AttemptAccounting` and `AnnouncedOnce` relate a row to other tables, which `RowStep` does not see:
each action is followed whole, to one relation between the row and its books before and after
(`AttemptStep`, `Told`). Attempts need that a run that is not there has the columns of a row never
started (`Blanks`), that the lapse that ends a run is the last one allowed, and that its resolutions
are finitely many. Announcements need what the outbox can hold at a run's attempt and status
(`Posted`): an event of the present attempt says `PAUSED` only while the run is paused or has ended
since, so a pause or an ending meets no event with its id.

*`ClaimQueue`.* A count is right only for as long as nobody else can lease under the same name.
The invariant is `TypeOK /\ HeldWhileLooking /\ AllCounted /\ KeyBound /\ TenantBound`, where
`AllCounted` says that a claim past its count still has the lock of that name and still has room.
`Take` keeps the bounds because the claim that takes holds both locks; every other action only
lowers counts or is made by a claim that holds other names.

`ClaimsProgress` follows from what a claim that looks knows of the run it looks at: the run is
queued and not of a name passed over, so passing over its tenant or key is passing over one more.

`ClaimsFindTheNext` is of a claim nobody disturbs. While it goes on the others are idle and hold
neither rows nor names (`IdleHoldNothing`), so it gets every lock it tries and what it counted
stays; no run of a name it passed over has room (`PassedAreFull`); and the run it looks at is a first
one among the candidates that are left, with room as far as it was counted (`LooksRight`). Every run
with room is a candidate, so the run it takes comes before all of them.

*`EventLog`.* `LoggedOnce` rests on `AppendSound`: what an open append is to insert is new and its
lock keeps the run `RUNNING`. That what `Added` takes from a batch is new holds by induction on the
batch, which is as long as one likes. `Added` is a recursive function; the induction is stated for a
set of numbers (`NaturalsFrom`) and drawn from `<` being well founded, since a rule with an operator
parameter cannot be used. The reader's properties need where every entry is between the log and the
reader (`Tracked`): what was given is the log up to `reader.after`, what is on the wire is the log
from there on, what the stream has in hand from there on, and a page that is not full and was read
after the run was found ended reaches the end of the log, which no append can pass. `Orderly` says
that nothing follows an `end` and that a reader between connections has nothing on the wire.

*`WebhookOutbox`.* `DeliversAtLeastOnce` needs that an answer a ticker has in hand was the
receiver's (`AcceptedIsTaken`) and that ids are given once (`Ids`). `HoldersApart` needs that a row
held by a ticker is due no sooner than a lease after its claim (`RowsHeld`), `DeliveriesVerify` that
a batch has the secrets of its subscription as they are, or they were replaced since (`SecretsKept`),
and that a receiver verifies with no secret that was not made yet (`SecretsMade`). `HoldersApart` has
hypotheses, because the code does not enforce them: `MaxHold < WEBHOOK_LEASE`, and `MaxDelay` too.
The lease is twice the timeout of a send, and a batch is sent at once, so a ticker is done with it
before, unless a receiver drips its answer (see "Divergences").

*`ScheduleStore`.* Of an update in progress it is known what it wrote down, not what the row is by
now. `Columns` says that a tick it will write lies past the clock it read, and that it clears
failures only when it resumes. That is enough, for any number of updates, that a row stays a row
(`SchedulesStayTyped`) and is never armed for a tick before its last fire (`NeverReplays`), the half
of `NoBacklog` that keeps a week of downtime from being replayed. The rest needs that the columns
still fit the row they are written into (`Fits`): one that resumes meets a row that is still off
and has its failures taken away, one that retimes a row of the cadence it read. Fires keep this so,
and the write of another update of the same schedule need not: `Fits` is known of the updates that
were not overtaken (`InFlight`). `FiringInv` adds that rows are armed past their last resumption
(`HonestRow`) and, while they are on, wait out the backoff of their last failure (`SpacedRow`),
unless an overtaken update was written to them since their last fire (`mixed`), which is what puts
them right again. That the least of a set of instants is there comes from `<` being well founded.

*`WorkerLoop`.* `Inv` is `TypeOK /\ ClaimFacts /\ Stopping`: an attempt is claimed once and a lease
has one owner, and a worker that returns has nothing at work and only then a release on the wire.
`ApartUnlessCrowded` also needs `Handlers`, what `held` says of the tasks until the worker is
crowded: the one it names is at work, at most one task has yet to begin, and if that one waits, it
waits for the only other there is (`WaitsFor`). A claim that comes in while none waits keeps this
so; one that comes in while one does makes the worker crowded.

*`Paging`.* `PagesInv` follows a listing page by page (`Reading`): what was steady all the while has
been read, is in the page at hand or comes after the cursor, and the page at hand is a stretch of
the order that starts past the cursor. A page is what the store's sort returns; `Ordered` states the
sorted sequence by what it is, the only one with each row once and in order, since an algorithm that
sorts is opaque to the provers, and the proof numbers the rows by how many come before. `RaisedInTurn`
follows from counting the failures of the call under way (`Tries`).

*`Artifacts`.* `Inv` says, for each stage of an upload, which of its bytes and its record are there
and who holds the run's row (`Owned`, `Holding`), that a record whose commit was answered keeps its
bytes (`Kept`), what a purge has in hand (`Purging`) and how much a download has served (`Serving`).
`AllExpire` then holds because an upload past its check has the row lock of an open run.

*`TickLoop`.* `Inv` gives, for each stage of the loop, how long ago the last whole tick or trouble
(`Looked`) and the last beat (`Beaten`) can be; `Counts` says that the breaker counts what really
failed. `ProbeIsRight` is for ticks of any length and any files configured: it says of a ticker that
is found dead that its tick has lasted for longer than the age the probe allows less a wait (60 and
5 seconds), its disk is full, or it has no file configured; and of one that hangs for longer than
that age that it is found dead unless another ticker beats into its file.

*`Access`.* What a budget gave in a stretch of time is paid for by its row (`Paid`): `tat` is an
interval later for each request let in since the stretch began, whatever order the statements came
in. The history `taken` counts, for each stretch, what was given in it. A cached verdict expires no
later than its time after the registry last said so, and so does an answer on its way (`Judged`); this
takes that a question is given up before a verdict would be forgotten (`MaxAsk` in
`AccessAssumption`: the timeout of a call against the seconds a verdict is cached).

*`Answering`.* `require_may_cancel` picks one reviewer. `CancelAsAnyone` shows that no other could
do better: who answers a run that is assigned answers as its assignee, whom the key may then act
for. `CancelIsAnAnswer` is the converse.

### Only model-checked

Liveness (`LimitsTakeEffect`, `EveryDeliveryEnds`, `LostLeaseStops`, `UnworkedLapses`, `ExpiredGo`,
`FollowerEnds`, `ReadingEnds`): fairness and `ENABLED` are out of the prover's reach.

## Findings

Each is a run that TLC ends with a behaviour of the code that a line of the repository says does
not happen; the lines are in `PROJECT.json`.

- `repeats` (`WritesOwnAttempt`): the fence names the worker and not the attempt, so a finish of one
  attempt, repeated by the transport or sent by `_end` for a stopped handler, can end the next
  attempt when the same worker claimed it.
- `handlers` (`OneHandler`): with three slots or more, a run that comes back to a worker twice while
  an earlier handler of it still stops is worked by two handlers at once. `_execute` waits for the
  job it found in `_held` and does not look there again. `ApartUnlessCrowded` says there is no other
  way. A job that waits when `_wind_down` collects `_held` starts its handler afterwards and is
  neither cancelled nor released: `run` waits for it past the grace, and its lease lapses.
- `strikes` (`EveryStrikeSpaced`): two updates that read one paused schedule both resume it, each
  writing only what differs from what it read. When the first is written, and the fires after it
  fail and pause the schedule, the second turns it on with its failures and no backoff, and the next
  strike is at once. Of the same cause: if a fire with an old clock re-armed it in between, it is
  resumed with a tick a later one has superseded; and if the first leaves it with a late tick that
  is still worth firing, the second, with a later clock, throws that tick away. `StrikesSpaced`,
  `NoBacklog` and `OwedTickKept` say there is no other way.
- `secrets` (`EveryDeliveryVerifies`): a delivery is signed with the secrets its claim read, so one
  claimed before a rotation and sent after it carries no signature of the new secret. A receiver
  that has moved by then refuses it, and a refusal with a 4xx is final (the delivery stays, dead,
  and can be redelivered). The documents promise that none is refused within the overlap.
  `OnlyMovedRefuse` says there is no other way.

### Divergences

Met while modelling, described here and not run:

- `pause` recognises a repeat only while the run is still `PAUSED` on that interrupt. Repeated by a
  caller that runs the agent in its own process after the run was resumed (the answer of the first
  pause was lost), it pauses the run again on the interrupt already answered, and the next resume
  fails on the stored resolution's key. The route promises that a repeat "changes nothing".
- An update that changes a cadence computes the next fire from a row it read unlocked and writes
  only what differs from it. A fire that advances the schedule in between leaves it armed on the
  old cadence; `ScheduleUpdate` says that "a change re-arms the next fire".
- A stream whose run is purged between its read of the status and its read of the rows says `end`
  with events unsent: the log went with the run. `ReadsInOrder` and `EndIsLast` speak of runs that
  are there.
- `config/constants.py` calls `TICK_SECONDS` the "worst-case lateness" of a schedule, a deadline
  and a lapsed lease. After an outage it is up to `BREAKER_COOLDOWN` more: the bound of `CatchesUp`.
- `tick` counts `DBAPIError` and `OSError` on the breaker. Any other exception that an early step
  raises on every tick keeps the later steps from running for as long as it lasts; the breaker
  stays closed and the probe finds the ticker alive.
- `take` reads `ahead`, from which a refused request is told how long to wait, in the statement's
  snapshot and not under the row lock: the wait can be too short, and when the first requests of a
  new tenant come at once and spend its burst, a request that is refused finds no row, and fails
  with a `TypeError` (500) instead of 429.
- `keys.py` says that a flood of bad keys costs the registry "one call per key per interval":
  requests that come before the first answer each ask.
- `store/paging.py` says that "a row written between two requests is neither skipped nor repeated".
  A row's time is read before its commit, so an oldest-first listing can pass a place where a row
  appears later; `NoneMissed` speaks of rows that were there when reading began.
- `create` of a webhook counts and inserts in two statements: two creates at
  `MAX_WEBHOOKS_PER_TENANT` both succeed (`CountHooks`, `InsertHook`).
- A ticker that outlives `WEBHOOK_LEASE` settles a delivery another one has settled; if it was
  redelivered meanwhile, the late settle can end it untried. `HeldApart` holds because
  `MaxHold < WEBHOOK_LEASE` in the run; the sender's timeouts bound each operation and not the
  whole tick.
- A tick deletes blobs one after the other, each with a timeout of its client's own, besides its
  database steps: one that works for longer than the probe allows is restarted as if it hung. Two
  tickers configured with one liveness file vouch for each other. `ProbeTells` excepts both.
- `purge_ended` leaves the deliveries of the run in the outbox, and `PurgeEnded` empties it of them:
  an id of a run that is purged and used again could meet an old event's.
- When the commit of an upload is done and its answer lost, the upload deletes the bytes and the
  row stays; the caller's retry is then answered `200` with an artifact whose download is a 404,
  until the run's artifacts expire. `ReferenceResolves` names this as its exception (`doubted`).
- `read` holds back the last chunk, so an object that grew by a chunk would have all the recorded
  bytes served before it is found corrupt; `Corrupt` alters and truncates.
- A fire for an explicit instant advances the schedule past a tick it owes; `OwedTickKept` excepts
  it.
- The comment of `RunRow.attempt` does not name a release and a retried error, which both start a
  new attempt; the sender does not retry 501 and 505 although the documents say 5xx.

## Plan

Done, in this order: the run's life, its abstract specification and their proofs; the claim and
its proofs; the outbox; schedules; the worker; artifacts; the event log and its stream; the
ticker's loop; keys, budgets and answering; listings and errors; then the proofs of the outbox,
artifacts, the ticker's loop, budgets and verdicts, the event log, attempts and announcements, the
worker, listings, schedules and the order of claims. Every safety property of a
passing run is proved; liveness stays with TLC.

## Not modelled

Payloads, the words of errors, OpenAPI, logging, metrics, configuration and migrations keep no
state that these properties tell apart. The SDK's methods that send one call and parse its answer
are the calls the modules make. The parsing of cadences, the sizes of bodies and the shape of an
answer to a question are checks of the request. The choice and pinning of a receiver's address
(`egress.py`) is a send that fails. How long a refused or failed call waits (`Retry-After`,
backoff of the transport) is any time. A rate limit that is off (`per_minute` 0) takes nothing. The
id of a purged run may be used again by a caller; `EventLog` and `Paging` use an id once.
PostgreSQL is its row locks, advisory locks and unique constraints, under `READ COMMITTED`, as the
code uses them.
