-------------------------------- MODULE Access --------------------------------
(***************************************************************************)
(* How a request gets in: the key registry's answers and their cache       *)
(* (keys.py), the tenant the request acts in (api/deps.py), its tenant's   *)
(* budget (api/ratelimit.py), and what its key may do then (Answering).    *)
(*                                                                         *)
(* The registry is another service (the Memory Service): a key is granted, *)
(* changed, revoked and given back there at any time, and an answer is     *)
(* true when the registry gives it, which is before it arrives.  Requests  *)
(* run side by side, in one process, which keeps the cache, and its clock. *)
(*                                                                         *)
(* The budget's statement takes the clock when it starts, and the row when *)
(* it gets its lock, after the others that wait for it.                    *)
(*                                                                         *)
(* The specification is Access..., TickLoop has the plain names: TLC checks*)
(* the two side by side.                                                   *)
(***************************************************************************)
EXTENDS Answering, Integers, Sequences, FiniteSetsExt, SequencesExt

CONSTANTS
    Keys, Tenants,
    Verdicts,             \* what the registry may say of each key
    Parties,              \* whom runs are assigned to and reviewers name
    KEY_CACHE_SECONDS, KEY_NEGATIVE_CACHE_SECONDS, MAX_CACHED_KEYS,
    Interval,             \* seconds in which a budget regains a request: 60 / per_minute
    Burst,                \* RateLimitSettings.burst
    Requests,             \* the requests under way at once
    MaxAsk,               \* the longest an introspection takes before it fails
    MaxClock,             \* bound on the clock
    MaxChanges            \* bound on what changes at the registry

\* A verdict is a KeyInfo or a refusal.
Refusals == {[refusal |-> "unauthorized"], [refusal |-> "forbidden"]}

ASSUME AccessAssumption ==
    /\ \A c \in {KEY_CACHE_SECONDS, KEY_NEGATIVE_CACHE_SECONDS, MaxAsk, MaxClock, MaxChanges} :
           c \in Nat
    /\ {MAX_CACHED_KEYS, Interval, Burst} \subseteq Nat \ {0} /\ None \notin Nat
    /\ MaxAsk <= KEY_NEGATIVE_CACHE_SECONDS /\ MaxAsk <= KEY_CACHE_SECONDS
    /\ \A k \in Keys : \A v \in Verdicts[k] \ Refusals :
           v.key_id = k /\ v.tenant_id \in Tenants \cup {None}

VARIABLES
    time,
    registry,             \* the Memory Service's verdict on each key
    cache,                \* _cache: [key, expires, answer], the least recently used first
    requests,
    tat,                  \* rate_limit_buckets
    changes,
    \* history
    left,                 \* when each verdict was last the registry's
    taken                 \* how many requests each budget gave in each stretch of time, by the
                          \* clock of their statement

accessVars == <<time, registry, cache, requests, tat, changes, left, taken>>

Refused(v) == v \in Refusals

\* A budget is a tenant's, or of a platform key that claims for none in particular.
Buckets == Tenants \cup Keys

NoRequest == [stage |-> "idle"]

Stretches == {s \in (0..MaxClock) \X (0..MaxClock) : s[1] <= s[2]}

------------------------------------------------------------------------------
(***************************************************************************)
(* KeyRegistry.resolve.                                                    *)
(***************************************************************************)
Entry(k) == {e \in ToSet(cache) : e.key = k}

\* move_to_end: the others, as they were.
Without(k) ==
    LET at == {i \in DOMAIN cache : cache[i].key = k}
    IN  IF at = {} THEN cache ELSE RemoveAt(cache, CHOOSE i \in at : TRUE)

\* A request comes with its key: a verdict that is still good is taken from the cache, else
\* the registry is asked.
Resolve(q, k) ==
    /\ requests[q].stage = "idle"
    /\ LET fresh == {e \in Entry(k) : e.expires > time}
       IN  IF fresh = {}
           THEN /\ requests' = [requests EXCEPT ![q] = [stage |-> "asking", key |-> k, at |-> time]]
                /\ UNCHANGED cache
           ELSE \E e \in fresh :
                /\ requests' = [requests EXCEPT ![q] =
                                   [stage |-> "known", key |-> k, verdict |-> e.answer]]
                /\ cache' = Append(Without(k), e)
    /\ UNCHANGED <<time, registry, tat, changes, left, taken>>

\* _introspect: the registry answers ...
RegistryAnswers(q) ==
    /\ requests[q].stage = "asking"
    /\ requests' = [requests EXCEPT ![q] =
            [stage |-> "answered", key |-> @.key, at |-> @.at, verdict |-> registry[@.key]]]
    /\ UNCHANGED <<time, registry, cache, tat, changes, left, taken>>

\* ... or cannot be asked, answers nothing that can be read, or too late: 503, not cached.
RegistryFails(q) ==
    /\ requests[q].stage \in {"asking", "answered"}
    /\ requests' = [requests EXCEPT ![q] = NoRequest]
    /\ UNCHANGED <<time, registry, cache, tat, changes, left, taken>>

Ttl(v) == IF Refused(v) THEN KEY_NEGATIVE_CACHE_SECONDS ELSE KEY_CACHE_SECONDS

WrongCachedFromArrival(request) ==
    [key |-> request.key, expires |-> time + Ttl(request.verdict), answer |-> request.verdict]

\* Good for so long from when the request came, not from when the answer did.
Cached(request) ==
    [key |-> request.key, expires |-> request.at + Ttl(request.verdict),
     answer |-> request.verdict]

AnswerArrives(q) ==
    /\ requests[q].stage = "answered" /\ time <= requests[q].at + MaxAsk
    /\ LET kept == Append(Without(requests[q].key), Cached(requests[q]))
       IN  cache' = SubSeq(kept, Max({1, Len(kept) - MAX_CACHED_KEYS + 1}), Len(kept))
    /\ requests' = [requests EXCEPT ![q] =
            [stage |-> "known", key |-> @.key, verdict |-> @.verdict]]
    /\ UNCHANGED <<time, registry, tat, changes, left, taken>>

------------------------------------------------------------------------------
(***************************************************************************)
(* The tenant a request acts in, and its budget.                           *)
(***************************************************************************)

\* _acting, caller, claimer: the budget a request draws on, {} when it is refused.  It names
\* a tenant or none, and claims or not.  A tenant's key may name its own tenant only; a
\* platform key names one, and may leave it out in a claim.
Acting(request, named, claims) ==
    LET own == request.verdict.tenant_id
    IN  IF Refused(request.verdict) THEN {}
        ELSE IF own # None THEN IF named \in {None, own} THEN {own} ELSE {}
        ELSE IF named # None THEN {named}
        ELSE IF claims THEN {request.key} ELSE {}

Refuses(q, named, claims) ==
    /\ requests[q].stage = "known" /\ Acting(requests[q], named, claims) = {}
    /\ requests' = [requests EXCEPT ![q] = NoRequest]
    /\ UNCHANGED <<time, registry, cache, tat, changes, left, taken>>

\* _within_budget: the statement of take starts, with its clock ...
TakeStarts(q, named, claims) ==
    /\ requests[q].stage = "known"
    /\ \E bucket \in Acting(requests[q], named, claims) :
           requests' = [requests EXCEPT ![q] =
                           [stage |-> "taking", bucket |-> bucket, clock |-> time]]
    /\ UNCHANGED <<time, registry, cache, tat, changes, left, taken>>

WrongTolerance == Interval * Burst

Tolerance == Interval * (Burst - 1)

\* When the budget would be full again, as of the statement's clock.
Due(bucket, clock) == IF tat[bucket] = None THEN clock ELSE Max({tat[bucket], clock})

\* ... and takes a request from the row as it is now, or refuses.  What a refused request is
\* told (429 and how long to wait) is left out.
TakeRuns(q) ==
    /\ requests[q].stage = "taking"
    /\ LET bucket == requests[q].bucket
           clock  == requests[q].clock
           due    == Due(bucket, clock)
       IN  IF due - clock <= Tolerance
           THEN /\ tat' = [tat EXCEPT ![bucket] = due + Interval]
                /\ taken' = [taken EXCEPT ![bucket] =
                      [s \in Stretches |-> IF clock \in s[1]..s[2] THEN @[s] + 1 ELSE @[s]]]
           ELSE UNCHANGED <<tat, taken>>
    /\ requests' = [requests EXCEPT ![q] = NoRequest]
    /\ UNCHANGED <<time, registry, cache, changes, left>>

------------------------------------------------------------------------------
\* At the registry a key is granted, changed or revoked.
RegistryChanges(k) ==
    /\ changes < MaxChanges
    /\ \E v \in Verdicts[k] \ {registry[k]} : registry' = [registry EXCEPT ![k] = v]
    /\ left' = [left EXCEPT ![k][registry[k]] = time]
    /\ changes' = changes + 1
    /\ UNCHANGED <<time, cache, requests, tat, taken>>

TimePasses ==
    /\ time < MaxClock
    /\ time' = time + 1
    /\ UNCHANGED <<registry, cache, requests, tat, changes, left, taken>>

AccessInit ==
    /\ time = 0
    /\ registry \in {f \in [Keys -> UNION {Verdicts[k] : k \in Keys}] :
                         \A k \in Keys : f[k] \in Verdicts[k]}
    /\ cache = <<>>
    /\ requests = [q \in Requests |-> NoRequest]
    /\ tat = [b \in Buckets |-> None]
    /\ changes = 0
    /\ left = [k \in Keys |-> [v \in Verdicts[k] |-> 0]]
    /\ taken = [b \in Buckets |-> [s \in Stretches |-> 0]]

AccessNext ==
    \/ \E q \in Requests :
         \/ \E k \in Keys : Resolve(q, k)
         \/ RegistryAnswers(q) \/ RegistryFails(q) \/ AnswerArrives(q)
         \/ \E named \in Tenants \cup {None}, claims \in BOOLEAN :
                Refuses(q, named, claims) \/ TakeStarts(q, named, claims)
         \/ TakeRuns(q)
    \/ \E k \in Keys : RegistryChanges(k)
    \/ TimePasses

AccessSpec == AccessInit /\ [][AccessNext]_accessVars

------------------------------------------------------------------------------
(***************************************************************************)
(* Properties.                                                             *)
(***************************************************************************)

AccessTypeOK ==
    /\ time \in 0..MaxClock
    /\ \A k \in Keys : registry[k] \in Verdicts[k]
    /\ Len(cache) <= MAX_CACHED_KEYS /\ \A k \in Keys : Cardinality(Entry(k)) <= 1
    /\ tat \in [Buckets -> Nat \cup {None}]

LastSaid(k, v) == IF registry[k] = v THEN time ELSE left[k][v]

\* A request is let in, or refused, on a verdict that was the registry's at most
\* KEY_CACHE_SECONDS (refused: KEY_NEGATIVE_CACHE_SECONDS) ago, however slow its answers are
\* and in whichever order they come: a revoked key stops working in time, and one given back
\* works again (resolve).
RecentVerdict ==
    [][\A q \in Requests :
          requests[q].stage # "known" /\ requests'[q].stage = "known" =>
              LET v == requests'[q].verdict
              IN  time - LastSaid(requests'[q].key, v) <= Ttl(v)]_accessVars

\* A budget gives no more than its burst and what it regains, in any stretch of time, to the
\* requests of all replicas together, in whichever order their statements get the row (take).
BudgetKept ==
    \A b \in Buckets : \A s \in Stretches :
        Interval * taken[b][s] <= Interval * Burst + (s[2] - s[1])

\* Who may answer a run, as anyone the key may act for, may cancel it, and nobody else may
\* (require_may_cancel against require_may_answer; answering.py: "who may answer a run may
\* cancel it"), whatever the registry says of the key by now.
CancellersAnswer ==
    \A k \in Keys : ~Refused(registry[k]) =>
        \A assignee \in Parties \cup {None} :
            MayCancel(registry[k], assignee)
                <=> \E reviewer \in Parties \cup {None} : MayAnswer(registry[k], assignee, reviewer)
=============================================================================
