------------------------------ MODULE ClaimQueue ------------------------------
(***************************************************************************)
(* RunStore.claim of store/runs.py, statement by statement: many claims at *)
(* once, each a READ COMMITTED transaction that looks for the next queued  *)
(* run, counts the room under its tenant's cap and its concurrency_key     *)
(* under transaction locks, and takes it or passes it over and looks       *)
(* again.  Every statement sees what was committed before it; what a claim *)
(* writes is seen once it commits, when its row locks and its transaction  *)
(* locks go.                                                               *)
(*                                                                         *)
(* A row is the part of a run that a claim reads.  "AWAY" stands for every *)
(* run no claim may take and no room is counted for: absent, paused,       *)
(* ended, or held back until available_at.  The operations that move a run *)
(* between these states (RunStore has them) wait for its row lock.         *)
(***************************************************************************)
EXTENDS Null, Integers, FiniteSets

CONSTANTS
    RunIds,
    Claims,               \* requests that claim, each one transaction at a time
    TenantOf, KeyOf,      \* the tenant of a run; its concurrency_key, or None
    AgentOf, PriorityOf,
    Scopes,               \* what claims ask for: a tenant (None: any) and agents
    Times,                \* the values of queued_at
    ConcurrencyPerKey,    \* RUNS__RUNS__CONCURRENCY_PER_KEY
    MaxRunningPerTenant   \* RUNS__RUNS__MAX_RUNNING_PER_TENANT, or None

VARIABLES
    rows,     \* the runs table, as committed
    rowLock,  \* the claim that has the row locked FOR UPDATE, or None
    locks,    \* the claim that has the transaction lock of a name, or None
    pc,       \* the statement each claim is at
    asked,    \* its scope
    at,       \* the run it looks at
    passed,   \* the tenants and keys it passes over
    calm      \* history: nothing else happened since the claim began

vars == <<rows, rowLock, locks, pc, asked, at, passed, calm>>

Statuses == {"AWAY", "QUEUED", "LEASED", "IN_PROCESS"}   \* the last two are RUNNING

Running(r) == rows[r].status \in {"LEASED", "IN_PROCESS"}

\* The names of the transaction locks.
Tenant(r) == <<TenantOf[r]>>
Key(r)    == <<TenantOf[r], KeyOf[r]>>
Names     == {Tenant(r) : r \in RunIds} \cup {Key(r) : r \in RunIds}

------------------------------------------------------------------------------
(***************************************************************************)
(* What a statement counts.                                                *)
(***************************************************************************)
TenantLeased(r) == {s \in RunIds : rows[s].status = "LEASED" /\ Tenant(s) = Tenant(r)}
KeyLeased(r)    == {s \in RunIds : rows[s].status = "LEASED" /\ Key(s) = Key(r)}
KeyRunning(r)   == {s \in RunIds : Running(s) /\ Key(s) = Key(r)}

WrongTenantRoomOffByOne(r) ==
    MaxRunningPerTenant # None => Cardinality(TenantLeased(r)) <= MaxRunningPerTenant

TenantRoom(r) ==
    MaxRunningPerTenant # None => Cardinality(TenantLeased(r)) < MaxRunningPerTenant

KeyRoom(r) ==
    KeyOf[r] # None => Cardinality(KeyRunning(r)) < ConcurrencyPerKey

\* The runs a claim of this scope may take, were it alone.
InScope(r, scope) ==
    /\ rows[r].status = "QUEUED"
    /\ AgentOf[r] \in scope.agents
    /\ scope.tenant = None \/ TenantOf[r] = scope.tenant

\* The claim order: the tenant whose workers hold the fewest runs of these agents first,
\* then the highest priority, then the oldest.
Held(tenant, scope) ==
    Cardinality({r \in RunIds : /\ rows[r].status = "LEASED"
                                /\ TenantOf[r] = tenant
                                /\ AgentOf[r] \in scope.agents})

WrongBeforePriorityFirst(r, s, scope) ==
    LET hr == Held(TenantOf[r], scope)
        hs == Held(TenantOf[s], scope)
    IN  \/ PriorityOf[r] > PriorityOf[s]
        \/ PriorityOf[r] = PriorityOf[s] /\ hr < hs
        \/ hr = hs /\ PriorityOf[r] = PriorityOf[s] /\ rows[r].queued_at < rows[s].queued_at

Before(r, s, scope) ==
    LET hr == Held(TenantOf[r], scope)
        hs == Held(TenantOf[s], scope)
    IN  \/ hr < hs
        \/ hr = hs /\ PriorityOf[r] > PriorityOf[s]
        \/ hr = hs /\ PriorityOf[r] = PriorityOf[s] /\ rows[r].queued_at < rows[s].queued_at

First(S, scope) == {r \in S : \A s \in S : ~Before(s, r, scope)}

\* _next_queued: what the query may return to claim c (SKIP LOCKED passes over the rows
\* others hold).
Candidates(c) ==
    {r \in RunIds : /\ InScope(r, asked[c])
                    /\ KeyRoom(r)
                    /\ Tenant(r) \notin passed[c] /\ Key(r) \notin passed[c]
                    /\ rowLock[r] \in {None, c}}

------------------------------------------------------------------------------
(***************************************************************************)
(* The claim.                                                              *)
(***************************************************************************)
Begin(c, scope) ==
    /\ pc[c] = "idle"
    /\ pc'     = [pc EXCEPT ![c] = "look"]
    /\ asked'  = [asked EXCEPT ![c] = scope]
    /\ calm'   = [d \in Claims |-> d = c /\ \A e \in Claims \ {c} : pc[e] = "idle"]
    /\ UNCHANGED <<rows, rowLock, locks, at, passed>>

Look(c) ==
    /\ pc[c] = "look"
    /\ \E r \in First(Candidates(c), asked[c]) :
          /\ rowLock' = [rowLock EXCEPT ![r] = c]
          /\ at'      = [at EXCEPT ![c] = r]
    /\ pc' = [pc EXCEPT ![c] = "tenant"]
    /\ UNCHANGED <<rows, locks, asked, passed, calm>>

\* The transaction ends: every lock of it goes.
Ends(c) ==
    /\ rowLock' = [r \in RunIds |-> IF rowLock[r] = c THEN None ELSE rowLock[r]]
    /\ locks'   = [n \in Names |-> IF locks[n] = c THEN None ELSE locks[n]]
    /\ pc'      = [pc EXCEPT ![c] = "idle"]
    /\ at'      = [at EXCEPT ![c] = None]
    /\ passed'  = [passed EXCEPT ![c] = {}]
    /\ calm'    = [calm EXCEPT ![c] = FALSE]
    /\ UNCHANGED asked

\* Nothing it may take: the answer is 204.
Nothing(c) ==
    /\ pc[c] = "look" /\ Candidates(c) = {}
    /\ Ends(c)
    /\ UNCHANGED rows

WrongPassNothing(c, name) ==
    /\ pc' = [pc EXCEPT ![c] = "look"]
    /\ UNCHANGED passed

\* A name without room, or counted by another claim right now, is passed over from here on.
Pass(c, name) ==
    /\ passed' = [passed EXCEPT ![c] = @ \cup {name}]
    /\ pc'     = [pc EXCEPT ![c] = "look"]

WrongLockForClaimUnlocked(c, name, next) ==
    /\ pc' = [pc EXCEPT ![c] = next]
    /\ UNCHANGED <<locks, passed>>

\* _locked_for_claim: pg_try_advisory_xact_lock, kept until the transaction ends.
LockForClaim(c, name, next) ==
    IF locks[name] \in {None, c}
    THEN /\ locks' = [locks EXCEPT ![name] = c]
         /\ pc'    = [pc EXCEPT ![c] = next]
         /\ UNCHANGED passed
    ELSE /\ Pass(c, name)
         /\ UNCHANGED locks

Counted(c, room, name, next) ==
    /\ IF room THEN pc' = [pc EXCEPT ![c] = next] /\ UNCHANGED passed
               ELSE Pass(c, name)
    /\ UNCHANGED locks

\* _tenant_has_room, then _key_has_room.
TenantHasRoom(c) ==
    /\ \/ /\ pc[c] = "tenant" /\ MaxRunningPerTenant = None
          /\ pc' = [pc EXCEPT ![c] = "key"]
          /\ UNCHANGED <<locks, passed>>
       \/ /\ pc[c] = "tenant" /\ MaxRunningPerTenant # None
          /\ LockForClaim(c, Tenant(at[c]), "count tenant")
       \/ /\ pc[c] = "count tenant"
          /\ Counted(c, TenantRoom(at[c]), Tenant(at[c]), "key")
    /\ UNCHANGED <<rows, rowLock, asked, at, calm>>

KeyHasRoom(c) ==
    /\ \/ /\ pc[c] = "key" /\ KeyOf[at[c]] = None
          /\ pc' = [pc EXCEPT ![c] = "take"]
          /\ UNCHANGED <<locks, passed>>
       \/ /\ pc[c] = "key" /\ KeyOf[at[c]] # None
          /\ LockForClaim(c, Key(at[c]), "count key")
       \/ /\ pc[c] = "count key"
          /\ Counted(c, KeyRoom(at[c]), Key(at[c]), "take")
    /\ UNCHANGED <<rows, rowLock, asked, at, calm>>

\* The run is leased to the worker, and committed.
Take(c) ==
    /\ pc[c] = "take"
    /\ rows' = [rows EXCEPT ![at[c]].status = "LEASED"]
    /\ Ends(c)

\* The process dies, the connection drops or a statement times out: rolled back.
Abort(c) ==
    /\ pc[c] # "idle"
    /\ Ends(c)
    /\ UNCHANGED rows

------------------------------------------------------------------------------
(***************************************************************************)
(* The other operations, each under the row lock of its run.               *)
(***************************************************************************)
Becomes(r, from, to, queued_at) ==
    /\ rowLock[r] = None
    /\ rows[r].status \in from
    /\ rows' = [rows EXCEPT ![r] = [status |-> to, queued_at |-> queued_at]]
    /\ calm' = [c \in Claims |-> FALSE]
    /\ UNCHANGED <<rowLock, locks, pc, asked, at, passed>>

\* start (queue), resume, a retried error, release, a lapsed lease.
Enqueue(r, t) == Becomes(r, {"AWAY", "LEASED"}, "QUEUED", t)

\* start (not queued) and the resume of such a run: RUNNING without any claim.
RunInProcess(r) == Becomes(r, {"AWAY"}, "IN_PROCESS", rows[r].queued_at)

\* pause, cancel, finish, a timeout, a retry that waits.
Leave(r) == Becomes(r, {"QUEUED", "LEASED", "IN_PROCESS"}, "AWAY", rows[r].queued_at)

------------------------------------------------------------------------------
Init ==
    /\ rows    \in [RunIds -> [status : {"AWAY"}, queued_at : Times]]
    /\ rowLock = [r \in RunIds |-> None]
    /\ locks   = [n \in Names |-> None]
    /\ pc      = [c \in Claims |-> "idle"]
    /\ asked   \in [Claims -> Scopes]
    /\ at      = [c \in Claims |-> None]
    /\ passed  = [c \in Claims |-> {}]
    /\ calm    = [c \in Claims |-> FALSE]

ClaimStep(c) ==
    \/ Look(c) \/ Nothing(c) \/ TenantHasRoom(c) \/ KeyHasRoom(c) \/ Take(c)

Elsewhere(r) ==
    \/ \E t \in Times : Enqueue(r, t)
    \/ RunInProcess(r)
    \/ Leave(r)

Next ==
    \/ \E c \in Claims : \/ \E scope \in Scopes : Begin(c, scope)
                         \/ ClaimStep(c)
                         \/ Abort(c)
    \/ \E r \in RunIds : Elsewhere(r)

Spec == Init /\ [][Next]_vars

------------------------------------------------------------------------------
TypeOK ==
    /\ rows \in [RunIds -> [status : Statuses, queued_at : Times]]
    /\ rowLock \in [RunIds -> Claims \cup {None}]
    /\ locks \in [Names -> Claims \cup {None}]
    /\ pc \in [Claims -> {"idle", "look", "tenant", "count tenant", "key", "count key", "take"}]
    /\ asked \in [Claims -> Scopes]
    /\ at \in [Claims -> RunIds \cup {None}]
    /\ passed \in [Claims -> SUBSET Names]
    /\ calm \in [Claims -> BOOLEAN]

\* Two claims at once never both take the last place under a concurrency_key: no more runs
\* sharing it are leased than are allowed (claim: "so two claims at once cannot both take
\* the last place").  A run in its caller's process may come on top: it is never held back.
KeyBound ==
    \A r \in RunIds :
        KeyOf[r] # None => Cardinality(KeyLeased(r)) <= ConcurrencyPerKey

\* A tenant's workers never hold more runs than its cap.
TenantBound ==
    \A r \in RunIds :
        MaxRunningPerTenant # None =>
            Cardinality(TenantLeased(r)) <= MaxRunningPerTenant

\* Both caps, in every state that two claims and the workers' other requests can reach.
CapsHold == KeyBound /\ TenantBound

\* A run the claim looks at stays queued, and its own, until the claim ends.
Looking(c) == pc[c] \notin {"idle", "look"}

HeldWhileLooking ==
    \A c \in Claims :
        Looking(c) => /\ at[c] \in RunIds
                      /\ rowLock[at[c]] = c
                      /\ rows[at[c]].status = "QUEUED"

\* What a claim of this scope should find: of the runs with room, one that no other
\* precedes in (runs held, priority, age), compared in this order.
Place(r, scope) == <<Held(TenantOf[r], scope), -PriorityOf[r], rows[r].queued_at>>
Precedes(a, b)  == \E i \in 1..3 : a[i] < b[i] /\ \A j \in 1..(i - 1) : a[j] = b[j]
Claimable(scope) == {r \in RunIds : InScope(r, scope) /\ TenantRoom(r) /\ KeyRoom(r)}

\* A claim nothing else interfered with takes the next run in claim order of all that have
\* room, and answers "nothing" only when none has: what it passes over on the way (a tenant
\* at its cap, a key in use) hides no run with room.
ClaimFindsNext ==
    [][\A c \in Claims :
          /\ calm[c] /\ Take(c) =>
                /\ at[c] \in Claimable(asked[c])
                /\ \A r \in Claimable(asked[c]) :
                      ~Precedes(Place(r, asked[c]), Place(at[c], asked[c]))
          /\ calm[c] /\ Nothing(c) => Claimable(asked[c]) = {}]_vars

\* A claim comes to its end, whatever the others do: it waits for no lock, and each time it
\* looks again it has passed over one name more, of the finitely many there are (claim's
\* loop; what _next_queued leaves out).
ClaimProgresses ==
    [][\A c \in Claims :
          Looking(c) /\ pc'[c] = "look" =>
              passed[c] \subseteq passed'[c] /\ passed[c] # passed'[c]]_vars

------------------------------------------------------------------------------
ASSUME QueueAssumption ==
    /\ None \notin Claims /\ None \notin RunIds
    /\ IsFiniteSet(RunIds)
    /\ ConcurrencyPerKey \in Nat
    /\ MaxRunningPerTenant \in Nat \cup {None} /\ None \notin Nat
    /\ PriorityOf \in [RunIds -> Int] /\ Times \subseteq Int
==============================================================================
