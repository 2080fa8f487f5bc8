--------------------------- MODULE ClaimQueueProofs ---------------------------
(***************************************************************************)
(* The bounds a claim keeps, for any number of claims, runs, keys and      *)
(* tenants.  A count is of use only while the transaction lock is held     *)
(* under which it was made: the inductive invariant says, of every claim   *)
(* past a count, that it holds the lock and that the count still stands.   *)
(*                                                                         *)
(* The last part is of a claim nobody disturbs: the others are idle and    *)
(* hold nothing, so what it passed over is full while it goes on, and the  *)
(* run it looks at is the first of those that are left.                    *)
(***************************************************************************)
EXTENDS ClaimQueue, FiniteSetTheorems, TLAPS

\* A claim past its count holds the key's lock, and there is room still.
KeyCounted(c) ==
    /\ pc[c] = "count key" => KeyOf[at[c]] # None /\ locks[Key(at[c])] = c
    /\ pc[c] = "take" /\ KeyOf[at[c]] # None =>
          /\ locks[Key(at[c])] = c
          /\ Cardinality(KeyLeased(at[c])) < ConcurrencyPerKey

\* The same of the tenant's.
TenantCounted(c) ==
    /\ pc[c] = "count tenant" => MaxRunningPerTenant # None /\ locks[Tenant(at[c])] = c
    /\ pc[c] \in {"key", "count key", "take"} /\ MaxRunningPerTenant # None =>
          /\ locks[Tenant(at[c])] = c
          /\ Cardinality(TenantLeased(at[c])) < MaxRunningPerTenant

AllCounted == \A c \in Claims : KeyCounted(c) /\ TenantCounted(c)

Inv == TypeOK /\ HeldWhileLooking /\ AllCounted /\ KeyBound /\ TenantBound

------------------------------------------------------------------------------
LEMMA NamesOf == \A r \in RunIds : Key(r) \in Names /\ Tenant(r) \in Names
  BY DEF Names

\* What is leased is finite, so its size is a number.
LEMMA LeasedFinite ==
    ASSUME NEW r
    PROVE  /\ IsFiniteSet(KeyLeased(r)) /\ Cardinality(KeyLeased(r)) \in Nat
           /\ IsFiniteSet(TenantLeased(r)) /\ Cardinality(TenantLeased(r)) \in Nat
           /\ IsFiniteSet(KeyRunning(r)) /\ Cardinality(KeyRunning(r)) \in Nat
           /\ Cardinality(KeyLeased(r)) <= Cardinality(KeyRunning(r))
  <1>1. /\ KeyLeased(r) \subseteq RunIds /\ TenantLeased(r) \subseteq RunIds
        /\ KeyRunning(r) \subseteq RunIds /\ KeyLeased(r) \subseteq KeyRunning(r)
    BY DEF KeyLeased, TenantLeased, KeyRunning, Running
  <1>2. IsFiniteSet(RunIds)
    BY QueueAssumption
  <1>3. IsFiniteSet(KeyLeased(r)) /\ IsFiniteSet(TenantLeased(r)) /\ IsFiniteSet(KeyRunning(r))
    BY <1>1, <1>2, FS_Subset
  <1> QED BY <1>1, <1>3, FS_Subset, FS_CardinalityType

\* A step that leases no run adds to no count.
Released == \A r \in RunIds : rows'[r].status = "LEASED" => rows[r].status = "LEASED"

LEMMA ReleasedCounts ==
    ASSUME Released, NEW r
    PROVE  /\ Cardinality(KeyLeased(r)') <= Cardinality(KeyLeased(r))
           /\ Cardinality(KeyLeased(r)') \in Nat
           /\ Cardinality(TenantLeased(r)') <= Cardinality(TenantLeased(r))
           /\ Cardinality(TenantLeased(r)') \in Nat
  <1>1. KeyLeased(r)' \subseteq KeyLeased(r) /\ TenantLeased(r)' \subseteq TenantLeased(r)
    BY DEF Released, KeyLeased, TenantLeased, Key, Tenant
  <1>2. IsFiniteSet(KeyLeased(r)') /\ IsFiniteSet(TenantLeased(r)')
    BY <1>1, LeasedFinite, FS_Subset
  <1> QED BY <1>1, <1>2, LeasedFinite, FS_Subset, FS_CardinalityType

LEMMA OneMore ==
    ASSUME NEW S, NEW q, IsFiniteSet(S)
    PROVE  IsFiniteSet(S \cup {q}) /\ Cardinality(S \cup {q}) <= Cardinality(S) + 1
  <1>1. /\ IsFiniteSet(S \cup {q})
        /\ \/ Cardinality(S \cup {q}) = Cardinality(S)
           \/ Cardinality(S \cup {q}) = Cardinality(S) + 1
    BY FS_AddElement
  <1>2. Cardinality(S) \in Nat
    BY FS_CardinalityType
  <1> QED BY <1>1, <1>2

\* A step that leases one run adds it, to the counts of its own key and tenant only.
Leases(q) == \A r \in RunIds : rows'[r].status = "LEASED" => r = q \/ rows[r].status = "LEASED"

LEMMA LeasesCounts ==
    ASSUME NEW q, Leases(q), NEW r
    PROVE  /\ Cardinality(KeyLeased(r)') <= Cardinality(KeyLeased(r)) + 1
           /\ Cardinality(KeyLeased(r)') \in Nat
           /\ Key(r) # Key(q) => Cardinality(KeyLeased(r)') <= Cardinality(KeyLeased(r))
           /\ Cardinality(TenantLeased(r)') <= Cardinality(TenantLeased(r)) + 1
           /\ Cardinality(TenantLeased(r)') \in Nat
           /\ Tenant(r) # Tenant(q) =>
                 Cardinality(TenantLeased(r)') <= Cardinality(TenantLeased(r))
  <1>1. /\ KeyLeased(r)' \subseteq KeyLeased(r) \cup {q}
        /\ TenantLeased(r)' \subseteq TenantLeased(r) \cup {q}
    BY DEF Leases, KeyLeased, TenantLeased, Key, Tenant
  <1>2. /\ Key(r) # Key(q) => KeyLeased(r)' \subseteq KeyLeased(r)
        /\ Tenant(r) # Tenant(q) => TenantLeased(r)' \subseteq TenantLeased(r)
    BY DEF Leases, KeyLeased, TenantLeased, Key, Tenant
  <1>3. /\ IsFiniteSet(KeyLeased(r) \cup {q})
        /\ Cardinality(KeyLeased(r) \cup {q}) <= Cardinality(KeyLeased(r)) + 1
        /\ IsFiniteSet(TenantLeased(r) \cup {q})
        /\ Cardinality(TenantLeased(r) \cup {q}) <= Cardinality(TenantLeased(r)) + 1
    BY LeasedFinite, OneMore
  <1>4. IsFiniteSet(KeyLeased(r)') /\ IsFiniteSet(TenantLeased(r)')
    BY <1>1, <1>3, FS_Subset
  <1>5. /\ Cardinality(KeyLeased(r)') \in Nat /\ Cardinality(TenantLeased(r)') \in Nat
        /\ Cardinality(KeyLeased(r) \cup {q}) \in Nat
        /\ Cardinality(TenantLeased(r) \cup {q}) \in Nat
    BY <1>3, <1>4, FS_CardinalityType
  <1>6. /\ Cardinality(KeyLeased(r)') <= Cardinality(KeyLeased(r) \cup {q})
        /\ Cardinality(TenantLeased(r)') <= Cardinality(TenantLeased(r) \cup {q})
    BY <1>1, <1>3, FS_Subset
  <1>7. /\ Key(r) # Key(q) => Cardinality(KeyLeased(r)') <= Cardinality(KeyLeased(r))
        /\ Tenant(r) # Tenant(q) =>
              Cardinality(TenantLeased(r)') <= Cardinality(TenantLeased(r))
    BY <1>2, LeasedFinite, FS_Subset
  <1> QED BY <1>3, <1>5, <1>6, <1>7, LeasedFinite

------------------------------------------------------------------------------
LEMMA InitInv == Init => Inv
  <1> SUFFICES ASSUME Init PROVE Inv
    OBVIOUS
  <1>1. TypeOK /\ HeldWhileLooking /\ AllCounted
    BY DEF Init, TypeOK, HeldWhileLooking, Looking, AllCounted, KeyCounted, TenantCounted, Statuses
  <1>2. \A r : KeyLeased(r) = {} /\ TenantLeased(r) = {}
    BY DEF Init, KeyLeased, TenantLeased
  <1>3. Cardinality({}) = 0
    BY FS_EmptySet
  <1>4. KeyBound /\ TenantBound
    BY <1>2, <1>3, QueueAssumption DEF KeyBound, TenantBound
  <1> QED BY <1>1, <1>4 DEF Inv


\* Where rows stays, so do the counts.
LEMMA SameCounts ==
    ASSUME UNCHANGED rows, NEW r
    PROVE  KeyLeased(r)' = KeyLeased(r) /\ TenantLeased(r)' = TenantLeased(r)
  BY DEF KeyLeased, TenantLeased, Key, Tenant

LEMMA BoundsStay ==
    ASSUME UNCHANGED rows, KeyBound, TenantBound PROVE KeyBound' /\ TenantBound'
  BY SameCounts DEF KeyBound, TenantBound

\* A claim keeps what it counted while it keeps its locks.
LEMMA CountedStays ==
    ASSUME Inv, UNCHANGED rows, NEW d \in Claims, pc'[d] = pc[d], at'[d] = at[d],
           \A n \in Names : locks[n] = d => locks'[n] = d
    PROVE  KeyCounted(d)' /\ TenantCounted(d)'
  <1>1. KeyCounted(d) /\ TenantCounted(d) /\ (Looking(d) => at[d] \in RunIds)
    BY DEF Inv, AllCounted, HeldWhileLooking
  <1>2. KeyCounted(d)'
    BY <1>1, NamesOf, SameCounts DEF KeyCounted, Looking, Key
  <1>3. TenantCounted(d)'
    BY <1>1, NamesOf, SameCounts DEF TenantCounted, Looking, Tenant
  <1> QED BY <1>2, <1>3

\* Before it counted anything there is nothing to keep.
LEMMA NothingCounted ==
    ASSUME NEW d \in Claims, pc'[d] \in {"idle", "look", "tenant"}
    PROVE  KeyCounted(d)' /\ TenantCounted(d)'
  BY DEF KeyCounted, TenantCounted

\* The end of a transaction takes nothing from another claim.
LEMMA EndsInv ==
    ASSUME Inv, NEW c \in Claims, Ends(c), UNCHANGED rows PROVE Inv'
  <1>1. TypeOK'
    BY DEF Inv, TypeOK, Ends
  <1>2. ASSUME NEW d \in Claims, d # c
        PROVE  /\ pc'[d] = pc[d] /\ at'[d] = at[d]
               /\ \A r \in RunIds : rowLock[r] = d => rowLock'[r] = d
               /\ \A n \in Names : locks[n] = d => locks'[n] = d
    <2>1. pc'[d] = pc[d] /\ at'[d] = at[d]
      BY <1>2 DEF Inv, TypeOK, Ends
    <2>2. \A r \in RunIds : rowLock[r] = d => rowLock'[r] = d
      BY <1>2 DEF Ends
    <2>3. \A n \in Names : locks[n] = d => locks'[n] = d
      BY <1>2 DEF Ends
    <2> QED BY <2>1, <2>2, <2>3
  <1>3. pc'[c] = "idle"
    BY DEF Inv, TypeOK, Ends
  <1>4. HeldWhileLooking'
    BY <1>2, <1>3 DEF Inv, HeldWhileLooking, Looking
  <1>5. AllCounted'
    BY <1>2, <1>3, CountedStays, NothingCounted DEF AllCounted
  <1> QED BY <1>1, <1>4, <1>5, BoundsStay DEF Inv

\* A claim that reads on (it only moves its own pc, locks and passed) takes nothing from
\* another either; what it must show is its own part.
Reads(c) ==
    /\ \E p \in {"look", "tenant", "count tenant", "key", "count key", "take"} :
          pc' = [pc EXCEPT ![c] = p]
    /\ \A d \in Claims \ {c} : \A n \in Names : locks[n] = d => locks'[n] = d
    /\ UNCHANGED <<rows, rowLock, asked, at, calm>>

LEMMA ReadsInv ==
    ASSUME Inv, TypeOK', NEW c \in Claims, Looking(c), Reads(c),
           KeyCounted(c)', TenantCounted(c)'
    PROVE  Inv'
  <1>1. ASSUME NEW d \in Claims, d # c PROVE pc'[d] = pc[d] /\ at'[d] = at[d]
    BY <1>1 DEF Inv, TypeOK, Reads
  <1>2. HeldWhileLooking'
    BY <1>1 DEF Inv, HeldWhileLooking, Looking, Reads
  <1>3. AllCounted'
    <2> SUFFICES ASSUME NEW d \in Claims, d # c PROVE KeyCounted(d)' /\ TenantCounted(d)'
      BY DEF AllCounted
    <2>1. UNCHANGED rows /\ \A n \in Names : locks[n] = d => locks'[n] = d
      BY DEF Reads
    <2> QED BY <1>1, <2>1, CountedStays
  <1> QED BY <1>2, <1>3, BoundsStay DEF Inv, Reads

LEMMA PassedType ==
    ASSUME TypeOK, NEW c \in Claims, NEW name \in Names,
           passed' = [passed EXCEPT ![c] = @ \cup {name}]
    PROVE  passed' \in [Claims -> SUBSET Names]
  <1>1. passed \in [Claims -> SUBSET Names]
    BY DEF TypeOK
  <1>2. passed[c] \cup {name} \in SUBSET Names
    BY <1>1
  <1> QED BY <1>1, <1>2

\* _locked_for_claim: a lock another claim holds stays its own.
LEMMA LockTypes ==
    ASSUME TypeOK, NEW c \in Claims, NEW name \in Names, NEW next, LockForClaim(c, name, next)
    PROVE  /\ locks' \in [Names -> Claims \cup {None}]
           /\ passed' \in [Claims -> SUBSET Names]
           /\ \/ pc' = [pc EXCEPT ![c] = "look"]
              \/ pc' = [pc EXCEPT ![c] = next] /\ locks'[name] = c
           /\ \A d \in Claims \ {c} : \A n \in Names : locks[n] = d => locks'[n] = d
           /\ \A n \in Names : locks[n] = c => locks'[n] = c
  <1>1. CASE locks[name] \in {None, c}
    <2>1. /\ locks' = [locks EXCEPT ![name] = c] /\ pc' = [pc EXCEPT ![c] = next]
          /\ passed' = passed
      BY <1>1 DEF LockForClaim
    <2> QED BY <1>1, <2>1, QueueAssumption DEF TypeOK
  <1>2. CASE locks[name] \notin {None, c}
    <2>1. /\ passed' = [passed EXCEPT ![c] = @ \cup {name}] /\ pc' = [pc EXCEPT ![c] = "look"]
          /\ locks' = locks
      BY <1>2 DEF LockForClaim, Pass
    <2>2. passed' \in [Claims -> SUBSET Names]
      BY <2>1, PassedType
    <2>3. locks \in [Names -> Claims \cup {None}]
      BY DEF TypeOK
    <2> QED BY <2>1, <2>2, <2>3
  <1> QED BY <1>1, <1>2

LEMMA CountedTypes ==
    ASSUME TypeOK, NEW c \in Claims, NEW name \in Names, NEW next, NEW room,
           Counted(c, room, name, next)
    PROVE  /\ locks' = locks
           /\ passed' \in [Claims -> SUBSET Names]
           /\ \/ pc' = [pc EXCEPT ![c] = "look"]
              \/ pc' = [pc EXCEPT ![c] = next] /\ room
  <1>1. CASE room
    BY <1>1 DEF TypeOK, Counted
  <1>2. CASE ~room
    <2>1. /\ passed' = [passed EXCEPT ![c] = @ \cup {name}] /\ pc' = [pc EXCEPT ![c] = "look"]
          /\ locks' = locks
      BY <1>2 DEF Counted, Pass
    <2>2. passed' \in [Claims -> SUBSET Names]
      BY <2>1, PassedType
    <2> QED BY <2>1, <2>2
  <1> QED BY <1>1, <1>2

------------------------------------------------------------------------------
LEMMA BeginInv ==
    ASSUME Inv, NEW c \in Claims, NEW scope \in Scopes, Begin(c, scope) PROVE Inv'
  <1>1. TypeOK'
    BY DEF Inv, TypeOK, Begin
  <1>2. /\ UNCHANGED <<rows, rowLock, locks, at>> /\ pc'[c] = "look"
        /\ \A d \in Claims : d # c => pc'[d] = pc[d]
    BY DEF Inv, TypeOK, Begin
  <1>3. HeldWhileLooking'
    BY <1>2 DEF Inv, HeldWhileLooking, Looking
  <1>4. AllCounted'
    BY <1>2, CountedStays, NothingCounted DEF AllCounted
  <1> QED BY <1>1, <1>2, <1>3, <1>4, BoundsStay DEF Inv

LEMMA LookInv == ASSUME Inv, NEW c \in Claims, Look(c) PROVE Inv'
  <1>1. PICK r \in RunIds : /\ rowLock' = [rowLock EXCEPT ![r] = c]
                            /\ at' = [at EXCEPT ![c] = r]
                            /\ rowLock[r] \in {None, c} /\ rows[r].status = "QUEUED"
    BY DEF Look, First, Candidates, InScope
  <1>2. /\ UNCHANGED <<rows, locks>> /\ pc'[c] = "tenant" /\ at'[c] = r /\ rowLock'[r] = c
        /\ \A d \in Claims : d # c => pc'[d] = pc[d] /\ at'[d] = at[d]
        /\ \A s \in RunIds : s # r => rowLock'[s] = rowLock[s]
    BY <1>1 DEF Inv, TypeOK, Look
  <1>3. TypeOK'
    BY <1>1 DEF Inv, TypeOK, Look
  <1>4. HeldWhileLooking'
    <2> SUFFICES ASSUME NEW d \in Claims, Looking(d)'
                 PROVE  /\ at'[d] \in RunIds /\ rowLock'[at'[d]] = d
                        /\ rows'[at'[d]].status = "QUEUED"
      BY DEF HeldWhileLooking
    <2>1. CASE d = c
      BY <1>1, <1>2, <2>1
    <2>2. CASE d # c
      <3>1. at[d] \in RunIds /\ rowLock[at[d]] = d /\ rows[at[d]].status = "QUEUED"
        BY <1>2, <2>2 DEF Inv, HeldWhileLooking, Looking
      <3>2. at[d] # r
        BY <1>1, <2>2, <3>1, QueueAssumption
      <3> QED BY <1>2, <2>2, <3>1, <3>2
    <2> QED BY <2>1, <2>2
  <1>5. AllCounted'
    BY <1>2, CountedStays, NothingCounted DEF AllCounted
  <1> QED BY <1>2, <1>3, <1>4, <1>5, BoundsStay DEF Inv

LEMMA TenantHasRoomInv == ASSUME Inv, NEW c \in Claims, TenantHasRoom(c) PROVE Inv'
  <1>0. /\ Looking(c) /\ at[c] \in RunIds /\ Tenant(at[c]) \in Names /\ TypeOK
        /\ UNCHANGED <<rows, rowLock, asked, at, calm>>
        /\ TenantLeased(at[c])' = TenantLeased(at[c])
    BY NamesOf, SameCounts DEF TenantHasRoom, Inv, HeldWhileLooking, Looking
  <1> DEFINE Went(p) == pc' = [pc EXCEPT ![c] = p]
  <1>1. /\ locks' \in [Names -> Claims \cup {None}]
        /\ passed' \in [Claims -> SUBSET Names]
        /\ \A d \in Claims \ {c} : \A n \in Names : locks[n] = d => locks'[n] = d
        /\ \/ Went("look")
           \/ Went("count tenant") /\ MaxRunningPerTenant # None /\ locks'[Tenant(at[c])] = c
           \/ /\ Went("key")
              /\ MaxRunningPerTenant # None =>
                    /\ locks'[Tenant(at[c])] = c
                    /\ Cardinality(TenantLeased(at[c])) < MaxRunningPerTenant
    <2>1. CASE pc[c] = "tenant" /\ MaxRunningPerTenant = None
      BY <1>0, <2>1 DEF TenantHasRoom, TypeOK
    <2>2. CASE pc[c] = "tenant" /\ MaxRunningPerTenant # None
      <3>1. LockForClaim(c, Tenant(at[c]), "count tenant")
        BY <2>2 DEF TenantHasRoom
      <3> QED BY <1>0, <2>2, <3>1, LockTypes
    <2>3. CASE pc[c] = "count tenant"
      <3>1. Counted(c, TenantRoom(at[c]), Tenant(at[c]), "key")
        BY <2>3 DEF TenantHasRoom
      <3>2. locks[Tenant(at[c])] = c
        BY <2>3 DEF Inv, AllCounted, TenantCounted
      <3>3. /\ locks' = locks /\ passed' \in [Claims -> SUBSET Names]
            /\ \/ Went("look")
               \/ Went("key") /\ TenantRoom(at[c])
        BY <1>0, <3>1, CountedTypes
      <3> QED BY <1>0, <3>2, <3>3 DEF TypeOK, TenantRoom
    <2> QED BY <2>1, <2>2, <2>3 DEF TenantHasRoom
  <1>2. pc \in [Claims -> {"idle", "look", "tenant", "count tenant", "key", "count key", "take"}]
    BY <1>0 DEF TypeOK
  <1>3. TypeOK'
    BY <1>0, <1>1, <1>2 DEF TypeOK
  <1>4. Reads(c)
    BY <1>0, <1>1 DEF Reads
  <1>5. Tenant(at[c])' = Tenant(at[c])
    BY <1>0 DEF Tenant
  <1>6. KeyCounted(c)' /\ TenantCounted(c)'
    BY <1>0, <1>1, <1>2, <1>5 DEF KeyCounted, TenantCounted
  <1> QED BY <1>0, <1>3, <1>4, <1>6, ReadsInv

LEMMA KeyHasRoomInv == ASSUME Inv, NEW c \in Claims, KeyHasRoom(c) PROVE Inv'
  <1>0. /\ Looking(c) /\ at[c] \in RunIds /\ Key(at[c]) \in Names /\ Tenant(at[c]) \in Names
        /\ TypeOK /\ pc[c] \in {"key", "count key"}
        /\ UNCHANGED <<rows, rowLock, asked, at, calm>>
        /\ KeyLeased(at[c])' = KeyLeased(at[c]) /\ TenantLeased(at[c])' = TenantLeased(at[c])
    BY NamesOf, SameCounts DEF KeyHasRoom, Inv, HeldWhileLooking, Looking
  <1> DEFINE Went(p) == pc' = [pc EXCEPT ![c] = p]
  <1>1. /\ locks' \in [Names -> Claims \cup {None}]
        /\ passed' \in [Claims -> SUBSET Names]
        /\ \A d \in Claims \ {c} : \A n \in Names : locks[n] = d => locks'[n] = d
        /\ \A n \in Names : locks[n] = c => locks'[n] = c
        /\ \/ Went("look")
           \/ Went("count key") /\ KeyOf[at[c]] # None /\ locks'[Key(at[c])] = c
           \/ /\ Went("take")
              /\ KeyOf[at[c]] # None =>
                    /\ locks'[Key(at[c])] = c
                    /\ Cardinality(KeyLeased(at[c])) < ConcurrencyPerKey
    <2>1. CASE pc[c] = "key" /\ KeyOf[at[c]] = None
      BY <1>0, <2>1 DEF KeyHasRoom, TypeOK
    <2>2. CASE pc[c] = "key" /\ KeyOf[at[c]] # None
      <3>1. LockForClaim(c, Key(at[c]), "count key")
        BY <2>2 DEF KeyHasRoom
      <3> QED BY <1>0, <2>2, <3>1, LockTypes
    <2>3. CASE pc[c] = "count key"
      <3>1. Counted(c, KeyRoom(at[c]), Key(at[c]), "take")
        BY <2>3 DEF KeyHasRoom
      <3>2. locks[Key(at[c])] = c
        BY <2>3 DEF Inv, AllCounted, KeyCounted
      <3>3. /\ locks' = locks /\ passed' \in [Claims -> SUBSET Names]
            /\ \/ Went("look")
               \/ Went("take") /\ KeyRoom(at[c])
        BY <1>0, <3>1, CountedTypes
      <3>4. KeyRoom(at[c]) /\ KeyOf[at[c]] # None =>
                Cardinality(KeyLeased(at[c])) < ConcurrencyPerKey
        BY LeasedFinite, QueueAssumption DEF KeyRoom
      <3> QED BY <1>0, <3>2, <3>3, <3>4 DEF TypeOK
    <2> QED BY <2>1, <2>2, <2>3 DEF KeyHasRoom
  <1>2. pc \in [Claims -> {"idle", "look", "tenant", "count tenant", "key", "count key", "take"}]
    BY <1>0 DEF TypeOK
  <1>3. TypeOK'
    BY <1>0, <1>1, <1>2 DEF TypeOK
  <1>4. Reads(c)
    BY <1>0, <1>1 DEF Reads
  <1>5. Key(at[c])' = Key(at[c]) /\ Tenant(at[c])' = Tenant(at[c])
    BY <1>0 DEF Key, Tenant
  <1>6. KeyCounted(c)'
    BY <1>0, <1>1, <1>2, <1>5 DEF KeyCounted
  <1>7. MaxRunningPerTenant # None =>
            /\ locks[Tenant(at[c])] = c
            /\ Cardinality(TenantLeased(at[c])) < MaxRunningPerTenant
    BY <1>0 DEF Inv, AllCounted, TenantCounted
  <1>8. TenantCounted(c)'
    BY <1>0, <1>1, <1>2, <1>5, <1>7 DEF TenantCounted
  <1> QED BY <1>0, <1>3, <1>4, <1>6, <1>8, ReadsInv

\* Taking the run: only the claim that holds the locks of its key and its tenant does it,
\* so no other claim's count, made under the same lock, is out of date by it.
LEMMA TakeInv == ASSUME Inv, NEW c \in Claims, Take(c) PROVE Inv'
  <1>1. /\ TypeOK /\ at[c] \in RunIds /\ rowLock[at[c]] = c
        /\ KeyOf[at[c]] # None => /\ locks[Key(at[c])] = c
                                  /\ Cardinality(KeyLeased(at[c])) < ConcurrencyPerKey
        /\ MaxRunningPerTenant # None =>
              /\ locks[Tenant(at[c])] = c
              /\ Cardinality(TenantLeased(at[c])) < MaxRunningPerTenant
    BY DEF Take, Inv, HeldWhileLooking, Looking, AllCounted, KeyCounted, TenantCounted
  <1>2. /\ rows' \in [RunIds -> [status : Statuses, queued_at : Times]]
        /\ \A r \in RunIds : r # at[c] => rows'[r] = rows[r]
        /\ Leases(at[c])
    BY <1>1 DEF Take, TypeOK, Leases, Statuses
  <1>3. TypeOK'
    BY <1>1, <1>2 DEF TypeOK, Take, Ends
  <1>4. pc'[c] = "idle"
    BY <1>1 DEF TypeOK, Take, Ends
  <1>5. ASSUME NEW d \in Claims, d # c
        PROVE  /\ pc'[d] = pc[d] /\ at'[d] = at[d]
               /\ \A r \in RunIds : rowLock[r] = d => rowLock'[r] = d
               /\ \A n \in Names : locks[n] = d => locks'[n] = d
    <2>1. pc'[d] = pc[d] /\ at'[d] = at[d]
      BY <1>1, <1>5 DEF TypeOK, Take, Ends
    <2>2. \A r \in RunIds : rowLock[r] = d => rowLock'[r] = d
      BY <1>5 DEF Take, Ends
    <2>3. \A n \in Names : locks[n] = d => locks'[n] = d
      BY <1>5 DEF Take, Ends
    <2> QED BY <2>1, <2>2, <2>3
  <1>6. HeldWhileLooking'
    <2> SUFFICES ASSUME NEW d \in Claims, Looking(d)'
                 PROVE  /\ at'[d] \in RunIds /\ rowLock'[at'[d]] = d
                        /\ rows'[at'[d]].status = "QUEUED"
      BY DEF HeldWhileLooking
    <2>1. d # c
      BY <1>4 DEF Looking
    <2>2. at[d] \in RunIds /\ rowLock[at[d]] = d /\ rows[at[d]].status = "QUEUED"
      BY <1>5, <2>1 DEF Inv, HeldWhileLooking, Looking
    <2>3. at[d] # at[c]
      BY <1>1, <2>1, <2>2
    <2> QED BY <1>2, <1>5, <2>1, <2>2, <2>3
  <1>7. ASSUME NEW d \in Claims, d # c PROVE KeyCounted(d)' /\ TenantCounted(d)'
    <2>1. /\ KeyCounted(d) /\ TenantCounted(d) /\ pc'[d] = pc[d] /\ at'[d] = at[d]
          /\ Looking(d) => at[d] \in RunIds
      BY <1>5, <1>7 DEF Inv, AllCounted, HeldWhileLooking
    <2>2. Key(at[d])' = Key(at[d]) /\ Tenant(at[d])' = Tenant(at[d])
      BY <2>1 DEF Key, Tenant
    <2>3. /\ Cardinality(KeyLeased(at[d])) \in Nat /\ Cardinality(TenantLeased(at[d])) \in Nat
          /\ Cardinality(KeyLeased(at[d])') \in Nat /\ Cardinality(TenantLeased(at[d])') \in Nat
          /\ Key(at[d]) # Key(at[c]) =>
                Cardinality(KeyLeased(at[d])') <= Cardinality(KeyLeased(at[d]))
          /\ Tenant(at[d]) # Tenant(at[c]) =>
                Cardinality(TenantLeased(at[d])') <= Cardinality(TenantLeased(at[d]))
      <3>1. PICK q, p : q = at[d] /\ p = at[c]
        OBVIOUS
      <3>2. KeyLeased(at[d])' = KeyLeased(q)' /\ TenantLeased(at[d])' = TenantLeased(q)'
        BY <2>1, <3>1 DEF KeyLeased, TenantLeased, Key, Tenant
      <3>3. Leases(p)
        BY <1>2, <3>1
      <3>4. /\ Cardinality(KeyLeased(q)) \in Nat /\ Cardinality(TenantLeased(q)) \in Nat
            /\ Cardinality(KeyLeased(q)') \in Nat /\ Cardinality(TenantLeased(q)') \in Nat
            /\ Key(q) # Key(p) => Cardinality(KeyLeased(q)') <= Cardinality(KeyLeased(q))
            /\ Tenant(q) # Tenant(p) =>
                  Cardinality(TenantLeased(q)') <= Cardinality(TenantLeased(q))
        BY <3>3, LeasesCounts, LeasedFinite
      <3> QED BY <3>1, <3>2, <3>4
    <2>4. KeyCounted(d)'
      <3>1. pc[d] = "count key" => KeyOf[at[d]] # None /\ locks'[Key(at[d])] = d
        BY <1>5, <1>7, <2>1, NamesOf DEF KeyCounted, Looking
      <3>2. ASSUME pc[d] = "take", KeyOf[at[d]] # None
            PROVE  /\ locks'[Key(at[d])] = d
                   /\ Cardinality(KeyLeased(at[d])') < ConcurrencyPerKey
        <4>1. /\ at[d] \in RunIds /\ locks[Key(at[d])] = d
              /\ Cardinality(KeyLeased(at[d])) < ConcurrencyPerKey
          BY <2>1, <3>2 DEF KeyCounted, Looking
        <4>2. Key(at[d]) # Key(at[c])
          <5> SUFFICES ASSUME Key(at[d]) = Key(at[c]) PROVE FALSE
            OBVIOUS
          <5>1. KeyOf[at[c]] # None
            BY <3>2 DEF Key
          <5> QED BY <1>1, <1>7, <4>1, <5>1
        <4>3. locks'[Key(at[d])] = d
          BY <1>5, <1>7, <4>1, NamesOf
        <4> QED BY <2>3, <4>1, <4>2, <4>3, QueueAssumption
      <3> QED BY <2>1, <2>2, <3>1, <3>2 DEF KeyCounted
    <2>5. TenantCounted(d)'
      <3>1. pc[d] = "count tenant" => MaxRunningPerTenant # None /\ locks'[Tenant(at[d])] = d
        BY <1>5, <1>7, <2>1, NamesOf DEF TenantCounted, Looking
      <3>2. ASSUME pc[d] \in {"key", "count key", "take"}, MaxRunningPerTenant # None
            PROVE  /\ locks'[Tenant(at[d])] = d
                   /\ Cardinality(TenantLeased(at[d])') < MaxRunningPerTenant
        <4>1. /\ at[d] \in RunIds /\ locks[Tenant(at[d])] = d
              /\ Cardinality(TenantLeased(at[d])) < MaxRunningPerTenant
          BY <2>1, <3>2 DEF TenantCounted, Looking
        <4>2. Tenant(at[d]) # Tenant(at[c])
          BY <1>1, <1>7, <3>2, <4>1
        <4>3. locks'[Tenant(at[d])] = d
          BY <1>5, <1>7, <4>1, NamesOf
        <4>4. MaxRunningPerTenant \in Nat
          BY <3>2, QueueAssumption
        <4>5. Cardinality(TenantLeased(at[d])') <= Cardinality(TenantLeased(at[d]))
          BY <2>3, <4>2
        <4> QED BY <2>3, <4>1, <4>3, <4>4, <4>5
      <3> QED BY <2>1, <2>2, <3>1, <3>2 DEF TenantCounted
    <2> QED BY <2>4, <2>5
  <1>8. AllCounted'
    BY <1>4, <1>7, NothingCounted DEF AllCounted
  <1>9. KeyBound'
    <2> SUFFICES ASSUME NEW r \in RunIds, KeyOf[r] # None
                 PROVE  Cardinality(KeyLeased(r)') <= ConcurrencyPerKey
      BY DEF KeyBound
    <2>1. CASE Key(r) = Key(at[c])
      <3>1. KeyLeased(r) = KeyLeased(at[c]) /\ KeyOf[at[c]] # None
        BY <2>1 DEF KeyLeased, Key
      <3> QED BY <1>1, <1>2, <3>1, LeasesCounts, LeasedFinite, QueueAssumption
    <2>2. CASE Key(r) # Key(at[c])
      <3>1. Cardinality(KeyLeased(r)) <= ConcurrencyPerKey
        BY DEF Inv, KeyBound
      <3> QED BY <1>2, <2>2, <3>1, LeasesCounts, LeasedFinite, QueueAssumption
    <2> QED BY <2>1, <2>2
  <1>10. TenantBound'
    <2> SUFFICES ASSUME NEW r \in RunIds, MaxRunningPerTenant # None
                 PROVE  Cardinality(TenantLeased(r)') <= MaxRunningPerTenant
      BY DEF TenantBound
    <2>1. CASE Tenant(r) = Tenant(at[c])
      <3>1. TenantLeased(r) = TenantLeased(at[c])
        BY <2>1 DEF TenantLeased
      <3> QED BY <1>1, <1>2, <3>1, LeasesCounts, LeasedFinite, QueueAssumption
    <2>2. CASE Tenant(r) # Tenant(at[c])
      <3>1. Cardinality(TenantLeased(r)) <= MaxRunningPerTenant
        BY DEF Inv, TenantBound
      <3> QED BY <1>2, <2>2, <3>1, LeasesCounts, LeasedFinite, QueueAssumption
    <2> QED BY <2>1, <2>2
  <1> QED BY <1>3, <1>6, <1>8, <1>9, <1>10 DEF Inv

\* The other operations wait for the row lock, and lease nothing.
LEMMA BecomesInv ==
    ASSUME Inv, NEW r \in RunIds, NEW from, NEW to \in Statuses \ {"LEASED"}, NEW t \in Times,
           Becomes(r, from, to, t)
    PROVE  Inv'
  <1>1. /\ UNCHANGED <<rowLock, locks, pc, asked, at, passed>> /\ rowLock[r] = None /\ TypeOK
        /\ rows' = [rows EXCEPT ![r] = [status |-> to, queued_at |-> t]]
        /\ calm' = [c \in Claims |-> FALSE]
    BY DEF Becomes, Inv
  <1>2. /\ rows' \in [RunIds -> [status : Statuses, queued_at : Times]]
        /\ \A s \in RunIds : s # r => rows'[s] = rows[s]
        /\ Released
    BY <1>1 DEF TypeOK, Released
  <1>3. TypeOK'
    BY <1>1, <1>2 DEF TypeOK
  <1>4. HeldWhileLooking'
    <2> SUFFICES ASSUME NEW d \in Claims, Looking(d)
                 PROVE  /\ at[d] \in RunIds /\ rowLock[at[d]] = d
                        /\ rows'[at[d]].status = "QUEUED"
      BY <1>1 DEF HeldWhileLooking, Looking
    <2>1. at[d] \in RunIds /\ rowLock[at[d]] = d /\ rows[at[d]].status = "QUEUED"
      BY DEF Inv, HeldWhileLooking
    <2>2. at[d] # r
      BY <1>1, <2>1, QueueAssumption
    <2> QED BY <1>2, <2>1, <2>2
  <1>5. ASSUME NEW d \in Claims PROVE KeyCounted(d)' /\ TenantCounted(d)'
    <2>1. KeyCounted(d) /\ TenantCounted(d)
      BY DEF Inv, AllCounted
    <2>2. /\ Cardinality(KeyLeased(at[d])) \in Nat /\ Cardinality(TenantLeased(at[d])) \in Nat
          /\ Cardinality(KeyLeased(at[d])') \in Nat /\ Cardinality(TenantLeased(at[d])') \in Nat
          /\ Cardinality(KeyLeased(at[d])') <= Cardinality(KeyLeased(at[d]))
          /\ Cardinality(TenantLeased(at[d])') <= Cardinality(TenantLeased(at[d]))
      <3>1. PICK q : q = at[d]
        OBVIOUS
      <3>2. KeyLeased(at[d])' = KeyLeased(q)' /\ TenantLeased(at[d])' = TenantLeased(q)'
        BY <1>1, <3>1 DEF KeyLeased, TenantLeased, Key, Tenant
      <3>3. /\ Cardinality(KeyLeased(q)) \in Nat /\ Cardinality(TenantLeased(q)) \in Nat
            /\ Cardinality(KeyLeased(q)') \in Nat /\ Cardinality(TenantLeased(q)') \in Nat
            /\ Cardinality(KeyLeased(q)') <= Cardinality(KeyLeased(q))
            /\ Cardinality(TenantLeased(q)') <= Cardinality(TenantLeased(q))
        BY <1>2, ReleasedCounts, LeasedFinite
      <3> QED BY <3>1, <3>2, <3>3
    <2>3. Key(at[d])' = Key(at[d]) /\ Tenant(at[d])' = Tenant(at[d])
      BY <1>1 DEF Key, Tenant
    <2>4. /\ Cardinality(KeyLeased(at[d])) < ConcurrencyPerKey =>
                Cardinality(KeyLeased(at[d])') < ConcurrencyPerKey
          /\ MaxRunningPerTenant # None /\ Cardinality(TenantLeased(at[d])) < MaxRunningPerTenant =>
                Cardinality(TenantLeased(at[d])') < MaxRunningPerTenant
      <3>1. MaxRunningPerTenant # None => MaxRunningPerTenant \in Nat
        BY QueueAssumption
      <3>2. ConcurrencyPerKey \in Nat
        BY QueueAssumption
      <3> QED BY <2>2, <3>1, <3>2
    <2>5. pc'[d] = pc[d] /\ KeyOf[at[d]]' = KeyOf[at[d]] /\ \A n \in Names : locks'[n] = locks[n]
      BY <1>1
    <2>6. pc[d] \in {"count tenant", "key", "count key", "take"} =>
              Key(at[d]) \in Names /\ Tenant(at[d]) \in Names
      BY NamesOf DEF Inv, HeldWhileLooking, Looking
    <2>7. KeyCounted(d)'
      BY <1>1, <2>1, <2>3, <2>4, <2>5, <2>6 DEF KeyCounted
    <2>8. TenantCounted(d)'
      BY <1>1, <2>1, <2>3, <2>4, <2>5, <2>6 DEF TenantCounted
    <2> QED BY <2>7, <2>8
  <1>6. KeyBound'
    <2> SUFFICES ASSUME NEW s \in RunIds, KeyOf[s] # None
                 PROVE  Cardinality(KeyLeased(s)') <= ConcurrencyPerKey
      BY DEF KeyBound
    <2>1. Cardinality(KeyLeased(s)) <= ConcurrencyPerKey
      BY DEF Inv, KeyBound
    <2> QED BY <1>2, <2>1, ReleasedCounts, LeasedFinite, QueueAssumption
  <1>7. TenantBound'
    <2> SUFFICES ASSUME NEW s \in RunIds, MaxRunningPerTenant # None
                 PROVE  Cardinality(TenantLeased(s)') <= MaxRunningPerTenant
      BY DEF TenantBound
    <2>1. Cardinality(TenantLeased(s)) <= MaxRunningPerTenant
      BY DEF Inv, TenantBound
    <2> QED BY <1>2, <2>1, ReleasedCounts, LeasedFinite, QueueAssumption
  <1> QED BY <1>3, <1>4, <1>5, <1>6, <1>7 DEF Inv, AllCounted

------------------------------------------------------------------------------
LEMMA NextInv == Inv /\ [Next]_vars => Inv'
  <1> SUFFICES ASSUME Inv, [Next]_vars PROVE Inv'
    OBVIOUS
  <1>1. ASSUME NEW c \in Claims, NEW scope \in Scopes, Begin(c, scope) PROVE Inv'
    BY <1>1, BeginInv
  <1>2. ASSUME NEW c \in Claims, Look(c) PROVE Inv'
    BY <1>2, LookInv
  <1>3. ASSUME NEW c \in Claims, Nothing(c) PROVE Inv'
    BY <1>3, EndsInv DEF Nothing
  <1>4. ASSUME NEW c \in Claims, TenantHasRoom(c) PROVE Inv'
    BY <1>4, TenantHasRoomInv
  <1>5. ASSUME NEW c \in Claims, KeyHasRoom(c) PROVE Inv'
    BY <1>5, KeyHasRoomInv
  <1>6. ASSUME NEW c \in Claims, Take(c) PROVE Inv'
    BY <1>6, TakeInv
  <1>7. ASSUME NEW c \in Claims, Abort(c) PROVE Inv'
    BY <1>7, EndsInv DEF Abort
  <1>8. ASSUME NEW r \in RunIds, Elsewhere(r) PROVE Inv'
    <2>1. rows[r].queued_at \in Times
      BY DEF Inv, TypeOK
    <2>2. ASSUME NEW t \in Times, Enqueue(r, t) PROVE Inv'
      BY <2>2, BecomesInv DEF Enqueue, Statuses
    <2>3. CASE RunInProcess(r)
      BY <2>1, <2>3, BecomesInv DEF RunInProcess, Statuses
    <2>4. CASE Leave(r)
      BY <2>1, <2>4, BecomesInv DEF Leave, Statuses
    <2> QED BY <1>8, <2>2, <2>3, <2>4 DEF Elsewhere
  <1>9. CASE UNCHANGED vars
    <2>1. UNCHANGED <<rows, rowLock, locks, pc, asked, at, passed, calm>>
      BY <1>9 DEF vars
    <2>2. TypeOK' /\ HeldWhileLooking'
      BY <2>1 DEF Inv, TypeOK, HeldWhileLooking, Looking
    <2>3. AllCounted'
      BY <2>1, CountedStays DEF AllCounted
    <2> QED BY <2>1, <2>2, <2>3, BoundsStay DEF Inv
  <1> QED BY <1>1, <1>2, <1>3, <1>4, <1>5, <1>6, <1>7, <1>8, <1>9 DEF Next, ClaimStep

LEMMA InvAlways == Spec => []Inv
  BY InitInv, NextInv, PTL DEF Spec

\* Two claims at once cannot both take the last place under a concurrency_key, however many
\* claims, runs and keys there are: at most CONCURRENCY_PER_KEY runs of a key are leased.
THEOREM KeyIsBounded == Spec => []KeyBound
  <1>1. Inv => KeyBound
    BY DEF Inv
  <1> QED BY <1>1, InvAlways, PTL

\* Nor the last place under a tenant's cap: at most MAX_RUNNING_PER_TENANT runs of a tenant
\* are leased.
THEOREM TenantIsBounded == Spec => []TenantBound
  <1>1. Inv => TenantBound
    BY DEF Inv
  <1> QED BY <1>1, InvAlways, PTL

\* Both caps hold at once, for any number of claims, runs, keys and tenants.
THEOREM CapsAreKept == Spec => []CapsHold
  <1>1. KeyBound /\ TenantBound => CapsHold
    BY DEF CapsHold
  <1> QED BY <1>1, KeyIsBounded, TenantIsBounded, PTL

\* A run a claim looks at stays queued and locked by it until the claim ends, so what the
\* claim decided on when it looked is what it takes.
THEOREM RunIsHeld == Spec => []HeldWhileLooking
  <1>1. Inv => HeldWhileLooking
    BY DEF Inv
  <1> QED BY <1>1, InvAlways, PTL

------------------------------------------------------------------------------
(***************************************************************************)
(* What a claim looks at is of no name it passed over, so what it passes   *)
(* over next is one name more.                                             *)
(***************************************************************************)
Fresh(c) == Looking(c) => Tenant(at[c]) \notin passed[c] /\ Key(at[c]) \notin passed[c]

AllFresh == \A c \in Claims : Fresh(c)

Step(c) == (\E scope \in Scopes : Begin(c, scope)) \/ ClaimStep(c) \/ Abort(c)

\* A step of one claim leaves the others as they are.
LEMMA OthersFresh ==
    ASSUME TypeOK, AllFresh, NEW c \in Claims, NEW d \in Claims, d # c, Step(c)
    PROVE  Fresh(d)'
  <1>1. pc'[d] = pc[d] /\ at'[d] = at[d] /\ passed'[d] = passed[d]
    BY DEF Step, ClaimStep, Begin, Look, Nothing, TenantHasRoom, KeyHasRoom, Take, Abort, Ends,
           LockForClaim, Counted, Pass, TypeOK
  <1> QED BY <1>1 DEF AllFresh, Fresh, Looking, Tenant, Key

LEMMA OwnFresh ==
    ASSUME TypeOK, HeldWhileLooking, AllFresh, NEW c \in Claims, Step(c)
    PROVE  Fresh(c)'
  <1>1. ASSUME NEW scope \in Scopes, Begin(c, scope) PROVE Fresh(c)'
    BY <1>1 DEF Begin, Fresh, Looking, TypeOK
  <1>2. CASE Look(c)
    BY <1>2 DEF Look, First, Candidates, Fresh, Looking, TypeOK, Tenant, Key
  <1>3. CASE Nothing(c) \/ Take(c) \/ Abort(c)
    BY <1>3 DEF Nothing, Take, Abort, Ends, Fresh, Looking, TypeOK
  <1>4. CASE TenantHasRoom(c)
    BY <1>4 DEF TenantHasRoom, LockForClaim, Counted, Pass, AllFresh, Fresh, Looking, TypeOK,
                Tenant, Key
  <1>5. CASE KeyHasRoom(c)
    BY <1>5 DEF KeyHasRoom, LockForClaim, Counted, Pass, AllFresh, Fresh, Looking, TypeOK,
                Tenant, Key
  <1> QED BY <1>1, <1>2, <1>3, <1>4, <1>5 DEF Step, ClaimStep

LEMMA FreshAlways == Spec => []AllFresh
  <1>1. Init => AllFresh
    BY DEF Init, AllFresh, Fresh, Looking
  <1>2. Inv /\ AllFresh /\ [Next]_vars => AllFresh'
    <2> SUFFICES ASSUME Inv, AllFresh, [Next]_vars, NEW d \in Claims PROVE Fresh(d)'
      BY DEF AllFresh
    <2>1. ASSUME NEW c \in Claims, Step(c) PROVE Fresh(d)'
      BY <2>1, OthersFresh, OwnFresh DEF Inv
    <2>2. CASE UNCHANGED <<pc, at, passed>>
      BY <2>2 DEF AllFresh, Fresh, Looking, Tenant, Key
    <2>3. ASSUME NEW r \in RunIds, Elsewhere(r) PROVE UNCHANGED <<pc, at, passed>>
      BY <2>3 DEF Elsewhere, Enqueue, RunInProcess, Leave, Becomes
    <2> QED BY <2>1, <2>2, <2>3 DEF Next, Step, vars
  <1> QED BY <1>1, <1>2, InvAlways, PTL DEF Spec

\* A claim looks at no name twice: each time round it has passed over one name more, so that
\* it ends, however many claims, runs, keys and tenants there are (claim's loop).
THEOREM ClaimsProgress == Spec => ClaimProgresses
  <1> DEFINE Progress == \A c \in Claims :
                             Looking(c) /\ pc'[c] = "look" =>
                                 passed[c] \subseteq passed'[c] /\ passed[c] # passed'[c]
  <1>1. Inv /\ AllFresh /\ [Next]_vars => [Progress]_vars
    <2> SUFFICES ASSUME Inv, AllFresh, Next, NEW d \in Claims, Looking(d), pc'[d] = "look"
                 PROVE  passed[d] \subseteq passed'[d] /\ passed[d] # passed'[d]
      OBVIOUS
    <2>1. ASSUME NEW c \in Claims, Step(c) PROVE c = d
      BY <2>1 DEF Step, ClaimStep, Begin, Look, Nothing, TenantHasRoom, KeyHasRoom, Take, Abort, Ends,
                  LockForClaim, Counted, Pass, Inv, TypeOK, Looking
    <2>2. Step(d)
      <3>1. ASSUME NEW r \in RunIds, Elsewhere(r) PROVE FALSE
        BY <3>1 DEF Elsewhere, Enqueue, RunInProcess, Leave, Becomes, Looking
      <3> QED BY <2>1, <3>1 DEF Next, Step
    <2>0. Tenant(at[d]) \notin passed[d] /\ Key(at[d]) \notin passed[d]
      BY DEF AllFresh, Fresh
    <2>3. CASE TenantHasRoom(d)
      <3>1. Pass(d, Tenant(at[d]))
        BY <2>3 DEF TenantHasRoom, LockForClaim, Counted, Inv, TypeOK, Looking
      <3> QED BY <2>0, <3>1 DEF Pass, Inv, TypeOK
    <2>4. CASE KeyHasRoom(d)
      <3>1. Pass(d, Key(at[d]))
        BY <2>4 DEF KeyHasRoom, LockForClaim, Counted, Inv, TypeOK, Looking
      <3> QED BY <2>0, <3>1 DEF Pass, Inv, TypeOK
    <2>5. ~(Look(d) \/ Nothing(d) \/ Take(d) \/ Abort(d) \/ \E scope \in Scopes : Begin(d, scope))
      BY DEF Look, Nothing, Take, Abort, Begin, Ends, Looking, Inv, TypeOK
    <2> QED BY <2>2, <2>3, <2>4, <2>5 DEF Step, ClaimStep
  <1> QED BY <1>1, InvAlways, FreshAlways, PTL DEF Spec, ClaimProgresses

------------------------------------------------------------------------------
(***************************************************************************)
(* A claim nobody disturbs.  What it counted stays so, the others hold     *)
(* nothing, and what it passed over has no room.                           *)
(***************************************************************************)
HoldsNothing(d) ==
    /\ passed[d] = {}
    /\ \A r \in RunIds : rowLock[r] # d
    /\ \A n \in Names : locks[n] # d

IdleHoldNothing == \A d \in Claims : pc[d] = "idle" => HoldsNothing(d)

Alone(c) == \A d \in Claims \ {c} : pc[d] = "idle"

\* No run of a name that was passed over has room.
PassedAreFull(c) ==
    \A r \in RunIds : /\ Tenant(r) \in passed[c] => ~TenantRoom(r)
                      /\ Key(r) \in passed[c] => ~KeyRoom(r)

\* The run it looks at is a first one, and what it counted of it stands.
LooksRight(c) ==
    /\ Looking(c) => at[c] \in First(Candidates(c), asked[c])
    /\ pc[c] \in {"key", "count key", "take"} => TenantRoom(at[c])
    /\ pc[c] = "take" => KeyRoom(at[c])

Undisturbed(c) == calm[c] => pc[c] # "idle" /\ Alone(c) /\ PassedAreFull(c) /\ LooksRight(c)

AllUndisturbed == \A c \in Claims : Undisturbed(c)

LEMMA SameRoom ==
    \A r, s : /\ Tenant(r) = Tenant(s) => (TenantRoom(r) <=> TenantRoom(s))
              /\ Key(r) = Key(s) => (KeyRoom(r) <=> KeyRoom(s))
  <1>1. ASSUME NEW r, NEW s, Tenant(r) = Tenant(s) PROVE TenantRoom(r) <=> TenantRoom(s)
    <2>1. TenantLeased(r) = TenantLeased(s)
      BY <1>1 DEF TenantLeased
    <2> QED BY <2>1 DEF TenantRoom
  <1>2. ASSUME NEW r, NEW s, Key(r) = Key(s) PROVE KeyRoom(r) <=> KeyRoom(s)
    <2>1. KeyRunning(r) = KeyRunning(s)
      BY <1>2 DEF KeyRunning
    <2>2. KeyOf[r] = KeyOf[s]
      BY <1>2 DEF Key
    <2> QED BY <2>1, <2>2 DEF KeyRoom
  <1> QED BY <1>1, <1>2

\* The claim order is the order of places.
LEMMA PlacesOrder ==
    ASSUME TypeOK, NEW r \in RunIds, NEW s \in RunIds, NEW scope,
           Precedes(Place(r, scope), Place(s, scope))
    PROVE  Before(r, s, scope)
  <1>1. PICK hr : hr = Held(TenantOf[r], scope)
    OBVIOUS
  <1>2. PICK hs : hs = Held(TenantOf[s], scope)
    OBVIOUS
  <1>3. PICK qr \in Int, qs \in Int : qr = rows[r].queued_at /\ qs = rows[s].queued_at
    BY QueueAssumption DEF TypeOK
  <1>4. PICK pr \in Int, ps \in Int : pr = PriorityOf[r] /\ ps = PriorityOf[s]
    BY QueueAssumption
  <1>5. Place(r, scope) = <<hr, -pr, qr>> /\ Place(s, scope) = <<hs, -ps, qs>>
    BY <1>1, <1>2, <1>3, <1>4 DEF Place
  <1>6. PICK i \in 1..3 : /\ Place(r, scope)[i] < Place(s, scope)[i]
                          /\ \A j \in 1..(i - 1) : Place(r, scope)[j] = Place(s, scope)[j]
    BY DEF Precedes
  <1>7. CASE i = 1
    <2>1. hr < hs
      BY <1>5, <1>6, <1>7
    <2> QED BY <1>1, <1>2, <2>1 DEF Before
  <1>8. CASE i = 2
    <2>1. hr = hs /\ -pr < -ps
      BY <1>5, <1>6, <1>8
    <2>2. pr > ps
      BY <2>1
    <2> QED BY <1>1, <1>2, <1>4, <2>1, <2>2 DEF Before
  <1>9. CASE i = 3
    <2>1. /\ Place(r, scope)[1] = Place(s, scope)[1]
          /\ Place(r, scope)[2] = Place(s, scope)[2]
          /\ Place(r, scope)[3] < Place(s, scope)[3]
      BY <1>6, <1>9
    <2>2. hr = hs /\ -pr = -ps /\ qr < qs
      BY <1>5, <2>1
    <2>3. pr = ps
      BY <2>2
    <2> QED BY <1>1, <1>2, <1>3, <1>4, <2>2, <2>3 DEF Before
  <1> QED BY <1>6, <1>7, <1>8, <1>9

\* What has room is a candidate of a claim that nobody disturbs.
LEMMA RoomIsCandidate ==
    ASSUME TypeOK, IdleHoldNothing, NEW c \in Claims, Undisturbed(c), calm[c],
           NEW r \in Claimable(asked[c])
    PROVE  r \in Candidates(c)
  <1>1. r \in RunIds /\ InScope(r, asked[c]) /\ TenantRoom(r) /\ KeyRoom(r)
    BY DEF Claimable
  <1>2. Tenant(r) \notin passed[c] /\ Key(r) \notin passed[c]
    BY <1>1 DEF Undisturbed, PassedAreFull
  <1>3. rowLock[r] \in {None, c}
    <2>1. \A d \in Claims \ {c} : rowLock[r] # d
      BY <1>1 DEF Undisturbed, Alone, IdleHoldNothing, HoldsNothing
    <2> QED BY <1>1, <2>1 DEF TypeOK
  <1> QED BY <1>1, <1>2, <1>3 DEF Candidates

\* What a step that leaves the rows leaves of the counts and the order.
LEMMA RowsStay ==
    ASSUME rows' = rows
    PROVE  /\ \A r : (TenantRoom(r)' <=> TenantRoom(r)) /\ (KeyRoom(r)' <=> KeyRoom(r))
           /\ \A r, scope : InScope(r, scope)' <=> InScope(r, scope)
           /\ \A r, s, scope : Before(r, s, scope)' <=> Before(r, s, scope)
  <1>1. \A r : TenantRoom(r)' <=> TenantRoom(r)
    BY DEF TenantRoom, TenantLeased, Tenant
  <1>2. \A r : KeyRoom(r)' <=> KeyRoom(r)
    BY DEF KeyRoom, KeyRunning, Running, Key
  <1>3. \A r, scope : InScope(r, scope)' <=> InScope(r, scope)
    BY DEF InScope
  <1>4. \A tenant, scope : Held(tenant, scope)' = Held(tenant, scope)
    BY DEF Held
  <1>5. \A r, s, scope : Before(r, s, scope)' <=> Before(r, s, scope)
    BY <1>4 DEF Before
  <1> QED BY <1>1, <1>2, <1>3, <1>5

\* The locks a claim alone may meet are its own.
Unlocked(c) == \A r \in RunIds : rowLock[r] \in {None, c}

LEMMA CandidatesStay ==
    ASSUME rows' = rows, NEW c, asked'[c] = asked[c], passed'[c] = passed[c],
           Unlocked(c), Unlocked(c)'
    PROVE  First(Candidates(c), asked[c])' = First(Candidates(c), asked[c])
  <1>1. Candidates(c)' = Candidates(c)
    BY RowsStay DEF Candidates, Unlocked, Tenant, Key
  <1> QED BY <1>1, RowsStay DEF First

LEMMA IdleNext ==
    ASSUME TypeOK, IdleHoldNothing, [Next]_vars
    PROVE  IdleHoldNothing'
  <1> SUFFICES ASSUME NEW d \in Claims, pc'[d] = "idle" PROVE HoldsNothing(d)'
    BY DEF IdleHoldNothing
  <1>1. CASE UNCHANGED <<rowLock, locks, passed, pc>>
    BY <1>1 DEF IdleHoldNothing, HoldsNothing
  <1>2. ASSUME NEW r \in RunIds, Elsewhere(r) PROVE UNCHANGED <<rowLock, locks, passed, pc>>
    BY <1>2 DEF Elsewhere, Enqueue, RunInProcess, Leave, Becomes
  <1>3. ASSUME NEW c \in Claims, Ends(c) PROVE HoldsNothing(d)'
    <2>1. None # d
      BY QueueAssumption
    <2>2. CASE c = d
      BY <1>3, <2>1, <2>2 DEF Ends, HoldsNothing, TypeOK
    <2>3. CASE c # d
      <3>1. HoldsNothing(d)
        BY <1>3, <2>3 DEF Ends, IdleHoldNothing, TypeOK
      <3> QED BY <1>3, <2>1, <2>3, <3>1 DEF Ends, HoldsNothing, TypeOK
    <2> QED BY <2>2, <2>3
  <1>4. ASSUME NEW c \in Claims, NEW scope \in Scopes, Begin(c, scope) PROVE HoldsNothing(d)'
    <2>1. c # d
      BY <1>4 DEF Begin, TypeOK
    <2> QED BY <1>4, <2>1 DEF Begin, IdleHoldNothing, HoldsNothing, TypeOK
  <1>5. ASSUME NEW c \in Claims, Look(c) PROVE HoldsNothing(d)'
    <2>1. c # d
      BY <1>5 DEF Look, TypeOK
    <2>2. HoldsNothing(d) /\ passed' = passed /\ locks' = locks
      BY <1>5, <2>1 DEF Look, IdleHoldNothing, TypeOK
    <2>3. \A r \in RunIds : rowLock'[r] # d
      BY <1>5, <2>1, <2>2 DEF Look, HoldsNothing, TypeOK
    <2> QED BY <2>2, <2>3 DEF HoldsNothing
  <1>6. ASSUME NEW c \in Claims, TenantHasRoom(c) \/ KeyHasRoom(c) PROVE HoldsNothing(d)'
    <2>1. c # d
      BY <1>6 DEF TenantHasRoom, KeyHasRoom, LockForClaim, Counted, Pass, TypeOK
    <2>2. pc'[d] = pc[d] /\ passed'[d] = passed[d] /\ rowLock' = rowLock
      BY <1>6, <2>1 DEF TenantHasRoom, KeyHasRoom, LockForClaim, Counted, Pass, TypeOK
    <2>3. \A n \in Names : locks'[n] \in {locks[n], c}
      BY <1>6 DEF TenantHasRoom, KeyHasRoom, LockForClaim, Counted, Pass, TypeOK
    <2> QED BY <2>1, <2>2, <2>3 DEF IdleHoldNothing, HoldsNothing
  <1> QED
    BY <1>1, <1>2, <1>3, <1>4, <1>5, <1>6 DEF Next, ClaimStep, Nothing, Take, Abort, vars

\* A step of another claim begins one, and the calm is over.
LEMMA OthersDisturb ==
    ASSUME TypeOK, NEW c \in Claims, NEW d \in Claims, d # c, Undisturbed(d), Step(c)
    PROVE  Undisturbed(d)'
  <1>1. CASE \E scope \in Scopes : Begin(c, scope)
    BY <1>1 DEF Begin, Undisturbed
  <1>2. CASE ClaimStep(c) \/ Abort(c)
    <2>1. pc[c] # "idle"
      BY <1>2 DEF ClaimStep, Look, Nothing, TenantHasRoom, KeyHasRoom, Take, Abort
    <2>2. ~calm[d]
      BY <2>1 DEF Undisturbed, Alone
    <2>3. calm'[d] = calm[d]
      BY <1>2 DEF ClaimStep, Look, Nothing, TenantHasRoom, KeyHasRoom, Take, Abort, Ends, TypeOK
    <2> QED BY <2>2, <2>3 DEF Undisturbed
  <1> QED BY <1>1, <1>2 DEF Step

LEMMA AloneUnlocked ==
    ASSUME TypeOK, IdleHoldNothing, NEW c \in Claims, Alone(c)
    PROVE  Unlocked(c) /\ \A n \in Names : locks[n] \in {None, c}
  <1>1. \A d \in Claims \ {c} : HoldsNothing(d)
    BY DEF Alone, IdleHoldNothing
  <1> QED BY <1>1 DEF HoldsNothing, Unlocked, TypeOK

\* The same in the next state.
LEMMA AloneUnlockedNext ==
    ASSUME TypeOK', IdleHoldNothing', NEW c \in Claims, Alone(c)'
    PROVE  Unlocked(c)'
  <1>1. ASSUME NEW r \in RunIds PROVE rowLock'[r] \in {None, c}
    <2>1. rowLock'[r] \in Claims \cup {None}
      BY DEF TypeOK
    <2>2. ASSUME NEW d \in Claims, d # c PROVE rowLock'[r] # d
      BY <2>2 DEF Alone, IdleHoldNothing, HoldsNothing
    <2> QED BY <2>1, <2>2
  <1> QED BY <1>1 DEF Unlocked

\* A count under a lock that nobody else has: the claim goes on, with room, or passes the
\* name over, without.
CountsRight(c, room, name) ==
    \/ passed'[c] = passed[c] /\ (pc'[c] \in {"key", "take"} => room)
    \/ pc'[c] = "look" /\ ~room /\ passed'[c] = passed[c] \cup {name}

LEMMA OwnUndisturbed ==
    ASSUME Inv, IdleHoldNothing, IdleHoldNothing', NEW c \in Claims, Undisturbed(c), Step(c), TypeOK'
    PROVE  Undisturbed(c)'
  <1> SUFFICES ASSUME calm'[c] PROVE Undisturbed(c)'
    BY DEF Undisturbed
  <1>0. TypeOK
    BY DEF Inv
  <1>1. ASSUME NEW scope \in Scopes, Begin(c, scope) PROVE Undisturbed(c)'
    <2>1. pc'[c] = "look" /\ Alone(c)'
      BY <1>0, <1>1 DEF Begin, Alone, TypeOK
    <2>2. passed'[c] = {}
      BY <1>1 DEF Begin, IdleHoldNothing, HoldsNothing
    <2>3. PassedAreFull(c)'
      BY <2>2 DEF PassedAreFull
    <2> QED BY <2>1, <2>3 DEF Undisturbed, LooksRight, Looking
  <1>2. ASSUME Nothing(c) \/ Take(c) \/ Abort(c) PROVE FALSE
    BY <1>0, <1>2 DEF Nothing, Take, Abort, Ends, TypeOK
  <1>3. ASSUME Look(c) \/ TenantHasRoom(c) \/ KeyHasRoom(c)
        PROVE  /\ rows' = rows /\ asked' = asked /\ calm' = calm
               /\ pc'[c] # "idle" /\ Alone(c) /\ Alone(c)'
               /\ PassedAreFull(c) /\ LooksRight(c)
               /\ Unlocked(c) /\ Unlocked(c)' /\ \A n \in Names : locks[n] \in {None, c}
    <2>1. rows' = rows /\ asked' = asked /\ calm' = calm
      BY <1>3 DEF Look, TenantHasRoom, KeyHasRoom
    <2>2. pc'[c] # "idle" /\ \A d \in Claims \ {c} : pc'[d] = pc[d]
      <3>1. \E stage \in {"tenant", "count tenant", "key", "count key", "take", "look"} :
                pc' = [pc EXCEPT ![c] = stage]
        <4>1. CASE Look(c)
          BY <4>1 DEF Look
        <4>2. CASE TenantHasRoom(c)
          BY <4>2 DEF TenantHasRoom, LockForClaim, Counted, Pass
        <4>3. CASE KeyHasRoom(c)
          BY <4>3 DEF KeyHasRoom, LockForClaim, Counted, Pass
        <4> QED BY <1>3, <4>1, <4>2, <4>3
      <3>2. pc = [d \in Claims |-> pc[d]]
        BY <1>0 DEF TypeOK
      <3> QED BY <3>1, <3>2
    <2>3. Alone(c) /\ PassedAreFull(c) /\ LooksRight(c)
      BY <2>1 DEF Undisturbed
    <2>4. Alone(c)'
      BY <2>2, <2>3 DEF Alone
    <2>5. Unlocked(c) /\ \A n \in Names : locks[n] \in {None, c}
      BY <1>0, <2>3, AloneUnlocked
    <2>6. Unlocked(c)'
      BY <2>4, AloneUnlockedNext
    <2> QED BY <2>1, <2>2, <2>3, <2>4, <2>5, <2>6
  <1>4. CASE Look(c)
    <2>1. /\ passed' = passed /\ pc'[c] = "tenant"
          /\ at'[c] \in First(Candidates(c), asked[c])
      BY <1>0, <1>4 DEF Look, TypeOK
    <2>2. PassedAreFull(c)'
      BY <1>3, <1>4, <2>1, RowsStay DEF PassedAreFull, Tenant, Key
    <2>3. First(Candidates(c), asked[c])' = First(Candidates(c), asked[c])
      BY <1>3, <1>4, <2>1, CandidatesStay
    <2>4. LooksRight(c)'
      BY <2>1, <2>3 DEF LooksRight
    <2> QED BY <1>3, <1>4, <2>2, <2>4 DEF Undisturbed
  <1>5. ASSUME TenantHasRoom(c) \/ KeyHasRoom(c), at'[c] = at[c], passed'[c] = passed[c], Looking(c),
               pc'[c] \in {"key", "count key", "take"} => TenantRoom(at[c]),
               pc'[c] = "take" => KeyRoom(at[c])
        PROVE  Undisturbed(c)'
    <2>1. PassedAreFull(c)'
      BY <1>3, <1>5, RowsStay DEF PassedAreFull, Tenant, Key
    <2>2. First(Candidates(c), asked[c])' = First(Candidates(c), asked[c])
      BY <1>3, <1>5, CandidatesStay
    <2>3. at'[c] \in First(Candidates(c), asked[c])'
      BY <1>3, <1>5, <2>2 DEF LooksRight
    <2>4. TenantRoom(at[c])' <=> TenantRoom(at[c])
      BY <1>3, <1>5, RowsStay DEF TenantRoom, TenantLeased, Tenant
    <2>5. KeyRoom(at[c])' <=> KeyRoom(at[c])
      BY <1>3, <1>5, RowsStay DEF KeyRoom, KeyRunning, Running, Key
    <2>6. LooksRight(c)'
      BY <1>5, <2>3, <2>4, <2>5 DEF LooksRight
    <2> QED BY <1>3, <1>5, <2>1, <2>6 DEF Undisturbed
  <1>6. ASSUME TenantHasRoom(c) \/ KeyHasRoom(c), pc'[c] = "look", PassedAreFull(c)'
        PROVE  Undisturbed(c)'
    BY <1>3, <1>6 DEF Undisturbed, LooksRight, Looking
  <1>7. CASE TenantHasRoom(c)
    <2>1. Looking(c) /\ at' = at /\ at[c] \in RunIds
      BY <1>7 DEF TenantHasRoom, Looking, Inv, HeldWhileLooking
    <2>2. locks[Tenant(at[c])] \in {None, c}
      BY <1>3, <1>7, <2>1, NamesOf
    <2>3. MaxRunningPerTenant = None => TenantRoom(at[c])
      BY DEF TenantRoom
    <2>4. CountsRight(c, TenantRoom(at[c]), Tenant(at[c])) /\ pc'[c] \in {"key", "count tenant", "look"}
      <3>1. CASE pc[c] = "tenant"
        BY <1>0, <1>7, <2>2, <2>3, <3>1 DEF TenantHasRoom, LockForClaim, CountsRight, TypeOK
      <3>2. CASE pc[c] = "count tenant"
        BY <1>0, <1>7, <3>2 DEF TenantHasRoom, Counted, Pass, CountsRight, TypeOK
      <3> QED BY <1>7, <3>1, <3>2 DEF TenantHasRoom
    <2>5. CASE passed'[c] = passed[c] /\ (pc'[c] \in {"key", "take"} => TenantRoom(at[c]))
      BY <1>5, <1>7, <2>1, <2>4, <2>5
    <2>6. CASE pc'[c] = "look" /\ ~TenantRoom(at[c]) /\ passed'[c] = passed[c] \cup {Tenant(at[c])}
      <3>1. ASSUME NEW r \in RunIds
            PROVE  /\ Tenant(r) \in passed'[c] => ~TenantRoom(r)
                   /\ Key(r) \in passed'[c] => ~KeyRoom(r)
        <4>1. Key(r) # Tenant(at[c])
          BY DEF Key, Tenant
        <4>2. Tenant(r) = Tenant(at[c]) => ~TenantRoom(r)
          BY <2>6, SameRoom
        <4> QED BY <1>3, <1>7, <2>6, <4>1, <4>2 DEF PassedAreFull
      <3>2. PassedAreFull(c)'
        BY <1>3, <1>7, <3>1, RowsStay DEF PassedAreFull, Tenant, Key
      <3> QED BY <1>6, <1>7, <2>6, <3>2
    <2> QED BY <2>4, <2>5, <2>6 DEF CountsRight
  <1>8. CASE KeyHasRoom(c)
    <2>1. Looking(c) /\ at' = at /\ at[c] \in RunIds
      BY <1>8 DEF KeyHasRoom, Looking, Inv, HeldWhileLooking
    <2>2. locks[Key(at[c])] \in {None, c}
      BY <1>3, <1>8, <2>1, NamesOf
    <2>3. KeyOf[at[c]] = None => KeyRoom(at[c])
      BY DEF KeyRoom
    <2>4. TenantRoom(at[c])
      BY <1>3, <1>8 DEF KeyHasRoom, LooksRight
    <2>5. CountsRight(c, KeyRoom(at[c]), Key(at[c])) /\ pc'[c] \in {"take", "count key", "look"}
      <3>1. CASE pc[c] = "key"
        BY <1>0, <1>8, <2>2, <2>3, <3>1 DEF KeyHasRoom, LockForClaim, CountsRight, TypeOK
      <3>2. CASE pc[c] = "count key"
        BY <1>0, <1>8, <3>2 DEF KeyHasRoom, Counted, Pass, CountsRight, TypeOK
      <3> QED BY <1>8, <3>1, <3>2 DEF KeyHasRoom
    <2>6. CASE passed'[c] = passed[c] /\ (pc'[c] \in {"key", "take"} => KeyRoom(at[c]))
      BY <1>5, <1>8, <2>1, <2>4, <2>6
    <2>7. CASE pc'[c] = "look" /\ ~KeyRoom(at[c]) /\ passed'[c] = passed[c] \cup {Key(at[c])}
      <3>1. ASSUME NEW r \in RunIds
            PROVE  /\ Tenant(r) \in passed'[c] => ~TenantRoom(r)
                   /\ Key(r) \in passed'[c] => ~KeyRoom(r)
        <4>1. Tenant(r) # Key(at[c])
          BY DEF Key, Tenant
        <4>2. Key(r) = Key(at[c]) => ~KeyRoom(r)
          BY <2>7, SameRoom
        <4> QED BY <1>3, <1>8, <2>7, <4>1, <4>2 DEF PassedAreFull
      <3>2. PassedAreFull(c)'
        BY <1>3, <1>8, <3>1, RowsStay DEF PassedAreFull, Tenant, Key
      <3> QED BY <1>6, <1>8, <2>7, <3>2
    <2> QED BY <2>5, <2>6, <2>7 DEF CountsRight
  <1> QED BY <1>1, <1>2, <1>4, <1>7, <1>8 DEF Step, ClaimStep

LEMMA UndisturbedAlways == Spec => [](IdleHoldNothing /\ AllUndisturbed)
  <1>1. Init => IdleHoldNothing /\ AllUndisturbed
    <2> SUFFICES ASSUME Init PROVE IdleHoldNothing /\ AllUndisturbed
      OBVIOUS
    <2>1. IdleHoldNothing
      BY QueueAssumption DEF Init, IdleHoldNothing, HoldsNothing
    <2>2. AllUndisturbed
      BY DEF Init, AllUndisturbed, Undisturbed
    <2> QED BY <2>1, <2>2
  <1>2. Inv /\ Inv' /\ IdleHoldNothing /\ AllUndisturbed /\ [Next]_vars
        => IdleHoldNothing' /\ AllUndisturbed'
    <2> SUFFICES ASSUME Inv, Inv', IdleHoldNothing, AllUndisturbed, [Next]_vars
                 PROVE  IdleHoldNothing' /\ AllUndisturbed'
      OBVIOUS
    <2>1. IdleHoldNothing'
      BY IdleNext DEF Inv
    <2>2. ASSUME NEW c \in Claims, Step(c) PROVE AllUndisturbed'
      BY <2>1, <2>2, OthersDisturb, OwnUndisturbed DEF AllUndisturbed, Inv
    <2>3. ASSUME NEW r \in RunIds, Elsewhere(r) PROVE AllUndisturbed'
      BY <2>3 DEF Elsewhere, Enqueue, RunInProcess, Leave, Becomes, AllUndisturbed, Undisturbed
    <2>4. CASE UNCHANGED vars
      <3>1. ASSUME NEW c \in Claims, calm[c] PROVE LooksRight(c)' /\ PassedAreFull(c)'
        <4>1. LooksRight(c) /\ PassedAreFull(c) /\ Unlocked(c)
          BY <3>1, AloneUnlocked DEF AllUndisturbed, Undisturbed, Inv
        <4>2. /\ rows' = rows /\ asked' = asked /\ passed' = passed /\ at' = at /\ pc' = pc
              /\ rowLock' = rowLock
          BY <2>4 DEF vars
        <4>3. First(Candidates(c), asked[c])' = First(Candidates(c), asked[c])
          BY <4>1, <4>2, CandidatesStay DEF Unlocked
        <4>4. TenantRoom(at[c])' <=> TenantRoom(at[c])
          BY <4>2, RowsStay DEF TenantRoom, TenantLeased, Tenant
        <4>5. KeyRoom(at[c])' <=> KeyRoom(at[c])
          BY <4>2, RowsStay DEF KeyRoom, KeyRunning, Running, Key
        <4>6. LooksRight(c)'
          BY <4>1, <4>2, <4>3, <4>4, <4>5 DEF LooksRight, Looking
        <4>7. PassedAreFull(c)'
          BY <4>1, <4>2, RowsStay DEF PassedAreFull, Tenant, Key
        <4> QED BY <4>6, <4>7
      <3>2. calm' = calm /\ pc' = pc
        BY <2>4 DEF vars
      <3>3. ASSUME NEW c \in Claims PROVE Undisturbed(c)'
        <4>1. calm[c] => Alone(c) /\ pc[c] # "idle"
          BY DEF AllUndisturbed, Undisturbed
        <4>2. calm[c] => Alone(c)' /\ pc'[c] # "idle"
          BY <3>2, <4>1 DEF Alone
        <4>3. calm[c] => LooksRight(c)' /\ PassedAreFull(c)'
          BY <3>1
        <4>4. calm'[c] <=> calm[c]
          BY <3>2
        <4> QED BY <4>2, <4>3, <4>4 DEF Undisturbed
      <3> QED BY <2>1, <3>3 DEF AllUndisturbed
    <2> QED BY <2>1, <2>2, <2>3, <2>4 DEF Next, Step
  <1> QED BY <1>1, <1>2, InvAlways, PTL DEF Spec

\* A claim that nobody disturbs takes, of all runs that have room, one that no other precedes
\* in the claim order, and answers nothing only when none has room: for any number of tenants,
\* keys, agents and runs, and any scope (claim, _next_queued).
THEOREM ClaimsFindTheNext == Spec => ClaimFindsNext
  <1> DEFINE Finds ==
        \A c \in Claims :
          /\ calm[c] /\ Take(c) =>
                /\ at[c] \in Claimable(asked[c])
                /\ \A r \in Claimable(asked[c]) :
                      ~Precedes(Place(r, asked[c]), Place(at[c], asked[c]))
          /\ calm[c] /\ Nothing(c) => Claimable(asked[c]) = {}
  <1>1. Inv /\ IdleHoldNothing /\ AllUndisturbed => Finds
    <2> SUFFICES ASSUME Inv, IdleHoldNothing, AllUndisturbed, NEW c \in Claims, calm[c]
                 PROVE  /\ Take(c) =>
                              /\ at[c] \in Claimable(asked[c])
                              /\ \A r \in Claimable(asked[c]) :
                                    ~Precedes(Place(r, asked[c]), Place(at[c], asked[c]))
                        /\ Nothing(c) => Claimable(asked[c]) = {}
      OBVIOUS
    <2>1. Undisturbed(c) /\ LooksRight(c) /\ TypeOK
      BY DEF AllUndisturbed, Undisturbed, Inv
    <2>2. ASSUME Take(c)
          PROVE  /\ at[c] \in Claimable(asked[c])
                 /\ \A r \in Claimable(asked[c]) :
                       ~Precedes(Place(r, asked[c]), Place(at[c], asked[c]))
      <3>1. at[c] \in First(Candidates(c), asked[c]) /\ TenantRoom(at[c]) /\ KeyRoom(at[c])
        BY <2>1, <2>2 DEF Take, LooksRight, Looking
      <3>2. at[c] \in RunIds /\ InScope(at[c], asked[c])
        BY <3>1 DEF First, Candidates
      <3>3. ASSUME NEW r \in Claimable(asked[c]),
                   Precedes(Place(r, asked[c]), Place(at[c], asked[c]))
            PROVE  FALSE
        <4>1. r \in Candidates(c) /\ r \in RunIds
          BY <2>1, RoomIsCandidate DEF Candidates
        <4>2. Before(r, at[c], asked[c])
          BY <2>1, <3>2, <3>3, <4>1, PlacesOrder
        <4> QED BY <3>1, <4>1, <4>2 DEF First
      <3> QED BY <3>1, <3>2, <3>3 DEF Claimable
    <2>3. ASSUME Nothing(c) PROVE Claimable(asked[c]) = {}
      BY <2>1, <2>3, RoomIsCandidate DEF Nothing
    <2> QED BY <2>2, <2>3
  <1>2. [][Finds]_vars => ClaimFindsNext
    BY PTL DEF ClaimFindsNext
  <1> QED BY <1>1, <1>2, InvAlways, UndisturbedAlways, PTL DEF Spec
==============================================================================
