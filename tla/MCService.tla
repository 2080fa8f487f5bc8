----------------------------- MODULE MCService -----------------------------
(***************************************************************************)
(* The service's two processes for TLC: the API as far as it lets requests *)
(* in (Access) and the ticker's loop (TickLoop).  They share no state, so  *)
(* a behaviour is checked of the one or of the other, while the one that   *)
(* is not at work stays as it began.                                       *)
(*                                                                         *)
(* Access has a key that is a tenant's, the platform's or refused, and     *)
(* people, a bare name, an agent and a group to assign runs to.            *)
(***************************************************************************)
EXTENDS Access, TickLoop, TLC

CONSTANTS k1, acme, q1, q2, shared

Name(kind, id) == [kind |-> kind, id |-> id]

Priya == Name("user", "priya")
Svc   == Name("key", "svc")

People == {Priya, Name(None, "priya"), Name("user", "lee"), Svc, Name("agent", "bot"),
           Name("role", "finance")}

Info(k, tenant, principal, role, may) ==
    [key_id |-> k, tenant_id |-> tenant, principal |-> principal, role |-> role, may_act_as |-> may]

RegistryVerdicts ==
    [k \in Keys |-> {Info(k, acme, Svc, "service", {Priya, Name("role", "finance")}),
                     Info(k, None, Svc, "platform", {}),
                     [refusal |-> "unauthorized"]}]

VARIABLE part

Entering == part = "access"
Looping  == part = "ticker"

serviceVars == <<part, accessVars, vars>>

ServiceInit == part \in {"access", "ticker"} /\ AccessInit /\ Init

ServiceNext ==
    \/ Entering /\ AccessNext /\ UNCHANGED <<part, vars>>
    \/ Looping /\ Next /\ UNCHANGED <<part, accessVars>>

ServiceSpec == ServiceInit /\ [][ServiceNext]_serviceVars

(***************************************************************************)
(* What comes next in the loop depends on how long ago things were, up to  *)
(* the longest time it tells apart, not on when: TLC keeps one state of    *)
(* those that differ in nothing else.                                      *)
(***************************************************************************)
Longest == Max({BREAKER_COOLDOWN, MaxTick}) + TICK_SECONDS + MaxTick + 1

Age(t)   == IF t = None THEN None ELSE Min({now - t, Longest})
Ahead(t) == IF loop.stage = "waits" THEN t - now ELSE 0

Ages == <<database, disk, stop, faults,
          loop.stage, loop.step, Age(loop.at), Ahead(loop.until),
          Min({breaker.failures, BREAKER_THRESHOLD}), Age(breaker.opened_at),
          configured,
          IF files[PathFor(Me)] = None THEN None
          ELSE Min({now - files[PathFor(Me)], HEARTBEAT_MAX_AGE_SECONDS + 1}),
          Age(Max({whole, trouble})),
          Min({failing.count, BREAKER_THRESHOLD}), Age(failing.at), blind # None,
          now = MaxTime>>

AtWork == <<part, IF Looping THEN Ages ELSE accessVars>>

\* A request is only ever compared with another.
RequestSymmetry == Permutations(Requests)
=============================================================================
