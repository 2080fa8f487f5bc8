-------------------------- MODULE MCScheduleStore --------------------------
(***************************************************************************)
(* ScheduleStore for TLC: a cadence that fires twice in a row and then not *)
(* before the clock's end, and one that never does.                        *)
(***************************************************************************)
EXTENDS ScheduleStore, TLC

CONSTANTS s1, u1, u2, weekdays, manual, utc

Fires(cadence) == IF cadence = weekdays THEN {1, 2, MaxTime + 2} ELSE {}

Instants == [cz \in Cadences \X Timezones |-> Fires(cz[1])]

(***************************************************************************)
(* What comes next, and what the properties say of it, does not depend on  *)
(* what is left of a deleted schedule, nor on when a schedule last failed  *)
(* once it has succeeded, nor on what it was fired for before; and of when *)
(* it was last fired and resumed, only on which instants that is past.     *)
(* TLC keeps one state of those that differ in nothing else.               *)
(***************************************************************************)
There == {s \in used : rows[s] # None}

InProgress == {u \in Updates : updates[u] # None /\ updates[u].schedule \in There}

Past(t) == {o \in Fires(weekdays) : o + MaxDelay <= t}

Kept(s) == <<[rows[s] EXCEPT !.last_fired_at = None], Past(honoured[s]), Past(resumed[s]),
             IF rows[s].consecutive_failures = 0 THEN None ELSE failed[s]>>

Differing == <<now, used, overtaken \cap InProgress, mixed \cap There,
               [u \in Updates |-> IF u \in InProgress THEN updates[u] ELSE None],
               [s \in There |-> Kept(s)]>>

\* An update is only ever compared with another.
UpdateSymmetry == Permutations(Updates)
=============================================================================
