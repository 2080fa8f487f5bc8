---------------------------- MODULE RunStoreProofs ----------------------------
(***************************************************************************)
(* What RunStore guarantees for every value of its constants.              *)
(*                                                                         *)
(* Every transaction takes each row either nowhere or along one of the     *)
(* functions of RunRows and RunStore (RowStep, StepRows).  An invariant of *)
(* rows is then a fact about one row and one function at a time, proved    *)
(* first, without the rest of the state.                                   *)
(*                                                                         *)
(* The invariants rest on one another: the columns have their types        *)
(* because they are consistent with the status (an escalation reads the    *)
(* interrupt a PAUSED run waits on), and the history has its type because  *)
(* the beginning of the stretch going on is known and not in the future.   *)
(***************************************************************************)
EXTENDS RunStore, FiniteSetTheorems, TLAPS

\* One row's part of a transaction that read the clock at t.
RowStep(row, new, t) ==
    \/ new = row
    \/ /\ row.status = "ABSENT"
       /\ \E queue \in BOOLEAN, deadline \in Deadlines, timeout \in Timeouts :
             new = NewRow(queue, deadline, timeout, t)
    \/ /\ row.status = "RUNNING"
       /\ \E w \in Callers, q \in Questions, checkpoint \in Maybe(Checkpoints) :
             new = PausedRow(row, w, q, checkpoint, t)
    \/ /\ row.awaiting # None
       /\ \E answer \in Answers : new = ResumedRow(row, answer, t)
    \/ /\ row.cancel_requested_at = None
       /\ Leased(row) \/ CanBecome(row.status, "CANCELLED")
       /\ \E p \in Principals : new = CancelledRow(row, p, t)
    \/ /\ Retried(row, "ERROR", TRUE)
       /\ \E w \in Callers, wait \in Nat : new = RetriedRow(row, w, wait, t)
    \/ \E w \in Callers, status \in Final :
          CanBecome(row.status, status) /\ new = FinishedRow(row, w, status, t)
    \/ /\ row.status = "QUEUED"
       /\ \E w \in Workers, seconds \in LeaseSeconds : new = ClaimedRow(row, w, seconds, t)
    \/ /\ row.status = "RUNNING"
       /\ \E w \in Workers, seconds \in LeaseSeconds, checkpoint \in Maybe(Checkpoints) :
             row.lease_owner = w /\ new = BeatenRow(row, w, seconds, checkpoint, t)
    \/ /\ row.status = "RUNNING"
       /\ \E w \in Workers, checkpoint \in Maybe(Checkpoints) :
             row.lease_owner = w /\ new = ReleasedRow(row, w, checkpoint, t)
    \/ row.status \in Live /\ new = Move(row, "TIMEOUT", t)
    \/ /\ row.status = "RUNNING" /\ row.lease_expires_at # None
       /\ \E wait \in Nat : new = LapsedRow(row, wait, t)
    \/ /\ row.status = "PAUSED" /\ row.awaiting_deadline # None
       /\ new = EscalatedRow(row, t)
    \/ row.status \in Final /\ new = NoRow

------------------------------------------------------------------------------
(***************************************************************************)
(* Every transaction is a RowStep of every row.                            *)
(***************************************************************************)
LEMMA WaitsAreNatural ==
    ASSUME NEW b, NEW w \in Jittered(b)
    PROVE  w \in Nat
  BY DEF Jittered

LEMMA RequestRows ==
    ASSUME TypeOK, RowsConsistent, NEW t \in Clock,
           NEW r0 \in RunIds, Request(r0, t), NEW r \in RunIds
    PROVE  RowStep(rows[r], rows'[r], t)
  <1> USE DEF RowStep
  <1>1. CASE r # r0
    BY <1>1 DEF TypeOK, Request, Start, Pause, Resume, Cancel, Finish, Claim, Heartbeat,
                Release, AddArtifact
  <1>2. CASE r = r0
    <2>1. ASSUME NEW queue \in BOOLEAN, NEW deadline \in Deadlines, NEW timeout \in Timeouts,
                 Start(r0, queue, deadline, timeout, t)
          PROVE  RowStep(rows[r], rows'[r], t)
      BY <1>2, <2>1 DEF Start, TypeOK, Exists
    <2>2. ASSUME NEW w \in Callers, NEW q \in Questions, NEW checkpoint \in Maybe(Checkpoints),
                 Pause(r0, w, q, checkpoint, t)
          PROVE  RowStep(rows[r], rows'[r], t)
      BY <1>2, <2>2 DEF Pause, TypeOK, Instead, CanBecome, Final, RowsConsistent, Consistent, LeaseColumns
    <2>3. ASSUME NEW interrupt \in Interrupts, NEW answer \in Answers,
                 Resume(r0, interrupt, answer, t)
          PROVE  RowStep(rows[r], rows'[r], t)
      BY <1>2, <2>3 DEF Resume, TypeOK
    <2>4. ASSUME NEW p \in Principals, Cancel(r0, p, t)
          PROVE  RowStep(rows[r], rows'[r], t)
      BY <1>2, <2>4 DEF Cancel, TypeOK
    <2>5. ASSUME NEW w \in Callers, NEW status \in Endings, NEW retryable \in BOOLEAN,
                 Finish(r0, w, status, retryable, t)
          PROVE  RowStep(rows[r], rows'[r], t)
      <3>1. CASE Retried(rows[r], status, retryable)
        <4>1. PICK wait \in ErrorWaits(rows[r]) : rows'[r] = RetriedRow(rows[r], w, wait, t)
          BY <1>2, <2>5, <3>1 DEF Finish, TypeOK
        <4>2. wait \in Nat
          BY WaitsAreNatural DEF ErrorWaits
        <4>3. Retried(rows[r], "ERROR", TRUE)
          BY <3>1 DEF Retried
        <4> QED BY <4>1, <4>2, <4>3
      <3>2. CASE ~Retried(rows[r], status, retryable)
        <4>1. status \in Final
          BY StoreAssumption
        <4> QED BY <1>2, <2>5, <3>2, <4>1 DEF Finish, TypeOK
      <3> QED BY <3>1, <3>2
    <2>6. ASSUME NEW w \in Workers, NEW seconds \in LeaseSeconds, Claim(r0, w, seconds, t)
          PROVE  RowStep(rows[r], rows'[r], t)
      BY <1>2, <2>6 DEF Claim, TypeOK, Available
    <2>7. ASSUME NEW w \in Workers, NEW seconds \in LeaseSeconds,
                 NEW checkpoint \in Maybe(Checkpoints), Heartbeat(r0, w, seconds, checkpoint, t)
          PROVE  RowStep(rows[r], rows'[r], t)
      BY <1>2, <2>7, NoneAssumption DEF Heartbeat, TypeOK, Fence
    <2>8. ASSUME NEW w \in Workers, NEW checkpoint \in Maybe(Checkpoints),
                 Release(r0, w, checkpoint, t)
          PROVE  RowStep(rows[r], rows'[r], t)
      BY <1>2, <2>8, NoneAssumption
         DEF Release, TypeOK, Fence, Instead, CanBecome, Final, RowsConsistent, Consistent, LeaseColumns
    <2>9. ASSUME NEW w \in Callers, NEW service \in BOOLEAN, AddArtifact(r0, w, service)
          PROVE  RowStep(rows[r], rows'[r], t)
      BY <2>9 DEF AddArtifact
    <2> QED BY <2>1, <2>2, <2>3, <2>4, <2>5, <2>6, <2>7, <2>8, <2>9 DEF Request
  <1> QED BY <1>1, <1>2

LEMMA SweepRows ==
    ASSUME TypeOK, NEW t \in Clock, NEW S \in SUBSET RunIds, Sweep(S, t), NEW r \in RunIds
    PROVE  RowStep(rows[r], rows'[r], t)
  <1> USE DEF RowStep
  <1>1. CASE TimeOutPastDeadline(S, t)
    BY <1>1 DEF TimeOutPastDeadline, Store, PastDeadline
  <1>2. CASE TimeOutOverworked(S, t)
    BY <1>2 DEF TimeOutOverworked, Store, Overworked, Live
  <1>3. CASE RequeueLapsed(S, t)
    <2>1. PICK wait \in [S -> 0..LAPSE_RETRY_CAP] :
              Store(S, LAMBDA s : LapsedRow(rows[s], wait[s], t))
      BY <1>3 DEF RequeueLapsed
    <2>2. r \in S => wait[r] \in Nat
      BY LimitsAssumption
    <2> QED BY <1>3, <2>1, <2>2 DEF RequeueLapsed, Store, Lapsed
  <1>4. CASE EscalateOverdue(S, t)
    BY <1>4 DEF EscalateOverdue, Store, Overdue
  <1>5. CASE PurgeEnded(S, t)
    BY <1>5 DEF PurgeEnded, Store, Purgeable
  <1>6. CASE PurgeArtifacts(S, t)
    BY <1>6 DEF PurgeArtifacts
  <1> QED BY <1>1, <1>2, <1>3, <1>4, <1>5, <1>6 DEF Sweep

\* Every step takes every row along RowStep, at a time some clock showed.
LEMMA StepRows ==
    ASSUME TypeOK, RowsConsistent, Transaction
    PROVE  \E t \in Clock : \A r \in RunIds : RowStep(rows[r], rows'[r], t)
  <1>1. PICK t \in Clock : \/ \E r \in RunIds : Request(r, t)
                           \/ \E S \in SUBSET RunIds \ {{}} : Sweep(S, t)
    BY DEF Transaction
  <1>2. ASSUME NEW r0 \in RunIds, Request(r0, t)
        PROVE  \A r \in RunIds : RowStep(rows[r], rows'[r], t)
    BY <1>2, RequestRows
  <1>3. ASSUME NEW S \in SUBSET RunIds, Sweep(S, t)
        PROVE  \A r \in RunIds : RowStep(rows[r], rows'[r], t)
    BY <1>3, SweepRows
  <1> QED BY <1>1, <1>2, <1>3

------------------------------------------------------------------------------
(***************************************************************************)
(* Types.  The columns' types are opaque to the provers (Maybe is not      *)
(* expanded) wherever only membership matters.                             *)
(***************************************************************************)
LEMMA MaybeFacts ==
    ASSUME NEW S
    PROVE  None \in Maybe(S) /\ S \subseteq Maybe(S)
  BY DEF Maybe

LEMMA WorkedType ==
    ASSUME NEW row \in Row, NEW t \in Nat
    PROVE  Worked(row, t) \in Nat
  BY NoneAssumption DEF Worked, Row, Maybe

LEMMA MoveType ==
    ASSUME NEW row \in Row, NEW to \in Live \cup Final, NEW t \in Nat
    PROVE  Move(row, to, t) \in Row
  <1>1. /\ t \in Maybe(Nat)
        /\ None \in Maybe(Nat) /\ None \in Maybe(Workers) /\ None \in Maybe(Question)
        /\ None \in Maybe(Assignees) /\ None \in Maybe(Checkpoints)
    BY MaybeFacts
  <1>2. Worked(row, t) \in Nat
    BY WorkedType
  <1>3. to \in {"ABSENT"} \cup Live \cup Final
    OBVIOUS
  <1>4. CASE to = "RUNNING"
    BY <1>1, <1>2, <1>3, <1>4, ZenonT(60) DEF Move, Row
  <1>5. CASE to = "QUEUED"
    BY <1>1, <1>2, <1>3, <1>5, ZenonT(60) DEF Move, Row
  <1>6. CASE to = "PAUSED"
    BY <1>1, <1>2, <1>3, <1>6, ZenonT(60) DEF Move, Row
  <1>7. CASE to \in Final
    BY <1>1, <1>2, <1>3, <1>7, ZenonT(60) DEF Move, Row, Final
  <1> QED BY <1>4, <1>5, <1>6, <1>7 DEF Live

LEMMA RequeueType ==
    ASSUME NEW row \in Row, NEW available \in Maybe(Nat), NEW t \in Nat
    PROVE  Requeue(row, available, t) \in Row
  <1>1. Move(row, "QUEUED", t) \in Row
    BY MoveType DEF Live
  <1>2. t \in Maybe(Nat)
    BY MaybeFacts
  <1>3. Move(row, "QUEUED", t).attempt + 1 \in Nat
    BY <1>1 DEF Row
  <1> QED BY <1>1, <1>2, <1>3 DEF Requeue, Row

LEMMA LeaseType ==
    ASSUME NEW row \in Row, NEW w \in Workers, NEW seconds \in Nat, NEW t \in Nat
    PROVE  Lease(row, w, seconds, t) \in Row
  <1>1. w \in Maybe(Workers)
    BY MaybeFacts
  <1>2. (IF row.cancel_requested_at = None THEN t ELSE row.cancel_requested_at) + seconds \in Maybe(Nat)
    BY DEF Row, Maybe
  <1> QED BY <1>1, <1>2 DEF Lease, Row

LEMMA RowStepType ==
    ASSUME NEW row \in Row, NEW new, NEW t \in Nat, Consistent(row), RowStep(row, new, t)
    PROVE  new \in Row
  <1>0. t \in Maybe(Nat) /\ None \in Maybe(Nat) /\ None \in Maybe(Workers)
    BY MaybeFacts
  <1>1. ASSUME NEW queue \in BOOLEAN, NEW deadline \in Deadlines, NEW timeout \in Timeouts
        PROVE  NewRow(queue, deadline, timeout, t) \in Row
    <2>1. NoRow \in Row
      BY MaybeFacts DEF NoRow, Row
    <2>2. deadline \in Maybe(Nat) /\ timeout \in Maybe(Nat)
      BY StoreAssumption
    <2>3. \A q \in BOOLEAN : (IF q THEN "QUEUED" ELSE "RUNNING") \in {"ABSENT"} \cup Live \cup Final
      BY DEF Live
    <2> QED BY <1>0, <2>1, <2>2, <2>3 DEF NewRow, Row
  <1>2. ASSUME NEW w \in Callers, NEW q \in Questions, NEW checkpoint \in Maybe(Checkpoints)
        PROVE  PausedRow(row, w, q, checkpoint, t) \in Row
    <2>1. w \in Maybe(Workers)
      BY DEF Callers
    <2>2. /\ q \in Maybe(Question) /\ q.assignee \in Maybe(Assignees)
          /\ q.deadline \in Maybe(Nat)
      BY StoreAssumption, MaybeFacts DEF Question
    <2>3. Move(row, "CANCELLED", t) \in Row /\ Move(row, "PAUSED", t) \in Row
      BY MoveType DEF Live, Final
    <2>4. [Move(row, "CANCELLED", t) EXCEPT !.settled_by = w] \in Row
      BY <2>1, <2>3 DEF Row
    <2>5. [Move(row, "PAUSED", t) EXCEPT !.checkpoint        = checkpoint,
                                         !.awaiting          = q,
                                         !.assignee          = q.assignee,
                                         !.awaiting_deadline = q.deadline,
                                         !.settled_by        = w] \in Row
      BY <2>1, <2>2, <2>3 DEF Row
    <2> QED BY <2>4, <2>5 DEF PausedRow
  <1>3. ASSUME NEW answer \in Answers
        PROVE  ResumedRow(row, answer, t) \in Row
    <2>1. Move(row, "CANCELLED", t) \in Row /\ Move(row, "RUNNING", t) \in Row
      BY MoveType DEF Live, Final
    <2>2. [Move(row, "RUNNING", t) EXCEPT !.attempt = @ + 1] \in Row
      BY <2>1 DEF Row
    <2>3. Requeue(row, None, t) \in Row
      BY <1>0, RequeueType
    <2> QED BY <2>1, <2>2, <2>3 DEF ResumedRow
  <1>4. ASSUME NEW p \in Principals
        PROVE  CancelledRow(row, p, t) \in Row
    <2>1. p \in Maybe(Principals)
      BY MaybeFacts
    <2>2. Move(row, "CANCELLED", t) \in Row
      BY MoveType DEF Final
    <2>3. [Move(row, "CANCELLED", t) EXCEPT !.cancelled_by = p] \in Row
      BY <2>1, <2>2 DEF Row
    <2>4. [row EXCEPT !.cancel_requested_at = t, !.updated_at = t, !.cancelled_by = p] \in Row
      BY <1>0, <2>1 DEF Row
    <2> QED BY <2>3, <2>4 DEF CancelledRow
  <1>5. ASSUME NEW w \in Callers, NEW wait \in Nat
        PROVE  RetriedRow(row, w, wait, t) \in Row
    <2>1. [row EXCEPT !.error_retries = @ + 1] \in Row
      BY DEF Row
    <2>2. t + wait \in Maybe(Nat)
      BY MaybeFacts
    <2>3. Requeue([row EXCEPT !.error_retries = @ + 1], t + wait, t) \in Row
      BY <2>1, <2>2, RequeueType
    <2>4. w \in Maybe(Workers)
      BY DEF Callers
    <2> QED BY <2>3, <2>4 DEF RetriedRow, Row
  <1>6. ASSUME NEW w \in Callers, NEW status \in Final
        PROVE  FinishedRow(row, w, status, t) \in Row
    <2>1. Move(row, status, t) \in Row
      BY MoveType
    <2>2. w \in Maybe(Workers)
      BY DEF Callers
    <2> QED BY <2>1, <2>2 DEF FinishedRow, Row
  <1>7. ASSUME NEW w \in Workers, NEW seconds \in LeaseSeconds
        PROVE  ClaimedRow(row, w, seconds, t) \in Row
    <2>1. Move(row, "RUNNING", t) \in Row
      BY MoveType DEF Live
    <2> QED BY <2>1, LeaseType, StoreAssumption DEF ClaimedRow
  <1>8. ASSUME NEW w \in Workers, NEW seconds \in LeaseSeconds, NEW checkpoint \in Maybe(Checkpoints)
        PROVE  BeatenRow(row, w, seconds, checkpoint, t) \in Row
    <2>1. [row EXCEPT !.checkpoint = checkpoint, !.updated_at = t] \in Row
      BY <1>0 DEF Row
    <2> QED BY <2>1, LeaseType, StoreAssumption DEF BeatenRow
  <1>9. ASSUME NEW w \in Workers, NEW checkpoint \in Maybe(Checkpoints)
        PROVE  ReleasedRow(row, w, checkpoint, t) \in Row
    <2>1. Move(row, "CANCELLED", t) \in Row
      BY MoveType DEF Final
    <2>2. Requeue(row, None, t) \in Row
      BY <1>0, RequeueType
    <2>3. w \in Maybe(Workers)
      BY MaybeFacts
    <2>4. [Move(row, "CANCELLED", t) EXCEPT !.settled_by = w] \in Row
      BY <2>1, <2>3 DEF Row
    <2>5. [Requeue(row, None, t) EXCEPT
              !.checkpoint = IF checkpoint = None THEN @ ELSE checkpoint,
              !.settled_by = w] \in Row
      BY <2>2, <2>3 DEF Row
    <2> QED BY <2>4, <2>5 DEF ReleasedRow
  <1>10. Move(row, "TIMEOUT", t) \in Row
    BY MoveType DEF Final
  <1>11. ASSUME NEW wait \in Nat
         PROVE  LapsedRow(row, wait, t) \in Row
    <2>1. [row EXCEPT !.lease_lapses = @ + 1] \in Row
      BY DEF Row
    <2>2. t + wait \in Maybe(Nat)
      BY MaybeFacts
    <2>3. Requeue([row EXCEPT !.lease_lapses = @ + 1], t + wait, t) \in Row
      BY <2>1, <2>2, RequeueType
    <2>4. /\ Move(row, "CANCELLED", t) \in Row
          /\ Move([row EXCEPT !.lease_lapses = @ + 1], "ERROR", t) \in Row
      BY <2>1, MoveType DEF Final
    <2> QED BY <2>3, <2>4 DEF LapsedRow
  <1>12. ASSUME row.status = "PAUSED"
         PROVE  EscalatedRow(row, t) \in Row
    <2>1. row.awaiting \in Question
      BY <1>12 DEF Consistent, WaitColumns, Row, Maybe
    <2> DEFINE escalated == [row.awaiting EXCEPT !.assignee    = row.awaiting.escalate_to,
                                                 !.escalate_to = None,
                                                 !.deadline    = None]
    <2>2. escalated \in Question /\ escalated.assignee \in Maybe(Assignees)
      BY <1>0, <2>1, MaybeFacts DEF Question
    <2>3. escalated \in Maybe(Question)
      BY <2>2, MaybeFacts
    <2> HIDE DEF escalated
    <2>4. [row EXCEPT !.awaiting          = escalated,
                      !.assignee          = escalated.assignee,
                      !.awaiting_deadline = None,
                      !.updated_at        = t] \in Row
      BY <1>0, <2>2, <2>3 DEF Row
    <2> QED BY <1>10, <2>4 DEF EscalatedRow, escalated
  <1>13. NoRow \in Row
    BY MaybeFacts DEF NoRow, Row
  <1> QED BY <1>1, <1>2, <1>3, <1>4, <1>5, <1>6, <1>7, <1>8, <1>9, <1>10, <1>11, <1>12, <1>13
          DEF RowStep

------------------------------------------------------------------------------
(***************************************************************************)
(* What the functions leave in each column.                                *)
(***************************************************************************)
LEMMA MoveColumns ==
    ASSUME NEW row \in Row, NEW to, NEW t
    PROVE  LET m == Move(row, to, t)
           IN  /\ m.status = to
               /\ m.attempt = row.attempt
               /\ m.worked_seconds = Worked(row, t)
               /\ m.running_since = IF to = "RUNNING" THEN t ELSE None
               /\ m.queued_at = row.queued_at
               /\ m.available_at = IF to = "QUEUED" THEN row.available_at ELSE None
               /\ m.lease_owner = IF to = "RUNNING" THEN row.lease_owner ELSE None
               /\ m.lease_expires_at = IF to = "RUNNING" THEN row.lease_expires_at ELSE None
               /\ m.cancel_requested_at = IF to = "RUNNING" THEN row.cancel_requested_at ELSE None
               /\ m.error_retries = row.error_retries
               /\ m.lease_lapses = row.lease_lapses
               /\ m.awaiting = IF to = "PAUSED" THEN row.awaiting ELSE None
               /\ m.assignee = IF to = "PAUSED" THEN row.assignee ELSE None
               /\ m.awaiting_deadline = IF to = "PAUSED" THEN row.awaiting_deadline ELSE None
               /\ m.checkpoint = IF to \in Final THEN None ELSE row.checkpoint
  BY DEF Move, Row

LEMMA RequeueColumns ==
    ASSUME NEW row \in Row, NEW available, NEW t \in Nat
    PROVE  LET m == Requeue(row, available, t)
           IN  /\ m.status = "QUEUED"
               /\ m.attempt = row.attempt + 1
               /\ m.worked_seconds = Worked(row, t)
               /\ m.running_since = None
               /\ m.queued_at = t
               /\ m.available_at = available
               /\ m.lease_owner = None
               /\ m.lease_expires_at = None
               /\ m.cancel_requested_at = None
               /\ m.error_retries = row.error_retries
               /\ m.lease_lapses = row.lease_lapses
               /\ m.awaiting = None
               /\ m.assignee = None
               /\ m.awaiting_deadline = None
  <1>1. Move(row, "QUEUED", t) \in Row
    BY MoveType DEF Live
  <1>2. "QUEUED" \notin Final
    BY DEF Final
  <1> QED BY <1>1, MoveColumns DEF Requeue, Row

LEMMA LeaseColumnsOf ==
    ASSUME NEW row \in Row, NEW w, NEW seconds, NEW t
    PROVE  LET m == Lease(row, w, seconds, t)
           IN  /\ m.lease_owner = w
               /\ m.lease_expires_at =
                    (IF row.cancel_requested_at = None THEN t ELSE row.cancel_requested_at) + seconds
               /\ m.status = row.status
               /\ m.attempt = row.attempt
               /\ m.worked_seconds = row.worked_seconds
               /\ m.running_since = row.running_since
               /\ m.queued_at = row.queued_at
               /\ m.available_at = row.available_at
               /\ m.cancel_requested_at = row.cancel_requested_at
               /\ m.error_retries = row.error_retries
               /\ m.lease_lapses = row.lease_lapses
               /\ m.awaiting = row.awaiting
               /\ m.assignee = row.assignee
               /\ m.awaiting_deadline = row.awaiting_deadline
               /\ m.checkpoint = row.checkpoint
  BY DEF Lease, Row

------------------------------------------------------------------------------
(***************************************************************************)
(* The columns stay consistent.                                            *)
(***************************************************************************)

\* An ending, with a worker's name or without: the lease, the wait and the clock go.
LEMMA EndConsistent ==
    ASSUME NEW row \in Row, NEW to \in Final, NEW t \in Nat, NEW new \in Row,
           row.queued_at = None => row.error_retries = 0 /\ row.lease_lapses = 0,
           \A c \in DOMAIN new \ {"settled_by", "cancelled_by"} : new[c] = Move(row, to, t)[c]
    PROVE  Consistent(new)
  <1>1. to \notin {"RUNNING", "QUEUED", "PAUSED"}
    BY DEF Final
  <1>2. /\ new.status = to /\ new.running_since = None /\ new.queued_at = row.queued_at
        /\ new.available_at = None /\ new.lease_owner = None /\ new.lease_expires_at = None
        /\ new.cancel_requested_at = None /\ new.awaiting = None /\ new.assignee = None
        /\ new.awaiting_deadline = None /\ new.checkpoint = None
        /\ new.error_retries = row.error_retries /\ new.lease_lapses = row.lease_lapses
    BY <1>1, MoveColumns DEF Row
  <1> QED BY <1>1, <1>2
          DEF Consistent, ClockColumns, LeaseColumns, WaitColumns, QueueColumns

\* A requeue, whatever it leaves as checkpoint.
LEMMA RequeueConsistent ==
    ASSUME NEW row \in Row, NEW available, NEW t \in Nat, NEW new \in Row,
           \A c \in DOMAIN new \ {"settled_by", "checkpoint"} :
               new[c] = Requeue(row, available, t)[c]
    PROVE  Consistent(new)
  <1>1. /\ new.status = "QUEUED" /\ new.running_since = None /\ new.queued_at = t
        /\ new.available_at = available
        /\ new.lease_owner = None /\ new.lease_expires_at = None
        /\ new.cancel_requested_at = None /\ new.awaiting = None /\ new.assignee = None
        /\ new.awaiting_deadline = None
    BY RequeueColumns DEF Row
  <1> QED BY <1>1, NoneAssumption
          DEF Consistent, ClockColumns, LeaseColumns, WaitColumns, QueueColumns, Final

LEMMA RowStepConsistent ==
    ASSUME NEW row \in Row, NEW new, NEW t \in Nat, Consistent(row), RowStep(row, new, t)
    PROVE  Consistent(new)
  <1>0. new \in Row
    BY RowStepType
  <1> DEFINE Columns == /\ row.queued_at = None => row.error_retries = 0 /\ row.lease_lapses = 0
                        /\ row.lease_owner # None => row.queued_at # None
  <1>c. Columns
    BY DEF Consistent, QueueColumns
  <1>m. ASSUME NEW to \in Live \cup Final
        PROVE  Move(row, to, t) \in Row
    BY <1>m, MoveType
  <1>1. ASSUME NEW queue \in BOOLEAN, NEW deadline \in Deadlines, NEW timeout \in Timeouts,
               new = NewRow(queue, deadline, timeout, t)
        PROVE  Consistent(new)
    BY <1>1, NoneAssumption DEF NewRow, NoRow, Consistent, ClockColumns, LeaseColumns,
                                WaitColumns, QueueColumns, Final
  <1>2. ASSUME NEW w \in Callers, NEW q \in Questions, NEW checkpoint \in Maybe(Checkpoints),
               new = PausedRow(row, w, q, checkpoint, t)
        PROVE  Consistent(new)
    <2>1. CASE row.cancel_requested_at # None
      <3>1. new = [Move(row, "CANCELLED", t) EXCEPT !.settled_by = w]
        BY <1>2, <2>1 DEF PausedRow, Instead
      <3>2. Move(row, "CANCELLED", t) \in Row /\ "CANCELLED" \in Final
        BY <1>m DEF Final
      <3> QED BY <1>0, <1>c, <3>1, <3>2, EndConsistent DEF Row
    <2>2. CASE row.cancel_requested_at = None
      <3>1. new = [Move(row, "PAUSED", t) EXCEPT !.checkpoint        = checkpoint,
                                                 !.awaiting          = q,
                                                 !.assignee          = q.assignee,
                                                 !.awaiting_deadline = q.deadline,
                                                 !.settled_by        = w]
        BY <1>2, <2>2 DEF PausedRow, Instead
      <3>2. Move(row, "PAUSED", t) \in Row
        BY <1>m DEF Live
      <3>3. q # None
        BY StoreAssumption, NoneAssumption
      <3>4. /\ new.status = "PAUSED" /\ new.running_since = None /\ new.queued_at = row.queued_at
            /\ new.available_at = None /\ new.lease_owner = None /\ new.lease_expires_at = None
            /\ new.cancel_requested_at = None /\ new.awaiting = q
            /\ new.assignee = q.assignee /\ new.awaiting_deadline = q.deadline
            /\ new.error_retries = row.error_retries /\ new.lease_lapses = row.lease_lapses
        BY <3>1, <3>2, MoveColumns DEF Row
      <3> QED BY <1>c, <3>3, <3>4 DEF Consistent, ClockColumns, LeaseColumns, WaitColumns,
                                     QueueColumns, Final
    <2> QED BY <2>1, <2>2
  <1>3. ASSUME NEW answer \in Answers, row.awaiting # None, new = ResumedRow(row, answer, t)
        PROVE  Consistent(new)
    <2>1. CASE answer \in CancelAnswers
      <3>1. new = Move(row, "CANCELLED", t) /\ "CANCELLED" \in Final
        BY <1>3, <2>1 DEF ResumedRow, Final
      <3> QED BY <1>0, <1>c, <3>1, EndConsistent
    <2>2. CASE answer \notin CancelAnswers /\ row.queued_at # None
      <3>1. new = Requeue(row, None, t)
        BY <1>3, <2>2 DEF ResumedRow
      <3> QED BY <1>0, <3>1, RequeueConsistent
    <2>3. CASE answer \notin CancelAnswers /\ row.queued_at = None
      <3>1. new = [Move(row, "RUNNING", t) EXCEPT !.attempt = @ + 1]
        BY <1>3, <2>3 DEF ResumedRow
      <3>2. Move(row, "RUNNING", t) \in Row
        BY <1>m DEF Live
      <3>3. row.lease_owner = None /\ row.lease_expires_at = None /\ row.cancel_requested_at = None
        BY <1>3 DEF Consistent, WaitColumns, LeaseColumns
      <3>4. /\ new.status = "RUNNING" /\ new.running_since = t /\ new.queued_at = row.queued_at
            /\ new.available_at = None /\ new.lease_owner = None /\ new.lease_expires_at = None
            /\ new.cancel_requested_at = None /\ new.awaiting = None
            /\ new.assignee = None /\ new.awaiting_deadline = None
            /\ new.error_retries = row.error_retries /\ new.lease_lapses = row.lease_lapses
        BY <3>1, <3>2, <3>3, MoveColumns DEF Row
      <3> QED BY <1>c, <2>3, <3>4, NoneAssumption DEF Consistent, ClockColumns, LeaseColumns,
                                                     WaitColumns, QueueColumns, Final
    <2> QED BY <2>1, <2>2, <2>3
  <1>4. ASSUME NEW p \in Principals, new = CancelledRow(row, p, t)
        PROVE  Consistent(new)
    <2>1. CASE Leased(row)
      <3>1. new = [row EXCEPT !.cancel_requested_at = t, !.updated_at = t, !.cancelled_by = p]
        BY <1>4, <2>1 DEF CancelledRow
      <3> QED BY <2>1, <3>1 DEF Leased, Row, Consistent, ClockColumns, LeaseColumns,
                                WaitColumns, QueueColumns
    <2>2. CASE ~Leased(row)
      <3>1. new = [Move(row, "CANCELLED", t) EXCEPT !.cancelled_by = p]
        BY <1>4, <2>2 DEF CancelledRow
      <3>2. Move(row, "CANCELLED", t) \in Row /\ "CANCELLED" \in Final
        BY <1>m DEF Final
      <3> QED BY <1>0, <1>c, <3>1, <3>2, EndConsistent DEF Row
    <2> QED BY <2>1, <2>2
  <1>5. ASSUME NEW w \in Callers, NEW wait \in Nat, new = RetriedRow(row, w, wait, t)
        PROVE  Consistent(new)
    <2> DEFINE counted == [row EXCEPT !.error_retries = @ + 1]
    <2>1. counted \in Row /\ t + wait \in Maybe(Nat)
      BY MaybeFacts DEF Row
    <2>2. Requeue(counted, t + wait, t) \in Row
      BY <2>1, RequeueType
    <2>3. new = [Requeue(counted, t + wait, t) EXCEPT !.settled_by = w]
      BY <1>5 DEF RetriedRow
    <2> HIDE DEF counted
    <2>4. \A c \in DOMAIN new \ {"settled_by", "checkpoint"} :
              new[c] = Requeue(counted, t + wait, t)[c]
      BY <2>2, <2>3 DEF Row
    <2> QED BY <1>0, <2>1, <2>4, RequeueConsistent
  <1>6. ASSUME NEW w \in Callers, NEW status \in Final, new = FinishedRow(row, w, status, t)
        PROVE  Consistent(new)
    <2>1. Move(row, status, t) \in Row
      BY <1>m
    <2> QED BY <1>0, <1>c, <1>6, <2>1, EndConsistent DEF FinishedRow, Row
  <1>7. ASSUME NEW w \in Workers, NEW seconds \in LeaseSeconds, row.status = "QUEUED",
               new = ClaimedRow(row, w, seconds, t)
        PROVE  Consistent(new)
    <2>1. Move(row, "RUNNING", t) \in Row
      BY <1>m DEF Live
    <2>2. row.queued_at # None /\ row.lease_owner = None /\ row.cancel_requested_at = None
      BY <1>7 DEF Consistent, QueueColumns, LeaseColumns
    <2>3. /\ new.status = "RUNNING" /\ new.running_since = t /\ new.queued_at = row.queued_at
          /\ new.available_at = None /\ new.lease_owner = w /\ new.lease_expires_at = t + seconds
          /\ new.cancel_requested_at = None /\ new.awaiting = None
          /\ new.assignee = None /\ new.awaiting_deadline = None
          /\ new.error_retries = row.error_retries /\ new.lease_lapses = row.lease_lapses
      <3> DEFINE m == Move(row, "RUNNING", t)
      <3>1. new = Lease(m, w, seconds, t)
        BY <1>7 DEF ClaimedRow
      <3>2. /\ m.status = "RUNNING" /\ m.running_since = t /\ m.queued_at = row.queued_at
            /\ m.available_at = None /\ m.cancel_requested_at = None /\ m.awaiting = None
            /\ m.assignee = None /\ m.awaiting_deadline = None
            /\ m.error_retries = row.error_retries /\ m.lease_lapses = row.lease_lapses
        BY <2>2, MoveColumns
      <3>3. m \in Row
        BY <2>1
      <3> HIDE DEF m
      <3> QED BY <3>1, <3>2, <3>3, LeaseColumnsOf
    <2>4. t + seconds # None /\ t # None /\ w # None
      BY NoneAssumption, StoreAssumption
    <2> QED BY <2>2, <2>3, <2>4 DEF Consistent, ClockColumns, LeaseColumns, WaitColumns,
                                    QueueColumns, Final
  <1>8. ASSUME NEW w \in Workers, NEW seconds \in LeaseSeconds,
               NEW checkpoint \in Maybe(Checkpoints),
               row.status = "RUNNING", row.lease_owner = w,
               new = BeatenRow(row, w, seconds, checkpoint, t)
        PROVE  Consistent(new)
    <2>1. PICK kept \in Row :
              /\ new = Lease(kept, w, seconds, t)
              /\ \A c \in DOMAIN row \ {"checkpoint", "updated_at"} : kept[c] = row[c]
      <3>1. [row EXCEPT !.checkpoint = checkpoint, !.updated_at = t] \in Row
        BY MaybeFacts DEF Row
      <3> QED BY <1>8, <3>1 DEF BeatenRow, Row
    <2>2. /\ new.status = "RUNNING" /\ new.running_since = row.running_since
          /\ new.queued_at = row.queued_at /\ new.available_at = row.available_at
          /\ new.lease_owner = w /\ new.cancel_requested_at = row.cancel_requested_at
          /\ new.lease_expires_at =
               (IF row.cancel_requested_at = None THEN t ELSE row.cancel_requested_at) + seconds
          /\ new.awaiting = row.awaiting
          /\ new.assignee = row.assignee /\ new.awaiting_deadline = row.awaiting_deadline
          /\ new.error_retries = row.error_retries /\ new.lease_lapses = row.lease_lapses
      <3>1. /\ kept.status = row.status /\ kept.running_since = row.running_since
            /\ kept.queued_at = row.queued_at /\ kept.available_at = row.available_at
            /\ kept.cancel_requested_at = row.cancel_requested_at
            /\ kept.awaiting = row.awaiting /\ kept.assignee = row.assignee
            /\ kept.awaiting_deadline = row.awaiting_deadline
            /\ kept.error_retries = row.error_retries /\ kept.lease_lapses = row.lease_lapses
        BY <2>1 DEF Row
      <3>2. new = Lease(kept, w, seconds, t)
        BY <2>1
      <3> QED BY <1>8, <3>1, <3>2, LeaseColumnsOf
    <2>3. w # None /\ new.lease_expires_at # None
      BY <2>2, NoneAssumption, StoreAssumption DEF Row, Maybe
    <2> QED BY <1>8, <2>2, <2>3 DEF Consistent, ClockColumns, LeaseColumns, WaitColumns,
                                    QueueColumns, Final
  <1>9. ASSUME NEW w \in Workers, NEW checkpoint \in Maybe(Checkpoints),
               new = ReleasedRow(row, w, checkpoint, t)
        PROVE  Consistent(new)
    <2>1. CASE row.cancel_requested_at # None
      <3>1. new = [Move(row, "CANCELLED", t) EXCEPT !.settled_by = w]
        BY <1>9, <2>1 DEF ReleasedRow, Instead
      <3>2. Move(row, "CANCELLED", t) \in Row /\ "CANCELLED" \in Final
        BY <1>m DEF Final
      <3> QED BY <1>0, <1>c, <3>1, <3>2, EndConsistent DEF Row
    <2>2. CASE row.cancel_requested_at = None
      <3>1. Requeue(row, None, t) \in Row
        BY RequeueType, MaybeFacts
      <3>2. \A c \in DOMAIN new \ {"settled_by", "checkpoint"} : new[c] = Requeue(row, None, t)[c]
        BY <1>9, <2>2, <3>1 DEF ReleasedRow, Instead, Row
      <3> QED BY <1>0, <3>2, RequeueConsistent
    <2> QED BY <2>1, <2>2
  <1>10. ASSUME new = Move(row, "TIMEOUT", t)
         PROVE  Consistent(new)
    BY <1>0, <1>c, <1>10, EndConsistent DEF Final
  <1>11. ASSUME NEW wait \in Nat, row.status = "RUNNING", row.lease_expires_at # None,
                new = LapsedRow(row, wait, t)
         PROVE  Consistent(new)
    <2> DEFINE counted == [row EXCEPT !.lease_lapses = @ + 1]
    <2>1. /\ counted \in Row
          /\ counted.queued_at # None
      <3>1. row.queued_at # None
        BY <1>11, <1>c DEF Consistent, LeaseColumns
      <3> QED BY <3>1 DEF Row
    <2>2. \/ new = Move(row, "CANCELLED", t)
          \/ new = Move(counted, "ERROR", t)
          \/ new = Requeue(counted, t + wait, t)
      BY <1>11 DEF LapsedRow
    <2>3. "CANCELLED" \in Final /\ "ERROR" \in Final
      BY DEF Final
    <2> HIDE DEF counted
    <2>4. CASE new = Move(row, "CANCELLED", t)
      BY <1>0, <1>c, <2>3, <2>4, EndConsistent
    <2>5. CASE new = Move(counted, "ERROR", t)
      BY <1>0, <2>1, <2>3, <2>5, EndConsistent
    <2>6. CASE new = Requeue(counted, t + wait, t)
      BY <1>0, <2>1, <2>6, RequeueConsistent
    <2> QED BY <2>2, <2>4, <2>5, <2>6
  <1>12. ASSUME row.status = "PAUSED", new = EscalatedRow(row, t)
         PROVE  Consistent(new)
    <2> DEFINE escalated == [row.awaiting EXCEPT !.assignee    = row.awaiting.escalate_to,
                                                 !.escalate_to = None,
                                                 !.deadline    = None]
    <2>1. row.awaiting \in Question
      BY <1>12 DEF Consistent, WaitColumns, Row, Maybe
    <2>2. escalated \in Question /\ escalated.deadline = None
      BY <2>1, MaybeFacts DEF Question
    <2>3. escalated # None
      BY <2>2, NoneAssumption
    <2>4. \/ new = Move(row, "TIMEOUT", t)
          \/ new = [row EXCEPT !.awaiting          = escalated,
                               !.assignee          = escalated.assignee,
                               !.awaiting_deadline = None,
                               !.updated_at        = t]
      BY <1>12 DEF EscalatedRow
    <2> HIDE DEF escalated
    <2>5. CASE new = [row EXCEPT !.awaiting          = escalated,
                                 !.assignee          = escalated.assignee,
                                 !.awaiting_deadline = None,
                                 !.updated_at        = t]
      BY <1>12, <2>2, <2>3, <2>5 DEF Row, Consistent, ClockColumns, LeaseColumns, WaitColumns,
                                     QueueColumns
    <2> QED BY <1>10, <2>4, <2>5
  <1>13. ASSUME new = NoRow
         PROVE  Consistent(new)
    BY <1>13 DEF NoRow, Consistent, ClockColumns, LeaseColumns, WaitColumns, QueueColumns, Final
  <1> HIDE DEF Columns
  <1> QED BY <1>1, <1>2, <1>3, <1>4, <1>5, <1>6, <1>7, <1>8, <1>9, <1>10, <1>11, <1>12, <1>13
          DEF RowStep

------------------------------------------------------------------------------
(***************************************************************************)
(* A step in short: the run is started, stays in its status, leaves it for *)
(* another, or is deleted; and what becomes of its counters, its clock,    *)
(* its lease and a pending cancel.                                         *)
(***************************************************************************)
Born(row, new, t) ==
    /\ row.status = "ABSENT" /\ new.status \in {"QUEUED", "RUNNING"}
    /\ new.attempt = 1 /\ new.error_retries = 0 /\ new.lease_lapses = 0
    /\ new.worked_seconds = 0
    /\ new.running_since = IF new.status = "RUNNING" THEN t ELSE None
    /\ new.lease_owner = None /\ new.cancel_requested_at = None

Stayed(row, new, t) ==
    /\ row.status \in {"RUNNING", "PAUSED"} /\ new.status = row.status
    /\ new.attempt = row.attempt
    /\ new.error_retries = row.error_retries /\ new.lease_lapses = row.lease_lapses
    /\ new.worked_seconds = row.worked_seconds /\ new.running_since = row.running_since
    /\ new.lease_owner = row.lease_owner
    /\ \/ /\ new.cancel_requested_at = row.cancel_requested_at
          /\ \/ new.lease_expires_at = row.lease_expires_at
             \/ \E seconds \in LeaseSeconds :
                   new.lease_expires_at =
                     (IF row.cancel_requested_at = None THEN t ELSE row.cancel_requested_at) + seconds
       \/ /\ row.cancel_requested_at = None /\ row.lease_owner # None
          /\ new.cancel_requested_at = t
          /\ new.lease_expires_at = row.lease_expires_at

Left(row, new, t) ==
    /\ CanBecome(row.status, new.status)
    /\ row.cancel_requested_at # None => new.status \in Final
    /\ new.attempt = IF \/ new.status = "QUEUED"
                        \/ row.status = "PAUSED" /\ new.status = "RUNNING"
                     THEN row.attempt + 1 ELSE row.attempt
    /\ \/ new.error_retries = row.error_retries
       \/ new.error_retries = row.error_retries + 1 /\ row.error_retries < MAX_ERROR_RETRIES
    /\ \/ new.lease_lapses = row.lease_lapses
       \/ /\ new.lease_lapses = row.lease_lapses + 1
          /\ IF new.lease_lapses < MAX_LEASE_LAPSES THEN new.status = "QUEUED"
                                                    ELSE new.status = "ERROR"
    /\ new.worked_seconds = Worked(row, t)
    /\ new.running_since = IF new.status = "RUNNING" THEN t ELSE None
    /\ new.cancel_requested_at = None
    /\ IF row.status = "QUEUED" /\ new.status = "RUNNING"
       THEN /\ new.lease_owner \in Workers
            /\ \E seconds \in LeaseSeconds : new.lease_expires_at = t + seconds
       ELSE new.lease_owner = None
    /\ row.status = "RUNNING" /\ new.status = "QUEUED" => row.lease_owner # None

LEMMA MoveLeft ==
    ASSUME NEW row \in Row, NEW to \in Final, NEW t \in Nat, NEW new \in Row,
           CanBecome(row.status, to),
           \A c \in DOMAIN new \ {"settled_by", "cancelled_by"} : new[c] = Move(row, to, t)[c]
    PROVE  Left(row, new, t)
  <1>1. to \notin {"RUNNING", "QUEUED", "PAUSED"}
    BY DEF Final
  <1>2. /\ new.status = to /\ new.running_since = None /\ new.attempt = row.attempt
        /\ new.lease_owner = None /\ new.cancel_requested_at = None
        /\ new.worked_seconds = Worked(row, t)
        /\ new.error_retries = row.error_retries /\ new.lease_lapses = row.lease_lapses
    BY <1>1, MoveColumns DEF Row
  <1> QED BY <1>1, <1>2 DEF Left

\* A requeue, whatever it leaves as checkpoint.
LEMMA RequeueLeft ==
    ASSUME NEW row \in Row, NEW available, NEW t \in Nat, NEW new \in Row,
           row.status \in {"RUNNING", "PAUSED"}, row.cancel_requested_at = None,
           row.status = "RUNNING" => row.lease_owner # None,
           \A c \in DOMAIN new \ {"settled_by", "checkpoint"} :
               new[c] = Requeue(row, available, t)[c]
    PROVE  Left(row, new, t)
  <1>1. /\ new.status = "QUEUED" /\ new.running_since = None /\ new.attempt = row.attempt + 1
        /\ new.lease_owner = None /\ new.cancel_requested_at = None
        /\ new.worked_seconds = Worked(row, t)
        /\ new.error_retries = row.error_retries /\ new.lease_lapses = row.lease_lapses
    BY RequeueColumns DEF Row
  <1> QED BY <1>1 DEF Left, CanBecome

LEMMA RowStepCases ==
    ASSUME NEW row \in Row, NEW new, NEW t \in Nat, Consistent(row), RowStep(row, new, t)
    PROVE  \/ new = row
           \/ Born(row, new, t)
           \/ Stayed(row, new, t)
           \/ Left(row, new, t)
           \/ row.status \in Final /\ new = NoRow
  <1> DEFINE Goal == \/ new = row
                     \/ Born(row, new, t)
                     \/ Stayed(row, new, t)
                     \/ Left(row, new, t)
                     \/ row.status \in Final /\ new = NoRow
  <1> SUFFICES Goal
    OBVIOUS
  <1>0. new \in Row
    BY RowStepType
  <1>c. /\ row.cancel_requested_at # None => row.status = "RUNNING"
        /\ row.lease_owner # None => row.status = "RUNNING"
        /\ row.lease_expires_at # None => row.lease_owner # None
        /\ row.awaiting # None => row.status = "PAUSED"
        /\ row.status = "RUNNING" /\ row.queued_at # None => row.lease_owner # None
    BY DEF Consistent, LeaseColumns, WaitColumns, QueueColumns
  <1>m. ASSUME NEW to \in Live \cup Final
        PROVE  Move(row, to, t) \in Row
    BY <1>m, MoveType
  <1>f. "CANCELLED" \in Final /\ "TIMEOUT" \in Final /\ "ERROR" \in Final
    BY DEF Final
  <1>1. ASSUME NEW queue \in BOOLEAN, NEW deadline \in Deadlines, NEW timeout \in Timeouts,
               row.status = "ABSENT", new = NewRow(queue, deadline, timeout, t)
        PROVE  Goal
    BY <1>1 DEF NewRow, NoRow, Born
  <1>2. ASSUME NEW w \in Callers, NEW q \in Questions, NEW checkpoint \in Maybe(Checkpoints),
               row.status = "RUNNING", new = PausedRow(row, w, q, checkpoint, t)
        PROVE  Goal
    <2>1. CASE row.cancel_requested_at # None
      <3>1. new = [Move(row, "CANCELLED", t) EXCEPT !.settled_by = w]
        BY <1>2, <2>1 DEF PausedRow, Instead
      <3>2. CanBecome(row.status, "CANCELLED")
        BY <1>2, <1>f DEF CanBecome
      <3> QED BY <1>0, <1>m, <1>f, <3>1, <3>2, MoveLeft DEF Row
    <2>2. CASE row.cancel_requested_at = None
      <3>1. new = [Move(row, "PAUSED", t) EXCEPT !.checkpoint        = checkpoint,
                                                 !.awaiting          = q,
                                                 !.assignee          = q.assignee,
                                                 !.awaiting_deadline = q.deadline,
                                                 !.settled_by        = w]
        BY <1>2, <2>2 DEF PausedRow, Instead
      <3>2. Move(row, "PAUSED", t) \in Row
        BY <1>m DEF Live
      <3>3. /\ new.status = "PAUSED" /\ new.running_since = None /\ new.attempt = row.attempt
            /\ new.lease_owner = None /\ new.cancel_requested_at = None
            /\ new.worked_seconds = Worked(row, t)
            /\ new.error_retries = row.error_retries /\ new.lease_lapses = row.lease_lapses
        BY <3>1, <3>2, MoveColumns DEF Row
      <3> QED BY <1>2, <2>2, <3>3 DEF Left, CanBecome
    <2> QED BY <2>1, <2>2
  <1>3. ASSUME NEW answer \in Answers, row.awaiting # None, new = ResumedRow(row, answer, t)
        PROVE  Goal
    <2>0. row.status = "PAUSED" /\ row.cancel_requested_at = None
      BY <1>3, <1>c
    <2>1. CASE answer \in CancelAnswers
      <3>1. new = Move(row, "CANCELLED", t) /\ CanBecome(row.status, "CANCELLED")
        BY <1>3, <2>0, <2>1 DEF ResumedRow, CanBecome
      <3> QED BY <1>0, <1>f, <3>1, MoveLeft
    <2>2. CASE answer \notin CancelAnswers /\ row.queued_at # None
      <3>1. new = Requeue(row, None, t)
        BY <1>3, <2>2 DEF ResumedRow
      <3> QED BY <1>0, <2>0, <3>1, RequeueLeft
    <2>3. CASE answer \notin CancelAnswers /\ row.queued_at = None
      <3>1. new = [Move(row, "RUNNING", t) EXCEPT !.attempt = @ + 1]
        BY <1>3, <2>3 DEF ResumedRow
      <3>2. Move(row, "RUNNING", t) \in Row
        BY <1>m DEF Live
      <3>3. row.lease_owner = None
        BY <1>c, <2>0
      <3>4. /\ new.status = "RUNNING" /\ new.running_since = t /\ new.attempt = row.attempt + 1
            /\ new.lease_owner = None /\ new.cancel_requested_at = None
            /\ new.worked_seconds = Worked(row, t)
            /\ new.error_retries = row.error_retries /\ new.lease_lapses = row.lease_lapses
        BY <2>0, <3>1, <3>2, <3>3, MoveColumns DEF Row
      <3> QED BY <2>0, <3>4 DEF Left, CanBecome
    <2> QED BY <2>1, <2>2, <2>3
  <1>4. ASSUME NEW p \in Principals, row.cancel_requested_at = None,
               Leased(row) \/ CanBecome(row.status, "CANCELLED"), new = CancelledRow(row, p, t)
        PROVE  Goal
    <2>1. CASE Leased(row)
      <3>1. new = [row EXCEPT !.cancel_requested_at = t, !.updated_at = t, !.cancelled_by = p]
        BY <1>4, <2>1 DEF CancelledRow
      <3> QED BY <1>4, <2>1, <3>1 DEF Leased, Row, Stayed
    <2>2. CASE ~Leased(row)
      <3>1. new = [Move(row, "CANCELLED", t) EXCEPT !.cancelled_by = p]
        BY <1>4, <2>2 DEF CancelledRow
      <3> QED BY <1>0, <1>4, <1>m, <1>f, <2>2, <3>1, MoveLeft DEF Row
    <2> QED BY <2>1, <2>2
  <1>5. ASSUME NEW w \in Callers, NEW wait \in Nat, Retried(row, "ERROR", TRUE),
               new = RetriedRow(row, w, wait, t)
        PROVE  Goal
    <2> DEFINE counted == [row EXCEPT !.error_retries = @ + 1]
    <2>1. counted \in Row /\ t + wait \in Maybe(Nat)
      BY MaybeFacts DEF Row
    <2>2. Requeue(counted, t + wait, t) \in Row
      BY <2>1, RequeueType
    <2>3. /\ row.status = "RUNNING" /\ row.lease_owner # None /\ row.cancel_requested_at = None
          /\ row.error_retries < MAX_ERROR_RETRIES
      BY <1>5, <1>c DEF Retried
    <2>4. /\ counted.attempt = row.attempt /\ counted.error_retries = row.error_retries + 1
          /\ counted.lease_lapses = row.lease_lapses /\ Worked(counted, t) = Worked(row, t)
      BY DEF Row, Worked
    <2>5. new = [Requeue(counted, t + wait, t) EXCEPT !.settled_by = w]
      BY <1>5 DEF RetriedRow
    <2> HIDE DEF counted
    <2>6. /\ new.status = "QUEUED" /\ new.running_since = None /\ new.attempt = row.attempt + 1
          /\ new.lease_owner = None /\ new.cancel_requested_at = None
          /\ new.worked_seconds = Worked(row, t)
          /\ new.error_retries = row.error_retries + 1 /\ new.lease_lapses = row.lease_lapses
      BY <2>1, <2>2, <2>4, <2>5, RequeueColumns DEF Row
    <2> QED BY <2>3, <2>6 DEF Left, CanBecome
  <1>6. ASSUME NEW w \in Callers, NEW status \in Final, CanBecome(row.status, status),
               new = FinishedRow(row, w, status, t)
        PROVE  Goal
    <2>1. Move(row, status, t) \in Row
      BY <1>m
    <2> QED BY <1>0, <1>6, <2>1, MoveLeft DEF FinishedRow, Row
  <1>7. ASSUME NEW w \in Workers, NEW seconds \in LeaseSeconds, row.status = "QUEUED",
               new = ClaimedRow(row, w, seconds, t)
        PROVE  Goal
    <2> DEFINE m == Move(row, "RUNNING", t)
    <2>1. m \in Row
      BY <1>m DEF Live
    <2>2. row.cancel_requested_at = None
      BY <1>7, <1>c
    <2>3. /\ m.status = "RUNNING" /\ m.running_since = t /\ m.attempt = row.attempt
          /\ m.cancel_requested_at = None /\ m.worked_seconds = Worked(row, t)
          /\ m.error_retries = row.error_retries /\ m.lease_lapses = row.lease_lapses
      BY <2>2, MoveColumns
    <2>4. new = Lease(m, w, seconds, t)
      BY <1>7 DEF ClaimedRow
    <2> HIDE DEF m
    <2>5. /\ new.status = "RUNNING" /\ new.running_since = t /\ new.attempt = row.attempt
          /\ new.cancel_requested_at = None /\ new.worked_seconds = Worked(row, t)
          /\ new.error_retries = row.error_retries /\ new.lease_lapses = row.lease_lapses
          /\ new.lease_owner = w /\ new.lease_expires_at = t + seconds
      BY <2>1, <2>3, <2>4, LeaseColumnsOf
    <2> QED BY <1>7, <2>2, <2>5 DEF Left, CanBecome
  <1>8. ASSUME NEW w \in Workers, NEW seconds \in LeaseSeconds,
               NEW checkpoint \in Maybe(Checkpoints),
               row.status = "RUNNING", row.lease_owner = w,
               new = BeatenRow(row, w, seconds, checkpoint, t)
        PROVE  Goal
    <2>1. PICK kept \in Row :
              /\ new = Lease(kept, w, seconds, t)
              /\ \A c \in DOMAIN row \ {"checkpoint", "updated_at"} : kept[c] = row[c]
      <3>1. [row EXCEPT !.checkpoint = checkpoint, !.updated_at = t] \in Row
        BY MaybeFacts DEF Row
      <3> QED BY <1>8, <3>1 DEF BeatenRow, Row
    <2>2. /\ kept.status = row.status /\ kept.running_since = row.running_since
          /\ kept.attempt = row.attempt /\ kept.worked_seconds = row.worked_seconds
          /\ kept.cancel_requested_at = row.cancel_requested_at
          /\ kept.error_retries = row.error_retries /\ kept.lease_lapses = row.lease_lapses
      BY <2>1 DEF Row
    <2>3. new = Lease(kept, w, seconds, t)
      BY <2>1
    <2>4. /\ new.status = row.status /\ new.running_since = row.running_since
          /\ new.attempt = row.attempt /\ new.worked_seconds = row.worked_seconds
          /\ new.cancel_requested_at = row.cancel_requested_at
          /\ new.error_retries = row.error_retries /\ new.lease_lapses = row.lease_lapses
          /\ new.lease_owner = row.lease_owner
          /\ new.lease_expires_at =
               (IF row.cancel_requested_at = None THEN t ELSE row.cancel_requested_at) + seconds
      BY <1>8, <2>2, <2>3, LeaseColumnsOf
    <2> QED BY <1>8, <2>4 DEF Stayed
  <1>9. ASSUME NEW w \in Workers, NEW checkpoint \in Maybe(Checkpoints),
               row.status = "RUNNING", row.lease_owner = w,
               new = ReleasedRow(row, w, checkpoint, t)
        PROVE  Goal
    <2>1. CASE row.cancel_requested_at # None
      <3>1. new = [Move(row, "CANCELLED", t) EXCEPT !.settled_by = w]
        BY <1>9, <2>1 DEF ReleasedRow, Instead
      <3>2. CanBecome(row.status, "CANCELLED")
        BY <1>9, <1>f DEF CanBecome
      <3> QED BY <1>0, <1>m, <1>f, <3>1, <3>2, MoveLeft DEF Row
    <2>2. CASE row.cancel_requested_at = None
      <3>1. Requeue(row, None, t) \in Row
        BY RequeueType, MaybeFacts
      <3>2. \A c \in DOMAIN new \ {"settled_by", "checkpoint"} : new[c] = Requeue(row, None, t)[c]
        BY <1>9, <2>2, <3>1 DEF ReleasedRow, Instead, Row
      <3> QED BY <1>0, <1>9, <2>2, <3>2, NoneAssumption, RequeueLeft
    <2> QED BY <2>1, <2>2
  <1>10. ASSUME row.status \in Live, new = Move(row, "TIMEOUT", t)
         PROVE  Goal
    <2>1. CanBecome(row.status, "TIMEOUT")
      BY <1>10, <1>f DEF CanBecome, Live
    <2> QED BY <1>0, <1>10, <1>f, <2>1, MoveLeft
  <1>11. ASSUME NEW wait \in Nat, row.status = "RUNNING", row.lease_expires_at # None,
                new = LapsedRow(row, wait, t)
         PROVE  Goal
    <2> DEFINE counted == [row EXCEPT !.lease_lapses = @ + 1]
    <2>1. /\ counted \in Row
          /\ counted.attempt = row.attempt /\ counted.error_retries = row.error_retries
          /\ counted.lease_lapses = row.lease_lapses + 1 /\ Worked(counted, t) = Worked(row, t)
      BY DEF Row, Worked
    <2>2. CASE row.cancel_requested_at # None
      <3>1. new = Move(row, "CANCELLED", t) /\ CanBecome(row.status, "CANCELLED")
        BY <1>11, <1>f, <2>2 DEF LapsedRow, Instead, CanBecome
      <3> QED BY <1>0, <1>f, <3>1, MoveLeft
    <2>3. CASE row.cancel_requested_at = None /\ counted.lease_lapses >= MAX_LEASE_LAPSES
      <3>1. new = Move(counted, "ERROR", t)
        BY <1>11, <2>3 DEF LapsedRow, Instead
      <3> HIDE DEF counted
      <3>2. /\ new.status = "ERROR" /\ new.running_since = None /\ new.attempt = row.attempt
            /\ new.lease_owner = None /\ new.cancel_requested_at = None
            /\ new.worked_seconds = Worked(row, t)
            /\ new.error_retries = row.error_retries /\ new.lease_lapses = row.lease_lapses + 1
        BY <2>1, <3>1, MoveColumns
      <3>3. ~(new.lease_lapses < MAX_LEASE_LAPSES)
        BY <2>1, <2>3, <3>2, LimitsAssumption DEF Row
      <3> QED BY <1>11, <1>f, <3>2, <3>3 DEF Left, CanBecome
    <2>4. CASE row.cancel_requested_at = None /\ ~(counted.lease_lapses >= MAX_LEASE_LAPSES)
      <3>1. new = Requeue(counted, t + wait, t)
        BY <1>11, <2>4 DEF LapsedRow, Instead
      <3> HIDE DEF counted
      <3>2. /\ new.status = "QUEUED" /\ new.running_since = None /\ new.attempt = row.attempt + 1
            /\ new.lease_owner = None /\ new.cancel_requested_at = None
            /\ new.worked_seconds = Worked(row, t)
            /\ new.error_retries = row.error_retries /\ new.lease_lapses = row.lease_lapses + 1
        BY <2>1, <3>1, RequeueColumns
      <3>3. new.lease_lapses < MAX_LEASE_LAPSES
        BY <2>1, <2>4, <3>2, LimitsAssumption DEF Row
      <3> QED BY <1>11, <1>c, <2>4, <3>2, <3>3 DEF Left, CanBecome
    <2> QED BY <2>2, <2>3, <2>4
  <1>12. ASSUME row.status = "PAUSED", new = EscalatedRow(row, t)
         PROVE  Goal
    <2> DEFINE escalated == [row.awaiting EXCEPT !.assignee    = row.awaiting.escalate_to,
                                                 !.escalate_to = None,
                                                 !.deadline    = None]
    <2>1. \/ new = Move(row, "TIMEOUT", t)
          \/ new = [row EXCEPT !.awaiting          = escalated,
                               !.assignee          = escalated.assignee,
                               !.awaiting_deadline = None,
                               !.updated_at        = t]
      BY <1>12 DEF EscalatedRow
    <2> HIDE DEF escalated
    <2>2. CASE new = [row EXCEPT !.awaiting          = escalated,
                                 !.assignee          = escalated.assignee,
                                 !.awaiting_deadline = None,
                                 !.updated_at        = t]
      BY <1>12, <2>2 DEF Row, Stayed
    <2>3. row.status \in Live
      BY <1>12 DEF Live
    <2> QED BY <1>10, <2>1, <2>2, <2>3
  <1> HIDE DEF Goal
  <1>13. new = row \/ (row.status \in Final /\ new = NoRow) => Goal
    BY DEF Goal
  <1> QED BY <1>1, <1>2, <1>3, <1>4, <1>5, <1>6, <1>7, <1>8, <1>9, <1>10, <1>11, <1>12, <1>13
          DEF RowStep

------------------------------------------------------------------------------
(***************************************************************************)
(* The invariant of the store.                                             *)
(***************************************************************************)

\* The RUNNING stretch going on began at a known time, not in the future.
BeganKnown ==
    \A r \in RunIds :
        rows[r].status = "RUNNING" => ran[r].began \in Nat /\ ran[r].began <= now

Inv == TypeOK /\ RowsConsistent /\ BeganKnown

------------------------------------------------------------------------------
(***************************************************************************)
(* The rows of the other tables.                                           *)
(***************************************************************************)
LEMMA ClockType ==
    ASSUME TypeOK, NEW t \in Clock
    PROVE  t \in Nat /\ t <= now /\ now <= t + MaxDelay
  BY DEF TypeOK, Clock

LEMMA EndedType ==
    ASSUME TypeOK, NEW t \in Nat, NEW S, Ended(S, t)
    PROVE  artifacts' \in [RunIds -> SUBSET Maybe(Nat)]
  <1>1. \A at \in Maybe(Nat) : (IF at = None THEN t + ARTIFACT_RETENTION ELSE at) \in Maybe(Nat)
    BY StoreAssumption DEF Maybe
  <1>2. ASSUME NEW r \in RunIds
        PROVE  {IF at = None THEN t + ARTIFACT_RETENTION ELSE at : at \in artifacts[r]}
                  \in SUBSET Maybe(Nat)
    BY <1>1 DEF TypeOK
  <1> QED BY <1>2 DEF Ended, TypeOK

LEMMA EnvelopeType ==
    ASSUME NEW row \in Row, Consistent(row), NEW e \in EventOf(row) \cup SweptEventOf(row)
    PROVE  Envelope(row, e) \in EventId
  <1>1. row.status \in {"PAUSED"} \cup Final /\ e \in {"run.paused", "run.escalated", "run.finished"}
    BY DEF EventOf, SweptEventOf
  <1>2. (IF row.awaiting = None THEN None ELSE row.awaiting.assignee) \in Maybe(Assignees)
    BY DEF Row, Maybe, Question
  <1>3. row.attempt \in Nat
    BY DEF Row
  <1> QED BY <1>1, <1>2, <1>3 DEF Envelope, EventId

LEMMA RequestTables ==
    ASSUME TypeOK, NEW t \in Clock, NEW r0 \in RunIds, Request(r0, t),
           rows' \in [RunIds -> Row], RowsConsistent'
    PROVE  /\ resolutions' \in [RunIds -> SUBSET Resolution]
           /\ artifacts' \in [RunIds -> SUBSET Maybe(Nat)]
           /\ outbox' \in [RunIds -> SUBSET EventId]
           /\ releases' \in [RunIds -> Nat]
  <1>1. t \in Nat
    BY ClockType
  <1>2. \/ UNCHANGED artifacts
        \/ Ended({r0}, t)
        \/ artifacts' = [artifacts EXCEPT ![r0] = @ \cup {None}]
    BY DEF Request, Start, Pause, Resume, Cancel, Finish, Claim, Heartbeat, Release, AddArtifact
  <1>3. artifacts' \in [RunIds -> SUBSET Maybe(Nat)]
    BY <1>1, <1>2, EndedType, MaybeFacts DEF TypeOK
  <1>4. UNCHANGED outbox \/ Announce({r0}, EventOf)
    BY DEF Request, Start, Pause, Resume, Cancel, Finish, Claim, Heartbeat, Release, AddArtifact
  <1>5. outbox' \in [RunIds -> SUBSET EventId]
    <2>1. \A e \in EventOf(rows'[r0]) : Envelope(rows'[r0], e) \in EventId
      BY EnvelopeType DEF RowsConsistent
    <2> QED BY <1>4, <2>1 DEF Announce, TypeOK
  <1>6. releases' \in [RunIds -> Nat]
    BY DEF Request, Start, Pause, Resume, Cancel, Finish, Claim, Heartbeat, Release, AddArtifact,
           TypeOK
  <1>7. resolutions' \in [RunIds -> SUBSET Resolution]
    BY DEF Request, Start, Pause, Resume, Cancel, Finish, Claim, Heartbeat, Release, AddArtifact,
           TypeOK, Resolution
  <1> QED BY <1>3, <1>5, <1>6, <1>7

LEMMA SweepTables ==
    ASSUME TypeOK, NEW t \in Clock, NEW S \in SUBSET RunIds, Sweep(S, t),
           rows' \in [RunIds -> Row], RowsConsistent'
    PROVE  /\ resolutions' \in [RunIds -> SUBSET Resolution]
           /\ artifacts' \in [RunIds -> SUBSET Maybe(Nat)]
           /\ outbox' \in [RunIds -> SUBSET EventId]
           /\ releases' \in [RunIds -> Nat]
  <1>1. t \in Nat
    BY ClockType
  <1>2. CASE Swept(S, t)
    <2>1. \A r \in RunIds : \A e \in SweptEventOf(rows'[r]) : Envelope(rows'[r], e) \in EventId
      BY EnvelopeType DEF RowsConsistent
    <2>2. outbox' \in [RunIds -> SUBSET EventId]
      BY <1>2, <2>1 DEF Swept, Announce, TypeOK
    <2>3. artifacts' \in [RunIds -> SUBSET Maybe(Nat)]
      BY <1>1, <1>2, EndedType DEF Swept
    <2> QED BY <1>2, <2>2, <2>3 DEF Swept, TypeOK
  <1>3. CASE PurgeEnded(S, t)
    BY <1>3 DEF PurgeEnded, TypeOK
  <1>4. CASE PurgeArtifacts(S, t)
    BY <1>4 DEF PurgeArtifacts, TypeOK
  <1> QED BY <1>2, <1>3, <1>4
          DEF Sweep, TimeOutPastDeadline, TimeOutOverworked, RequeueLapsed, EscalateOverdue

LEMMA ObservedType ==
    ASSUME Inv, rows' \in [RunIds -> Row], Observed
    PROVE  /\ ran' \in [RunIds -> Ran]
           /\ \A r \in RunIds : rows'[r].status = "RUNNING" => ran'[r].began \in Nat /\ ran'[r].began <= now
  <1>1. ASSUME NEW r \in RunIds
        PROVE  /\ Observation(ran[r], rows[r].status, rows'[r]) \in Ran
               /\ rows'[r].status = "RUNNING" =>
                     LET o == Observation(ran[r], rows[r].status, rows'[r])
                     IN  o.began \in Nat /\ o.began <= now
    <2>1. /\ ran[r] \in Ran /\ rows'[r].attempt \in Nat /\ now \in Nat
          /\ rows[r].status = "RUNNING" => ran[r].began \in Nat /\ ran[r].began <= now
      BY DEF Inv, TypeOK, BeganKnown, Row
    <2>2. now \in Maybe(Nat) /\ None \in Maybe(Nat)
      BY <2>1, MaybeFacts
    <2>3. NoRan \in Ran
      BY MaybeFacts DEF NoRan, Ran
    <2>4. [ran[r] EXCEPT !.began = now, !.attempt = rows'[r].attempt] \in Ran
      BY <2>1, <2>2 DEF Ran
    <2>5. ASSUME rows[r].status = "RUNNING"
          PROVE  [ran[r] EXCEPT !.began = None,
                                !.total = @ + (now - ran[r].began),
                                !.slack = @ + MaxDelay] \in Ran
      <3>1. ran[r].total + (now - ran[r].began) \in Nat /\ ran[r].slack + MaxDelay \in Nat
        BY <2>1, <2>5, StoreAssumption DEF Ran
      <3> QED BY <2>1, <2>2, <3>1 DEF Ran
    <2>6. [ran[r] EXCEPT !.began = now, !.attempt = rows'[r].attempt].began = now
      BY <2>1 DEF Ran
    <2> QED BY <2>1, <2>3, <2>4, <2>5, <2>6 DEF Observation
  <1> QED BY <1>1 DEF Observed

------------------------------------------------------------------------------
LEMMA InvInit == Init => Inv
  <1> SUFFICES ASSUME Init PROVE Inv
    OBVIOUS
  <1>1. NoRow \in Row /\ NoRan \in Ran
    BY MaybeFacts DEF NoRow, Row, NoRan, Ran
  <1>2. Consistent(NoRow) /\ NoRow.status = "ABSENT"
    BY DEF NoRow, Consistent, ClockColumns, LeaseColumns, WaitColumns, QueueColumns, Final
  <1> QED BY <1>1, <1>2 DEF Init, Inv, TypeOK, RowsConsistent, BeganKnown

LEMMA InvNext == Inv /\ [Next]_vars => Inv'
  <1> SUFFICES ASSUME Inv, [Next]_vars PROVE Inv'
    OBVIOUS
  <1>1. CASE Transaction
    <2>1. PICK t \in Clock : \A r \in RunIds : RowStep(rows[r], rows'[r], t)
      BY <1>1, StepRows DEF Inv
    <2>2. t \in Nat
      BY ClockType DEF Inv
    <2>3. \A r \in RunIds : rows[r] \in Row /\ Consistent(rows[r])
      BY DEF Inv, TypeOK, RowsConsistent
    <2>4. \A r \in RunIds : rows'[r] \in Row
      BY <2>1, <2>2, <2>3, RowStepType
    <2>5. RowsConsistent'
      BY <2>1, <2>2, <2>3, RowStepConsistent DEF RowsConsistent
    <2>6. rows' \in [RunIds -> Row]
      <3>1. \E f : rows' = [r \in RunIds |-> f[r]]
        <4>1. PICK u \in Clock : \/ \E r \in RunIds : Request(r, u)
                                 \/ \E S \in SUBSET RunIds \ {{}} : Sweep(S, u)
          BY <1>1 DEF Transaction
        <4>2. ASSUME NEW r \in RunIds, Request(r, u)
              PROVE  DOMAIN rows' = RunIds /\ rows' = [s \in RunIds |-> rows'[s]]
          BY <4>2 DEF Request, Start, Pause, Resume, Cancel, Finish, Claim, Heartbeat, Release,
                      AddArtifact, Inv, TypeOK
        <4>3. ASSUME NEW S \in SUBSET RunIds, Sweep(S, u)
              PROVE  rows' = [s \in RunIds |-> rows'[s]]
          BY <4>3 DEF Sweep, TimeOutPastDeadline, TimeOutOverworked, RequeueLapsed,
                      EscalateOverdue, PurgeEnded, PurgeArtifacts, Store, Inv, TypeOK
        <4> QED BY <4>1, <4>2, <4>3
      <3> QED BY <2>4, <3>1
    <2>7. /\ resolutions' \in [RunIds -> SUBSET Resolution]
          /\ artifacts' \in [RunIds -> SUBSET Maybe(Nat)]
          /\ outbox' \in [RunIds -> SUBSET EventId]
          /\ releases' \in [RunIds -> Nat]
      BY <1>1, <2>5, <2>6, RequestTables, SweepTables DEF Transaction, Inv
    <2>8. /\ ran' \in [RunIds -> Ran]
          /\ \A r \in RunIds : rows'[r].status = "RUNNING" => ran'[r].began \in Nat /\ ran'[r].began <= now
      BY <1>1, <2>6, ObservedType DEF Transaction
    <2> QED BY <1>1, <2>5, <2>6, <2>7, <2>8 DEF Transaction, Inv, TypeOK, BeganKnown
  <1>2. CASE Tick
    <2>1. TypeOK' /\ RowsConsistent'
      BY <1>2 DEF Tick, Inv, TypeOK, RowsConsistent
    <2>2. BeganKnown'
      BY <1>2 DEF Tick, Inv, TypeOK, BeganKnown
    <2> QED BY <2>1, <2>2 DEF Inv
  <1>3. CASE UNCHANGED vars
    BY <1>3 DEF vars, Inv, TypeOK, RowsConsistent, BeganKnown
  <1> QED BY <1>1, <1>2, <1>3 DEF Next

LEMMA InvAlways == Spec => []Inv
  BY InvInit, InvNext, PTL DEF Spec

\* Every column always has its type: whatever order the clocks were read in, no working
\* time is ever negative (_worked), and no announced event has an id off its type.
THEOREM TypeCorrect == Spec => []TypeOK
  BY InvAlways, PTL DEF Inv

\* Whatever requests and sweeps come, in whatever order, the columns of every row agree
\* with its status (the comments of RunRow, what _move keeps).
THEOREM ColumnsAgree == Spec => []RowsConsistent
  BY InvAlways, PTL DEF Inv

------------------------------------------------------------------------------
(***************************************************************************)
(* From here on a step is what RowStepCases makes of it.                   *)
(***************************************************************************)
Change(row, new, t) ==
    \/ new = row
    \/ Born(row, new, t)
    \/ Stayed(row, new, t)
    \/ Left(row, new, t)
    \/ row.status \in Final /\ new = NoRow

LEMMA StepCases ==
    ASSUME Inv, [Next]_vars
    PROVE  \E t \in Clock : \A r \in RunIds : Change(rows[r], rows'[r], t)
  <1>1. CASE Transaction
    <2>1. PICK t \in Clock : \A r \in RunIds : RowStep(rows[r], rows'[r], t)
      BY <1>1, StepRows DEF Inv
    <2>2. t \in Nat
      BY ClockType DEF Inv
    <2>3. \A r \in RunIds : rows[r] \in Row /\ Consistent(rows[r])
      BY DEF Inv, TypeOK, RowsConsistent
    <2> QED BY <2>1, <2>2, <2>3, RowStepCases DEF Change
  <1>2. CASE UNCHANGED rows
    <2>1. now \in Clock
      BY StoreAssumption DEF Inv, TypeOK, Clock
    <2> QED BY <1>2, <2>1 DEF Change
  <1> QED BY <1>1, <1>2 DEF Next, Tick, vars

\* A run whose cancel was asked for never pauses and never goes back on the queue: it
\* stays with its worker, the request standing, until it ends (_cancelled_instead).
THEOREM CancelIsHonoured == Spec => CancelHonoured
  <1> DEFINE Honoured(row, new) ==
          row.cancel_requested_at # None =>
              \/ new.status \in Final
              \/ /\ new.status = "RUNNING"
                 /\ new.lease_owner = row.lease_owner
                 /\ new.cancel_requested_at = row.cancel_requested_at
  <1>1. Inv /\ [Next]_vars => [\A r \in RunIds : Honoured(rows[r], rows'[r])]_vars
    <2> SUFFICES ASSUME Inv, [Next]_vars, NEW r \in RunIds
                 PROVE  Honoured(rows[r], rows'[r])
      BY DEF Honoured
    <2>1. rows[r].cancel_requested_at # None => rows[r].status = "RUNNING"
      BY DEF Inv, RowsConsistent, Consistent, LeaseColumns
    <2>2. PICK t \in Clock : Change(rows[r], rows'[r], t)
      BY StepCases
    <2> QED BY <2>1, <2>2 DEF Change, Born, Stayed, Left, Final
  <1>2. [][\A r \in RunIds : Honoured(rows[r], rows'[r])]_vars => CancelHonoured
    BY PTL DEF CancelHonoured
  <1> QED BY <1>1, <1>2, InvAlways, PTL DEF Spec

\* Retries and lapses stay within their limits, and the last lapse ends the run.
THEOREM RetriesAreBounded == Spec => []RetriesBounded
  <1>1. Init => RetriesBounded
    BY LimitsAssumption DEF Init, RetriesBounded, NoRow
  <1>2. Inv /\ RetriesBounded /\ [Next]_vars => RetriesBounded'
    <2> SUFFICES ASSUME Inv, RetriesBounded, [Next]_vars, NEW r \in RunIds
                 PROVE  /\ rows'[r].error_retries <= MAX_ERROR_RETRIES
                        /\ rows'[r].lease_lapses <= MAX_LEASE_LAPSES
                        /\ rows'[r].lease_lapses = MAX_LEASE_LAPSES => rows'[r].status = "ERROR"
      BY DEF RetriesBounded
    <2>1. /\ rows[r].error_retries <= MAX_ERROR_RETRIES
          /\ rows[r].lease_lapses <= MAX_LEASE_LAPSES
          /\ rows[r].lease_lapses = MAX_LEASE_LAPSES => rows[r].status = "ERROR"
          /\ rows[r].error_retries \in Nat /\ rows[r].lease_lapses \in Nat
      BY DEF RetriesBounded, Inv, TypeOK, Row
    <2>2. PICK t \in Clock : Change(rows[r], rows'[r], t)
      BY StepCases
    <2>3. CASE Left(rows[r], rows'[r], t)
      <3>1. rows[r].status # "ERROR"
        BY <2>3 DEF Left, CanBecome
      <3> QED BY <2>1, <2>3, <3>1, LimitsAssumption DEF Left
    <2>4. CASE ~Left(rows[r], rows'[r], t)
      BY <2>1, <2>2, <2>4, LimitsAssumption DEF Change, Born, Stayed, NoRow
    <2> QED BY <2>3, <2>4
  <1> QED BY <1>1, <1>2, InvAlways, PTL DEF Spec

------------------------------------------------------------------------------
(***************************************************************************)
(* Leases and cancels.  CancelBound is not inductive: that a request comes *)
(* with a lease of bounded length needs every lease to be bounded from the *)
(* present on, and no request to be in the future.                         *)
(***************************************************************************)
LeasesBounded ==
    \A r \in RunIds :
        /\ rows[r].lease_expires_at # None => rows[r].lease_expires_at <= now + MAX_LEASE_SECONDS
        /\ rows[r].cancel_requested_at # None => rows[r].cancel_requested_at <= now

\* Once its cancel was asked for, a run's lease ends within one lease of the request (and
\* the age of a clock reading), however often its worker heartbeats (_lease).
THEOREM CancelIsBounded == Spec => []CancelBound
  <1> DEFINE IInv == LeasesBounded /\ CancelBound
             Bounded(row, time) ==
                 /\ row.lease_expires_at # None =>
                       row.lease_expires_at <= time + MAX_LEASE_SECONDS
                 /\ row.cancel_requested_at # None =>
                       /\ row.cancel_requested_at <= time
                       /\ row.lease_expires_at <=
                            row.cancel_requested_at + MAX_LEASE_SECONDS + MaxDelay
  <1>1. Init => IInv
    BY DEF Init, LeasesBounded, CancelBound, NoRow
  <1>2. Inv /\ IInv /\ [Next]_vars /\ Inv' => IInv'
    <2> SUFFICES ASSUME Inv, IInv, [Next]_vars, Inv', NEW r \in RunIds
                 PROVE  Bounded(rows'[r], now')
      BY DEF LeasesBounded, CancelBound
    <2> DEFINE row == rows[r]
               new == rows'[r]
    <2> SUFFICES Bounded(new, now')
      OBVIOUS
    <2>1. PICK t \in Clock : Change(row, new, t)
      BY StepCases
    <2>2. t \in Nat /\ t <= now /\ now <= t + MaxDelay /\ now \in Nat
      BY ClockType DEF Inv, TypeOK
    <2>3. now' \in Nat /\ now <= now'
      BY DEF Next, Transaction, Tick, vars, Inv, TypeOK
    <2>4. /\ row \in Row /\ new \in Row /\ MAX_LEASE_SECONDS \in Nat /\ MaxDelay \in Nat
          /\ \A seconds \in LeaseSeconds : seconds \in Nat /\ seconds <= MAX_LEASE_SECONDS
      BY StoreAssumption DEF Inv, TypeOK
    <2>5. /\ row.lease_expires_at # None =>
                /\ row.lease_expires_at \in Nat
                /\ row.lease_expires_at <= now + MAX_LEASE_SECONDS
          /\ row.cancel_requested_at # None =>
                /\ row.cancel_requested_at \in Nat /\ row.lease_expires_at \in Nat
                /\ row.cancel_requested_at <= now
                /\ row.lease_expires_at <=
                     row.cancel_requested_at + MAX_LEASE_SECONDS + MaxDelay
          /\ row.lease_owner # None <=> row.lease_expires_at # None
      BY <2>4 DEF LeasesBounded, CancelBound, Inv, RowsConsistent, Consistent, LeaseColumns, Row, Maybe
    <2>6. new.lease_owner = None <=> new.lease_expires_at = None
      BY DEF Inv, RowsConsistent, Consistent, LeaseColumns
    <2> HIDE DEF row, new
    <2>7. CASE new = row
      BY <2>2, <2>3, <2>4, <2>5, <2>7
    <2>8. CASE Born(row, new, t)
      BY <2>6, <2>8 DEF Born
    <2>9. CASE Stayed(row, new, t)
      BY <2>2, <2>3, <2>4, <2>5, <2>9, NoneAssumption DEF Stayed
    <2>10. CASE Left(row, new, t)
      BY <2>2, <2>3, <2>4, <2>6, <2>10 DEF Left
    <2>11. CASE new = NoRow
      BY <2>11 DEF NoRow
    <2> QED BY <2>1, <2>7, <2>8, <2>9, <2>10, <2>11 DEF Change
  <1> QED BY <1>1, <1>2, InvAlways, PTL DEF Spec

------------------------------------------------------------------------------
(***************************************************************************)
(* The history.  A stretch is measured from running_since to the end's     *)
(* clock reading, and really lasts from ran.began to the present: both     *)
(* ends are off by MaxDelay at most, in the same direction.                *)
(***************************************************************************)
HistoryMatches(row, h) ==
    /\ row.status = "ABSENT" => h = NoRan
    /\ row.status = "RUNNING" => /\ row.running_since <= h.began
                                 /\ h.began <= row.running_since + MaxDelay
                                 /\ row.attempt >= h.attempt
    /\ row.status = "PAUSED" => row.attempt >= h.attempt
    /\ row.status = "QUEUED" => row.attempt > h.attempt
    /\ row.worked_seconds <= h.total + h.slack
    /\ h.total <= row.worked_seconds + h.slack

HistoriesMatch == \A r \in RunIds : HistoryMatches(rows[r], ran[r])

LEMMA HistoryStep ==
    ASSUME Inv, Inv', NEW r \in RunIds, NEW t \in Clock, Change(rows[r], rows'[r], t),
           HistoryMatches(rows[r], ran[r]),
           ran'[r] = Observation(ran[r], rows[r].status, rows'[r])
    PROVE  /\ HistoryMatches(rows'[r], ran'[r])
           /\ rows[r].status # "RUNNING" /\ rows'[r].status = "RUNNING" =>
                  rows'[r].attempt > ran[r].attempt
  <1> DEFINE row == rows[r]
             new == rows'[r]
             h   == ran[r]
             o   == ran'[r]
             Goal == /\ HistoryMatches(new, o)
                     /\ row.status # "RUNNING" /\ new.status = "RUNNING" =>
                            new.attempt > h.attempt
  <1> SUFFICES Goal
    OBVIOUS
  <1>1. t \in Nat /\ t <= now /\ now <= t + MaxDelay /\ now \in Nat /\ MaxDelay \in Nat
    BY ClockType, StoreAssumption DEF Inv, TypeOK
  <1>2. row \in Row /\ new \in Row /\ h \in Ran /\ o \in Ran
    BY DEF Inv, TypeOK
  <1>3. /\ row.attempt \in Nat /\ row.worked_seconds \in Nat
        /\ new.attempt \in Nat /\ new.worked_seconds \in Nat
        /\ h.total \in Nat /\ h.slack \in Nat /\ h.attempt \in Nat
    BY <1>2 DEF Row, Ran
  <1>4. /\ row.status = "RUNNING" => h.began \in Nat /\ h.began <= now /\ row.running_since \in Nat
        /\ row.status # "RUNNING" => row.running_since = None
    BY <1>2, NoneAssumption
       DEF Inv, BeganKnown, RowsConsistent, Consistent, ClockColumns, Row, Maybe
  <1>5. /\ HistoryMatches(row, h) /\ Change(row, new, t)
        /\ o = Observation(h, row.status, new)
    OBVIOUS
  <1> HIDE DEF row, new, h, o
  <1>6. CASE new = row
    <2>1. o = h
      BY <1>5, <1>6 DEF Observation, HistoryMatches
    <2> QED BY <1>5, <1>6, <2>1
  <1>7. CASE Born(row, new, t)
    <2>1. h = NoRan
      BY <1>5, <1>7 DEF Born, HistoryMatches
    <2>2. CASE new.status = "RUNNING"
      <3>1. o.began = now /\ o.attempt = 1 /\ o.total = 0 /\ o.slack = 0
        BY <1>2, <1>5, <1>7, <2>1, <2>2 DEF Observation, Born, NoRan
      <3> QED BY <1>1, <1>7, <2>1, <2>2, <3>1 DEF Born, HistoryMatches, NoRan
    <2>3. CASE new.status = "QUEUED"
      <3>1. o = NoRan
        BY <1>5, <1>7, <2>1, <2>3 DEF Observation, Born
      <3> QED BY <1>1, <1>7, <2>3, <3>1 DEF Born, HistoryMatches, NoRan
    <2> QED BY <1>7, <2>2, <2>3 DEF Born
  <1>8. CASE Stayed(row, new, t)
    <2>1. o = h
      BY <1>5, <1>8 DEF Observation, Stayed
    <2> QED BY <1>5, <1>8, <2>1 DEF Stayed, HistoryMatches
  <1>9. CASE Left(row, new, t)
    <2>1. CASE row.status = "RUNNING"
      <3>1. new.status \notin {"RUNNING", "ABSENT"}
        BY <1>9, <2>1 DEF Left, CanBecome, Final
      <3>2. /\ o.total = h.total + (now - h.began) /\ o.slack = h.slack + MaxDelay
            /\ o.attempt = h.attempt
        BY <1>2, <1>5, <2>1, <3>1 DEF Observation, Ran
      <3>3. /\ row.running_since <= h.began /\ h.began <= row.running_since + MaxDelay
            /\ row.worked_seconds <= h.total + h.slack /\ h.total <= row.worked_seconds + h.slack
            /\ row.attempt >= h.attempt
        BY <1>5, <2>1 DEF HistoryMatches
      <3>4. new.worked_seconds = IF t < row.running_since THEN row.worked_seconds
                                 ELSE row.worked_seconds + (t - row.running_since)
        BY <1>4, <1>9, <2>1, NoneAssumption DEF Left, Worked
      <3>5. /\ new.worked_seconds <= o.total + o.slack
            /\ o.total <= new.worked_seconds + o.slack
        BY <1>1, <1>3, <1>4, <2>1, <3>2, <3>3, <3>4
      <3>6. new.attempt >= o.attempt /\ (new.status = "QUEUED" => new.attempt > o.attempt)
        BY <1>3, <1>9, <3>2, <3>3 DEF Left
      <3> QED BY <2>1, <3>1, <3>5, <3>6 DEF HistoryMatches
    <2>2. CASE row.status # "RUNNING"
      <3>1. new.worked_seconds = row.worked_seconds
        BY <1>4, <1>9, <2>2 DEF Left, Worked
      <3>2. row.status \in {"QUEUED", "PAUSED"} /\ new.status # "ABSENT" /\ new.status # "PAUSED"
        BY <1>9, <2>2 DEF Left, CanBecome, Final
      <3>3. CASE new.status = "RUNNING"
        <4>1. /\ o.began = now /\ o.attempt = new.attempt /\ o.total = h.total /\ o.slack = h.slack
          BY <1>2, <1>5, <2>2, <3>3 DEF Observation, Ran
        <4>2. new.running_since = t
          BY <1>9, <3>3 DEF Left
        <4>3. new.attempt > h.attempt
          BY <1>3, <1>5, <1>9, <3>2, <3>3 DEF Left, HistoryMatches
        <4> QED BY <1>1, <1>3, <1>5, <3>1, <3>3, <4>1, <4>2, <4>3 DEF HistoryMatches
      <3>4. CASE new.status # "RUNNING"
        <4>1. o = h
          BY <1>5, <2>2, <3>2, <3>4 DEF Observation
        <4>2. new.status = "QUEUED" => new.attempt > h.attempt
          BY <1>3, <1>5, <1>9, <3>2 DEF Left, HistoryMatches
        <4> QED BY <1>5, <3>1, <3>2, <3>4, <4>1, <4>2 DEF HistoryMatches
      <3> QED BY <3>3, <3>4
    <2> QED BY <2>1, <2>2
  <1>10. CASE new = NoRow
    <2>1. o = NoRan
      BY <1>5, <1>10 DEF Observation, NoRow
    <2> QED BY <1>1, <1>10, <2>1 DEF NoRow, NoRan, HistoryMatches
  <1> QED BY <1>5, <1>6, <1>7, <1>8, <1>9, <1>10 DEF Change

LEMMA HistoryInit == Init => HistoriesMatch
  BY DEF Init, HistoriesMatch, HistoryMatches, NoRow, NoRan

LEMMA HistoryNext ==
    ASSUME Inv, Inv', HistoriesMatch, [Next]_vars
    PROVE  /\ HistoriesMatch'
           /\ \A r \in RunIds : rows[r].status # "RUNNING" /\ rows'[r].status = "RUNNING" =>
                                    rows'[r].attempt > ran[r].attempt
  <1>1. CASE Transaction
    <2>1. PICK t \in Clock : \A r \in RunIds : Change(rows[r], rows'[r], t)
      BY StepCases
    <2>2. \A r \in RunIds : ran'[r] = Observation(ran[r], rows[r].status, rows'[r])
      BY <1>1 DEF Transaction, Observed
    <2> QED BY <2>1, <2>2, HistoryStep DEF HistoriesMatch
  <1>2. CASE UNCHANGED <<rows, ran>>
    BY <1>2 DEF HistoriesMatch, HistoryMatches
  <1> QED BY <1>1, <1>2 DEF Next, Tick, vars

\* worked_seconds is the time the run really was RUNNING, up to the age of the clock
\* readings at both ends of each stretch (_worked, _move).
THEOREM WorkedTime == Spec => []WorkedIsRunningTime
  <1>1. HistoriesMatch => WorkedIsRunningTime
    BY DEF HistoriesMatch, HistoryMatches, WorkedIsRunningTime
  <1>2. Inv /\ Inv' /\ HistoriesMatch /\ [Next]_vars => HistoriesMatch'
    BY HistoryNext
  <1> QED BY <1>1, <1>2, HistoryInit, InvAlways, PTL DEF Spec

\* A run that becomes RUNNING does so as an attempt later than any that ran before.
THEOREM AttemptsRunOnce == Spec => AttemptRunsOnce
  <1> DEFINE Later == \A r \in RunIds :
                          rows[r].status # "RUNNING" /\ rows'[r].status = "RUNNING" =>
                              rows'[r].attempt > ran[r].attempt
  <1>1. Inv /\ Inv' /\ HistoriesMatch /\ [Next]_vars => HistoriesMatch' /\ [Later]_vars
    BY HistoryNext
  <1>2. [][Later]_vars => AttemptRunsOnce
    BY PTL DEF AttemptRunsOnce
  <1> QED BY <1>1, <1>2, HistoryInit, InvAlways, PTL DEF Spec

------------------------------------------------------------------------------
(***************************************************************************)
(* Endings.  Here the actions matter, not only their rows: whichever ends  *)
(* a run starts its artifacts' retention, and only the purge, which waits  *)
(* for the artifacts, touches an ended run.                                *)
(***************************************************************************)


\* What a transaction does to one run and its artifacts.
Retained(S, t) == {IF at = None THEN t + ARTIFACT_RETENTION ELSE at : at \in S}

ArtifactStep(r, t) ==
    \/ rows'[r].status \in Final /\ artifacts'[r] = Retained(artifacts[r], t)
    \/ rows'[r].status \in Live /\ artifacts'[r] = artifacts[r]
    \/ rows'[r] = rows[r] /\ artifacts'[r] \subseteq artifacts[r]
    \/ /\ rows'[r] = rows[r] /\ rows[r].status \in Live
       /\ artifacts'[r] = artifacts[r] \cup {None}
    \/ rows'[r] = NoRow /\ artifacts[r] = {} /\ artifacts'[r] = {}

\* A live run's row is never dropped by a step.
LEMMA LiveChange ==
    ASSUME NEW row \in Row, NEW new \in Row, NEW t, Change(row, new, t), row.status \in Live
    PROVE  new.status \in Live \cup Final
  <1>1. row.status \notin Final \cup {"ABSENT"}
    BY DEF Live, Final
  <1> QED BY <1>1 DEF Change, Born, Stayed, Left, CanBecome, Live, Final

\* One run's part of an action that calls _ended after moving the rows of S.
LEMMA EndedStep ==
    ASSUME NEW S, NEW t, Ended(S, t), NEW r \in RunIds,
           r \notin S => rows'[r] = rows[r],
           r \in S => rows'[r].status \in Live \cup Final
    PROVE  ArtifactStep(r, t)
  BY DEF Ended, ArtifactStep, Retained

LEMMA RequestArtifacts ==
    ASSUME Inv, Inv', NEW t \in Clock, NEW r0 \in RunIds, Request(r0, t), NEW r \in RunIds
    PROVE  ArtifactStep(r, t)
  <1>0. rows[r0] \in Row /\ rows'[r0] \in Row /\ Consistent(rows[r0]) /\ t \in Nat
    BY ClockType DEF Inv, TypeOK, RowsConsistent
  <1>1. r # r0 => rows'[r] = rows[r]
    BY DEF Request, Start, Pause, Resume, Cancel, Finish, Claim, Heartbeat, Release,
           AddArtifact, Inv, TypeOK
  <1>2. Change(rows[r0], rows'[r0], t)
    BY <1>0, RequestRows, RowStepCases DEF Inv, Change
  <1>3. ASSUME rows[r0].status \in Live, Ended({r0}, t) PROVE ArtifactStep(r, t)
    BY <1>0, <1>1, <1>2, <1>3, LiveChange, EndedStep
  <1>4. ASSUME rows[r0].status \in Live \cup {"ABSENT"}, rows'[r0].status \in Live,
               UNCHANGED artifacts
        PROVE  ArtifactStep(r, t)
    BY <1>1, <1>4 DEF ArtifactStep
  <1>5. \A from, to : CanBecome(from, to) => from \in Live
    BY DEF CanBecome, Live
  <1>6. ASSUME NEW queue \in BOOLEAN, NEW deadline \in Deadlines, NEW timeout \in Timeouts,
               Start(r0, queue, deadline, timeout, t)
        PROVE  ArtifactStep(r, t)
    <2>1. rows'[r0].status \in Live
      BY <1>6 DEF Start, NewRow, NoRow, Live, Inv, TypeOK
    <2> QED BY <1>4, <1>6, <2>1 DEF Start, Exists
  <1>7. ASSUME NEW w \in Callers, NEW q \in Questions, NEW checkpoint \in Maybe(Checkpoints),
               Pause(r0, w, q, checkpoint, t)
        PROVE  ArtifactStep(r, t)
    BY <1>3, <1>5, <1>7 DEF Pause
  <1>8. ASSUME NEW interrupt \in Interrupts, NEW answer \in Answers,
               Resume(r0, interrupt, answer, t)
        PROVE  ArtifactStep(r, t)
    BY <1>0, <1>3, <1>8 DEF Resume, Consistent, WaitColumns, Live
  <1>9. ASSUME NEW p \in Principals, Cancel(r0, p, t)
        PROVE  ArtifactStep(r, t)
    BY <1>3, <1>5, <1>9 DEF Cancel, Leased, Live
  <1>10. ASSUME NEW w \in Callers, NEW status \in Endings, NEW retryable \in BOOLEAN,
                Finish(r0, w, status, retryable, t)
         PROVE  ArtifactStep(r, t)
    BY <1>3, <1>5, <1>10 DEF Finish, Retried, Live
  <1>11. ASSUME NEW w \in Workers, NEW seconds \in LeaseSeconds, Claim(r0, w, seconds, t)
         PROVE  ArtifactStep(r, t)
    <2>1. rows[r0].status = "QUEUED" /\ rows'[r0] = ClaimedRow(rows[r0], w, seconds, t)
      BY <1>11 DEF Claim, Available, Inv, TypeOK
    <2>2. Move(rows[r0], "RUNNING", t) \in Row /\ Move(rows[r0], "RUNNING", t).status = "RUNNING"
      BY <1>0, MoveType, MoveColumns DEF Live
    <2>3. rows'[r0].status = "RUNNING"
      BY <2>1, <2>2, LeaseColumnsOf DEF ClaimedRow
    <2> QED BY <1>4, <1>11, <2>1, <2>3 DEF Claim, Live
  <1>12. ASSUME NEW w \in Workers, NEW seconds \in LeaseSeconds,
                NEW checkpoint \in Maybe(Checkpoints), Heartbeat(r0, w, seconds, checkpoint, t)
         PROVE  ArtifactStep(r, t)
    <2>1. rows[r0].status = "RUNNING" /\ rows'[r0] = BeatenRow(rows[r0], w, seconds, checkpoint, t)
      BY <1>12 DEF Heartbeat, Inv, TypeOK
    <2> DEFINE kept == IF checkpoint = None THEN rows[r0]
                       ELSE [rows[r0] EXCEPT !.checkpoint = checkpoint, !.updated_at = t]
    <2>2. kept \in Row /\ kept.status = rows[r0].status
      BY <1>0, MaybeFacts DEF Row
    <2>3. rows'[r0] = Lease(kept, w, seconds, t)
      BY <2>1 DEF BeatenRow
    <2> HIDE DEF kept
    <2>4. rows'[r0].status = "RUNNING"
      BY <2>1, <2>2, <2>3, LeaseColumnsOf
    <2> QED BY <1>4, <1>12, <2>1, <2>4 DEF Heartbeat, Live
  <1>13. ASSUME NEW w \in Workers, NEW checkpoint \in Maybe(Checkpoints),
                Release(r0, w, checkpoint, t)
         PROVE  ArtifactStep(r, t)
    BY <1>3, <1>5, <1>13 DEF Release
  <1>14. ASSUME NEW w \in Callers, NEW service \in BOOLEAN, AddArtifact(r0, w, service)
         PROVE  ArtifactStep(r, t)
    BY <1>14 DEF AddArtifact, ArtifactWriter, ArtifactStep, Live, Inv, TypeOK
  <1> QED BY <1>6, <1>7, <1>8, <1>9, <1>10, <1>11, <1>12, <1>13, <1>14 DEF Request

LEMMA SweepArtifacts ==
    ASSUME Inv, Inv', NEW t \in Clock, NEW S \in SUBSET RunIds, Sweep(S, t), NEW r \in RunIds
    PROVE  ArtifactStep(r, t)
  <1>0. rows[r] \in Row /\ rows'[r] \in Row /\ Consistent(rows[r]) /\ t \in Nat
    BY ClockType DEF Inv, TypeOK, RowsConsistent
  <1>1. Change(rows[r], rows'[r], t)
    BY <1>0, SweepRows, RowStepCases DEF Inv, Change
  <1>2. ASSUME Swept(S, t), r \notin S => rows'[r] = rows[r], r \in S => rows[r].status \in Live
        PROVE  ArtifactStep(r, t)
    BY <1>0, <1>1, <1>2, LiveChange, EndedStep DEF Swept
  <1>3. CASE TimeOutPastDeadline(S, t)
    BY <1>2, <1>3 DEF TimeOutPastDeadline, Store, PastDeadline
  <1>4. CASE TimeOutOverworked(S, t)
    BY <1>2, <1>4 DEF TimeOutOverworked, Store, Overworked, Live
  <1>5. CASE RequeueLapsed(S, t)
    BY <1>2, <1>5 DEF RequeueLapsed, Store, Lapsed, Live
  <1>6. CASE EscalateOverdue(S, t)
    BY <1>2, <1>6 DEF EscalateOverdue, Store, Overdue, Live
  <1>7. CASE PurgeEnded(S, t)
    BY <1>7 DEF PurgeEnded, Store, Purgeable, ArtifactStep
  <1>8. CASE PurgeArtifacts(S, t)
    BY <1>8 DEF PurgeArtifacts, ArtifactStep
  <1> QED BY <1>3, <1>4, <1>5, <1>6, <1>7, <1>8 DEF Sweep

LEMMA ArtifactSteps ==
    ASSUME Inv, Inv', Transaction
    PROVE  \E t \in Clock : \A r \in RunIds : ArtifactStep(r, t) /\ Change(rows[r], rows'[r], t)
  <1>0. \A r \in RunIds : rows[r] \in Row /\ Consistent(rows[r])
    BY DEF Inv, TypeOK, RowsConsistent
  <1>1. PICK t \in Clock : \/ \E r \in RunIds : Request(r, t)
                           \/ \E S \in SUBSET RunIds \ {{}} : Sweep(S, t)
    BY DEF Transaction
  <1>2. t \in Nat
    BY ClockType DEF Inv
  <1>3. ASSUME NEW r0 \in RunIds, Request(r0, t), NEW r \in RunIds
        PROVE  ArtifactStep(r, t) /\ Change(rows[r], rows'[r], t)
    BY <1>0, <1>2, <1>3, RequestArtifacts, RequestRows, RowStepCases DEF Inv, Change
  <1>4. ASSUME NEW S \in SUBSET RunIds, Sweep(S, t), NEW r \in RunIds
        PROVE  ArtifactStep(r, t) /\ Change(rows[r], rows'[r], t)
    BY <1>0, <1>2, <1>4, SweepArtifacts, SweepRows, RowStepCases DEF Inv, Change
  <1> QED BY <1>1, <1>3, <1>4

\* Whatever ends a run starts its artifacts' retention, and nothing else does (_ended).
THEOREM ArtifactsDoExpire == Spec => []ArtifactsExpire
  <1> DEFINE Kept(row, S) == /\ row.status \in Final => None \notin S
                             /\ row.status \in Live => S \subseteq {None}
                             /\ row.status = "ABSENT" => S = {}
  <1>1. Init => ArtifactsExpire
    BY DEF Init, ArtifactsExpire, NoRow
  <1>2. Inv /\ ArtifactsExpire /\ [Next]_vars /\ Inv' => ArtifactsExpire'
    <2> SUFFICES ASSUME Inv, ArtifactsExpire, [Next]_vars, Inv', NEW r \in RunIds
                 PROVE  Kept(rows'[r], artifacts'[r])
      BY DEF ArtifactsExpire
    <2>0. Kept(rows[r], artifacts[r])
      BY DEF ArtifactsExpire
    <2>1. CASE Transaction
      <3>1. PICK t \in Clock : ArtifactStep(r, t) /\ Change(rows[r], rows'[r], t)
        BY <2>1, ArtifactSteps
      <3>2. Live \cap Final = {} /\ "ABSENT" \notin Live /\ "ABSENT" \notin Final
        BY DEF Live, Final
      <3>3. CASE rows'[r].status \in Final /\ artifacts'[r] = Retained(artifacts[r], t)
        <4>1. t + ARTIFACT_RETENTION # None
          BY ClockType, StoreAssumption, NoneAssumption DEF Inv
        <4> QED BY <3>2, <3>3, <4>1 DEF Retained
      <3>4. CASE rows'[r].status \in Live /\ artifacts'[r] = artifacts[r]
        <4>1. rows[r].status \in Live \cup {"ABSENT"}
          BY <3>1, <3>2, <3>4
             DEF Change, Born, Stayed, Left, CanBecome, NoRow, Live
        <4> QED BY <2>0, <3>2, <3>4, <4>1
      <3>5. CASE rows'[r] = rows[r] /\ artifacts'[r] \subseteq artifacts[r]
        BY <2>0, <3>5
      <3>6. CASE /\ rows'[r] = rows[r] /\ rows[r].status \in Live
                 /\ artifacts'[r] = artifacts[r] \cup {None}
        BY <2>0, <3>2, <3>6
      <3>7. CASE rows'[r] = NoRow /\ artifacts[r] = {} /\ artifacts'[r] = {}
        BY <3>7
      <3> QED BY <3>1, <3>3, <3>4, <3>5, <3>6, <3>7 DEF ArtifactStep
    <2>2. CASE UNCHANGED <<rows, artifacts>>
      BY <2>0, <2>2
    <2> QED BY <2>1, <2>2 DEF Next, Tick, vars
  <1> QED BY <1>1, <1>2, InvAlways, PTL DEF Spec

\* A run's row, its counters and its artifacts agree in every reachable state, for any number
\* of runs and workers and every setting of the limits.
THEOREM RowsAreSound == Spec => []RowsSound
  <1>1. RowsConsistent /\ RetriesBounded /\ ArtifactsExpire => RowsSound
    BY DEF RowsSound
  <1> QED BY <1>1, ColumnsAgree, RetriesAreBounded, ArtifactsDoExpire, PTL

\* An ended run never changes again; it is only deleted, once no artifact is kept.
THEOREM EndedStaysEnded == Spec => EndedForever
  <1> DEFINE Ending == \A r \in RunIds :
                           rows[r].status \in Final =>
                               \/ rows'[r] = rows[r]
                               \/ rows'[r] = NoRow /\ artifacts[r] = {}
  <1>1. Inv /\ Inv' /\ [Next]_vars => [Ending]_vars
    <2> SUFFICES ASSUME Inv, Inv', [Next]_vars, NEW r \in RunIds, rows[r].status \in Final
                 PROVE  \/ rows'[r] = rows[r]
                        \/ rows'[r] = NoRow /\ artifacts[r] = {}
      BY DEF Ending
    <2>1. CASE Transaction
      <3>1. PICK t \in Clock : ArtifactStep(r, t) /\ Change(rows[r], rows'[r], t)
        BY <2>1, ArtifactSteps
      <3>2. rows'[r] = rows[r] \/ rows'[r] = NoRow
        BY <3>1 DEF Change, Born, Stayed, Left, CanBecome, Final
      <3> QED BY <3>1, <3>2 DEF ArtifactStep, NoRow, Live, Final
    <2> QED BY <2>1 DEF Next, Tick, vars
  <1>2. [][Ending]_vars => EndedForever
    BY PTL DEF EndedForever
  <1> QED BY <1>1, <1>2, InvAlways, PTL DEF Spec

------------------------------------------------------------------------------
(***************************************************************************)
(* The refinement.                                                         *)
(***************************************************************************)
LEMMA ChangeIsLifeStep ==
    ASSUME NEW row \in Row, NEW new \in Row, NEW t, Consistent(row), Consistent(new),
           Change(row, new, t)
    PROVE  LifeOf(new) = LifeOf(row) \/ Life!Step(LifeOf(row), LifeOf(new))
  <1> DEFINE l == LifeOf(row)
             m == LifeOf(new)
  <1>0. /\ l = [status |-> row.status, attempt |-> row.attempt, worker |-> row.lease_owner,
                order |-> IF row.cancel_requested_at = None THEN "work" ELSE "stop"]
        /\ m = [status |-> new.status, attempt |-> new.attempt, worker |-> new.lease_owner,
                order |-> IF new.cancel_requested_at = None THEN "work" ELSE "stop"]
    BY DEF LifeOf
  <1>1. /\ row.cancel_requested_at # None => row.lease_owner # None
        /\ row.lease_owner # None => row.status = "RUNNING"
    BY DEF Consistent, LeaseColumns
  <1> SUFFICES m = l \/ Life!Step(l, m)
    OBVIOUS
  <1>2. CASE new = row
    BY <1>2
  <1> HIDE DEF l, m
  <1>3. CASE Born(row, new, t)
    <2>1. m = [status |-> new.status, attempt |-> 1, worker |-> None, order |-> "work"]
      BY <1>0, <1>3 DEF Born
    <2>2. m = Life!At(new.status, 1, None)
      BY <2>1 DEF Life!At
    <2>3. Life!Begin(l, m)
      BY <1>0, <1>3, <2>2 DEF Born, Life!Begin
    <2> QED BY <2>3 DEF Life!Step
  <1>4. CASE Stayed(row, new, t)
    <2>1. CASE new.cancel_requested_at = row.cancel_requested_at
      <3>1. m = l
        BY <1>0, <1>4, <2>1 DEF Stayed
      <3> QED BY <3>1
    <2>2. CASE new.cancel_requested_at # row.cancel_requested_at
      <3>1. /\ row.status = "RUNNING" /\ row.lease_owner # None
            /\ row.cancel_requested_at = None /\ new.cancel_requested_at # None
        BY <1>1, <1>4, <2>2 DEF Stayed
      <3>2. m = [l EXCEPT !.order = "stop"]
        BY <1>0, <1>4, <3>1 DEF Stayed
      <3>3. Life!AskToStop(l, m)
        BY <1>0, <3>1, <3>2 DEF Life!AskToStop
      <3> QED BY <3>3 DEF Life!Step
    <2> QED BY <2>1, <2>2
  <1>5. CASE Left(row, new, t)
    <2>0. m = [status |-> new.status, attempt |-> new.attempt, worker |-> new.lease_owner,
               order |-> "work"]
      BY <1>0, <1>5 DEF Left
    <2>1. CASE new.status \in Final
      <3>1. /\ new.attempt = row.attempt /\ new.lease_owner = None
        BY <1>5, <2>1 DEF Left, Final
      <3>2. m = Life!At(new.status, l.attempt, None)
        BY <1>0, <2>0, <3>1 DEF Life!At
      <3>3. /\ row.status \in {"QUEUED", "RUNNING", "PAUSED"}
            /\ new.status \in IF row.status = "RUNNING" THEN Life!Ends ELSE {"CANCELLED", "TIMEOUT"}
        BY <1>5, <2>1 DEF Left, CanBecome, Final, Life!Ends
      <3>4. Life!End(l, m)
        BY <1>0, <3>2, <3>3 DEF Life!End
      <3> QED BY <3>4 DEF Life!Step
    <2>2. CASE new.status \notin Final
      <3>0. l = [status |-> row.status, attempt |-> row.attempt, worker |-> row.lease_owner,
                 order |-> "work"]
        BY <1>0, <1>5, <2>2 DEF Left
      <3>1. CASE row.status = "QUEUED"
        <4>1. /\ new.status = "RUNNING" /\ new.attempt = row.attempt /\ new.lease_owner \in Workers
          BY <1>5, <2>2, <3>1 DEF Left, CanBecome, Final
        <4>2. m = Life!At("RUNNING", l.attempt, new.lease_owner)
          BY <2>0, <3>0, <4>1 DEF Life!At
        <4>3. Life!Take(l, m)
          BY <1>0, <3>1, <4>1, <4>2 DEF Life!Take
        <4> QED BY <4>3 DEF Life!Step
      <3>2. CASE row.status = "RUNNING" /\ new.status = "PAUSED"
        <4>1. new.attempt = row.attempt /\ new.lease_owner = None
          BY <1>5, <3>2 DEF Left
        <4>2. m = Life!At("PAUSED", l.attempt, None)
          BY <2>0, <3>0, <3>2, <4>1 DEF Life!At
        <4>3. Life!Ask(l, m)
          BY <3>0, <3>2, <4>2 DEF Life!Ask
        <4> QED BY <4>3 DEF Life!Step
      <3>3. CASE row.status = "RUNNING" /\ new.status = "QUEUED"
        <4>1. new.attempt = row.attempt + 1 /\ new.lease_owner = None /\ row.lease_owner # None
          BY <1>5, <3>3 DEF Left
        <4>2. m = Life!At("QUEUED", l.attempt + 1, None)
          BY <2>0, <3>0, <3>3, <4>1 DEF Life!At
        <4>3. Life!GiveBack(l, m)
          BY <3>0, <3>3, <4>1, <4>2 DEF Life!GiveBack
        <4> QED BY <4>3 DEF Life!Step
      <3>4. CASE row.status = "PAUSED"
        <4>1. /\ new.status \in {"QUEUED", "RUNNING"} /\ new.attempt = row.attempt + 1
              /\ new.lease_owner = None /\ row.lease_owner = None
          BY <1>1, <1>5, <2>2, <3>4 DEF Left, CanBecome, Final
        <4>2. m = Life!At(new.status, l.attempt + 1, None)
          BY <2>0, <3>0, <4>1 DEF Life!At
        <4>3. Life!Continue(l, m)
          BY <1>0, <3>4, <4>1, <4>2 DEF Life!Continue
        <4> QED BY <4>3 DEF Life!Step
      <3> QED BY <1>5, <2>2, <3>1, <3>2, <3>3, <3>4 DEF Left, CanBecome
    <2> QED BY <2>1, <2>2
  <1>6. CASE row.status \in Final /\ new = NoRow
    <2>1. m = Life!Unborn
      BY <1>0, <1>6 DEF NoRow, Life!Unborn, Life!At
    <2>2. l.status \in Life!Ends
      BY <1>0, <1>6 DEF Final, Life!Ends
    <2>3. Life!Forget(l, m)
      BY <2>1, <2>2 DEF Life!Forget
    <2> QED BY <2>3 DEF Life!Step
  <1> QED BY <1>2, <1>3, <1>4, <1>5, <1>6 DEF Change

\* The tables, the leases and the sweeps implement the life of a run as RunLifecycle
\* promises it.
THEOREM ImplementsLifecycle == Spec => Lifecycle
  <1>1. Init => Life!Init
    BY DEF Init, Life!Init, Life!Unborn, Life!At, LifeOf, NoRow
  <1>2. Inv /\ Inv' /\ [Next]_vars => [Life!Next]_([r \in RunIds |-> LifeOf(rows[r])])
    <2> SUFFICES ASSUME Inv, Inv', [Next]_vars, NEW r \in RunIds
                 PROVE  \/ LifeOf(rows'[r]) = LifeOf(rows[r])
                        \/ Life!Step(LifeOf(rows[r]), LifeOf(rows'[r]))
      BY DEF Life!Next
    <2>1. PICK t \in Clock : Change(rows[r], rows'[r], t)
      BY StepCases
    <2>2. /\ rows[r] \in Row /\ rows'[r] \in Row
          /\ Consistent(rows[r]) /\ Consistent(rows'[r])
      BY DEF Inv, TypeOK, RowsConsistent
    <2> QED BY <2>1, <2>2, ChangeIsLifeStep
  <1> QED BY <1>1, <1>2, InvAlways, PTL DEF Spec, Lifecycle, Life!Spec

------------------------------------------------------------------------------
(***************************************************************************)
(* The books kept on a run beside its row: the attempts are all accounted  *)
(* for by the counters and the kept resolutions, and every pause,          *)
(* escalation and ending is in the outbox once.  Both relate tables that   *)
(* different statements of one transaction write, so each action is        *)
(* followed whole.                                                         *)
(***************************************************************************)
\* A run id without a row has the columns of a row never started.
Blank(row) == row.status = "ABSENT" => row = NoRow

Blanks == \A r \in RunIds : Blank(rows[r])

------------------------------------------------------------------------------
(***************************************************************************)
(* Attempts.                                                               *)
(***************************************************************************)
Counts(row, new, attempts, retries, lapses) ==
    /\ new.attempt = row.attempt + attempts
    /\ new.error_retries = row.error_retries + retries
    /\ new.lease_lapses = row.lease_lapses + lapses

\* What a transaction does to one run's counters, and to what accounts for them.
AttemptStep(row, new, rel, rel2, kept, kept2) ==
    \/ Counts(row, new, 0, 0, 0) /\ rel2 = rel /\ kept2 = kept
    \/ Counts(row, new, 1, 1, 0) /\ rel2 = rel /\ kept2 = kept
    \/ Counts(row, new, 1, 0, 0) /\ rel2 = rel + 1 /\ kept2 = kept
    \/ /\ Counts(row, new, 1, 0, 1) /\ new.lease_lapses < MAX_LEASE_LAPSES
       /\ rel2 = rel /\ kept2 = kept
    \/ /\ Counts(row, new, 0, 0, 1) /\ new.lease_lapses = MAX_LEASE_LAPSES
       /\ rel2 = rel /\ kept2 = kept
    \/ /\ Counts(row, new, 1, 0, 0) /\ rel2 = rel
       /\ \E res : res \notin kept /\ kept2 = kept \cup {res}
    \/ new = NoRow /\ rel2 = 0 /\ kept2 = {}

AttemptsKept(r) ==
    AttemptStep(rows[r], rows'[r], releases[r], releases'[r], Continuing(r), Continuing(r)')

LEMMA SameCounts ==
    ASSUME NEW row \in Row
    PROVE  Counts(row, row, 0, 0, 0)
  BY DEF Counts, Row

\* A move keeps the counters, whatever is written beside it; a requeue is one attempt more.
LEMMA MoveCounts ==
    ASSUME NEW row \in Row, NEW to \in Live \cup Final, NEW t \in Nat, NEW new,
           \A c \in {"attempt", "error_retries", "lease_lapses"} : new[c] = Move(row, to, t)[c]
    PROVE  Counts(row, new, 0, 0, 0)
  <1>1. row.attempt \in Nat /\ row.error_retries \in Nat /\ row.lease_lapses \in Nat
    BY DEF Row
  <1> QED BY <1>1, MoveColumns DEF Counts

LEMMA RequeueCounts ==
    ASSUME NEW row \in Row, NEW available, NEW t \in Nat, NEW new,
           \A c \in {"attempt", "error_retries", "lease_lapses"} :
               new[c] = Requeue(row, available, t)[c]
    PROVE  Counts(row, new, 1, 0, 0)
  <1>1. row.attempt \in Nat /\ row.error_retries \in Nat /\ row.lease_lapses \in Nat
    BY DEF Row
  <1> QED BY <1>1, RequeueColumns DEF Counts

\* The counters after each function of a row.
LEMMA PausedCounts ==
    ASSUME NEW row \in Row, NEW w, NEW q, NEW checkpoint, NEW t \in Nat
    PROVE  Counts(row, PausedRow(row, w, q, checkpoint, t), 0, 0, 0)
  <1>1. Move(row, "CANCELLED", t) \in Row /\ Move(row, "PAUSED", t) \in Row
    BY MoveType DEF Live, Final
  <1>2. "CANCELLED" \in Live \cup Final /\ "PAUSED" \in Live \cup Final
    BY DEF Live, Final
  <1>3. Counts(row, [Move(row, "CANCELLED", t) EXCEPT !.settled_by = w], 0, 0, 0)
    BY <1>1, <1>2, MoveCounts DEF Row
  <1>4. Counts(row, [Move(row, "PAUSED", t) EXCEPT !.checkpoint        = checkpoint,
                                                   !.awaiting          = q,
                                                   !.assignee          = q.assignee,
                                                   !.awaiting_deadline = q.deadline,
                                                   !.settled_by        = w], 0, 0, 0)
    BY <1>1, <1>2, MoveCounts DEF Row
  <1> QED BY <1>3, <1>4 DEF PausedRow

LEMMA ResumedCounts ==
    ASSUME NEW row \in Row, NEW answer, NEW t \in Nat
    PROVE  IF answer \in CancelAnswers THEN Counts(row, ResumedRow(row, answer, t), 0, 0, 0)
                                       ELSE Counts(row, ResumedRow(row, answer, t), 1, 0, 0)
  <1>1. Move(row, "RUNNING", t) \in Row
    BY MoveType DEF Live
  <1>2. "CANCELLED" \in Live \cup Final /\ "RUNNING" \in Live \cup Final
    BY DEF Live, Final
  <1>3. Counts(row, Move(row, "CANCELLED", t), 0, 0, 0)
    BY <1>2, MoveCounts
  <1>4. Counts(row, Requeue(row, None, t), 1, 0, 0)
    BY RequeueCounts
  <1>5. Counts(row, [Move(row, "RUNNING", t) EXCEPT !.attempt = @ + 1], 1, 0, 0)
    BY <1>1, <1>2, MoveColumns DEF Row, Counts
  <1> QED BY <1>3, <1>4, <1>5 DEF ResumedRow

LEMMA CancelledCounts ==
    ASSUME NEW row \in Row, NEW p, NEW t \in Nat
    PROVE  Counts(row, CancelledRow(row, p, t), 0, 0, 0)
  <1>1. Move(row, "CANCELLED", t) \in Row /\ "CANCELLED" \in Live \cup Final
    BY MoveType DEF Live, Final
  <1>2. Counts(row, [Move(row, "CANCELLED", t) EXCEPT !.cancelled_by = p], 0, 0, 0)
    BY <1>1, MoveCounts DEF Row
  <1>3. Counts(row, [row EXCEPT !.cancel_requested_at = t, !.updated_at = t, !.cancelled_by = p], 0, 0, 0)
    BY DEF Row, Counts
  <1> QED BY <1>2, <1>3 DEF CancelledRow

LEMMA RetriedCounts ==
    ASSUME NEW row \in Row, NEW w, NEW wait \in Nat, NEW t \in Nat
    PROVE  Counts(row, RetriedRow(row, w, wait, t), 1, 1, 0)
  <1> DEFINE counted == [row EXCEPT !.error_retries = @ + 1]
             again   == Requeue(counted, t + wait, t)
  <1>1. counted \in Row /\ Counts(row, counted, 0, 1, 0)
    BY DEF Row, Counts
  <1>2. t + wait \in Maybe(Nat)
    BY MaybeFacts
  <1> HIDE DEF counted
  <1>3. again \in Row /\ Counts(counted, again, 1, 0, 0)
    BY <1>1, <1>2, RequeueType, RequeueCounts
  <1> HIDE DEF again
  <1>4. Counts(counted, [again EXCEPT !.settled_by = w], 1, 0, 0)
    BY <1>3 DEF Counts, Row
  <1>5. Counts(row, [again EXCEPT !.settled_by = w], 1, 1, 0)
    BY <1>1, <1>4 DEF Counts, Row
  <1> QED BY <1>5 DEF RetriedRow, again, counted

LEMMA FinishedCounts ==
    ASSUME NEW row \in Row, NEW w, NEW status \in Final, NEW t \in Nat
    PROVE  Counts(row, FinishedRow(row, w, status, t), 0, 0, 0)
  <1>1. Move(row, status, t) \in Row
    BY MoveType
  <1> QED BY <1>1, MoveCounts DEF FinishedRow, Row

LEMMA ClaimedCounts ==
    ASSUME NEW row \in Row, NEW w, NEW seconds, NEW t \in Nat
    PROVE  Counts(row, ClaimedRow(row, w, seconds, t), 0, 0, 0)
  <1>1. Move(row, "RUNNING", t) \in Row /\ "RUNNING" \in Live \cup Final
    BY MoveType DEF Live
  <1> QED BY <1>1, MoveCounts, LeaseColumnsOf DEF ClaimedRow

LEMMA BeatenCounts ==
    ASSUME NEW row \in Row, NEW w, NEW seconds, NEW checkpoint \in Maybe(Checkpoints), NEW t \in Nat
    PROVE  Counts(row, BeatenRow(row, w, seconds, checkpoint, t), 0, 0, 0)
  <1> DEFINE saved == [row EXCEPT !.checkpoint = checkpoint, !.updated_at = t]
  <1>1. t \in Maybe(Nat)
    BY MaybeFacts
  <1>2. saved \in Row
    BY <1>1 DEF Row
  <1>3. Counts(row, saved, 0, 0, 0)
    BY DEF Row, Counts
  <1> HIDE DEF saved
  <1>4. Counts(row, Lease(saved, w, seconds, t), 0, 0, 0)
    BY <1>2, <1>3, LeaseColumnsOf DEF Counts
  <1>5. Counts(row, Lease(row, w, seconds, t), 0, 0, 0)
    BY LeaseColumnsOf, SameCounts DEF Counts
  <1> QED BY <1>4, <1>5 DEF BeatenRow, saved

LEMMA ReleasedCounts ==
    ASSUME NEW row \in Row, NEW w, NEW checkpoint, NEW t \in Nat
    PROVE  IF row.cancel_requested_at = None
           THEN Counts(row, ReleasedRow(row, w, checkpoint, t), 1, 0, 0)
           ELSE Counts(row, ReleasedRow(row, w, checkpoint, t), 0, 0, 0)
  <1>1. Move(row, "CANCELLED", t) \in Row /\ "CANCELLED" \in Live \cup Final
    BY MoveType DEF Final
  <1>2. Counts(row, [Move(row, "CANCELLED", t) EXCEPT !.settled_by = w], 0, 0, 0)
    BY <1>1, MoveCounts DEF Row
  <1>3. Requeue(row, None, t) \in Row
    BY RequeueType, MaybeFacts
  <1>4. Counts(row, [Requeue(row, None, t) EXCEPT
                        !.checkpoint = IF checkpoint = None THEN @ ELSE checkpoint,
                        !.settled_by = w], 1, 0, 0)
    BY <1>3, RequeueCounts DEF Row
  <1> QED BY <1>2, <1>4 DEF ReleasedRow, Instead

LEMMA LapsedCounts ==
    ASSUME NEW row \in Row, NEW wait \in Nat, NEW t \in Nat
    PROVE  LET new == LapsedRow(row, wait, t)
           IN  \/ Counts(row, new, 0, 0, 0)
               \/ Counts(row, new, 1, 0, 1) /\ new.lease_lapses < MAX_LEASE_LAPSES
               \/ Counts(row, new, 0, 0, 1) /\ new.lease_lapses >= MAX_LEASE_LAPSES
  <1> DEFINE counted == [row EXCEPT !.lease_lapses = @ + 1]
  <1>1. counted \in Row /\ Counts(row, counted, 0, 0, 1)
    BY DEF Row, Counts
  <1>2. /\ row.attempt \in Nat /\ row.error_retries \in Nat /\ row.lease_lapses \in Nat
        /\ counted.lease_lapses \in Nat
    BY <1>1 DEF Row
  <1> HIDE DEF counted
  <1>3. "CANCELLED" \in Live \cup Final /\ "ERROR" \in Live \cup Final
    BY DEF Live, Final
  <1>4. Counts(row, Move(row, "CANCELLED", t), 0, 0, 0)
    BY <1>3, MoveCounts
  <1>5. Counts(counted, Move(counted, "ERROR", t), 0, 0, 0)
    BY <1>1, <1>3, MoveCounts
  <1>6. Counts(counted, Requeue(counted, t + wait, t), 1, 0, 0)
    BY <1>1, RequeueCounts
  <1>7. CASE Instead(row, "QUEUED") = "CANCELLED"
    <2>1. LapsedRow(row, wait, t) = Move(row, "CANCELLED", t)
      BY <1>7 DEF LapsedRow
    <2> QED BY <1>4, <2>1
  <1>8. CASE Instead(row, "QUEUED") # "CANCELLED" /\ counted.lease_lapses >= MAX_LEASE_LAPSES
    <2>1. LapsedRow(row, wait, t) = Move(counted, "ERROR", t)
      BY <1>8 DEF LapsedRow, counted
    <2> QED BY <1>1, <1>2, <1>5, <1>8, <2>1 DEF Counts
  <1>9. CASE Instead(row, "QUEUED") # "CANCELLED" /\ ~(counted.lease_lapses >= MAX_LEASE_LAPSES)
    <2>1. LapsedRow(row, wait, t) = Requeue(counted, t + wait, t)
      BY <1>9 DEF LapsedRow, counted
    <2> QED BY <1>1, <1>2, <1>6, <1>9, <2>1, LimitsAssumption DEF Counts
  <1> QED BY <1>7, <1>8, <1>9

LEMMA EscalatedCounts ==
    ASSUME NEW row \in Row, NEW t \in Nat
    PROVE  Counts(row, EscalatedRow(row, t), 0, 0, 0)
  <1> DEFINE escalated == [row.awaiting EXCEPT !.assignee    = row.awaiting.escalate_to,
                                               !.escalate_to = None,
                                               !.deadline    = None]
  <1>1. "TIMEOUT" \in Live \cup Final
    BY DEF Final
  <1>2. Counts(row, Move(row, "TIMEOUT", t), 0, 0, 0)
    BY <1>1, MoveCounts
  <1>3. Counts(row, [row EXCEPT !.awaiting          = escalated,
                                !.assignee          = escalated.assignee,
                                !.awaiting_deadline = None,
                                !.updated_at        = t], 0, 0, 0)
    <2> HIDE DEF escalated
    <2> QED BY DEF Row, Counts
  <1> QED BY <1>2, <1>3 DEF EscalatedRow, escalated

------------------------------------------------------------------------------
LEMMA RequestAttempts ==
    ASSUME Inv, Blanks, NEW t \in Clock, NEW r0 \in RunIds, Request(r0, t), NEW r \in RunIds
    PROVE  AttemptsKept(r)
  <1>0. rows[r] \in Row /\ rows[r0] \in Row /\ t \in Nat
    BY ClockType DEF Inv, TypeOK
  <1> DEFINE Rest == releases'[r] = releases[r] /\ Continuing(r)' = Continuing(r)
  <1>1. ASSUME r # r0 PROVE AttemptsKept(r)
    <2>1. rows'[r] = rows[r] /\ releases'[r] = releases[r] /\ resolutions'[r] = resolutions[r]
      BY <1>1 DEF Request, Start, Pause, Resume, Cancel, Finish, Claim, Heartbeat, Release,
                  AddArtifact, Inv, TypeOK
    <2>2. Continuing(r)' = Continuing(r)
      BY <2>1 DEF Continuing
    <2> QED BY <1>0, <2>1, <2>2, SameCounts DEF AttemptsKept, AttemptStep
  <1> SUFFICES ASSUME r = r0 PROVE AttemptsKept(r)
    BY <1>1
  <1>2. ASSUME UNCHANGED <<resolutions, releases>>
        PROVE  Rest
    BY <1>2 DEF Continuing
  <1>3. ASSUME Rest, Counts(rows[r], rows'[r], 0, 0, 0)
        PROVE  AttemptsKept(r)
    BY <1>3 DEF AttemptsKept, AttemptStep
  <1> HIDE DEF Rest
  <1>4. ASSUME NEW queue \in BOOLEAN, NEW deadline \in Deadlines, NEW timeout \in Timeouts,
               Start(r0, queue, deadline, timeout, t)
        PROVE  AttemptsKept(r)
    <2>1. rows'[r] = NewRow(queue, deadline, timeout, t) /\ rows[r] = NoRow
      BY <1>4 DEF Start, Exists, Blanks, Blank, Inv, TypeOK
    <2>2. Counts(rows[r], rows'[r], 0, 0, 0)
      BY <2>1 DEF NewRow, NoRow, Counts
    <2> QED BY <1>2, <1>3, <1>4, <2>2 DEF Start
  <1>5. ASSUME NEW w \in Callers, NEW q \in Questions, NEW checkpoint \in Maybe(Checkpoints),
               Pause(r0, w, q, checkpoint, t)
        PROVE  AttemptsKept(r)
    <2>1. rows'[r] = PausedRow(rows[r], w, q, checkpoint, t)
      BY <1>5 DEF Pause, Inv, TypeOK
    <2> QED BY <1>0, <1>2, <1>3, <1>5, <2>1, PausedCounts DEF Pause
  <1>6. ASSUME NEW interrupt \in Interrupts, NEW answer \in Answers,
               Resume(r0, interrupt, answer, t)
        PROVE  AttemptsKept(r)
    <2> DEFINE res == [interrupt_id |-> interrupt, answer |-> answer]
    <2>1. /\ rows'[r] = ResumedRow(rows[r], answer, t)
          /\ resolutions'[r] = resolutions[r] \cup {res}
          /\ releases'[r] = releases[r]
      BY <1>6 DEF Resume, Inv, TypeOK
    <2>2. res \notin resolutions[r] /\ res.answer = answer
      BY <1>6 DEF Resume, Answered
    <2> HIDE DEF res
    <2>3. CASE answer \in CancelAnswers
      <3>1. Continuing(r)' = Continuing(r)
        BY <2>1, <2>2, <2>3 DEF Continuing
      <3> QED BY <1>0, <1>3, <2>1, <2>3, <3>1, ResumedCounts DEF Rest
    <2>4. CASE answer \notin CancelAnswers
      <3>1. Continuing(r)' = Continuing(r) \cup {res} /\ res \notin Continuing(r)
        BY <2>1, <2>2, <2>4 DEF Continuing
      <3>2. Counts(rows[r], rows'[r], 1, 0, 0)
        BY <1>0, <2>1, <2>4, ResumedCounts
      <3> QED BY <2>1, <3>1, <3>2 DEF AttemptsKept, AttemptStep
    <2> QED BY <2>3, <2>4
  <1>7. ASSUME NEW p \in Principals, Cancel(r0, p, t)
        PROVE  AttemptsKept(r)
    <2>1. rows'[r] = CancelledRow(rows[r], p, t)
      BY <1>7 DEF Cancel, Inv, TypeOK
    <2> QED BY <1>0, <1>2, <1>3, <1>7, <2>1, CancelledCounts DEF Cancel
  <1>8. ASSUME NEW w \in Callers, NEW status \in Endings, NEW retryable \in BOOLEAN,
               Finish(r0, w, status, retryable, t)
        PROVE  AttemptsKept(r)
    <2>1. CASE Retried(rows[r], status, retryable)
      <3>1. PICK wait \in ErrorWaits(rows[r]) : rows'[r] = RetriedRow(rows[r], w, wait, t)
        BY <1>8, <2>1 DEF Finish, Inv, TypeOK
      <3>2. wait \in Nat
        BY WaitsAreNatural DEF ErrorWaits
      <3>3. Counts(rows[r], rows'[r], 1, 1, 0)
        BY <1>0, <3>1, <3>2, RetriedCounts
      <3>4. Rest
        BY <1>2, <1>8 DEF Finish
      <3> QED BY <3>3, <3>4 DEF Rest, AttemptsKept, AttemptStep
    <2>2. CASE ~Retried(rows[r], status, retryable)
      <3>1. rows'[r] = FinishedRow(rows[r], w, status, t) /\ status \in Final
        BY <1>8, <2>2, StoreAssumption DEF Finish, Inv, TypeOK
      <3> QED BY <1>0, <1>2, <1>3, <1>8, <3>1, FinishedCounts DEF Finish
    <2> QED BY <2>1, <2>2
  <1>9. ASSUME NEW w \in Workers, NEW seconds \in LeaseSeconds, Claim(r0, w, seconds, t)
        PROVE  AttemptsKept(r)
    <2>1. rows'[r] = ClaimedRow(rows[r], w, seconds, t)
      BY <1>9 DEF Claim, Inv, TypeOK
    <2> QED BY <1>0, <1>2, <1>3, <1>9, <2>1, ClaimedCounts DEF Claim
  <1>10. ASSUME NEW w \in Workers, NEW seconds \in LeaseSeconds,
                NEW checkpoint \in Maybe(Checkpoints), Heartbeat(r0, w, seconds, checkpoint, t)
         PROVE  AttemptsKept(r)
    <2>1. rows'[r] = BeatenRow(rows[r], w, seconds, checkpoint, t)
      BY <1>10 DEF Heartbeat, Inv, TypeOK
    <2> QED BY <1>0, <1>2, <1>3, <1>10, <2>1, BeatenCounts DEF Heartbeat
  <1>11. ASSUME NEW w \in Workers, NEW checkpoint \in Maybe(Checkpoints),
                Release(r0, w, checkpoint, t)
         PROVE  AttemptsKept(r)
    <2>1. /\ rows'[r] = ReleasedRow(rows[r], w, checkpoint, t)
          /\ releases'[r] = IF rows[r].cancel_requested_at = None
                            THEN releases[r] + 1 ELSE releases[r]
          /\ resolutions' = resolutions
      BY <1>11 DEF Release, Inv, TypeOK
    <2>2. Continuing(r)' = Continuing(r)
      BY <2>1 DEF Continuing
    <2>3. CASE rows[r].cancel_requested_at = None
      <3>1. Counts(rows[r], rows'[r], 1, 0, 0)
        BY <1>0, <2>1, <2>3, ReleasedCounts
      <3> QED BY <2>1, <2>2, <2>3, <3>1 DEF AttemptsKept, AttemptStep
    <2>4. CASE rows[r].cancel_requested_at # None
      BY <1>0, <1>3, <2>1, <2>2, <2>4, ReleasedCounts DEF Rest
    <2> QED BY <2>3, <2>4
  <1>12. ASSUME NEW w \in Callers, NEW service \in BOOLEAN, AddArtifact(r0, w, service)
         PROVE  AttemptsKept(r)
    BY <1>0, <1>2, <1>3, <1>12, SameCounts DEF AddArtifact
  <1> QED BY <1>4, <1>5, <1>6, <1>7, <1>8, <1>9, <1>10, <1>11, <1>12 DEF Request

LEMMA SweepAttempts ==
    ASSUME Inv, RetriesBounded, NEW t \in Clock, NEW S \in SUBSET RunIds, Sweep(S, t),
           NEW r \in RunIds
    PROVE  AttemptsKept(r)
  <1>0. rows[r] \in Row /\ t \in Nat
    BY ClockType DEF Inv, TypeOK
  <1>1. ASSUME UNCHANGED <<resolutions, releases>>
        PROVE  releases'[r] = releases[r] /\ Continuing(r)' = Continuing(r)
    BY <1>1 DEF Continuing
  <1>2. ASSUME UNCHANGED <<resolutions, releases>>, Counts(rows[r], rows'[r], 0, 0, 0)
        PROVE  AttemptsKept(r)
    BY <1>1, <1>2 DEF AttemptsKept, AttemptStep
  <1>3. ASSUME UNCHANGED <<resolutions, releases>>, rows'[r] = rows[r]
        PROVE  AttemptsKept(r)
    BY <1>0, <1>2, <1>3, SameCounts
  <1>4. "TIMEOUT" \in Live \cup Final
    BY DEF Final
  <1>5. CASE TimeOutPastDeadline(S, t)
    <2>1. rows'[r] = IF r \in S THEN Move(rows[r], "TIMEOUT", t) ELSE rows[r]
      BY <1>5 DEF TimeOutPastDeadline, Store
    <2>2. Counts(rows[r], Move(rows[r], "TIMEOUT", t), 0, 0, 0)
      BY <1>0, <1>4, MoveCounts
    <2> QED BY <1>2, <1>3, <1>5, <2>1, <2>2 DEF TimeOutPastDeadline, Swept
  <1>6. CASE TimeOutOverworked(S, t)
    <2>1. rows'[r] = IF r \in S THEN Move(rows[r], "TIMEOUT", t) ELSE rows[r]
      BY <1>6 DEF TimeOutOverworked, Store
    <2>2. Counts(rows[r], Move(rows[r], "TIMEOUT", t), 0, 0, 0)
      BY <1>0, <1>4, MoveCounts
    <2> QED BY <1>2, <1>3, <1>6, <2>1, <2>2 DEF TimeOutOverworked, Swept
  <1>7. CASE RequeueLapsed(S, t)
    <2>1. PICK wait \in [S -> 0..LAPSE_RETRY_CAP] :
              Store(S, LAMBDA s : LapsedRow(rows[s], wait[s], t))
      BY <1>7 DEF RequeueLapsed
    <2>2. r \in S => wait[r] \in Nat
      BY LimitsAssumption
    <2>3. rows'[r] = IF r \in S THEN LapsedRow(rows[r], wait[r], t) ELSE rows[r]
      BY <2>1 DEF Store
    <2>4. UNCHANGED <<resolutions, releases>>
      BY <1>7 DEF RequeueLapsed, Swept
    <2>5. CASE r \in S
      <3>1. rows[r].status = "RUNNING"
        BY <1>7, <2>5 DEF RequeueLapsed, Lapsed
      <3>2. rows[r].lease_lapses < MAX_LEASE_LAPSES /\ rows[r].lease_lapses \in Nat
        BY <1>0, <3>1, LimitsAssumption DEF RetriesBounded, Row
      <3>3. \/ Counts(rows[r], rows'[r], 0, 0, 0)
            \/ Counts(rows[r], rows'[r], 1, 0, 1) /\ rows'[r].lease_lapses < MAX_LEASE_LAPSES
            \/ Counts(rows[r], rows'[r], 0, 0, 1) /\ rows'[r].lease_lapses >= MAX_LEASE_LAPSES
        BY <1>0, <2>2, <2>3, <2>5, LapsedCounts
      <3>4. Counts(rows[r], rows'[r], 0, 0, 1) /\ rows'[r].lease_lapses >= MAX_LEASE_LAPSES
                => rows'[r].lease_lapses = MAX_LEASE_LAPSES
        BY <3>2, LimitsAssumption DEF Counts
      <3> QED BY <1>1, <2>4, <3>3, <3>4 DEF AttemptsKept, AttemptStep
    <2>6. CASE r \notin S
      BY <1>3, <2>3, <2>4, <2>6
    <2> QED BY <2>5, <2>6
  <1>8. CASE EscalateOverdue(S, t)
    <2>1. rows'[r] = IF r \in S THEN EscalatedRow(rows[r], t) ELSE rows[r]
      BY <1>8 DEF EscalateOverdue, Store
    <2>2. Counts(rows[r], EscalatedRow(rows[r], t), 0, 0, 0)
      BY <1>0, EscalatedCounts
    <2> QED BY <1>2, <1>3, <1>8, <2>1, <2>2 DEF EscalateOverdue, Swept
  <1>9. CASE PurgeEnded(S, t)
    <2>1. CASE r \in S
      <3>1. rows'[r] = NoRow /\ releases'[r] = 0 /\ resolutions'[r] = {}
        BY <1>9, <2>1 DEF PurgeEnded, Store
      <3>2. Continuing(r)' = {}
        BY <3>1 DEF Continuing
      <3> QED BY <3>1, <3>2 DEF AttemptsKept, AttemptStep
    <2>2. CASE r \notin S
      <3>1. rows'[r] = rows[r] /\ releases'[r] = releases[r] /\ resolutions'[r] = resolutions[r]
        BY <1>9, <2>2 DEF PurgeEnded, Store
      <3>2. Continuing(r)' = Continuing(r)
        BY <3>1 DEF Continuing
      <3> QED BY <1>0, <3>1, <3>2, SameCounts DEF AttemptsKept, AttemptStep
    <2> QED BY <2>1, <2>2
  <1>10. CASE PurgeArtifacts(S, t)
    BY <1>3, <1>10 DEF PurgeArtifacts
  <1> QED BY <1>5, <1>6, <1>7, <1>8, <1>9, <1>10 DEF Sweep

\* An id stays blank, or becomes so, only as its row goes.
LEMMA BlanksAlways == Spec => []Blanks
  <1>1. Init => Blanks
    BY DEF Init, Blanks, Blank
  <1>2. Inv /\ Blanks /\ [Next]_vars => Blanks'
    <2> SUFFICES ASSUME Inv, Blanks, [Next]_vars, NEW r \in RunIds
                 PROVE  Blank(rows'[r])
      BY DEF Blanks
    <2>1. PICK t \in Clock : Change(rows[r], rows'[r], t)
      BY StepCases
    <2> QED BY <2>1 DEF Blanks, Blank, Change, Born, Stayed, Left, CanBecome, Final
  <1> QED BY <1>1, <1>2, InvAlways, PTL DEF Spec

\* A run's attempts are all accounted for, for any limits and any number of runs: no retry,
\* lapse, release or answer is counted and not followed by an attempt, and none is followed
\* by two (_requeue and its callers).
THEOREM AttemptsAccounted == Spec => []AttemptAccounting
  <1> DEFINE Finite == \A r \in RunIds : IsFiniteSet(Continuing(r))
             Lapses(row) == IF row.lease_lapses = MAX_LEASE_LAPSES
                            THEN MAX_LEASE_LAPSES - 1 ELSE row.lease_lapses
             Balanced(row, rel, n) == row.attempt = 1 + row.error_retries + rel + n + Lapses(row)
             Safe == Inv /\ Blanks /\ RetriesBounded
  <1>1. Init => Finite /\ AttemptAccounting
    <2> SUFFICES ASSUME Init, NEW r \in RunIds
                 PROVE  /\ IsFiniteSet(Continuing(r))
                        /\ Balanced(rows[r], releases[r], Cardinality(Continuing(r)))
      BY DEF AttemptAccounting
    <2>1. Continuing(r) = {}
      BY DEF Init, Continuing
    <2> QED BY <2>1, FS_EmptySet, LimitsAssumption DEF Init, NoRow
  <1>2. Safe /\ Finite /\ AttemptAccounting /\ [Next]_vars /\ Inv' => Finite' /\ AttemptAccounting'
    <2> SUFFICES ASSUME Safe, Finite, AttemptAccounting, [Next]_vars, Inv', NEW r \in RunIds
                 PROVE  /\ IsFiniteSet(Continuing(r)')
                        /\ Balanced(rows'[r], releases'[r], Cardinality(Continuing(r)'))
      BY DEF AttemptAccounting
    <2>1. CASE Transaction
      <3>1. AttemptsKept(r)
        BY <2>1, RequestAttempts, SweepAttempts DEF Transaction
      <3>2. PICK row, new, rel, rel2, kept, kept2 :
              /\ row = rows[r] /\ new = rows'[r] /\ rel = releases[r] /\ rel2 = releases'[r]
              /\ kept = Continuing(r) /\ kept2 = Continuing(r)'
        OBVIOUS
      <3>3. /\ row \in Row /\ new \in Row /\ rel \in Nat /\ IsFiniteSet(kept)
            /\ Balanced(row, rel, Cardinality(kept))
            /\ AttemptStep(row, new, rel, rel2, kept, kept2)
        BY <3>1, <3>2 DEF Inv, TypeOK, AttemptAccounting, AttemptsKept
      <3>4. PICK n \in Nat : n = Cardinality(kept)
        BY <3>3, FS_CardinalityType
      <3>5. /\ row.attempt \in Nat /\ row.error_retries \in Nat /\ row.lease_lapses \in Nat
            /\ new.attempt \in Nat /\ new.error_retries \in Nat /\ new.lease_lapses \in Nat
            /\ MAX_LEASE_LAPSES \in Nat \ {0}
        BY <3>3, LimitsAssumption DEF Row
      <3> SUFFICES IsFiniteSet(kept2) /\ Balanced(new, rel2, Cardinality(kept2))
        BY <3>2
      <3>6. CASE /\ kept2 = kept
                 /\ \/ Counts(row, new, 0, 0, 0) /\ rel2 = rel
                    \/ Counts(row, new, 1, 1, 0) /\ rel2 = rel
                    \/ Counts(row, new, 1, 0, 0) /\ rel2 = rel + 1
                    \/ /\ Counts(row, new, 1, 0, 1) /\ new.lease_lapses < MAX_LEASE_LAPSES
                       /\ rel2 = rel
                    \/ /\ Counts(row, new, 0, 0, 1) /\ new.lease_lapses = MAX_LEASE_LAPSES
                       /\ rel2 = rel
        <4>2. Balanced(row, rel, n)
          BY <3>3, <3>4
        <4>3. Balanced(new, rel2, n)
          BY <3>3, <3>5, <3>6, <4>2 DEF Counts
        <4> QED BY <3>3, <3>4, <3>6, <4>3
      <3>7. CASE /\ Counts(row, new, 1, 0, 0) /\ rel2 = rel
                 /\ \E res : res \notin kept /\ kept2 = kept \cup {res}
        <4>1. IsFiniteSet(kept2) /\ Cardinality(kept2) = n + 1
          BY <3>3, <3>4, <3>7, FS_AddElement
        <4>2. Balanced(row, rel, n)
          BY <3>3, <3>4
        <4>3. Balanced(new, rel2, n + 1)
          BY <3>3, <3>5, <3>7, <4>2 DEF Counts
        <4> QED BY <4>1, <4>3
      <3>8. CASE new = NoRow /\ rel2 = 0 /\ kept2 = {}
        BY <3>5, <3>8, FS_EmptySet DEF NoRow
      <3> QED BY <3>3, <3>6, <3>7, <3>8 DEF AttemptStep
    <2>2. CASE UNCHANGED <<rows, releases, resolutions>>
      BY <2>2 DEF AttemptAccounting, Continuing
    <2> QED BY <2>1, <2>2 DEF Next, Tick, vars
  <1>3. Spec => []Safe
    BY InvAlways, BlanksAlways, RetriesAreBounded, PTL
  <1> QED BY <1>1, <1>2, <1>3, InvAlways, PTL DEF Spec

------------------------------------------------------------------------------
(***************************************************************************)
(* Announcements.  That an id is new needs what the outbox already holds:  *)
(* no event of a later attempt, of the present one a pause only once it    *)
(* paused, an escalation only once escalated, an end only once ended.      *)
(***************************************************************************)
EventName(row, new) ==
    IF new.status = row.status THEN "run.escalated"
    ELSE IF new.status = "PAUSED" THEN "run.paused" ELSE "run.finished"

\* What a transaction does to one run and its events.
Told(row, new, S, S2) ==
    \/ new = row /\ S2 = S
    \/ new.status \in {"QUEUED", "RUNNING"} /\ S2 = S
    \/ /\ new.status \in {"PAUSED"} \cup Final /\ new.status # row.status
       /\ S2 = S \cup {Envelope(new, EventName(row, new))}
    \/ /\ row.status = "PAUSED" /\ new.status = "PAUSED"
       /\ row.awaiting.escalate_to # None /\ new.awaiting.escalate_to = None
       /\ S2 = S \cup {Envelope(new, EventName(row, new))}
    \/ new = NoRow /\ S2 = {}

ToldOf(r) == Told(rows[r], rows'[r], outbox[r], outbox'[r])

\* One run's part of a request that announces what became of it.
LEMMA AnnounceMoved ==
    ASSUME NEW r \in RunIds, Announce({r}, EventOf),
           \/ rows'[r].status \in {"QUEUED", "RUNNING"}
           \/ rows'[r].status \in {"PAUSED"} \cup Final /\ rows'[r].status # rows[r].status
    PROVE  ToldOf(r)
  <1>1. outbox'[r] = outbox[r] \cup {Envelope(rows'[r], e) : e \in EventOf(rows'[r])}
    BY DEF Announce
  <1>2. CASE rows'[r].status \in {"QUEUED", "RUNNING"}
    <2>1. EventOf(rows'[r]) = {}
      BY <1>2 DEF EventOf, Final
    <2> QED BY <1>1, <1>2, <2>1 DEF ToldOf, Told
  <1>3. CASE rows'[r].status \in {"PAUSED"} \cup Final /\ rows'[r].status # rows[r].status
    <2>1. EventOf(rows'[r]) = {EventName(rows[r], rows'[r])}
      BY <1>3 DEF EventOf, EventName, Final
    <2>2. outbox'[r] = outbox[r] \cup {Envelope(rows'[r], EventName(rows[r], rows'[r]))}
      BY <1>1, <2>1
    <2> QED BY <1>3, <2>2 DEF ToldOf, Told
  <1> QED BY <1>2, <1>3

\* The status each function leaves.
LEMMA StatusAfter ==
    ASSUME NEW row \in Row, NEW t \in Nat
    PROVE  /\ \A w, q, checkpoint : PausedRow(row, w, q, checkpoint, t).status \in {"PAUSED", "CANCELLED"}
           /\ \A answer : ResumedRow(row, answer, t).status \in {"QUEUED", "RUNNING", "CANCELLED"}
           /\ \A p : CancelledRow(row, p, t).status =
                        IF Leased(row) THEN "RUNNING" ELSE "CANCELLED"
           /\ \A w : \A wait \in Nat : RetriedRow(row, w, wait, t).status = "QUEUED"
           /\ \A w : \A status \in Final : FinishedRow(row, w, status, t).status = status
           /\ \A w, seconds : ClaimedRow(row, w, seconds, t).status = "RUNNING"
           /\ \A w, seconds : \A checkpoint \in Maybe(Checkpoints) :
                 BeatenRow(row, w, seconds, checkpoint, t).status = row.status
           /\ \A w, checkpoint : ReleasedRow(row, w, checkpoint, t).status \in {"QUEUED", "CANCELLED"}
           /\ \A wait \in Nat : LapsedRow(row, wait, t).status \in {"QUEUED", "CANCELLED", "ERROR"}
  <1>1. /\ Move(row, "CANCELLED", t) \in Row /\ Move(row, "CANCELLED", t).status = "CANCELLED"
        /\ Move(row, "PAUSED", t) \in Row /\ Move(row, "PAUSED", t).status = "PAUSED"
        /\ Move(row, "RUNNING", t) \in Row /\ Move(row, "RUNNING", t).status = "RUNNING"
    BY MoveType, MoveColumns DEF Live, Final
  <1>2. Requeue(row, None, t) \in Row /\ Requeue(row, None, t).status = "QUEUED"
    BY RequeueType, RequeueColumns, MaybeFacts
  <1>3. \A w, q, checkpoint : PausedRow(row, w, q, checkpoint, t).status \in {"PAUSED", "CANCELLED"}
    BY <1>1 DEF PausedRow, Row
  <1>4. \A answer : ResumedRow(row, answer, t).status \in {"QUEUED", "RUNNING", "CANCELLED"}
    BY <1>1, <1>2 DEF ResumedRow, Row
  <1>5. \A p : CancelledRow(row, p, t).status = IF Leased(row) THEN "RUNNING" ELSE "CANCELLED"
    BY <1>1 DEF CancelledRow, Leased, Row
  <1>6. ASSUME NEW w, NEW wait \in Nat PROVE RetriedRow(row, w, wait, t).status = "QUEUED"
    <2> DEFINE counted == [row EXCEPT !.error_retries = @ + 1]
    <2>1. counted \in Row /\ t + wait \in Maybe(Nat)
      BY MaybeFacts DEF Row
    <2> HIDE DEF counted
    <2>2. Requeue(counted, t + wait, t) \in Row /\ Requeue(counted, t + wait, t).status = "QUEUED"
      BY <2>1, RequeueType, RequeueColumns
    <2>3. [Requeue(counted, t + wait, t) EXCEPT !.settled_by = w].status = "QUEUED"
      BY <2>2 DEF Row
    <2> QED BY <2>3 DEF RetriedRow, counted
  <1>7. ASSUME NEW w, NEW status \in Final PROVE FinishedRow(row, w, status, t).status = status
    <2>1. Move(row, status, t) \in Row /\ Move(row, status, t).status = status
      BY MoveType, MoveColumns
    <2> QED BY <2>1 DEF FinishedRow, Row
  <1>8. \A w, seconds : ClaimedRow(row, w, seconds, t).status = "RUNNING"
    BY <1>1, LeaseColumnsOf DEF ClaimedRow
  <1>9. ASSUME NEW w, NEW seconds, NEW checkpoint \in Maybe(Checkpoints)
        PROVE  BeatenRow(row, w, seconds, checkpoint, t).status = row.status
    <2> DEFINE saved == [row EXCEPT !.checkpoint = checkpoint, !.updated_at = t]
    <2>1. t \in Maybe(Nat)
      BY MaybeFacts
    <2>2. saved \in Row
      BY <2>1 DEF Row
    <2>3. saved.status = row.status
      BY DEF Row
    <2> HIDE DEF saved
    <2>4. Lease(saved, w, seconds, t).status = row.status /\ Lease(row, w, seconds, t).status = row.status
      BY <2>2, <2>3, LeaseColumnsOf
    <2> QED BY <2>4 DEF BeatenRow, saved
  <1>10. \A w, checkpoint : ReleasedRow(row, w, checkpoint, t).status \in {"QUEUED", "CANCELLED"}
    BY <1>1, <1>2 DEF ReleasedRow, Row
  <1>11. ASSUME NEW wait \in Nat
         PROVE  LapsedRow(row, wait, t).status \in {"QUEUED", "CANCELLED", "ERROR"}
    <2> DEFINE counted == [row EXCEPT !.lease_lapses = @ + 1]
    <2>1. counted \in Row
      BY DEF Row
    <2> HIDE DEF counted
    <2>2. Move(counted, "ERROR", t).status = "ERROR" /\ Requeue(counted, t + wait, t).status = "QUEUED"
      BY <2>1, MoveColumns, RequeueColumns
    <2> QED BY <1>1, <2>2 DEF LapsedRow, counted
  <1> QED BY <1>3, <1>4, <1>5, <1>6, <1>7, <1>8, <1>9, <1>10, <1>11

LEMMA RequestTold ==
    ASSUME Inv, NEW t \in Clock, NEW r0 \in RunIds, Request(r0, t), NEW r \in RunIds
    PROVE  ToldOf(r)
  <1>0. /\ rows[r] \in Row /\ t \in Nat /\ Consistent(rows[r])
        /\ rows \in [RunIds -> Row] /\ outbox \in [RunIds -> SUBSET EventId]
    BY ClockType DEF Inv, TypeOK, RowsConsistent
  <1>1. ASSUME r # r0 PROVE ToldOf(r)
    <2>1. rows'[r] = rows[r]
      BY <1>0, <1>1 DEF Request, Start, Pause, Resume, Cancel, Finish, Claim, Heartbeat, Release,
                  AddArtifact
    <2>2. UNCHANGED outbox \/ Announce({r0}, EventOf)
      BY DEF Request, Start, Pause, Resume, Cancel, Finish, Claim, Heartbeat, Release, AddArtifact
    <2>3. outbox'[r] = outbox[r]
      BY <1>1, <2>2 DEF Announce
    <2> QED BY <2>1, <2>3 DEF ToldOf, Told
  <1> SUFFICES ASSUME r = r0 PROVE ToldOf(r)
    BY <1>1
  <1>2. /\ \A from, to : CanBecome(from, to) => from \in Live
        /\ Live \cap Final = {} /\ "CANCELLED" \in Final
    BY DEF CanBecome, Live, Final
  <1>3. rows[r].cancel_requested_at # None => rows[r].status = "RUNNING"
    BY <1>0 DEF Consistent, LeaseColumns
  <1>4. ASSUME NEW queue \in BOOLEAN, NEW deadline \in Deadlines, NEW timeout \in Timeouts,
               Start(r0, queue, deadline, timeout, t)
        PROVE  ToldOf(r)
    <2>1. rows'[r].status \in {"QUEUED", "RUNNING"} /\ outbox' = outbox
      BY <1>0, <1>4 DEF Start, NewRow, NoRow
    <2> QED BY <2>1 DEF ToldOf, Told
  <1>5. ASSUME NEW w \in Callers, NEW q \in Questions, NEW checkpoint \in Maybe(Checkpoints),
               Pause(r0, w, q, checkpoint, t)
        PROVE  ToldOf(r)
    <2>1. rows'[r].status \in {"PAUSED", "CANCELLED"}
      BY <1>0, <1>5, StatusAfter DEF Pause
    <2>2. rows[r].status = "RUNNING"
      BY <1>3, <1>5 DEF Pause, Instead, CanBecome, Final
    <2> QED BY <1>2, <1>5, <2>1, <2>2, AnnounceMoved DEF Pause
  <1>6. ASSUME NEW interrupt \in Interrupts, NEW answer \in Answers,
               Resume(r0, interrupt, answer, t)
        PROVE  ToldOf(r)
    <2>1. rows'[r].status \in {"QUEUED", "RUNNING", "CANCELLED"}
      BY <1>0, <1>6, StatusAfter DEF Resume
    <2>2. rows[r].status = "PAUSED"
      BY <1>0, <1>6 DEF Resume, Consistent, WaitColumns
    <2> QED BY <1>2, <1>6, <2>1, <2>2, AnnounceMoved DEF Resume
  <1>7. ASSUME NEW p \in Principals, Cancel(r0, p, t)
        PROVE  ToldOf(r)
    <2>1. rows'[r].status = IF Leased(rows[r]) THEN "RUNNING" ELSE "CANCELLED"
      BY <1>0, <1>7, StatusAfter DEF Cancel
    <2>2. ~Leased(rows[r]) => rows[r].status \in Live
      BY <1>2, <1>7 DEF Cancel
    <2> QED BY <1>2, <1>7, <2>1, <2>2, AnnounceMoved DEF Cancel
  <1>8. ASSUME NEW w \in Callers, NEW status \in Endings, NEW retryable \in BOOLEAN,
               Finish(r0, w, status, retryable, t)
        PROVE  ToldOf(r)
    <2>1. CASE Retried(rows[r], status, retryable)
      <3>1. PICK wait \in ErrorWaits(rows[r]) : rows'[r] = RetriedRow(rows[r], w, wait, t)
        BY <1>0, <1>8, <2>1 DEF Finish
      <3>2. wait \in Nat
        BY WaitsAreNatural DEF ErrorWaits
      <3>3. rows'[r].status = "QUEUED"
        BY <1>0, <3>1, <3>2, StatusAfter
      <3> QED BY <1>8, <3>3, AnnounceMoved DEF Finish
    <2>2. CASE ~Retried(rows[r], status, retryable)
      <3>1. /\ rows'[r] = FinishedRow(rows[r], w, status, t) /\ status \in Final
            /\ rows[r].status \in Live
        BY <1>0, <1>2, <1>8, <2>2, StoreAssumption DEF Finish
      <3>2. rows'[r].status = status
        BY <1>0, <3>1, StatusAfter
      <3> QED BY <1>2, <1>8, <3>1, <3>2, AnnounceMoved DEF Finish
    <2> QED BY <2>1, <2>2
  <1>9. ASSUME NEW w \in Workers, NEW seconds \in LeaseSeconds, Claim(r0, w, seconds, t)
        PROVE  ToldOf(r)
    <2>1. rows'[r].status = "RUNNING" /\ outbox' = outbox
      BY <1>0, <1>9, StatusAfter DEF Claim
    <2> QED BY <2>1 DEF ToldOf, Told
  <1>10. ASSUME NEW w \in Workers, NEW seconds \in LeaseSeconds,
                NEW checkpoint \in Maybe(Checkpoints), Heartbeat(r0, w, seconds, checkpoint, t)
         PROVE  ToldOf(r)
    <2>1. rows'[r].status = "RUNNING" /\ outbox' = outbox
      BY <1>0, <1>10, StatusAfter DEF Heartbeat
    <2> QED BY <2>1 DEF ToldOf, Told
  <1>11. ASSUME NEW w \in Workers, NEW checkpoint \in Maybe(Checkpoints),
                Release(r0, w, checkpoint, t)
         PROVE  ToldOf(r)
    <2>1. rows'[r].status \in {"QUEUED", "CANCELLED"}
      BY <1>0, <1>11, StatusAfter DEF Release
    <2>2. rows[r].status \in Live
      BY <1>2, <1>11 DEF Release
    <2> QED BY <1>2, <1>11, <2>1, <2>2, AnnounceMoved DEF Release
  <1>12. ASSUME NEW w \in Callers, NEW service \in BOOLEAN, AddArtifact(r0, w, service)
         PROVE  ToldOf(r)
    BY <1>12 DEF AddArtifact, ToldOf, Told
  <1> QED BY <1>4, <1>5, <1>6, <1>7, <1>8, <1>9, <1>10, <1>11, <1>12 DEF Request

LEMMA SweepTold ==
    ASSUME Inv, NEW t \in Clock, NEW S \in SUBSET RunIds, Sweep(S, t), NEW r \in RunIds
    PROVE  ToldOf(r)
  <1>0. rows[r] \in Row /\ t \in Nat /\ Consistent(rows[r])
    BY ClockType DEF Inv, TypeOK, RowsConsistent
  <1>1. ASSUME Swept(S, t), r \notin S, rows'[r] = rows[r]
        PROVE  ToldOf(r)
    BY <1>1 DEF Swept, Announce, ToldOf, Told
  <1>2. ASSUME Swept(S, t), r \in S
        PROVE  outbox'[r] = outbox[r] \cup {Envelope(rows'[r], e) : e \in SweptEventOf(rows'[r])}
    BY <1>2 DEF Swept, Announce
  <1>3. ASSUME Swept(S, t), r \in S, rows[r].status \in Live, rows'[r].status \in Final
        PROVE  ToldOf(r)
    <2>1. SweptEventOf(rows'[r]) = {"run.finished"} /\ EventName(rows[r], rows'[r]) = "run.finished"
      BY <1>3 DEF SweptEventOf, EventOf, EventName, Live, Final
    <2>2. rows'[r].status # rows[r].status
      BY <1>3 DEF Live, Final
    <2>3. outbox'[r] = outbox[r] \cup {Envelope(rows'[r], EventName(rows[r], rows'[r]))}
      BY <1>2, <1>3, <2>1
    <2> QED BY <1>3, <2>2, <2>3 DEF ToldOf, Told
  <1>4. Move(rows[r], "TIMEOUT", t).status = "TIMEOUT" /\ "TIMEOUT" \in Final
    BY <1>0, MoveColumns DEF Final
  <1>5. CASE TimeOutPastDeadline(S, t)
    <2>1. rows'[r] = IF r \in S THEN Move(rows[r], "TIMEOUT", t) ELSE rows[r]
      BY <1>5 DEF TimeOutPastDeadline, Store
    <2>2. r \in S => rows[r].status \in Live
      BY <1>5 DEF TimeOutPastDeadline, PastDeadline
    <2> QED BY <1>1, <1>3, <1>4, <1>5, <2>1, <2>2 DEF TimeOutPastDeadline
  <1>6. CASE TimeOutOverworked(S, t)
    <2>1. rows'[r] = IF r \in S THEN Move(rows[r], "TIMEOUT", t) ELSE rows[r]
      BY <1>6 DEF TimeOutOverworked, Store
    <2>2. r \in S => rows[r].status \in Live
      BY <1>6 DEF TimeOutOverworked, Overworked, Live
    <2> QED BY <1>1, <1>3, <1>4, <1>6, <2>1, <2>2 DEF TimeOutOverworked
  <1>7. CASE RequeueLapsed(S, t)
    <2>1. PICK wait \in [S -> 0..LAPSE_RETRY_CAP] :
              Store(S, LAMBDA s : LapsedRow(rows[s], wait[s], t))
      BY <1>7 DEF RequeueLapsed
    <2>2. r \in S => wait[r] \in Nat
      BY LimitsAssumption
    <2>3. rows'[r] = IF r \in S THEN LapsedRow(rows[r], wait[r], t) ELSE rows[r]
      BY <2>1 DEF Store
    <2>4. r \in S => rows'[r].status \in {"QUEUED", "CANCELLED", "ERROR"} /\ rows[r].status \in Live
      BY <1>0, <1>7, <2>2, <2>3, StatusAfter DEF RequeueLapsed, Lapsed, Live
    <2>5. Swept(S, t)
      BY <1>7 DEF RequeueLapsed
    <2>6. CASE r \in S /\ rows'[r].status = "QUEUED"
      <3>1. SweptEventOf(rows'[r]) = {}
        BY <2>6 DEF SweptEventOf, EventOf, Final
      <3> QED BY <1>2, <2>5, <2>6, <3>1 DEF ToldOf, Told
    <2> QED BY <1>1, <1>3, <2>3, <2>4, <2>5, <2>6 DEF Final
  <1>8. CASE EscalateOverdue(S, t)
    <2>1. rows'[r] = IF r \in S THEN EscalatedRow(rows[r], t) ELSE rows[r]
      BY <1>8 DEF EscalateOverdue, Store
    <2>2. Swept(S, t) /\ (r \in S => rows[r].status = "PAUSED")
      BY <1>8 DEF EscalateOverdue, Overdue
    <2>3. CASE r \in S /\ rows[r].awaiting.escalate_to = None
      <3>1. rows'[r].status = "TIMEOUT"
        BY <1>4, <2>1, <2>3 DEF EscalatedRow
      <3> QED BY <1>3, <1>4, <2>2, <2>3, <3>1 DEF Live
    <2>4. CASE r \in S /\ rows[r].awaiting.escalate_to # None
      <3> DEFINE escalated == [rows[r].awaiting EXCEPT !.assignee    = rows[r].awaiting.escalate_to,
                                                       !.escalate_to = None,
                                                       !.deadline    = None]
      <3>1. rows[r].awaiting \in Question
        BY <1>0, <2>2, <2>4 DEF Consistent, WaitColumns, Row, Maybe
      <3>2. escalated.escalate_to = None
        BY <3>1 DEF Question
      <3>3. rows'[r].status = "PAUSED" /\ rows'[r].awaiting = escalated
        <4>1. rows'[r] = [rows[r] EXCEPT !.awaiting          = escalated,
                                         !.assignee          = escalated.assignee,
                                         !.awaiting_deadline = None,
                                         !.updated_at        = t]
          BY <2>1, <2>4 DEF EscalatedRow
        <4> HIDE DEF escalated
        <4> QED BY <1>0, <2>2, <2>4, <4>1 DEF Row
      <3>4. SweptEventOf(rows'[r]) = {EventName(rows[r], rows'[r])}
        BY <2>2, <2>4, <3>3 DEF SweptEventOf, EventName
      <3>5. outbox'[r] = outbox[r] \cup {Envelope(rows'[r], EventName(rows[r], rows'[r]))}
        BY <1>2, <2>2, <2>4, <3>4
      <3> QED BY <2>2, <2>4, <3>2, <3>3, <3>5 DEF ToldOf, Told
    <2> QED BY <1>1, <2>1, <2>2, <2>3, <2>4
  <1>9. CASE PurgeEnded(S, t)
    BY <1>9 DEF PurgeEnded, Store, ToldOf, Told
  <1>10. CASE PurgeArtifacts(S, t)
    BY <1>10 DEF PurgeArtifacts, ToldOf, Told
  <1> QED BY <1>5, <1>6, <1>7, <1>8, <1>9, <1>10 DEF Sweep

\* What the outbox holds of a run, by the run's present attempt and status.
Posted(row, S) ==
    /\ row.status = "ABSENT" => S = {}
    /\ \A e \in S :
          /\ e.attempt <= row.attempt
          /\ e.event = "run.escalated" => e.status = "PAUSED"
          /\ e.attempt = row.attempt =>
                /\ e.status = "PAUSED" => row.status \in {"PAUSED"} \cup Final
                /\ e.status \in Final => row.status \in Final
                /\ e.event = "run.escalated" /\ row.status = "PAUSED" =>
                      row.awaiting.escalate_to = None

AllPosted == \A r \in RunIds : Posted(rows[r], outbox[r])

LEMMA PostedStep ==
    ASSUME NEW row \in Row, NEW new \in Row, NEW t, NEW S \in SUBSET EventId, NEW S2,
           Change(row, new, t), Told(row, new, S, S2), Posted(row, S)
    PROVE  /\ Posted(new, S2)
           /\ new.status \in {"PAUSED"} \cup Final /\ new # row =>
                 /\ Envelope(new, EventName(row, new)) \notin S
                 /\ S2 = S \cup {Envelope(new, EventName(row, new))}
  <1> DEFINE Goal == /\ Posted(new, S2)
                     /\ new.status \in {"PAUSED"} \cup Final /\ new # row =>
                           /\ Envelope(new, EventName(row, new)) \notin S
                           /\ S2 = S \cup {Envelope(new, EventName(row, new))}
  <1> SUFFICES Goal
    OBVIOUS
  <1>1. row.attempt \in Nat /\ new.attempt \in Nat /\ \A e \in S : e.attempt \in Nat
    BY DEF Row, EventId
  <1>2. /\ "PAUSED" \notin Final /\ "QUEUED" \notin Final /\ "RUNNING" \notin Final
        /\ "ABSENT" \notin Final
    BY DEF Final
  <1>3. CASE new = row /\ S2 = S
    BY <1>3
  <1>4. CASE new.status \in {"QUEUED", "RUNNING"} /\ S2 = S
    <2>1. CASE row.status = "ABSENT"
      BY <1>2, <1>4, <2>1 DEF Posted
    <2>2. CASE row.status # "ABSENT"
      <3>1. \/ new.attempt = row.attempt /\ row.status \in {"QUEUED", "RUNNING"}
            \/ new.attempt = row.attempt + 1
        BY <1>1, <1>2, <1>4, <2>2 DEF Change, Born, Stayed, Left, CanBecome, NoRow
      <3>2. \A e \in S : /\ e.attempt <= new.attempt
                         /\ e.event = "run.escalated" => e.status = "PAUSED"
                         /\ e.attempt = new.attempt =>
                               e.status # "PAUSED" /\ e.status \notin Final
        BY <1>1, <1>2, <3>1 DEF Posted
      <3> QED BY <1>2, <1>4, <3>2 DEF Posted
    <2> QED BY <2>1, <2>2
  <1> DEFINE told == Envelope(new, EventName(row, new))
  <1>5. /\ told.attempt = new.attempt /\ told.status = new.status
        /\ told.event = EventName(row, new)
    BY DEF Envelope
  <1> HIDE DEF told
  <1>6. CASE /\ new.status \in {"PAUSED"} \cup Final /\ new.status # row.status
             /\ S2 = S \cup {told}
    <2>1. /\ CanBecome(row.status, new.status) /\ new.attempt = row.attempt
      BY <1>2, <1>6 DEF Change, Born, Stayed, Left, NoRow
    <2>2. /\ row.status \notin Final /\ row.status # "ABSENT"
          /\ new.status = "PAUSED" => row.status = "RUNNING"
      BY <1>2, <2>1 DEF CanBecome
    <2>3. told.event # "run.escalated"
      BY <1>5, <1>6 DEF EventName
    <2>4. told \notin S
      BY <1>2, <1>5, <1>6, <2>1, <2>2 DEF Posted
    <2>5. \A e \in S : /\ e.attempt <= new.attempt
                       /\ e.event = "run.escalated" => e.status = "PAUSED"
                       /\ e.attempt = new.attempt =>
                             /\ e.status \notin Final
                             /\ new.status = "PAUSED" => e.status # "PAUSED"
      BY <1>2, <2>1, <2>2 DEF Posted
    <2>6. Posted(new, S2)
      BY <1>1, <1>2, <1>5, <1>6, <2>1, <2>2, <2>3, <2>5 DEF Posted
    <2> QED BY <1>6, <2>4, <2>6 DEF told
  <1>7. CASE /\ row.status = "PAUSED" /\ new.status = "PAUSED"
             /\ row.awaiting.escalate_to # None /\ new.awaiting.escalate_to = None
             /\ S2 = S \cup {told}
    <2>1. new.attempt = row.attempt
      BY <1>2, <1>7 DEF Change, Born, Stayed, Left, CanBecome, NoRow
    <2>2. told.event = "run.escalated" /\ told.status = "PAUSED"
      BY <1>5, <1>7 DEF EventName
    <2>3. told \notin S
      BY <1>5, <1>7, <2>1, <2>2 DEF Posted
    <2>4. Posted(new, S2)
      BY <1>1, <1>2, <1>5, <1>7, <2>1, <2>2 DEF Posted
    <2> QED BY <1>7, <2>3, <2>4 DEF told
  <1>8. CASE new = NoRow /\ S2 = {}
    BY <1>2, <1>8 DEF Posted, NoRow
  <1> QED BY <1>3, <1>4, <1>6, <1>7, <1>8 DEF Told, told

\* Every pause, escalation and ending is announced in the step it happens, under an id the
\* outbox never held, and nothing else is: announce's INSERT ... ON CONFLICT DO NOTHING never
\* drops an event, whatever the limits and however many attempts a run makes.
THEOREM AnnouncesOnce == Spec => AnnouncedOnce
  <1> DEFINE Announced ==
          \A r \in RunIds :
              rows'[r].status # "ABSENT" =>
                  IF Noteworthy(r)
                  THEN \E e \in outbox'[r] \ outbox[r] :
                           /\ outbox'[r] = outbox[r] \cup {e}
                           /\ e.event = IF rows'[r].status = rows[r].status THEN "run.escalated"
                                        ELSE IF rows'[r].status = "PAUSED" THEN "run.paused"
                                        ELSE "run.finished"
                  ELSE outbox'[r] = outbox[r]
  <1>1. Init => AllPosted
    BY DEF Init, AllPosted, Posted
  <1>2. ASSUME Inv, Inv', [Next]_vars, NEW r \in RunIds
        PROVE  \E t : Change(rows[r], rows'[r], t) /\ ToldOf(r)
    <2>1. CASE Transaction
      <3>1. ToldOf(r)
        BY <1>2, <2>1, RequestTold, SweepTold DEF Transaction
      <3> QED BY <1>2, <3>1, StepCases
    <2>2. CASE UNCHANGED <<rows, outbox>>
      BY <2>2 DEF Change, ToldOf, Told
    <2> QED BY <1>2, <2>1, <2>2 DEF Next, Tick, vars
  <1>3. ASSUME Inv, Inv', [Next]_vars, AllPosted, NEW r \in RunIds
        PROVE  /\ Posted(rows'[r], outbox'[r])
               /\ rows'[r].status \in {"PAUSED"} \cup Final /\ rows'[r] # rows[r] =>
                     /\ Envelope(rows'[r], EventName(rows[r], rows'[r])) \notin outbox[r]
                     /\ outbox'[r] = outbox[r] \cup {Envelope(rows'[r], EventName(rows[r], rows'[r]))}
    <2>1. PICK t : Change(rows[r], rows'[r], t) /\ Told(rows[r], rows'[r], outbox[r], outbox'[r])
      BY <1>2, <1>3 DEF ToldOf
    <2>2. /\ rows[r] \in Row /\ rows'[r] \in Row /\ outbox[r] \in SUBSET EventId
          /\ Posted(rows[r], outbox[r])
      BY <1>3 DEF Inv, TypeOK, AllPosted
    <2> QED BY <2>1, <2>2, PostedStep
  <1>4. Inv /\ Inv' /\ [Next]_vars /\ AllPosted => AllPosted'
    BY <1>3 DEF AllPosted
  <1>5. Inv /\ Inv' /\ [Next]_vars /\ AllPosted => [Announced]_vars
    <2> SUFFICES ASSUME Inv, Inv', [Next]_vars, AllPosted, NEW r \in RunIds,
                        rows'[r].status # "ABSENT"
                 PROVE  IF Noteworthy(r)
                        THEN \E e \in outbox'[r] \ outbox[r] :
                                 /\ outbox'[r] = outbox[r] \cup {e}
                                 /\ e.event = EventName(rows[r], rows'[r])
                        ELSE outbox'[r] = outbox[r]
      BY DEF EventName
    <2>1. CASE Noteworthy(r)
      <3>1. rows'[r].status \in {"PAUSED"} \cup Final /\ rows'[r] # rows[r]
        BY <2>1 DEF Noteworthy
      <3>2. Envelope(rows'[r], EventName(rows[r], rows'[r])).event = EventName(rows[r], rows'[r])
        BY DEF Envelope
      <3>3. /\ Envelope(rows'[r], EventName(rows[r], rows'[r])) \notin outbox[r]
            /\ outbox'[r] = outbox[r] \cup {Envelope(rows'[r], EventName(rows[r], rows'[r]))}
        BY <1>3, <3>1
      <3> QED BY <2>1, <3>2, <3>3
    <2>2. CASE ~Noteworthy(r)
      <3>1. Told(rows[r], rows'[r], outbox[r], outbox'[r])
        BY <1>2 DEF ToldOf
      <3>2. rows[r].awaiting = rows'[r].awaiting \/ rows'[r].status # "PAUSED"
        BY <2>2 DEF Noteworthy
      <3>3. rows'[r] # NoRow
        BY DEF NoRow
      <3> QED BY <2>2, <3>1, <3>2, <3>3 DEF Noteworthy, Told
    <2> QED BY <2>1, <2>2
  <1>6. [][Announced]_vars => AnnouncedOnce
    BY PTL DEF AnnouncedOnce
  <1> QED BY <1>1, <1>4, <1>5, <1>6, InvAlways, PTL DEF Spec
===============================================================================
