------------------------- MODULE BackgroundJobsProofs -------------------------
(* Theorems about BackgroundJobs for every value of its constants.          *)
EXTENDS BackgroundJobs, FiniteSetTheorems, TLAPS

-----------------------------------------------------------------------------
(* Type correctness. *)

(* The backoff of retry_delay is a positive number of seconds, at most 30.  *)
LEMMA RetryDelayRange ==
  ASSUME NEW a \in Nat
  PROVE  RetryDelay(a) \in 1..30 /\ (a >= 1 => RetryDelay(a) >= 2)
<1>1. CASE a < 5
  <2>1. a \in {0, 1, 2, 3, 4}
    BY <1>1
  <2>2. QED
    BY <2>1, <1>1 DEF RetryDelay, BackoffSeconds
<1>2. CASE ~(a < 5)
  BY <1>2 DEF RetryDelay, BackoffSeconds
<1>3. QED
  BY <1>1, <1>2

LEMMA QueuedRowType ==
  ASSUME NEW o \in Owner, NEW k \in Kind, NEW m \in Attempts, NEW index \in BOOLEAN,
         NEW source \in JobId \cup {NoJob}, now \in Nat
  PROVE  QueuedRow(o, k, m, index, source) \in Row
BY ConstantsOK DEF QueuedRow, Row, Status

LEMMA TransitionType ==
  ASSUME NEW row \in Row, NEW s \in Status, NEW e \in BOOLEAN, now \in Nat
  PROVE  Transition(row, s, e) \in Row
<1>1. now + RetryDelay(row.attempt) \in Nat
  BY RetryDelayRange DEF Row
<1>2. CASE s = "queued"
  BY <1>1, <1>2 DEF Transition, Row
<1>3. CASE s # "queued"
  BY <1>3 DEF Transition, Row
<1>4. QED
  BY <1>2, <1>3

LEMMA StartedRowType ==
  ASSUME NEW row \in Row, NEW t \in Token, now \in Nat
  PROVE  StartedRow(row, t) \in Row
<1>1. row.attempt + 1 \in Nat /\ now + LeaseSeconds \in Nat /\ "running" \in Status
  BY ConstantsOK DEF Row, Status
<1>2. QED
  BY <1>1 DEF StartedRow, Row

LEMMA RenewedRowType ==
  ASSUME NEW row \in Row, now \in Nat
  PROVE  RenewedRow(row) \in Row
BY ConstantsOK DEF RenewedRow, Row

LEMMA CancelRequestedRowType ==
  ASSUME NEW row \in Row
  PROVE  CancelRequestedRow(row) \in Row
BY DEF CancelRequestedRow, Row

LEMMA AfterFailedRunType ==
  ASSUME NEW row
  PROVE  AfterFailedRun(row) \in {"cancelled", "queued", "failed"}
BY DEF AfterFailedRun

LEMMA AfterRunType ==
  ASSUME NEW row, NEW outcome
  PROVE  AfterRun(row, outcome) \in {"succeeded", "cancelled", "queued", "failed"}
BY AfterFailedRunType DEF AfterRun

(* Every row, event and token the queue ever holds is of its type.          *)
THEOREM TypeCorrect == Spec => []TypeOK
<1>1. Init => TypeOK
  BY DEF Init, TypeOK, EventType
<1>2. TypeOK /\ [Next]_vars => TypeOK'
  <2> SUFFICES ASSUME TypeOK, [Next]_vars PROVE TypeOK'
    OBVIOUS
  <2> USE DEF TypeOK
  <2>0. \A j \in JobId : jobs[j].status # "absent" => jobs[j] \in Row
    BY DEF NoRow
  <2>1. ASSUME NEW o \in Owner, NEW k \in Kind, NEW m \in Attempts,
               NEW index \in BOOLEAN, Create(o, k, m, index)
        PROVE  TypeOK'
    BY <2>1, QueuedRowType DEF Create, EventType, Status
  <2>2. ASSUME NEW o \in Owner, Claim(o) PROVE TypeOK'
    <3>1. PICK j \in Claimable(o), t \in Token \ issued :
            /\ jobs' = [jobs EXCEPT ![j] = StartedRow(@, t)]
            /\ events' = [events EXCEPT ![j] = Append(@, "running")]
            /\ issued' = issued \cup {t}
            /\ now' = now
      BY <2>2 DEF Claim
    <3>2. j \in JobId /\ StartedRow(jobs[j], t) \in Row
      BY <2>0, StartedRowType DEF Claimable
    <3>3. QED
      BY <3>1, <3>2 DEF EventType, Status
  <2>3. ASSUME NEW j \in JobId, NEW t \in issued, Heartbeat(j, t) PROVE TypeOK'
    <3>1. RenewedRow(jobs[j]) \in Row
      BY <2>3, <2>0, RenewedRowType DEF Heartbeat, HoldsLease
    <3>2. QED
      BY <2>3, <3>1 DEF Heartbeat
  <2>4. ASSUME NEW j \in JobId, NEW t \in issued, AppendEvent(j, t) PROVE TypeOK'
    BY <2>4 DEF AppendEvent, EventType
  <2>5. ASSUME NEW j \in JobId, NEW t \in issued, NEW outcome \in Outcome,
               Finish(j, t, outcome)
        PROVE  TypeOK'
    <3>1. jobs[j] \in Row
      BY <2>5, <2>0 DEF Finish, HoldsLease
    <3>2. AfterRun(jobs[j], outcome) \in Status
      BY AfterRunType DEF Status, Settled
    <3>3. Transition(jobs[j], AfterRun(jobs[j], outcome), outcome # "success") \in Row
      BY <3>1, <3>2, TransitionType
    <3>4. QED
      BY <2>5, <3>2, <3>3 DEF Finish, EventType
  <2>6. ASSUME NEW o \in Owner, RecoverExpired(o) PROVE TypeOK'
    <3>1. ASSUME NEW j \in Expired(o)
          PROVE  /\ AfterFailedRun(jobs[j]) \in Status
                 /\ Transition(jobs[j], AfterFailedRun(jobs[j]), TRUE) \in Row
      <4>1. j \in JobId /\ jobs[j] \in Row
        BY <3>1, <2>0 DEF Expired
      <4>2. AfterFailedRun(jobs[j]) \in Status
        BY AfterFailedRunType DEF Status, Settled
      <4>3. QED
        BY <4>1, <4>2, TransitionType
    <3>2. jobs' \in [JobId -> Row \cup {NoRow}]
      BY <2>6, <3>1 DEF RecoverExpired
    <3>3. ASSUME NEW j \in Expired(o)
          PROVE  Append(events[j], AfterFailedRun(jobs[j])) \in Seq(EventType)
      <4>1. AfterFailedRun(jobs[j]) \in EventType
        BY <3>1 DEF EventType
      <4>2. events[j] \in Seq(EventType)
        BY DEF Expired
      <4>3. QED
        BY <4>1, <4>2
    <3>4. events' \in [JobId -> Seq(EventType)]
      BY <2>6, <3>3 DEF RecoverExpired
    <3>5. QED
      BY <2>6, <3>2, <3>4 DEF RecoverExpired
  <2>7. ASSUME NEW j \in JobId, CancelQueued(j) PROVE TypeOK'
    <3>1. CancelRequestedRow(jobs[j]) \in Row
      BY <2>7, <2>0, CancelRequestedRowType DEF CancelQueued
    <3>2. Transition(CancelRequestedRow(jobs[j]), "cancelled", FALSE) \in Row
      BY <3>1, TransitionType DEF Status, Settled
    <3>3. events[j] \o <<"cancel_requested", "cancelled">> \in Seq(EventType)
      BY DEF EventType, Status, Settled
    <3>4. QED
      BY <2>7, <3>2, <3>3 DEF CancelQueued
  <2>8. ASSUME NEW j \in JobId, CancelRunning(j) PROVE TypeOK'
    <3>1. CancelRequestedRow(jobs[j]) \in Row
      BY <2>8, <2>0, CancelRequestedRowType DEF CancelRunning
    <3>2. QED
      BY <2>8, <3>1 DEF CancelRunning, EventType
  <2>9. ASSUME NEW j \in JobId, Retry(j) PROVE TypeOK'
    <3>1. PICK n \in JobId \ Rows :
            /\ jobs' = [jobs EXCEPT ![n] =
                          QueuedRow(jobs[j].owner, jobs[j].kind,
                                    jobs[j].max_attempts, FALSE, j)]
            /\ events' = [events EXCEPT ![n] = <<"queued">>,
                                        ![j] = Append(@, "retried")]
      BY <2>9 DEF Retry
    <3>2. jobs[j] \in Row
      BY <2>9, <2>0 DEF Retry
    <3>3. QueuedRow(jobs[j].owner, jobs[j].kind, jobs[j].max_attempts, FALSE, j) \in Row
      BY <3>2 DEF QueuedRow, Row, Status
    <3>4. jobs' \in [JobId -> Row \cup {NoRow}]
      BY <3>1, <3>3
    <3>5. Append(events[j], "retried") \in Seq(EventType) /\ <<"queued">> \in Seq(EventType)
      BY DEF EventType, Status
    <3>6. events' \in [JobId -> Seq(EventType)]
      BY <2>9, <3>1, <3>2, <3>5 DEF Rows
    <3>7. QED
      BY <2>9, <3>4, <3>6 DEF Retry
  <2>10. CASE Tick
    BY <2>10 DEF Tick
  <2>11. CASE UNCHANGED vars
    BY <2>11 DEF vars
  <2>12. QED
    BY <2>1, <2>2, <2>3, <2>4, <2>5, <2>6, <2>7, <2>8, <2>9, <2>10, <2>11 DEF Next
<1>3. QED
  BY <1>1, <1>2, PTL DEF Spec

-----------------------------------------------------------------------------
(* What one step may do to one row.                                         *)

Inserted(j) ==
  /\ jobs[j].status = "absent"
  /\ \E o \in Owner, k \in Kind, m \in 1..100, index \in BOOLEAN,
        source \in JobId \cup {NoJob} :
       jobs'[j] = QueuedRow(o, k, m, index, source)

Started(j) ==
  /\ jobs[j].status = "queued"
  /\ jobs[j].attempt < jobs[j].max_attempts
  /\ \E t \in Token \ issued :
       jobs'[j] = StartedRow(jobs[j], t) /\ issued' = issued \cup {t}

Renewed(j) ==
  /\ jobs[j].status = "running" /\ jobs[j].lease_expires_at > now
  /\ jobs'[j] = RenewedRow(jobs[j])

Finished(j) ==
  /\ jobs[j].status = "running" /\ jobs[j].lease_expires_at > now
  /\ \E outcome \in Outcome :
       jobs'[j] = Transition(jobs[j], AfterRun(jobs[j], outcome), outcome # "success")

Recovered(j) ==
  /\ jobs[j].status = "running" /\ jobs[j].lease_expires_at <= now
  /\ jobs'[j] = Transition(jobs[j], AfterFailedRun(jobs[j]), TRUE)

CancelledAtOnce(j) ==
  /\ jobs[j].status = "queued"
  /\ jobs'[j] = Transition(CancelRequestedRow(jobs[j]), "cancelled", FALSE)

CancelRequested(j) ==
  /\ jobs[j].status = "running"
  /\ jobs'[j] = CancelRequestedRow(jobs[j])

RowStep(j) ==
  \/ jobs'[j] = jobs[j]
  \/ Inserted(j) \/ Started(j) \/ Renewed(j) \/ Finished(j) \/ Recovered(j)
  \/ CancelledAtOnce(j) \/ CancelRequested(j)

(* No step changes a row in any other way; every change is guarded by the   *)
(* state of that very row.                                                  *)
LEMMA EveryRowSteps ==
  ASSUME TypeOK, [Next]_vars, NEW i \in JobId
  PROVE  RowStep(i)
<1> USE DEF TypeOK, RowStep
<1>1. ASSUME NEW o \in Owner, NEW k \in Kind, NEW m \in Attempts,
             NEW index \in BOOLEAN, Create(o, k, m, index)
      PROVE  RowStep(i)
  <2>1. PICK n \in JobId \ Rows :
          jobs' = [jobs EXCEPT ![n] = QueuedRow(o, k, m, index, NoJob)]
    BY <1>1 DEF Create
  <2>2. m \in 1..100
    BY ConstantsOK
  <2>3. CASE i = n
    BY <2>1, <2>2, <2>3 DEF Inserted, Rows
  <2>4. CASE i # n
    BY <2>1, <2>4
  <2>5. QED
    BY <2>3, <2>4
<1>2. ASSUME NEW o \in Owner, Claim(o) PROVE RowStep(i)
  BY <1>2 DEF Claim, Claimable, Started
<1>3. ASSUME NEW j \in JobId, NEW t \in issued, Heartbeat(j, t) PROVE RowStep(i)
  BY <1>3 DEF Heartbeat, HoldsLease, Renewed
<1>4. ASSUME NEW j \in JobId, NEW t \in issued, AppendEvent(j, t) PROVE RowStep(i)
  BY <1>4 DEF AppendEvent
<1>5. ASSUME NEW j \in JobId, NEW t \in issued, NEW outcome \in Outcome,
             Finish(j, t, outcome)
      PROVE  RowStep(i)
  BY <1>5 DEF Finish, HoldsLease, Finished
<1>6. ASSUME NEW o \in Owner, RecoverExpired(o) PROVE RowStep(i)
  BY <1>6 DEF RecoverExpired, Expired, Recovered
<1>7. ASSUME NEW j \in JobId, CancelQueued(j) PROVE RowStep(i)
  BY <1>7 DEF CancelQueued, CancelledAtOnce
<1>8. ASSUME NEW j \in JobId, CancelRunning(j) PROVE RowStep(i)
  BY <1>8 DEF CancelRunning, CancelRequested
<1>9. ASSUME NEW j \in JobId, Retry(j) PROVE RowStep(i)
  <2>1. jobs[j] \in Row
    BY <1>9 DEF Retry, NoRow
  <2>2. /\ jobs[j].owner \in Owner /\ jobs[j].kind \in Kind
        /\ jobs[j].max_attempts \in 1..100
    BY <2>1 DEF Row
  <2>3. PICK n \in JobId \ Rows :
          jobs' = [jobs EXCEPT ![n] = QueuedRow(jobs[j].owner, jobs[j].kind,
                                                jobs[j].max_attempts, FALSE, j)]
    BY <1>9 DEF Retry
  <2>4. CASE i = n
    BY <2>2, <2>3, <2>4 DEF Inserted, Rows
  <2>5. CASE i # n
    BY <2>3, <2>5
  <2>6. QED
    BY <2>4, <2>5
<1>10. CASE Tick
  BY <1>10 DEF Tick
<1>11. CASE UNCHANGED vars
  BY <1>11 DEF vars
<1>12. QED
  BY <1>1, <1>2, <1>3, <1>4, <1>5, <1>6, <1>7, <1>8, <1>9, <1>10, <1>11 DEF Next

-----------------------------------------------------------------------------
(* The invariant of a single row: the CHECK constraints, the attempts left  *)
(* to a queued job, the fate of a cancel request, the result columns.       *)

RowOK(row) ==
  /\ row.status = "running" <=> row.lease_owner # NoToken
  /\ row.status = "running" <=> row.lease_expires_at # 0
  /\ row.attempt <= row.max_attempts
  /\ row.status = "queued" => row.attempt < row.max_attempts /\ ~row.cancel_requested
  /\ row.cancel_requested => row.status \in {"running", "cancelled"}
  /\ row.status = "cancelled" => row.cancel_requested
  /\ row.completed <=> row.status \in Settled
  /\ row.status = "succeeded" => ~row.error
  /\ row.status = "failed" => row.error

RowsOK == \A j \in Rows : RowOK(jobs[j])

LEMMA QueuedRowOK ==
  ASSUME NEW o, NEW k, NEW m \in 1..100, NEW index, NEW source
  PROVE  RowOK(QueuedRow(o, k, m, index, source))
BY DEF RowOK, QueuedRow, Settled

LEMMA StartedRowOK ==
  ASSUME NEW row \in Row, RowOK(row), NEW t \in Token, now \in Nat,
         row.status = "queued"
  PROVE  RowOK(StartedRow(row, t))
BY ConstantsOK DEF RowOK, StartedRow, Row, Settled

LEMMA RenewedRowOK ==
  ASSUME NEW row \in Row, RowOK(row), now \in Nat, row.status = "running"
  PROVE  RowOK(RenewedRow(row))
BY ConstantsOK DEF RowOK, RenewedRow, Row

LEMMA FailedRunOK ==
  ASSUME NEW row \in Row, RowOK(row), now \in Nat, row.status = "running",
         NEW e \in BOOLEAN, AfterFailedRun(row) = "failed" => e
  PROVE  RowOK(Transition(row, AfterFailedRun(row), e))
BY DEF RowOK, Transition, Row, Settled, AfterFailedRun

LEMMA FinishedRunOK ==
  ASSUME NEW row \in Row, RowOK(row), now \in Nat, row.status = "running",
         NEW outcome \in Outcome
  PROVE  RowOK(Transition(row, AfterRun(row, outcome), outcome # "success"))
<1>1. CASE outcome = "success" /\ ~row.cancel_requested
  BY <1>1 DEF RowOK, Transition, Row, Settled, AfterRun
<1>2. CASE outcome = "success" /\ row.cancel_requested
  BY <1>2 DEF RowOK, Transition, Row, Settled, AfterRun, AfterFailedRun
<1>3. CASE outcome # "success"
  BY <1>3, FailedRunOK DEF AfterRun
<1>4. QED
  BY <1>1, <1>2, <1>3 DEF Row

LEMMA CancelledAtOnceOK ==
  ASSUME NEW row \in Row, RowOK(row), now \in Nat, row.status = "queued"
  PROVE  RowOK(Transition(CancelRequestedRow(row), "cancelled", FALSE))
BY DEF RowOK, Transition, CancelRequestedRow, Row, Settled

LEMMA CancelRequestedOK ==
  ASSUME NEW row \in Row, RowOK(row), row.status = "running"
  PROVE  RowOK(CancelRequestedRow(row))
BY DEF RowOK, CancelRequestedRow, Row

(* From here on: the row invariant holds in every reachable state.          *)
LEMMA RowsOKStep ==
  ASSUME TypeOK, RowsOK, [Next]_vars
  PROVE  RowsOK'
<1> SUFFICES ASSUME NEW j \in JobId, jobs'[j].status # "absent"
             PROVE  RowOK(jobs'[j])
  BY DEF RowsOK, Rows
<1>1. jobs[j].status # "absent" => jobs[j] \in Row /\ RowOK(jobs[j])
  BY DEF TypeOK, RowsOK, Rows, NoRow
<1>2. now \in Nat
  BY DEF TypeOK
<1>3. RowStep(j)
  BY EveryRowSteps
<1>4. CASE jobs'[j] = jobs[j]
  BY <1>1, <1>4
<1>5. CASE Inserted(j)
  BY <1>5, QueuedRowOK DEF Inserted
<1>6. CASE Started(j)
  BY <1>1, <1>2, <1>6, StartedRowOK DEF Started
<1>7. CASE Renewed(j)
  BY <1>1, <1>2, <1>7, RenewedRowOK DEF Renewed
<1>8. CASE Finished(j)
  BY <1>1, <1>2, <1>8, FinishedRunOK DEF Finished
<1>9. CASE Recovered(j)
  BY <1>1, <1>2, <1>9, FailedRunOK DEF Recovered
<1>10. CASE CancelledAtOnce(j)
  BY <1>1, <1>2, <1>10, CancelledAtOnceOK DEF CancelledAtOnce
<1>11. CASE CancelRequested(j)
  BY <1>1, <1>11, CancelRequestedOK DEF CancelRequested
<1>12. QED
  BY <1>3, <1>4, <1>5, <1>6, <1>7, <1>8, <1>9, <1>10, <1>11 DEF RowStep

LEMMA RowsAlwaysOK == Spec => []RowsOK
<1>1. Init => RowsOK
  BY DEF Init, RowsOK, Rows, NoRow
<1>2. TypeOK /\ RowsOK /\ [Next]_vars => RowsOK'
  BY RowsOKStep
<1>3. QED
  BY <1>1, <1>2, TypeCorrect, PTL DEF Spec

(* The CHECK constraints of the table are never violated.                   *)
THEOREM ChecksAlwaysHold == Spec => []ChecksHold
<1>1. RowsOK => ChecksHold
  BY DEF RowsOK, RowOK, ChecksHold
<1>2. QED
  BY <1>1, RowsAlwaysOK, PTL

(* A queued job can always be claimed: no row is stranded in the queue.     *)
THEOREM NeverStranded == Spec => []NoStrandedJob
<1>1. RowsOK => NoStrandedJob
  BY DEF RowsOK, RowOK, NoStrandedJob
<1>2. QED
  BY <1>1, RowsAlwaysOK, PTL

(* A cancel request is never lost and never invented.                       *)
THEOREM CancelAlwaysWins == Spec => []CancelWins
<1>1. RowsOK => CancelWins
  BY DEF RowsOK, RowOK, CancelWins
<1>2. QED
  BY <1>1, RowsAlwaysOK, PTL

(* completed_at and error_message agree with the status of a row.           *)
THEOREM SettledRowsAlwaysExplained == Spec => []SettledRowsExplained
<1>1. RowsOK => SettledRowsExplained
  BY DEF RowsOK, RowOK, SettledRowsExplained
<1>2. QED
  BY <1>1, RowsAlwaysOK, PTL

-----------------------------------------------------------------------------
(* A settled job never changes again.                                       *)
THEOREM SettledForever == Spec => SettledIsFinal
<1>1. ASSUME TypeOK, [Next]_vars, NEW j \in Rows, jobs[j].status \in Settled
      PROVE  jobs'[j] = jobs[j]
  <2>1. RowStep(j)
    BY <1>1, EveryRowSteps DEF Rows
  <2>2. jobs[j].status \notin {"absent", "queued", "running"}
    BY <1>1 DEF Settled
  <2>3. QED
    BY <2>1, <2>2 DEF RowStep, Inserted, Started, Renewed, Finished, Recovered,
                      CancelledAtOnce, CancelRequested
<1>2. TypeOK /\ [Next]_vars =>
        [\A j \in Rows : jobs[j].status \in Settled => jobs'[j] = jobs[j]]_vars
  BY <1>1
<1>3. QED
  BY <1>2, TypeCorrect, PTL DEF Spec, SettledIsFinal

-----------------------------------------------------------------------------
(* Who a job belongs to, and how old it is.                                 *)

(* No step changes the owner, kind, budget, creation time or lineage of a   *)
(* row.                                                                     *)
LEMMA IdentityKept ==
  ASSUME TypeOK, [Next]_vars, NEW j \in Rows
  PROVE  /\ j \in Rows'
         /\ jobs'[j].owner = jobs[j].owner /\ jobs'[j].kind = jobs[j].kind
         /\ jobs'[j].max_attempts = jobs[j].max_attempts
         /\ jobs'[j].created_at = jobs[j].created_at
         /\ jobs'[j].retry_of = jobs[j].retry_of
<1>1. j \in JobId /\ jobs[j] \in Row /\ jobs[j].status # "absent"
  BY DEF TypeOK, Rows, NoRow
<1>2. RowStep(j)
  BY <1>1, EveryRowSteps
<1>3. ~Inserted(j)
  BY <1>1 DEF Inserted
<1>4. /\ jobs'[j].owner = jobs[j].owner /\ jobs'[j].kind = jobs[j].kind
      /\ jobs'[j].max_attempts = jobs[j].max_attempts
      /\ jobs'[j].created_at = jobs[j].created_at
      /\ jobs'[j].retry_of = jobs[j].retry_of
  <2>1. ASSUME NEW s, NEW e
        PROVE  LET r == Transition(jobs[j], s, e)
               IN  /\ r.owner = jobs[j].owner /\ r.kind = jobs[j].kind
                   /\ r.max_attempts = jobs[j].max_attempts
                   /\ r.created_at = jobs[j].created_at /\ r.retry_of = jobs[j].retry_of
    BY <1>1 DEF Transition, Row
  <2>2. LET r == Transition(CancelRequestedRow(jobs[j]), "cancelled", FALSE)
        IN  /\ r.owner = jobs[j].owner /\ r.kind = jobs[j].kind
            /\ r.max_attempts = jobs[j].max_attempts
            /\ r.created_at = jobs[j].created_at /\ r.retry_of = jobs[j].retry_of
    BY <1>1 DEF Transition, CancelRequestedRow, Row
  <2>3. CASE Started(j) \/ Renewed(j) \/ CancelRequested(j)
    BY <1>1, <2>3 DEF Started, StartedRow, Renewed, RenewedRow, CancelRequested,
                      CancelRequestedRow, Row
  <2>4. CASE Finished(j) \/ Recovered(j) \/ CancelledAtOnce(j)
    BY <2>1, <2>2, <2>4 DEF Finished, Recovered, CancelledAtOnce
  <2>5. QED
    BY <1>2, <1>3, <2>3, <2>4 DEF RowStep
<1>5. jobs'[j].status # "absent"
  <2>1. ASSUME NEW row \in Row, NEW s, NEW e \in BOOLEAN
        PROVE  Transition(row, s, e).status = s
    BY DEF Transition, Row
  <2>2. CASE Started(j) \/ Renewed(j) \/ CancelRequested(j)
    BY <1>1, <2>2 DEF Started, StartedRow, Renewed, RenewedRow, CancelRequested,
                      CancelRequestedRow, Row
  <2>3. CASE Finished(j)
    <3>1. PICK outcome \in Outcome :
            jobs'[j] = Transition(jobs[j], AfterRun(jobs[j], outcome), outcome # "success")
      BY <2>3 DEF Finished
    <3>2. jobs'[j].status = AfterRun(jobs[j], outcome)
      BY <1>1, <2>1, <3>1
    <3>3. AfterRun(jobs[j], outcome) \in {"succeeded", "cancelled", "queued", "failed"}
      BY AfterRunType
    <3>4. QED
      BY <3>2, <3>3
  <2>4. CASE Recovered(j)
    <3>1. jobs'[j].status = AfterFailedRun(jobs[j])
      BY <1>1, <2>1, <2>4 DEF Recovered
    <3>2. AfterFailedRun(jobs[j]) \in {"cancelled", "queued", "failed"}
      BY AfterFailedRunType
    <3>3. QED
      BY <3>1, <3>2
  <2>5. CASE CancelledAtOnce(j)
    <3>1. CancelRequestedRow(jobs[j]) \in Row
      BY <1>1, CancelRequestedRowType
    <3>2. Transition(CancelRequestedRow(jobs[j]), "cancelled", FALSE).status = "cancelled"
      BY <3>1 DEF Transition, Row
    <3>3. QED
      BY <2>5, <3>2 DEF CancelledAtOnce
  <2>6. QED
    BY <1>1, <1>2, <1>3, <2>2, <2>3, <2>4, <2>5 DEF RowStep
<1>6. QED
  BY <1>1, <1>4, <1>5 DEF Rows

LEMMA ClockRuns ==
  ASSUME TypeOK, [Next]_vars
  PROVE  now' \in Nat /\ now <= now'
<1>1. now' = now \/ now' = now + 1
  <2>1. CASE \E o \in Owner, k \in Kind, m \in Attempts, index \in BOOLEAN :
               Create(o, k, m, index)
    BY <2>1 DEF Create
  <2>2. CASE \E o \in Owner : Claim(o) \/ RecoverExpired(o)
    BY <2>2 DEF Claim, RecoverExpired
  <2>3. CASE \E j \in JobId, t \in issued :
               \/ Heartbeat(j, t) \/ AppendEvent(j, t)
               \/ \E outcome \in Outcome : Finish(j, t, outcome)
    BY <2>3 DEF Heartbeat, AppendEvent, Finish
  <2>4. CASE \E j \in JobId : CancelQueued(j) \/ CancelRunning(j) \/ Retry(j)
    BY <2>4 DEF CancelQueued, CancelRunning, Retry
  <2>5. CASE Tick \/ UNCHANGED vars
    BY <2>5 DEF Tick, vars
  <2>6. QED
    BY <2>1, <2>2, <2>3, <2>4, <2>5 DEF Next
<1>2. QED
  BY <1>1 DEF TypeOK

(* Stamps of a row: never in the future, and a job waiting for its first    *)
(* run is available since its creation.                                     *)
AgeOK(row, time) ==
  /\ row.created_at <= time
  /\ row.created_at <= row.available_at
  /\ row.status = "running" => row.attempt >= 1
  /\ row.status = "queued" /\ row.attempt = 0 => row.available_at = row.created_at

AgesOK == \A j \in Rows : AgeOK(jobs[j], now)

LEMMA AgesAlwaysOK == Spec => []AgesOK
<1>1. Init => AgesOK
  BY DEF Init, AgesOK, Rows, NoRow
<1>2. ASSUME TypeOK, AgesOK, [Next]_vars PROVE AgesOK'
  <2> SUFFICES ASSUME NEW j \in JobId, jobs'[j].status # "absent"
               PROVE  AgeOK(jobs'[j], now')
    BY DEF AgesOK, Rows
  <2>1. jobs[j].status # "absent" => jobs[j] \in Row /\ AgeOK(jobs[j], now)
    BY <1>2 DEF TypeOK, AgesOK, Rows, NoRow
  <2>2. now \in Nat /\ now' \in Nat /\ now <= now'
    BY <1>2, ClockRuns DEF TypeOK
  <2>3. RowStep(j)
    BY <1>2, EveryRowSteps
  <2>4. CASE jobs'[j] = jobs[j]
    BY <2>1, <2>2, <2>4 DEF AgeOK, Row
  <2>5. CASE Inserted(j)
    BY <2>2, <2>5 DEF Inserted, QueuedRow, AgeOK
  <2>6. CASE Started(j)
    BY <2>1, <2>2, <2>6 DEF Started, StartedRow, AgeOK, Row
  <2>7. CASE Renewed(j)
    BY <2>1, <2>2, <2>7 DEF Renewed, RenewedRow, AgeOK, Row
  <2>8. ASSUME NEW row \in Row, AgeOK(row, now), NEW s \in Status, NEW e,
               s # "running", s = "queued" => row.attempt >= 1
        PROVE  AgeOK(Transition(row, s, e), now')
    <3>1. RetryDelay(row.attempt) \in Nat
      BY RetryDelayRange DEF Row
    <3>2. CASE s = "queued"
      BY <2>2, <2>8, <3>1, <3>2 DEF Transition, AgeOK, Row
    <3>3. CASE s # "queued"
      BY <2>2, <2>8, <3>3 DEF Transition, AgeOK, Row
    <3>4. QED
      BY <3>2, <3>3
  <2>9. CASE Finished(j)
    <3>1. PICK outcome \in Outcome :
            jobs'[j] = Transition(jobs[j], AfterRun(jobs[j], outcome), outcome # "success")
      BY <2>9 DEF Finished
    <3>2. AfterRun(jobs[j], outcome) \in Status \ {"running"}
      BY AfterRunType DEF Status, Settled
    <3>3. jobs[j] \in Row /\ AgeOK(jobs[j], now) /\ jobs[j].attempt >= 1
      BY <2>1, <2>9 DEF Finished, AgeOK
    <3>4. QED
      BY <2>8, <3>1, <3>2, <3>3
  <2>10. CASE Recovered(j)
    <3>1. AfterFailedRun(jobs[j]) \in Status \ {"running"}
      BY AfterFailedRunType DEF Status, Settled
    <3>2. jobs[j] \in Row /\ AgeOK(jobs[j], now) /\ jobs[j].attempt >= 1
      BY <2>1, <2>10 DEF Recovered, AgeOK
    <3>3. QED
      BY <2>8, <2>10, <3>1, <3>2 DEF Recovered
  <2>11. CASE CancelledAtOnce(j)
    <3>1. CancelRequestedRow(jobs[j]) \in Row /\ AgeOK(CancelRequestedRow(jobs[j]), now)
      BY <2>1, <2>11 DEF CancelledAtOnce, CancelRequestedRow, AgeOK, Row
    <3>2. QED
      BY <2>8, <2>11, <3>1 DEF CancelledAtOnce, Status, Settled
  <2>12. CASE CancelRequested(j)
    BY <2>1, <2>2, <2>12 DEF CancelRequested, CancelRequestedRow, AgeOK, Row
  <2>13. QED
    BY <2>3, <2>4, <2>5, <2>6, <2>7, <2>9, <2>10, <2>11, <2>12 DEF RowStep
<1>3. QED
  BY <1>1, <1>2, TypeCorrect, PTL DEF Spec

-----------------------------------------------------------------------------
(* Retries, queue order and leases.                                         *)

(* Rows are added by create and retry only.                                 *)
LEMMA InsertedOnlyByCreateOrRetry ==
  ASSUME TypeOK, [Next]_vars, NEW j \in JobId,
         jobs[j].status = "absent", jobs'[j] # jobs[j]
  PROVE  \/ \E i \in JobId : Retry(i)
         \/ \E o \in Owner, k \in Kind, m \in Attempts, index \in BOOLEAN :
              Create(o, k, m, index)
<1> USE DEF TypeOK
<1>1. ASSUME NEW o \in Owner, Claim(o) PROVE FALSE
  BY <1>1 DEF Claim, Claimable
<1>2. ASSUME NEW i \in JobId, NEW t \in issued, Heartbeat(i, t) PROVE FALSE
  BY <1>2 DEF Heartbeat, HoldsLease
<1>3. ASSUME NEW i \in JobId, NEW t \in issued, AppendEvent(i, t) PROVE FALSE
  BY <1>3 DEF AppendEvent
<1>4. ASSUME NEW i \in JobId, NEW t \in issued, NEW outcome \in Outcome,
             Finish(i, t, outcome)
      PROVE  FALSE
  BY <1>4 DEF Finish, HoldsLease
<1>5. ASSUME NEW o \in Owner, RecoverExpired(o) PROVE FALSE
  BY <1>5 DEF RecoverExpired, Expired
<1>6. ASSUME NEW i \in JobId, CancelQueued(i) PROVE FALSE
  BY <1>6 DEF CancelQueued
<1>7. ASSUME NEW i \in JobId, CancelRunning(i) PROVE FALSE
  BY <1>7 DEF CancelRunning
<1>8. CASE Tick
  BY <1>8 DEF Tick
<1>9. CASE UNCHANGED vars
  BY <1>9 DEF vars
<1>10. QED
  BY <1>1, <1>2, <1>3, <1>4, <1>5, <1>6, <1>7, <1>8, <1>9 DEF Next

(* A row has one of the max_attempts values create was called with.         *)
BudgetsOK == \A j \in Rows : jobs[j].max_attempts \in Attempts

LEMMA BudgetsAlwaysOK == Spec => []BudgetsOK
<1>1. Init => BudgetsOK
  BY DEF Init, BudgetsOK, Rows, NoRow
<1>2. ASSUME TypeOK, BudgetsOK, [Next]_vars PROVE BudgetsOK'
  <2> SUFFICES ASSUME NEW j \in JobId, jobs'[j].status # "absent"
               PROVE  jobs'[j].max_attempts \in Attempts
    BY DEF BudgetsOK, Rows
  <2>1. CASE j \in Rows
    BY <1>2, <2>1, IdentityKept DEF BudgetsOK
  <2>2. CASE j \notin Rows
    <3>1. jobs[j].status = "absent" /\ jobs'[j] # jobs[j]
      BY <2>2 DEF Rows
    <3>2. CASE \E i \in JobId : Retry(i)
      <4>1. PICK i \in JobId, n \in JobId \ Rows :
              /\ jobs[i].status \in {"failed", "cancelled"}
              /\ jobs' = [jobs EXCEPT ![n] =
                            QueuedRow(jobs[i].owner, jobs[i].kind,
                                      jobs[i].max_attempts, FALSE, i)]
        BY <3>2 DEF Retry
      <4>2. j = n /\ jobs'[n] = QueuedRow(jobs[i].owner, jobs[i].kind,
                                          jobs[i].max_attempts, FALSE, i)
        BY <1>2, <3>1, <4>1 DEF TypeOK, Rows
      <4>3. jobs[i].max_attempts \in Attempts
        BY <1>2, <4>1 DEF BudgetsOK, Rows
      <4>4. QED
        BY <4>2, <4>3 DEF QueuedRow
    <3>3. CASE \E o \in Owner, k \in Kind, m \in Attempts, index \in BOOLEAN :
                 Create(o, k, m, index)
      BY <1>2, <3>1, <3>3 DEF Create, QueuedRow, TypeOK
    <3>4. QED
      BY <1>2, <3>1, <3>2, <3>3, InsertedOnlyByCreateOrRetry
  <2>3. QED
    BY <2>1, <2>2
<1>3. QED
  BY <1>1, <1>2, TypeCorrect, PTL DEF Spec

(* A retry repeats an older failed or cancelled job of the same owner.      *)
THEOREM LineageAlwaysHolds == Spec => []RetryLineage
<1>1. Init => RetryLineage
  BY DEF Init, RetryLineage, Rows, NoRow
<1>2. ASSUME TypeOK, AgesOK, RetryLineage, [Next]_vars PROVE RetryLineage'
  <2>1. ASSUME NEW j \in Rows', NEW s \in JobId, jobs'[j].retry_of = s,
               jobs[s].status \in {"failed", "cancelled"},
               jobs[s].owner = jobs'[j].owner, jobs[s].kind = jobs'[j].kind,
               jobs[s].created_at <= jobs'[j].created_at, s # j
        PROVE  /\ jobs'[s].status \in {"failed", "cancelled"}
               /\ jobs'[s].owner = jobs'[j].owner /\ jobs'[s].kind = jobs'[j].kind
               /\ jobs'[s].created_at <= jobs'[j].created_at
    <3>1. jobs'[s] = jobs[s]
      <4>1. RowStep(s)
        BY <1>2, EveryRowSteps
      <4>2. QED
        BY <2>1, <4>1 DEF RowStep, Inserted, Started, Renewed, Finished, Recovered,
                          CancelledAtOnce, CancelRequested
    <3>2. QED
      BY <2>1, <3>1
  <2> SUFFICES ASSUME NEW j \in Rows', jobs'[j].retry_of # NoJob
               PROVE  \E s \in JobId :
                        /\ jobs'[j].retry_of = s /\ s # j
                        /\ jobs[s].status \in {"failed", "cancelled"}
                        /\ jobs[s].owner = jobs'[j].owner
                        /\ jobs[s].kind = jobs'[j].kind
                        /\ jobs[s].created_at <= jobs'[j].created_at
    BY <2>1 DEF RetryLineage
  <2>2. CASE j \in Rows
    <3>1. jobs'[j].retry_of = jobs[j].retry_of /\ jobs'[j].owner = jobs[j].owner
          /\ jobs'[j].kind = jobs[j].kind /\ jobs'[j].created_at = jobs[j].created_at
      BY <1>2, <2>2, IdentityKept
    <3>2. jobs[j].retry_of \in JobId
      BY <1>2, <2>2, <3>1 DEF TypeOK, Rows, Row, NoRow
    <3>3. QED
      BY <1>2, <2>2, <3>1, <3>2 DEF RetryLineage
  <2>3. CASE j \notin Rows
    <3>1. jobs'[j] # jobs[j]
      BY <2>3 DEF Rows
    <3>2. CASE \E i \in JobId : Retry(i)
      <4>1. PICK i \in JobId, n \in JobId \ Rows :
              /\ jobs[i].status \in {"failed", "cancelled"}
              /\ jobs' = [jobs EXCEPT ![n] =
                            QueuedRow(jobs[i].owner, jobs[i].kind,
                                      jobs[i].max_attempts, FALSE, i)]
        BY <3>2 DEF Retry
      <4>2. j = n /\ jobs'[n] = QueuedRow(jobs[i].owner, jobs[i].kind,
                                          jobs[i].max_attempts, FALSE, i)
        BY <1>2, <3>1, <4>1 DEF TypeOK, Rows
      <4>3. i \in Rows
        BY <4>1 DEF Rows
      <4>4. jobs[i].created_at <= now
        BY <1>2, <4>3 DEF AgesOK, AgeOK
      <4>5. QED
        BY <2>3, <4>1, <4>2, <4>3, <4>4 DEF QueuedRow
    <3>3. CASE \E o \in Owner, k \in Kind, m \in Attempts, index \in BOOLEAN :
                 Create(o, k, m, index)
      <4>1. jobs'[j].retry_of = NoJob
        BY <1>2, <3>1, <3>3 DEF Create, QueuedRow, TypeOK
      <4>2. QED
        BY <4>1
    <3>4. CASE ~(\E i \in JobId : Retry(i))
               /\ ~(\E o \in Owner, k \in Kind, m \in Attempts, index \in BOOLEAN :
                       Create(o, k, m, index))
      <4>1. jobs[j].status = "absent"
        BY <2>3 DEF Rows
      <4>2. QED
        BY <1>2, <3>1, <3>4, <4>1, InsertedOnlyByCreateOrRetry DEF Rows
    <3>5. QED
      BY <3>2, <3>3, <3>4
  <2>4. QED
    BY <2>2, <2>3
<1>3. QED
  BY <1>1, <1>2, TypeCorrect, AgesAlwaysOK, PTL DEF Spec

(* Only claim hands out tokens, and it hands out one to one row.            *)
LEMMA TokensOnlyByClaim ==
  ASSUME TypeOK, [Next]_vars
  PROVE  \/ issued' = issued /\ \A j \in JobId : ~Started(j)
         \/ \E o \in Owner : Claim(o)
<1>1. \/ issued' = issued
      \/ \E o \in Owner : Claim(o)
  <2>1. CASE \E o \in Owner, k \in Kind, m \in Attempts, index \in BOOLEAN :
               Create(o, k, m, index)
    BY <2>1 DEF Create
  <2>2. CASE \E o \in Owner : RecoverExpired(o)
    BY <2>2 DEF RecoverExpired
  <2>3. CASE \E j \in JobId, t \in issued :
               \/ Heartbeat(j, t) \/ AppendEvent(j, t)
               \/ \E outcome \in Outcome : Finish(j, t, outcome)
    BY <2>3 DEF Heartbeat, AppendEvent, Finish
  <2>4. CASE \E j \in JobId : CancelQueued(j) \/ CancelRunning(j) \/ Retry(j)
    BY <2>4 DEF CancelQueued, CancelRunning, Retry
  <2>5. CASE Tick \/ UNCHANGED vars
    BY <2>5 DEF Tick, vars
  <2>6. QED
    BY <2>1, <2>2, <2>3, <2>4, <2>5 DEF Next
<1>2. QED
  BY <1>1 DEF Started

(* A row that is running after a step that is no claim ran before it, under *)
(* the same lease.                                                          *)
LEMMA RunsContinue ==
  ASSUME TypeOK, [Next]_vars, NEW j \in JobId, ~Started(j),
         jobs'[j].status = "running"
  PROVE  jobs[j].status = "running" /\ jobs'[j].lease_owner = jobs[j].lease_owner
<1>1. RowStep(j)
  BY EveryRowSteps
<1>2. jobs[j].status # "absent" => jobs[j] \in Row
  BY DEF TypeOK, NoRow
<1>3. ~Inserted(j)
  <2>1. ASSUME NEW o, NEW k, NEW m, NEW index, NEW source
        PROVE  QueuedRow(o, k, m, index, source).status = "queued"
    BY DEF QueuedRow
  <2>2. QED
    BY <2>1 DEF Inserted
<1>4. ASSUME NEW row \in Row, NEW s, NEW e \in BOOLEAN
      PROVE  Transition(row, s, e).status = s
  BY DEF Transition, Row
<1>5. ~Finished(j)
  <2>1. SUFFICES ASSUME NEW outcome \in Outcome, jobs[j] \in Row,
                        jobs'[j] = Transition(jobs[j], AfterRun(jobs[j], outcome),
                                              outcome # "success")
                 PROVE  FALSE
    BY <1>2 DEF Finished
  <2>2. jobs'[j].status = AfterRun(jobs[j], outcome)
    BY <1>4, <2>1
  <2>3. AfterRun(jobs[j], outcome) \in {"succeeded", "cancelled", "queued", "failed"}
    BY AfterRunType
  <2>4. QED
    BY <2>2, <2>3
<1>6. ~Recovered(j)
  <2>1. SUFFICES ASSUME jobs[j] \in Row,
                        jobs'[j] = Transition(jobs[j], AfterFailedRun(jobs[j]), TRUE)
                 PROVE  FALSE
    BY <1>2 DEF Recovered
  <2>2. jobs'[j].status = AfterFailedRun(jobs[j])
    BY <1>4, <2>1
  <2>3. AfterFailedRun(jobs[j]) \in {"cancelled", "queued", "failed"}
    BY AfterFailedRunType
  <2>4. QED
    BY <2>2, <2>3
<1>7. ~CancelledAtOnce(j)
  <2>1. SUFFICES ASSUME CancelRequestedRow(jobs[j]) \in Row,
                        jobs'[j] = Transition(CancelRequestedRow(jobs[j]), "cancelled", FALSE)
                 PROVE  FALSE
    BY <1>2, CancelRequestedRowType DEF CancelledAtOnce
  <2>2. jobs'[j].status = "cancelled"
    BY <2>1 DEF Transition, Row
  <2>3. QED
    BY <2>2
<1>8. CASE Renewed(j) \/ CancelRequested(j)
  BY <1>2, <1>8 DEF Renewed, RenewedRow, CancelRequested, CancelRequestedRow, Row
<1>9. QED
  BY <1>1, <1>3, <1>5, <1>6, <1>7, <1>8 DEF RowStep

(* Two runs never share a lease.                                            *)
THEOREM LeasesAlwaysExclusive == Spec => []LeasesAreExclusive
<1>1. Init => LeasesAreExclusive
  BY DEF Init, LeasesAreExclusive, Rows, NoRow
<1>2. ASSUME TypeOK, LeasesAreExclusive, [Next]_vars PROVE LeasesAreExclusive'
  <2>1. \A j \in JobId : jobs[j].status = "running" => j \in Rows
    BY DEF Rows
  <2>2. CASE issued' = issued /\ \A j \in JobId : ~Started(j)
    <3>1. \A j \in JobId :
            jobs'[j].status = "running" =>
              jobs[j].status = "running" /\ jobs'[j].lease_owner = jobs[j].lease_owner
      BY <1>2, <2>2, RunsContinue
    <3>2. QED
      BY <1>2, <2>1, <2>2, <3>1 DEF LeasesAreExclusive, Rows
  <2>3. CASE \E o \in Owner : Claim(o)
    <3> PICK o \in Owner : Claim(o)
      BY <2>3
    <3>1. PICK j \in Claimable(o), t \in Token \ issued :
            /\ jobs' = [jobs EXCEPT ![j] = StartedRow(@, t)]
            /\ issued' = issued \cup {t}
      BY DEF Claim
    <3>2. j \in JobId /\ jobs[j] \in Row
      BY <1>2 DEF Claimable, TypeOK, NoRow
    <3>3. jobs'[j].lease_owner = t
      BY <1>2, <3>1, <3>2 DEF TypeOK, StartedRow, Row
    <3>4. \A i \in JobId : i # j => jobs'[i] = jobs[i]
      BY <1>2, <3>1 DEF TypeOK
    <3>5. QED
      BY <1>2, <2>1, <3>1, <3>2, <3>3, <3>4 DEF LeasesAreExclusive, Rows
  <2>4. QED
    BY <1>2, <2>2, <2>3, TokensOnlyByClaim
<1>3. QED
  BY <1>1, <1>2, TypeCorrect, PTL DEF Spec

(* The attempt count of a row grows with its starts and in no other way.    *)
LEMMA AttemptsOnlyByStart ==
  ASSUME TypeOK, [Next]_vars, NEW j \in JobId, jobs[j] \in Row, ~Started(j)
  PROVE  jobs'[j].attempt = jobs[j].attempt
<1>1. RowStep(j)
  BY EveryRowSteps
<1>2. ~Inserted(j)
  BY DEF Inserted, Row, Status, Settled
<1>3. ASSUME NEW s, NEW e \in BOOLEAN
      PROVE  Transition(jobs[j], s, e).attempt = jobs[j].attempt
  BY DEF Transition, Row
<1>4. CASE Finished(j)
  <2>1. PICK outcome \in Outcome :
          jobs'[j] = Transition(jobs[j], AfterRun(jobs[j], outcome), outcome # "success")
    BY <1>4 DEF Finished
  <2>2. QED
    BY <1>3, <2>1
<1>5. CASE Recovered(j)
  BY <1>3, <1>5 DEF Recovered
<1>6. CASE CancelledAtOnce(j)
  BY <1>6 DEF CancelledAtOnce, Transition, CancelRequestedRow, Row
<1>7. CASE Renewed(j) \/ CancelRequested(j)
  BY <1>7 DEF Renewed, RenewedRow, CancelRequested, CancelRequestedRow, Row
<1>8. QED
  BY <1>1, <1>2, <1>4, <1>5, <1>6, <1>7 DEF RowStep

(* A row waiting for its first run after a step waited for it before.       *)
LEMMA FirstWaitIsUndisturbed ==
  ASSUME TypeOK, AgesOK, [Next]_vars, NEW i \in JobId, jobs[i] \in Row,
         jobs'[i].status = "queued", jobs'[i].attempt = 0
  PROVE  jobs[i].status = "queued" /\ jobs[i].attempt = 0
<1>1. RowStep(i)
  BY EveryRowSteps
<1>2. ~Started(i)
  BY DEF Started, StartedRow, Row
<1>3. jobs[i].attempt = 0
  BY <1>2, AttemptsOnlyByStart
<1>4. jobs[i].status # "running"
  BY <1>3 DEF AgesOK, AgeOK, Rows, Row
<1>5. jobs[i].status # "absent"
  BY DEF Row, Status, Settled
<1>6. ~CancelledAtOnce(i)
  <2>1. CancelRequestedRow(jobs[i]) \in Row
    BY CancelRequestedRowType
  <2>2. Transition(CancelRequestedRow(jobs[i]), "cancelled", FALSE).status = "cancelled"
    BY <2>1 DEF Transition, Row
  <2>3. QED
    BY <2>2 DEF CancelledAtOnce
<1>7. QED
  BY <1>1, <1>2, <1>3, <1>4, <1>5, <1>6 DEF RowStep, Inserted, Renewed, Finished,
                                            Recovered, CancelRequested

(* First come, first served, for the first run of every job.                *)
THEOREM AlwaysFirstComeFirstServed == Spec => []FirstComeFirstServed
<1>1. Init => FirstComeFirstServed
  BY DEF Init, FirstComeFirstServed, Rows, NoRow
<1>2. ASSUME TypeOK, RowsOK, AgesOK, AgesOK', FirstComeFirstServed, [Next]_vars
      PROVE  FirstComeFirstServed'
  <2> SUFFICES ASSUME NEW i \in Rows', NEW j \in Rows',
                      jobs'[i].owner = jobs'[j].owner,
                      jobs'[i].kind \in Registered,
                      jobs'[i].status = "queued", jobs'[i].attempt = 0,
                      jobs'[i].created_at < jobs'[j].created_at
               PROVE  jobs'[j].attempt = 0
    BY DEF FirstComeFirstServed
  <2>1. i \in JobId /\ j \in JobId
    BY DEF Rows
  <2>2. CASE j \notin Rows
    <3>1. Inserted(j)
      <4>1. RowStep(j)
        BY <1>2, <2>1, EveryRowSteps
      <4>2. jobs[j].status = "absent" /\ jobs'[j] # jobs[j]
        BY <2>1, <2>2 DEF Rows
      <4>3. QED
        BY <4>1, <4>2 DEF RowStep, Started, Renewed, Finished, Recovered,
                          CancelledAtOnce, CancelRequested
    <3>2. QED
      BY <3>1 DEF Inserted, QueuedRow
  <2>3. CASE j \in Rows /\ i \notin Rows
    <3>1. Inserted(i)
      <4>1. RowStep(i)
        BY <1>2, <2>1, EveryRowSteps
      <4>2. jobs[i].status = "absent" /\ jobs'[i] # jobs[i]
        BY <2>1, <2>3 DEF Rows
      <4>3. QED
        BY <4>1, <4>2 DEF RowStep, Started, Renewed, Finished, Recovered,
                          CancelledAtOnce, CancelRequested
    <3>2. jobs'[i].created_at = now
      BY <3>1 DEF Inserted, QueuedRow
    <3>3. jobs'[j].created_at = jobs[j].created_at /\ jobs[j].created_at <= now
      BY <1>2, <2>3, IdentityKept DEF AgesOK, AgeOK
    <3>4. jobs[j].created_at \in Nat /\ now \in Nat
      BY <1>2, <2>1, <2>3 DEF TypeOK, Rows, Row, NoRow
    <3>5. QED
      BY <3>2, <3>3, <3>4
  <2>4. CASE j \in Rows /\ i \in Rows
    <3>1. jobs[i] \in Row /\ jobs[j] \in Row
      BY <1>2, <2>1, <2>4 DEF TypeOK, Rows, NoRow
    <3>2. /\ jobs[i].owner = jobs[j].owner /\ jobs[i].kind \in Registered
          /\ jobs[i].created_at < jobs[j].created_at
      BY <1>2, <2>4, IdentityKept
    <3>3. jobs[i].status = "queued" /\ jobs[i].attempt = 0
      BY <1>2, <2>1, <2>4, <3>1, FirstWaitIsUndisturbed DEF Rows
    <3>4. jobs[j].attempt = 0
      BY <1>2, <2>4, <3>2, <3>3 DEF FirstComeFirstServed
    <3>5. CASE \E o \in Owner : Claim(o)
      <4> PICK o \in Owner : Claim(o)
        BY <3>5
      <4>1. PICK k \in Claimable(o), t \in Token \ issued :
              /\ \A l \in Claimable(o) : NotAfter(k, l)
              /\ jobs' = [jobs EXCEPT ![k] = StartedRow(@, t)]
        BY DEF Claim
      <4>2. CASE j # k
        BY <1>2, <2>1, <3>4, <4>1, <4>2 DEF TypeOK, Claimable
      <4>3. CASE j = k
        <5>1. jobs[i].available_at = jobs[i].created_at
              /\ jobs[j].available_at >= jobs[j].created_at
              /\ jobs[i].created_at <= now
          BY <1>2, <2>4, <3>3 DEF AgesOK, AgeOK
        <5>2. jobs[i].attempt < jobs[i].max_attempts
          BY <3>1, <3>3 DEF Row
        <5>3. jobs[i].owner = o
          BY <3>2, <4>3 DEF Claimable
        <5>4. i \in Claimable(o)
          BY <2>1, <3>2, <3>3, <5>1, <5>2, <5>3 DEF Claimable
        <5>5. NotAfter(j, i)
          BY <4>1, <4>3, <5>4
        <5>6. QED
          BY <3>1, <3>2, <5>1, <5>5 DEF NotAfter, Row
      <4>4. QED
        BY <4>2, <4>3
    <3>6. CASE ~Started(j)
      BY <1>2, <2>1, <3>1, <3>4, <3>6, AttemptsOnlyByStart DEF Rows
    <3>7. QED
      BY <1>2, <2>1, <3>5, <3>6, TokensOnlyByClaim
  <2>5. QED
    BY <2>2, <2>3, <2>4
<1>3. QED
  BY <1>1, <1>2, TypeCorrect, RowsAlwaysOK, AgesAlwaysOK, PTL DEF Spec

-----------------------------------------------------------------------------
(* Fencing and backoff.                                                     *)

(* An executor whose lease has expired can neither renew it nor write a     *)
(* result or an event.                                                      *)
THEOREM ExpiredLeaseStaysDead == Spec => ExpiredLeaseIsDead
<1>1. ASSUME TypeOK, [Next]_vars, NEW j \in Rows,
             jobs[j].status = "running", jobs[j].lease_expires_at <= now
      PROVE  /\ jobs'[j].lease_owner \in {jobs[j].lease_owner, NoToken}
             /\ jobs'[j].lease_expires_at \in {jobs[j].lease_expires_at, 0}
             /\ jobs'[j].status # "succeeded"
             /\ events'[j] # events[j] => jobs'[j] # jobs[j]
  <2>1. j \in JobId /\ jobs[j] \in Row /\ now \in Nat
    BY <1>1 DEF Rows, TypeOK, NoRow
  <2>2. RowStep(j)
    BY <1>1, <2>1, EveryRowSteps
  <2>3. jobs'[j] = jobs[j] \/ Recovered(j) \/ CancelRequested(j)
    <3>1. ~(jobs[j].lease_expires_at > now)
      BY <1>1, <2>1 DEF Row
    <3>2. QED
      BY <1>1, <2>2, <3>1 DEF RowStep, Inserted, Started, Renewed, Finished, CancelledAtOnce
  <2>4. CASE Recovered(j)
    <3>1. jobs'[j].status = AfterFailedRun(jobs[j])
          /\ jobs'[j].lease_owner = NoToken /\ jobs'[j].lease_expires_at = 0
      BY <2>1, <2>4 DEF Recovered, Transition, Row
    <3>2. AfterFailedRun(jobs[j]) \in {"cancelled", "queued", "failed"}
      BY AfterFailedRunType
    <3>3. QED
      BY <1>1, <3>1, <3>2
  <2>5. /\ jobs'[j].lease_owner \in {jobs[j].lease_owner, NoToken}
        /\ jobs'[j].lease_expires_at \in {jobs[j].lease_expires_at, 0}
        /\ jobs'[j].status # "succeeded"
    BY <1>1, <2>1, <2>3, <2>4 DEF CancelRequested, CancelRequestedRow, Row
  <2>6. ASSUME jobs'[j] = jobs[j] PROVE events'[j] = events[j]
    <3> USE <2>1 DEF TypeOK
    <3>1. ASSUME NEW o \in Owner, NEW k \in Kind, NEW m \in Attempts,
                 NEW index \in BOOLEAN, Create(o, k, m, index)
          PROVE  events'[j] = events[j]
      BY <1>1, <3>1 DEF Create, Rows
    <3>2. ASSUME NEW o \in Owner, Claim(o) PROVE events'[j] = events[j]
      BY <1>1, <3>2 DEF Claim, Claimable
    <3>3. ASSUME NEW i \in JobId, NEW t \in issued, Heartbeat(i, t)
          PROVE  events'[j] = events[j]
      BY <3>3 DEF Heartbeat
    <3>4. ASSUME NEW i \in JobId, NEW t \in issued, AppendEvent(i, t)
          PROVE  events'[j] = events[j]
      BY <1>1, <3>4 DEF AppendEvent, HoldsLease, Row
    <3>5. ASSUME NEW i \in JobId, NEW t \in issued, NEW outcome \in Outcome,
                 Finish(i, t, outcome)
          PROVE  events'[j] = events[j]
      BY <1>1, <3>5 DEF Finish, HoldsLease, Row
    <3>6. ASSUME NEW o \in Owner, RecoverExpired(o) PROVE events'[j] = events[j]
      <4>1. CASE j \in Expired(o)
        <5>1. jobs'[j].status = AfterFailedRun(jobs[j])
          BY <3>6, <4>1 DEF RecoverExpired, Transition, Row
        <5>2. AfterFailedRun(jobs[j]) \in {"cancelled", "queued", "failed"}
          BY AfterFailedRunType
        <5>3. QED
          BY <1>1, <2>6, <5>1, <5>2
      <4>2. CASE j \notin Expired(o)
        BY <3>6, <4>2 DEF RecoverExpired
      <4>3. QED
        BY <4>1, <4>2
    <3>7. ASSUME NEW i \in JobId, CancelQueued(i) PROVE events'[j] = events[j]
      BY <1>1, <3>7 DEF CancelQueued
    <3>8. ASSUME NEW i \in JobId, CancelRunning(i) PROVE events'[j] = events[j]
      <4>1. CASE i = j
        <5>1. jobs'[j] = CancelRequestedRow(jobs[j])
          BY <1>1, <3>8, <4>1 DEF CancelRunning
        <5>2. ~jobs[j].cancel_requested
          BY <3>8, <4>1 DEF CancelRunning
        <5>3. CancelRequestedRow(jobs[j]).cancel_requested
          BY DEF CancelRequestedRow, Row
        <5>4. QED
          BY <2>6, <5>1, <5>2, <5>3
      <4>2. CASE i # j
        BY <1>1, <3>8, <4>2 DEF CancelRunning
      <4>3. QED
        BY <4>1, <4>2
    <3>9. ASSUME NEW i \in JobId, Retry(i) PROVE events'[j] = events[j]
      BY <1>1, <3>9 DEF Retry, Rows
    <3>10. CASE Tick
      BY <3>10 DEF Tick
    <3>11. CASE UNCHANGED vars
      BY <3>11 DEF vars
    <3>12. QED
      BY <1>1, <3>1, <3>2, <3>3, <3>4, <3>5, <3>6, <3>7, <3>8, <3>9, <3>10, <3>11 DEF Next
  <2>7. QED
    BY <2>5, <2>6
<1>2. TypeOK /\ [Next]_vars =>
        [\A j \in Rows :
           (jobs[j].status = "running" /\ jobs[j].lease_expires_at <= now) =>
             /\ jobs'[j].lease_owner \in {jobs[j].lease_owner, NoToken}
             /\ jobs'[j].lease_expires_at \in {jobs[j].lease_expires_at, 0}
             /\ jobs'[j].status # "succeeded"
             /\ events'[j] # events[j] => jobs'[j] # jobs[j]]_vars
  BY <1>1
<1>3. QED
  BY <1>2, TypeCorrect, PTL DEF Spec, ExpiredLeaseIsDead

LEMMA RetryDelayGrows ==
  ASSUME NEW a \in Nat, NEW b \in Nat, a <= b
  PROVE  RetryDelay(a) <= RetryDelay(b)
<1>1. CASE b < 5
  <2>1. b \in {0, 1, 2, 3, 4} /\ a \in {0, 1, 2, 3, 4}
    BY <1>1
  <2>2. QED
    BY <2>1 DEF RetryDelay, BackoffSeconds
<1>2. CASE ~(b < 5)
  <2>1. RetryDelay(b) = 30
    BY <1>2 DEF RetryDelay, BackoffSeconds
  <2>2. QED
    BY <2>1, RetryDelayRange
<1>3. QED
  BY <1>1, <1>2

(* A job sent back to the queue waits 2 to 30 seconds, never less than      *)
(* after an earlier attempt.                                                *)
THEOREM BackoffAlwaysRespected == Spec => BackoffRespected
<1>1. ASSUME TypeOK, AgesOK, [Next]_vars, NEW j \in Rows,
             jobs[j].status = "running", jobs'[j].status = "queued"
      PROVE  /\ jobs'[j].available_at - now \in 2..30
             /\ \A a \in 1..jobs[j].attempt :
                  jobs'[j].available_at - now >= RetryDelay(a)
  <2>1. j \in JobId /\ jobs[j] \in Row /\ now \in Nat /\ jobs[j].attempt >= 1
    BY <1>1 DEF Rows, TypeOK, NoRow, AgesOK, AgeOK
  <2>2. ASSUME NEW s, NEW e \in BOOLEAN, jobs'[j] = Transition(jobs[j], s, e)
        PROVE  jobs'[j].available_at = now + RetryDelay(jobs[j].attempt)
    <3>1. s = "queued"
      BY <1>1, <2>1, <2>2 DEF Transition, Row
    <3>2. QED
      BY <2>1, <2>2, <3>1 DEF Transition, Row
  <2>3. jobs'[j].available_at = now + RetryDelay(jobs[j].attempt)
    <3>1. RowStep(j)
      BY <1>1, <2>1, EveryRowSteps
    <3>2. CASE Finished(j)
      BY <2>2, <3>2 DEF Finished
    <3>3. CASE Recovered(j)
      BY <2>2, <3>3 DEF Recovered
    <3>4. ~Renewed(j) /\ ~CancelRequested(j)
      BY <1>1, <2>1 DEF Renewed, RenewedRow, CancelRequested, CancelRequestedRow, Row
    <3>5. QED
      BY <1>1, <3>1, <3>2, <3>3, <3>4 DEF RowStep, Inserted, Started, CancelledAtOnce
  <2>4. jobs[j].attempt \in Nat
    BY <2>1 DEF Row
  <2>5. RetryDelay(jobs[j].attempt) \in 2..30
    BY <2>1, <2>4, RetryDelayRange
  <2>6. \A a \in 1..jobs[j].attempt : RetryDelay(a) <= RetryDelay(jobs[j].attempt)
    BY <2>4, RetryDelayGrows
  <2>7. \A a \in 1..jobs[j].attempt : RetryDelay(a) \in 1..30
    BY <2>4, RetryDelayRange
  <2>8. QED
    BY <2>1, <2>3, <2>5, <2>6, <2>7
<1>2. TypeOK /\ AgesOK /\ [Next]_vars =>
        [\A j \in Rows :
           (jobs[j].status = "running" /\ jobs'[j].status = "queued") =>
             /\ jobs'[j].available_at - now \in 2..30
             /\ \A a \in 1..jobs[j].attempt :
                  jobs'[j].available_at - now >= RetryDelay(a)]_vars
  BY <1>1
<1>3. QED
  BY <1>2, TypeCorrect, AgesAlwaysOK, PTL DEF Spec, BackoffRespected

-----------------------------------------------------------------------------
(* The event log.  What one more event does to a log that replays.          *)
LEMMA PlacesGrow ==
  ASSUME NEW s \in Seq(EventType), NEW e \in EventType
  PROVE  /\ Len(s) \in Nat /\ DOMAIN s = 1..Len(s) /\ Append(s, e) \in Seq(EventType)
         /\ DOMAIN Append(s, e) = 1..(Len(s) + 1)
         /\ Append(s, e)[Len(s) + 1] = e
         /\ \A n \in 1..Len(s) : Append(s, e)[n] = s[n]
         /\ StatusPlaces(s) \subseteq 1..Len(s)
         /\ e \notin Status => StatusPlaces(Append(s, e)) = StatusPlaces(s)
         /\ e \in Status => StatusPlaces(Append(s, e)) = StatusPlaces(s) \cup {Len(s) + 1}
<1> DEFINE N == Len(s)
           t == Append(s, e)
<1>1. /\ N \in Nat /\ DOMAIN s = 1..N /\ t \in Seq(EventType) /\ DOMAIN t = 1..(N + 1)
      /\ t[N + 1] = e /\ \A n \in 1..N : t[n] = s[n]
  OBVIOUS
<1> HIDE DEF N, t
<1>2. StatusPlaces(s) \subseteq 1..N
  BY <1>1 DEF StatusPlaces
<1>3. e \notin Status => StatusPlaces(t) = StatusPlaces(s)
  BY <1>1 DEF StatusPlaces
<1>4. e \in Status => StatusPlaces(t) = StatusPlaces(s) \cup {N + 1}
  BY <1>1 DEF StatusPlaces
<1>5. QED
  BY <1>1, <1>2, <1>3, <1>4 DEF N, t

LEMMA FirstEvent == Replays(<<"queued">>, "queued", 0)
<1> DEFINE s == <<"queued">>
           P == StatusPlaces(s)
<1>1. DOMAIN s = {1} /\ s[1] = "queued"
  OBVIOUS
<1> HIDE DEF s
<1>2. P = {1}
  BY <1>1 DEF StatusPlaces, Status
<1>3. {n \in P : s[n] = "running"} = {}
  BY <1>1, <1>2
<1>4. Cardinality({n \in P : s[n] = "running"}) = 0
  BY <1>3, FS_EmptySet
<1> HIDE DEF P
<1>5. Replays(s, "queued", 0)
  BY <1>1, <1>2, <1>4 DEF Replays, P
<1>6. QED
  BY <1>5 DEF s

(* An event that changes no status; a handler's own comes during a run.     *)
LEMMA OneMoreNote ==
  ASSUME NEW s \in Seq(EventType), NEW status, NEW attempt, Replays(s, status, attempt),
         NEW e \in EventType \ Status, e = "progress" => status = "running"
  PROVE  Replays(Append(s, e), status, attempt)
<1> DEFINE N == Len(s)
           t == Append(s, e)
           P == StatusPlaces(s)
<1>1. /\ N \in Nat /\ DOMAIN s = 1..N /\ DOMAIN t = 1..(N + 1)
      /\ t[N + 1] = e /\ \A n \in 1..N : t[n] = s[n]
      /\ P \subseteq 1..N /\ StatusPlaces(t) = P
  BY PlacesGrow
<1>2. /\ 1 \in P /\ s[1] = "queued"
      /\ \E n \in P : s[n] = status /\ \A m \in P : m <= n
      /\ \A m, n \in P :
           m < n /\ (\A l \in P : l <= m \/ n <= l) => <<s[m], s[n]>> \in Succession
      /\ Cardinality({n \in P : s[n] = "running"}) = attempt
      /\ \A n \in DOMAIN s :
           s[n] = "progress" => \E m \in P : /\ m < n /\ s[m] = "running"
                                             /\ \A l \in P : l <= m \/ n < l
  BY DEF Replays
<1> HIDE DEF N, t, P
<1>3. \A n \in P : n \in 1..N /\ t[n] = s[n]
  BY <1>1
<1>4. {n \in P : t[n] = "running"} = {n \in P : s[n] = "running"}
  BY <1>3
<1>5. ASSUME NEW n \in DOMAIN t, t[n] = "progress"
      PROVE  \E m \in P : m < n /\ t[m] = "running" /\ \A l \in P : l <= m \/ n < l
  <2>1. CASE n \in 1..N
    <3>1. s[n] = "progress" /\ n \in DOMAIN s
      BY <1>1, <1>5, <2>1
    <3>2. PICK m \in P : m < n /\ s[m] = "running" /\ \A l \in P : l <= m \/ n < l
      BY <1>2, <3>1
    <3>3. QED
      BY <1>3, <3>2
  <2>2. CASE n = N + 1
    <3>1. PICK m \in P : s[m] = "running" /\ \A l \in P : l <= m
      BY <1>1, <1>2, <1>5, <2>2
    <3>2. m < n
      BY <1>1, <1>3, <2>2
    <3>3. QED
      BY <1>3, <3>1, <3>2
  <2>3. QED
    BY <1>1, <2>1, <2>2
<1>6. /\ 1 \in P /\ t[1] = "queued"
      /\ \E n \in P : t[n] = status /\ \A m \in P : m <= n
      /\ Cardinality({n \in P : t[n] = "running"}) = attempt
  BY <1>2, <1>3, <1>4
<1>7. \A m, n \in P :
        m < n /\ (\A l \in P : l <= m \/ n <= l) => <<t[m], t[n]>> \in Succession
  BY <1>2, <1>3
<1>8. Replays(t, status, attempt)
  BY <1>1, <1>5, <1>6, <1>7 DEF Replays
<1>9. QED
  BY <1>8 DEF t

(* A change of status that the state machine allows.                        *)
LEMMA OneMoreStatus ==
  ASSUME NEW s \in Seq(EventType), NEW status, NEW attempt \in Nat,
         Replays(s, status, attempt), NEW e \in Status, <<status, e>> \in Succession
  PROVE  Replays(Append(s, e), e, IF e = "running" THEN attempt + 1 ELSE attempt)
<1> DEFINE N == Len(s)
           t == Append(s, e)
           P == StatusPlaces(s)
           Q == P \cup {N + 1}
           R == {n \in P : s[n] = "running"}
           runs == IF e = "running" THEN attempt + 1 ELSE attempt
<1>1. /\ N \in Nat /\ DOMAIN s = 1..N /\ DOMAIN t = 1..(N + 1)
      /\ t[N + 1] = e /\ \A n \in 1..N : t[n] = s[n]
      /\ P \subseteq 1..N /\ StatusPlaces(t) = Q
  <2>1. e \in EventType
    BY DEF EventType
  <2>2. QED
    BY <2>1, PlacesGrow
<1>2. /\ 1 \in P /\ s[1] = "queued"
      /\ \E n \in P : s[n] = status /\ \A m \in P : m <= n
      /\ \A m, n \in P :
           m < n /\ (\A l \in P : l <= m \/ n <= l) => <<s[m], s[n]>> \in Succession
      /\ Cardinality(R) = attempt
      /\ \A n \in DOMAIN s :
           s[n] = "progress" => \E m \in P : /\ m < n /\ s[m] = "running"
                                             /\ \A l \in P : l <= m \/ n < l
  BY DEF Replays
<1> HIDE DEF N, t, P, R
<1>3. \A n \in P : n \in 1..N /\ t[n] = s[n] /\ n < N + 1
  BY <1>1
<1>4. ASSUME NEW m \in Q, NEW n \in Q, m < n, \A l \in Q : l <= m \/ n <= l
      PROVE  <<t[m], t[n]>> \in Succession
  <2>1. m \in P
    BY <1>1, <1>3, <1>4
  <2>2. CASE n \in P
    <3>1. <<s[m], s[n]>> \in Succession
      BY <1>2, <1>4, <2>1, <2>2
    <3>2. QED
      BY <1>3, <2>1, <2>2, <3>1
  <2>3. CASE n = N + 1
    <3>1. PICK last \in P : s[last] = status /\ \A l \in P : l <= last
      BY <1>2
    <3>2. last <= m
      BY <1>1, <1>3, <1>4, <2>3, <3>1
    <3>3. last = m
      BY <1>3, <2>1, <3>1, <3>2
    <3>4. QED
      BY <1>1, <1>3, <2>1, <2>3, <3>1, <3>3
  <2>4. QED
    BY <2>2, <2>3
<1>5. Cardinality({n \in Q : t[n] = "running"}) = runs
  <2>1. IsFiniteSet(R) /\ N + 1 \notin R
    <3>1. R \subseteq 1..N
      BY <1>1 DEF R
    <3>2. IsFiniteSet(1..N)
      BY <1>1, FS_Interval
    <3>3. IsFiniteSet(R)
      BY <3>1, <3>2, FS_Subset
    <3>4. N + 1 \notin 1..N
      BY <1>1
    <3>5. QED
      BY <3>1, <3>3, <3>4
  <2>2. CASE e = "running"
    <3>1. {n \in Q : t[n] = "running"} = {n \in P : t[n] = "running"} \cup {N + 1}
      BY <1>1, <2>2
    <3>2. {n \in P : t[n] = "running"} = R
      BY <1>3 DEF R
    <3>3. Cardinality(R \cup {N + 1}) = attempt + 1
      BY <1>2, <2>1, FS_AddElement
    <3>4. QED
      BY <2>2, <3>1, <3>2, <3>3
  <2>3. CASE e # "running"
    <3>1. {n \in Q : t[n] = "running"} = R
      BY <1>1, <1>3, <2>3 DEF R
    <3>2. QED
      BY <1>2, <2>3, <3>1
  <2>4. QED
    BY <2>2, <2>3
<1>6. ASSUME NEW n \in DOMAIN t, t[n] = "progress"
      PROVE  \E m \in Q : m < n /\ t[m] = "running" /\ \A l \in Q : l <= m \/ n < l
  <2>1. e # "progress"
    BY DEF Status, Settled
  <2>2. n \in 1..N
    BY <1>1, <1>6, <2>1
  <2>3. s[n] = "progress" /\ n \in DOMAIN s
    BY <1>1, <1>6, <2>2
  <2>4. PICK m \in P : m < n /\ s[m] = "running" /\ \A l \in P : l <= m \/ n < l
    BY <1>2, <2>3
  <2>5. n < N + 1
    BY <1>1, <2>2
  <2>6. QED
    BY <1>3, <2>4, <2>5
<1>7. \E n \in Q : t[n] = e /\ \A m \in Q : m <= n
  BY <1>1, <1>3
<1>8. 1 \in Q /\ t[1] = "queued"
  BY <1>2, <1>3
<1> HIDE DEF Q, runs
<1>9. Replays(t, e, runs)
  BY <1>1, <1>4, <1>5, <1>6, <1>7, <1>8 DEF Replays
<1>10. QED
  BY <1>9 DEF t, runs

(* A run goes back to the queue or settles.                                 *)
LEMMA RunEnds ==
  ASSUME NEW s \in Seq(EventType), NEW attempt \in Nat, Replays(s, "running", attempt),
         NEW e \in {"queued"} \cup Settled
  PROVE  Replays(Append(s, e), e, attempt)
<1>1. e \in Status /\ e # "running" /\ <<"running", e>> \in Succession
  BY DEF Status, Settled, Succession
<1>2. Replays(Append(s, e), e, IF e = "running" THEN attempt + 1 ELSE attempt)
  BY <1>1, OneMoreStatus
<1>3. QED
  BY <1>1, <1>2

(* One step of the queue keeps every row's log true.                        *)
LEMMA ReplayStep ==
  ASSUME TypeOK, EventsReplay, [Next]_vars, NEW i \in JobId, jobs'[i].status # "absent"
  PROVE  Replays(events'[i], jobs'[i].status, jobs'[i].attempt)
<1> DEFINE Told == Replays(events'[i], jobs'[i].status, jobs'[i].attempt)
<1>1. /\ \A j \in JobId : jobs[j].status # "absent" =>
           /\ jobs[j] \in Row /\ jobs[j].attempt \in Nat
           /\ Replays(events[j], jobs[j].status, jobs[j].attempt)
      /\ events \in [JobId -> Seq(EventType)]
      /\ jobs \in [JobId -> Row \cup {NoRow}]
      /\ \A j \in JobId : jobs[j].status = "absent" => jobs[j] = NoRow
  <2>1. \A j \in JobId : jobs[j] \in Row \/ jobs[j] = NoRow
    BY DEF TypeOK
  <2>2. NoRow.status = "absent"
    BY DEF NoRow
  <2>3. \A row \in Row : row.status # "absent" /\ row.attempt \in Nat
    BY DEF Row, Status, Settled
  <2>4. \A j \in JobId : jobs[j].status # "absent" =>
          Replays(events[j], jobs[j].status, jobs[j].attempt)
    BY DEF Rows, EventsReplay
  <2>5. QED
    BY <2>1, <2>2, <2>3, <2>4 DEF TypeOK
<1>2. (events'[i] = events[i] /\ jobs'[i].status = jobs[i].status
       /\ (jobs[i].status # "absent" => jobs'[i].attempt = jobs[i].attempt)) => Told
  BY <1>1
<1>3. ASSUME NEW o \in Owner, NEW k \in Kind, NEW m \in Attempts, NEW index \in BOOLEAN,
             Create(o, k, m, index)
      PROVE  Told
  <2>1. PICK j \in JobId \ Rows :
          /\ jobs' = [jobs EXCEPT ![j] = QueuedRow(o, k, m, index, NoJob)]
          /\ events' = [events EXCEPT ![j] = <<"queued">>]
    BY <1>3 DEF Create
  <2>2. CASE i = j
    <3>1. events'[i] = <<"queued">> /\ jobs'[i] = QueuedRow(o, k, m, index, NoJob)
      BY <1>1, <2>1, <2>2
    <3>2. jobs'[i].status = "queued" /\ jobs'[i].attempt = 0
      BY <3>1 DEF QueuedRow
    <3>3. QED
      BY <3>1, <3>2, FirstEvent
  <2>3. CASE i # j
    BY <1>1, <1>2, <2>1, <2>3
  <2>4. QED
    BY <2>2, <2>3
<1>4. ASSUME NEW o \in Owner, Claim(o) PROVE Told
  <2>1. PICK j \in Claimable(o), t \in Token \ issued :
          /\ jobs' = [jobs EXCEPT ![j] = StartedRow(@, t)]
          /\ events' = [events EXCEPT ![j] = Append(@, "running")]
    BY <1>4 DEF Claim
  <2>2. j \in JobId /\ jobs[j].status = "queued" /\ jobs[j] \in Row /\ jobs[j].attempt \in Nat
    BY <1>1 DEF Claimable
  <2>3. CASE i = j
    <3>1. events'[i] = Append(events[i], "running") /\ jobs'[i] = StartedRow(jobs[i], t)
      BY <1>1, <2>1, <2>3
    <3>2. jobs'[i].status = "running" /\ jobs'[i].attempt = jobs[i].attempt + 1
      BY <2>2, <2>3, <3>1 DEF StartedRow, Row
    <3>3. /\ events[i] \in Seq(EventType) /\ Replays(events[i], "queued", jobs[i].attempt)
          /\ jobs[i].attempt \in Nat
      BY <1>1, <2>2, <2>3
    <3>4. "running" \in Status /\ <<"queued", "running">> \in Succession
      BY DEF Status, Succession
    <3>5. Replays(Append(events[i], "running"), "running", jobs[i].attempt + 1)
      BY <3>3, <3>4, OneMoreStatus
    <3>6. QED
      BY <3>1, <3>2, <3>5
  <2>4. CASE i # j
    BY <1>1, <1>2, <2>1, <2>4
  <2>5. QED
    BY <2>3, <2>4
<1>5. ASSUME NEW j \in JobId, NEW t \in issued, Heartbeat(j, t) PROVE Told
  <2>1. jobs[j] \in Row
    BY <1>1, <1>5 DEF Heartbeat, HoldsLease
  <2>2. RenewedRow(jobs[j]).status = jobs[j].status /\ RenewedRow(jobs[j]).attempt = jobs[j].attempt
    BY <2>1 DEF RenewedRow, Row
  <2>3. events' = events /\ jobs' = [jobs EXCEPT ![j] = RenewedRow(jobs[j])]
    BY <1>5 DEF Heartbeat
  <2>4. QED
    BY <1>1, <1>2, <2>2, <2>3
<1>6. ASSUME NEW j \in JobId, NEW t \in issued, AppendEvent(j, t) PROVE Told
  <2>1. /\ jobs[j].status = "running" /\ jobs' = jobs
        /\ events' = [events EXCEPT ![j] = Append(events[j], "progress")]
    BY <1>6 DEF AppendEvent, HoldsLease
  <2>2. CASE i = j
    <3>1. events'[i] = Append(events[i], "progress")
      BY <1>1, <2>1, <2>2
    <3>2. events[i] \in Seq(EventType) /\ Replays(events[i], jobs[i].status, jobs[i].attempt)
      BY <1>1, <2>1, <2>2
    <3>3. "progress" \in EventType \ Status /\ jobs[i].status = "running"
      BY <2>1, <2>2 DEF EventType, Status, Settled
    <3>4. Replays(Append(events[i], "progress"), jobs[i].status, jobs[i].attempt)
      BY <3>2, <3>3, OneMoreNote
    <3>5. QED
      BY <2>1, <3>1, <3>4
  <2>3. CASE i # j
    BY <1>1, <1>2, <2>1, <2>3
  <2>4. QED
    BY <2>2, <2>3
<1>7. ASSUME NEW j \in JobId, NEW t \in issued, NEW outcome \in Outcome, Finish(j, t, outcome)
      PROVE  Told
  <2> DEFINE status == AfterRun(jobs[j], outcome)
  <2>1. /\ jobs[j].status = "running"
        /\ jobs' = [jobs EXCEPT ![j] = Transition(jobs[j], status, outcome # "success")]
        /\ events' = [events EXCEPT ![j] = Append(events[j], status)]
    BY <1>7 DEF Finish, HoldsLease
  <2>2. CASE i = j
    <3>1. /\ events'[i] = Append(events[i], status)
          /\ jobs'[i] = Transition(jobs[i], status, outcome # "success")
      BY <1>1, <2>1, <2>2
    <3>2. /\ events[i] \in Seq(EventType) /\ Replays(events[i], "running", jobs[i].attempt)
          /\ jobs[i].attempt \in Nat /\ jobs[i] \in Row
      BY <1>1, <2>1, <2>2
    <3>3. status \in {"queued"} \cup Settled
      BY AfterRunType DEF Settled
    <3> HIDE DEF status
    <3>4. Replays(Append(events[i], status), status, jobs[i].attempt)
      BY <3>2, <3>3, RunEnds
    <3>5. jobs'[i].status = status /\ jobs'[i].attempt = jobs[i].attempt
      BY <3>1, <3>2 DEF Transition, Row
    <3>6. QED
      BY <3>1, <3>4, <3>5
  <2>3. CASE i # j
    BY <1>1, <1>2, <2>1, <2>3
  <2>4. QED
    BY <2>2, <2>3
<1>8. ASSUME NEW o \in Owner, RecoverExpired(o) PROVE Told
  <2> DEFINE status == AfterFailedRun(jobs[i])
  <2>1. CASE i \in Expired(o)
    <3>1. /\ events'[i] = Append(events[i], status)
          /\ jobs'[i] = Transition(jobs[i], status, TRUE)
          /\ jobs[i].status = "running"
      BY <1>8, <2>1 DEF RecoverExpired, Expired
    <3>2. /\ events[i] \in Seq(EventType) /\ Replays(events[i], "running", jobs[i].attempt)
          /\ jobs[i].attempt \in Nat /\ jobs[i] \in Row
      BY <1>1, <3>1
    <3>3. status \in {"queued"} \cup Settled
      BY AfterFailedRunType DEF Settled
    <3> HIDE DEF status
    <3>4. Replays(Append(events[i], status), status, jobs[i].attempt)
      BY <3>2, <3>3, RunEnds
    <3>5. jobs'[i].status = status /\ jobs'[i].attempt = jobs[i].attempt
      BY <3>1, <3>2 DEF Transition, Row
    <3>6. QED
      BY <3>1, <3>4, <3>5
  <2>2. CASE i \notin Expired(o)
    <3>1. events'[i] = events[i] /\ jobs'[i] = jobs[i]
      BY <1>8, <2>2 DEF RecoverExpired
    <3>2. QED
      BY <1>2, <3>1
  <2>3. QED
    BY <2>1, <2>2
<1>9. ASSUME NEW j \in JobId, CancelQueued(j) PROVE Told
  <2>1. /\ jobs[j].status = "queued"
        /\ jobs' = [jobs EXCEPT ![j] =
                      Transition(CancelRequestedRow(jobs[j]), "cancelled", FALSE)]
        /\ events' = [events EXCEPT ![j] = events[j] \o <<"cancel_requested", "cancelled">>]
    BY <1>9 DEF CancelQueued
  <2>2. CASE i = j
    <3>1. /\ events'[i] = events[i] \o <<"cancel_requested", "cancelled">>
          /\ jobs'[i] = Transition(CancelRequestedRow(jobs[i]), "cancelled", FALSE)
      BY <1>1, <2>1, <2>2
    <3>2. /\ events[i] \in Seq(EventType) /\ Replays(events[i], "queued", jobs[i].attempt)
          /\ jobs[i].attempt \in Nat /\ jobs[i] \in Row
      BY <1>1, <2>1, <2>2
    <3> DEFINE requested == Append(events[i], "cancel_requested")
    <3>3. "cancel_requested" \in EventType \ Status
      BY DEF EventType, Status, Settled
    <3>4. Replays(requested, "queued", jobs[i].attempt)
      BY <3>2, <3>3, OneMoreNote
    <3>5. requested \in Seq(EventType)
      BY <3>2, <3>3
    <3>6. /\ events[i] \o <<"cancel_requested", "cancelled">> = Append(requested, "cancelled")
      BY <3>2
    <3> HIDE DEF requested
    <3>7. "cancelled" \in Status /\ <<"queued", "cancelled">> \in Succession
      BY DEF Status, Settled, Succession
    <3>8. Replays(Append(requested, "cancelled"), "cancelled", jobs[i].attempt)
      BY <3>2, <3>4, <3>5, <3>7, OneMoreStatus
    <3>9. /\ CancelRequestedRow(jobs[i]) \in Row
          /\ CancelRequestedRow(jobs[i]).attempt = jobs[i].attempt
      BY <3>2 DEF CancelRequestedRow, Row
    <3>10. jobs'[i].status = "cancelled" /\ jobs'[i].attempt = jobs[i].attempt
      BY <3>1, <3>9 DEF Transition, Row
    <3>11. QED
      BY <3>1, <3>6, <3>8, <3>10
  <2>3. CASE i # j
    BY <1>1, <1>2, <2>1, <2>3
  <2>4. QED
    BY <2>2, <2>3
<1>10. ASSUME NEW j \in JobId, CancelRunning(j) PROVE Told
  <2>1. /\ jobs[j].status = "running"
        /\ jobs' = [jobs EXCEPT ![j] = CancelRequestedRow(jobs[j])]
        /\ events' = [events EXCEPT ![j] = Append(events[j], "cancel_requested")]
    BY <1>10 DEF CancelRunning
  <2>2. CASE i = j
    <3>1. /\ events'[i] = Append(events[i], "cancel_requested")
          /\ jobs'[i] = CancelRequestedRow(jobs[i])
      BY <1>1, <2>1, <2>2
    <3>2. /\ events[i] \in Seq(EventType) /\ jobs[i] \in Row
          /\ Replays(events[i], jobs[i].status, jobs[i].attempt)
      BY <1>1, <2>1, <2>2
    <3>3. "cancel_requested" \in EventType \ Status
      BY DEF EventType, Status, Settled
    <3>4. Replays(Append(events[i], "cancel_requested"), jobs[i].status, jobs[i].attempt)
      BY <3>2, <3>3, OneMoreNote
    <3>5. jobs'[i].status = jobs[i].status /\ jobs'[i].attempt = jobs[i].attempt
      BY <3>1, <3>2 DEF CancelRequestedRow, Row
    <3>6. QED
      BY <3>1, <3>4, <3>5
  <2>3. CASE i # j
    BY <1>1, <1>2, <2>1, <2>3
  <2>4. QED
    BY <2>2, <2>3
<1>11. ASSUME NEW j \in JobId, Retry(j) PROVE Told
  <2>1. PICK n \in JobId \ Rows :
          /\ jobs' = [jobs EXCEPT ![n] =
                        QueuedRow(jobs[j].owner, jobs[j].kind,
                                  jobs[j].max_attempts, FALSE, j)]
          /\ events' = [events EXCEPT ![n] = <<"queued">>,
                                      ![j] = Append(@, "retried")]
    BY <1>11 DEF Retry
  <2>2. jobs[j].status \in {"failed", "cancelled"} /\ j # n /\ n \in JobId
    BY <1>11, <2>1 DEF Retry, Rows
  <2>3. CASE i = n
    <3>1. /\ events'[i] = <<"queued">>
          /\ jobs'[i] = QueuedRow(jobs[j].owner, jobs[j].kind, jobs[j].max_attempts, FALSE, j)
      BY <1>1, <2>1, <2>2, <2>3
    <3>2. jobs'[i].status = "queued" /\ jobs'[i].attempt = 0
      BY <3>1 DEF QueuedRow
    <3>3. QED
      BY <3>1, <3>2, FirstEvent
  <2>4. CASE i = j
    <3>1. events'[i] = Append(events[i], "retried") /\ jobs'[i] = jobs[i]
      BY <1>1, <2>1, <2>2, <2>4
    <3>2. events[i] \in Seq(EventType) /\ Replays(events[i], jobs[i].status, jobs[i].attempt)
      BY <1>1, <2>2, <2>4
    <3>3. "retried" \in EventType \ Status
      BY DEF EventType, Status, Settled
    <3>4. Replays(Append(events[i], "retried"), jobs[i].status, jobs[i].attempt)
      BY <3>2, <3>3, OneMoreNote
    <3>5. QED
      BY <3>1, <3>4
  <2>5. CASE i # n /\ i # j
    <3>1. events'[i] = events[i] /\ jobs'[i] = jobs[i]
      BY <1>1, <2>1, <2>5
    <3>2. QED
      BY <1>2, <3>1
  <2>6. QED
    BY <2>3, <2>4, <2>5
<1>12. CASE Tick
  BY <1>2, <1>12 DEF Tick
<1>13. CASE UNCHANGED vars
  BY <1>2, <1>13 DEF vars
<1>14. QED
  BY <1>3, <1>4, <1>5, <1>6, <1>7, <1>8, <1>9, <1>10, <1>11, <1>12, <1>13 DEF Next

(* The event log of every job, replayed, tells the row's status and its     *)
(* attempts through steps the state machine allows, whatever executors,     *)
(* recovery, cancels and retries wrote into it.                             *)
THEOREM EventsAlwaysReplay == Spec => []EventsReplay
<1>1. Init => EventsReplay
  BY DEF Init, NoRow, Rows, EventsReplay
<1>2. TypeOK /\ EventsReplay /\ [Next]_vars => EventsReplay'
  <2> SUFFICES ASSUME TypeOK, EventsReplay, [Next]_vars, NEW i \in Rows'
               PROVE  Replays(events'[i], jobs'[i].status, jobs'[i].attempt)
    BY DEF EventsReplay
  <2>1. i \in JobId /\ jobs'[i].status # "absent"
    BY DEF Rows
  <2>2. QED
    BY <2>1, ReplayStep
<1>3. QED
  BY <1>1, <1>2, TypeCorrect, PTL DEF Spec

-----------------------------------------------------------------------------
(* BackgroundJobs implements JobLeases: the step simulation behind the      *)
(* property ImplementsLeases.                                               *)
(* The view of one row.                                                     *)

LEMMA ViewType ==
  ASSUME NEW row \in Row
  PROVE  RowView(row) \in Leases!JobState
<1>1. row # NoRow
  BY DEF Row, Status, Settled, NoRow
<1>2. QED
  BY <1>1 DEF RowView, Row, Leases!JobState, LeaseOf, WaitOf, Status, Settled,
              Leases!Settled

LEMMA ViewFields ==
  ASSUME NEW row \in Row
  PROVE  /\ RowView(row).status = row.status
         /\ RowView(row).attempt = row.attempt
         /\ RowView(row).max_attempts = row.max_attempts
         /\ RowView(row).holder = row.lease_owner
         /\ RowView(row).lease = LeaseOf(row)
         /\ RowView(row).waits = WaitOf(row)
         /\ RowView(row).cancel_requested = row.cancel_requested
<1>1. row # NoRow
  BY DEF Row, Status, Settled, NoRow
<1>2. QED
  BY <1>1 DEF RowView

(* Two views with equal fields are equal.                                   *)
LEMMA SameView ==
  ASSUME NEW v \in Leases!JobState, NEW w \in Leases!JobState,
         v.status = w.status, v.attempt = w.attempt,
         v.max_attempts = w.max_attempts, v.holder = w.holder,
         v.lease = w.lease, v.waits = w.waits,
         v.cancel_requested = w.cancel_requested
  PROVE  v = w
BY DEF Leases!JobState

LEMMA LeaveType ==
  ASSUME NEW v \in Leases!JobState, NEW s \in Status
  PROVE  Leases!Leave(v, s) \in Leases!JobState
<1>1. CASE s = "queued"
  BY <1>1 DEF Leases!Leave, Leases!JobState, Leases!Settled, Status, Settled
<1>2. CASE s # "queued"
  BY <1>2 DEF Leases!Leave, Leases!JobState, Leases!Settled, Status, Settled
<1>3. QED
  BY <1>1, <1>2

(* Leaving a state in the table is leaving it in the abstraction.           *)
LEMMA TransitionView ==
  ASSUME NEW row \in Row, NEW s \in Status \ {"running"}, NEW e \in BOOLEAN,
         now \in Nat, row.attempt >= 1 \/ s # "queued"
  PROVE  RowView(Transition(row, s, e)) = Leases!Leave(RowView(row), s)
<1> DEFINE after == Transition(row, s, e)
           left == Leases!Leave(RowView(row), s)
<1>1. after \in Row /\ RowView(row) \in Leases!JobState
  BY TransitionType, ViewType
<1>2. /\ after.status = s /\ after.attempt = row.attempt
      /\ after.max_attempts = row.max_attempts /\ after.lease_owner = NoToken
  BY DEF Transition, Row
<1>3. after.cancel_requested = row.cancel_requested
  BY DEF Transition, Row
<1>4. s = "queued" => after.available_at > now
  <2>1. RetryDelay(row.attempt) \in Nat
        /\ (row.attempt >= 1 => RetryDelay(row.attempt) >= 2)
    BY RetryDelayRange DEF Row
  <2>2. SUFFICES ASSUME s = "queued" PROVE after.available_at > now
    OBVIOUS
  <2>3. after.available_at = now + RetryDelay(row.attempt)
    BY <2>2 DEF Transition, Row
  <2>4. QED
    BY <2>1, <2>2, <2>3
<1>5. LeaseOf(after) = "none"
  BY <1>2 DEF LeaseOf
<1>6. WaitOf(after) = IF s = "queued" THEN "delayed" ELSE "no"
  BY <1>2, <1>4 DEF WaitOf
<1>7. /\ left.status = s /\ left.attempt = row.attempt
      /\ left.max_attempts = row.max_attempts /\ left.holder = NoToken
      /\ left.lease = "none"
      /\ left.waits = IF s = "queued" THEN "delayed" ELSE "no"
  BY <1>1, ViewFields DEF Leases!Leave, Leases!JobState
<1>8. left.cancel_requested = row.cancel_requested
  BY <1>1, ViewFields DEF Leases!Leave, Leases!JobState
<1>9. RowView(after) \in Leases!JobState /\ left \in Leases!JobState
  BY <1>1, ViewType, LeaveType
<1> HIDE DEF after, left
<1>10. /\ RowView(after).status = s /\ RowView(after).attempt = row.attempt
       /\ RowView(after).max_attempts = row.max_attempts
       /\ RowView(after).holder = NoToken /\ RowView(after).lease = "none"
       /\ RowView(after).waits = IF s = "queued" THEN "delayed" ELSE "no"
       /\ RowView(after).cancel_requested = row.cancel_requested
  BY <1>1, <1>2, <1>3, <1>5, <1>6, ViewFields
<1>11. RowView(after) = left
  BY <1>7, <1>8, <1>9, <1>10, SameView
<1>12. QED
  BY <1>11 DEF after, left

LEMMA StartedView ==
  ASSUME NEW row \in Row, NEW t \in Token, now \in Nat
  PROVE  RowView(StartedRow(row, t)) = Leases!Start(RowView(row), t)
<1> DEFINE after == StartedRow(row, t)
           start == Leases!Start(RowView(row), t)
<1>1. after \in Row /\ RowView(row) \in Leases!JobState
  BY StartedRowType, ViewType
<1>2. /\ after.status = "running" /\ after.attempt = row.attempt + 1
      /\ after.max_attempts = row.max_attempts /\ after.lease_owner = t
      /\ after.lease_expires_at = now + LeaseSeconds
      /\ after.cancel_requested = row.cancel_requested
  BY DEF StartedRow, Row
<1>3. LeaseOf(after) = "live" /\ WaitOf(after) = "no"
  BY <1>2, ConstantsOK DEF LeaseOf, WaitOf
<1>4. /\ start.status = "running" /\ start.attempt = row.attempt + 1
      /\ start.max_attempts = row.max_attempts /\ start.holder = t
      /\ start.lease = "live" /\ start.waits = "no"
      /\ start.cancel_requested = row.cancel_requested
  BY <1>1, ViewFields DEF Leases!Start, Leases!JobState
<1>5. RowView(after) \in Leases!JobState
  BY <1>1, ViewType
<1>6. start \in Leases!JobState
  <2>1. RowView(row).attempt + 1 \in Nat
    BY <1>1 DEF Leases!JobState
  <2>2. QED
    BY <1>1, <2>1 DEF Leases!Start, Leases!JobState
<1> HIDE DEF after, start
<1>7. /\ RowView(after).status = "running" /\ RowView(after).attempt = row.attempt + 1
      /\ RowView(after).max_attempts = row.max_attempts /\ RowView(after).holder = t
      /\ RowView(after).lease = "live" /\ RowView(after).waits = "no"
      /\ RowView(after).cancel_requested = row.cancel_requested
  BY <1>1, <1>2, <1>3, ViewFields
<1>8. RowView(after) = start
  BY <1>4, <1>5, <1>6, <1>7, SameView
<1>9. QED
  BY <1>8 DEF after, start

LEMMA CancelRequestedView ==
  ASSUME NEW row \in Row
  PROVE  RowView(CancelRequestedRow(row)) = Leases!Request(RowView(row))
<1> DEFINE after == CancelRequestedRow(row)
           requested == Leases!Request(RowView(row))
<1>1. after \in Row /\ RowView(row) \in Leases!JobState
  BY CancelRequestedRowType, ViewType
<1>2. /\ after.status = row.status /\ after.attempt = row.attempt
      /\ after.max_attempts = row.max_attempts /\ after.lease_owner = row.lease_owner
      /\ after.lease_expires_at = row.lease_expires_at
      /\ after.available_at = row.available_at /\ after.cancel_requested = TRUE
  BY DEF CancelRequestedRow, Row
<1>3. /\ requested.status = row.status /\ requested.attempt = row.attempt
      /\ requested.max_attempts = row.max_attempts
      /\ requested.holder = row.lease_owner /\ requested.lease = LeaseOf(row)
      /\ requested.waits = WaitOf(row) /\ requested.cancel_requested = TRUE
  BY <1>1, ViewFields DEF Leases!Request, Leases!JobState
<1>4. RowView(after) \in Leases!JobState /\ requested \in Leases!JobState
  BY <1>1, ViewType DEF Leases!Request, Leases!JobState
<1> HIDE DEF after, requested
<1>5. LeaseOf(after) = LeaseOf(row) /\ WaitOf(after) = WaitOf(row)
  BY <1>2 DEF LeaseOf, WaitOf
<1>6. /\ RowView(after).status = row.status /\ RowView(after).attempt = row.attempt
      /\ RowView(after).max_attempts = row.max_attempts
      /\ RowView(after).holder = row.lease_owner
      /\ RowView(after).lease = LeaseOf(row) /\ RowView(after).waits = WaitOf(row)
      /\ RowView(after).cancel_requested = TRUE
  BY <1>1, <1>2, <1>5, ViewFields
<1>7. RowView(after) = requested
  BY <1>3, <1>4, <1>6, SameView
<1>8. QED
  BY <1>7 DEF after, requested

(* Renewing a live lease is invisible.                                      *)
LEMMA RenewedView ==
  ASSUME NEW row \in Row, now \in Nat, row.status = "running",
         row.lease_expires_at > now
  PROVE  RowView(RenewedRow(row)) = RowView(row)
<1> DEFINE after == RenewedRow(row)
<1>1. after \in Row
  BY RenewedRowType
<1>2. /\ after.status = row.status /\ after.attempt = row.attempt
      /\ after.max_attempts = row.max_attempts /\ after.lease_owner = row.lease_owner
      /\ after.lease_expires_at = now + LeaseSeconds
      /\ after.cancel_requested = row.cancel_requested
  BY DEF RenewedRow, Row
<1>3. LeaseOf(after) = LeaseOf(row) /\ WaitOf(after) = WaitOf(row)
  BY <1>2, ConstantsOK DEF LeaseOf, WaitOf
<1> HIDE DEF after
<1>4. RowView(after) \in Leases!JobState /\ RowView(row) \in Leases!JobState
  BY <1>1, ViewType
<1>5. /\ RowView(after).status = RowView(row).status
      /\ RowView(after).attempt = RowView(row).attempt
      /\ RowView(after).max_attempts = RowView(row).max_attempts
      /\ RowView(after).holder = RowView(row).holder
      /\ RowView(after).lease = RowView(row).lease
      /\ RowView(after).waits = RowView(row).waits
      /\ RowView(after).cancel_requested = RowView(row).cancel_requested
  BY <1>1, <1>2, <1>3, ViewFields
<1>6. RowView(after) = RowView(row)
  BY <1>4, <1>5, SameView
<1>7. QED
  BY <1>6 DEF after

(* The two modules agree on where a run goes.                               *)
LEMMA SameOutcome ==
  ASSUME NEW row \in Row, NEW outcome
  PROVE  /\ Leases!AfterFailedRun(RowView(row)) = AfterFailedRun(row)
         /\ Leases!AfterRun(RowView(row), outcome) = AfterRun(row, outcome)
BY ViewFields DEF Leases!AfterFailedRun, AfterFailedRun, Leases!AfterRun, AfterRun

-----------------------------------------------------------------------------
(* The view of the whole table.                                             *)

LEMMA ViewUnderSameClock ==
  ASSUME now' = now
  PROVE  leaseView' = [j \in JobId |-> RowView(jobs'[j])]
BY DEF leaseView, RowView, LeaseOf, WaitOf

LEMMA ViewOfAbsent == RowView(NoRow) = Leases!NoRow
BY DEF RowView, NoRow, Leases!NoRow

LEMMA StatusOfView ==
  ASSUME TypeOK, NEW j \in JobId
  PROVE  /\ leaseView[j] = RowView(jobs[j])
         /\ leaseView[j].status = jobs[j].status
<1>1. CASE jobs[j] = NoRow
  BY <1>1, ViewOfAbsent DEF leaseView, NoRow, Leases!NoRow
<1>2. CASE jobs[j] \in Row
  BY <1>2, ViewFields DEF leaseView
<1>3. QED
  BY <1>1, <1>2 DEF TypeOK

LEMMA InitIsLeasesInit == Init => Leases!LeasesInit
BY ViewOfAbsent DEF Init, Leases!LeasesInit, leaseView

(* Steps that change one row, seen through the view.                        *)
LEMMA OneRowView ==
  ASSUME TypeOK, NEW j \in JobId, NEW row, now' = now,
         jobs' = [jobs EXCEPT ![j] = row]
  PROVE  leaseView' = [leaseView EXCEPT ![j] = RowView(row)]
<1>1. leaseView' = [i \in JobId |-> RowView(jobs'[i])]
  BY ViewUnderSameClock
<1>2. \A i \in JobId : jobs'[i] = IF i = j THEN row ELSE jobs[i]
  BY DEF TypeOK
<1>3. leaseView = [i \in JobId |-> RowView(jobs[i])]
  BY DEF leaseView
<1>4. QED
  BY <1>1, <1>2, <1>3

LEMMA QueuedView ==
  ASSUME NEW o \in Owner, NEW k \in Kind, NEW m \in 1..100, NEW index \in BOOLEAN,
         NEW source \in JobId \cup {NoJob}, now \in Nat
  PROVE  RowView(QueuedRow(o, k, m, index, source)) = Leases!NewRow(m)
<1> DEFINE row == QueuedRow(o, k, m, index, source)
<1>1. row \in Row
  BY ConstantsOK DEF QueuedRow, Row, Status
<1>2. /\ row.status = "queued" /\ row.attempt = 0 /\ row.max_attempts = m
      /\ row.lease_owner = NoToken /\ row.available_at = now
      /\ row.cancel_requested = FALSE
  BY DEF QueuedRow
<1> HIDE DEF row
<1>3. LeaseOf(row) = "none" /\ WaitOf(row) = "due"
  BY <1>2 DEF LeaseOf, WaitOf
<1>4. row # NoRow
  BY <1>2 DEF NoRow
<1>5. RowView(row) = Leases!NewRow(m)
  BY <1>2, <1>3, <1>4 DEF RowView, Leases!NewRow
<1>6. QED
  BY <1>5 DEF row

-----------------------------------------------------------------------------
(* Every step of the queue is a step of the contract, or invisible.          *)

LEMMA EnqueueSimulated ==
  ASSUME TypeOK, NEW o \in Owner, NEW k \in Kind, NEW m \in Attempts,
         NEW index \in BOOLEAN, Create(o, k, m, index)
  PROVE  \E j \in JobId : Leases!Enqueue(j, m)
<1>1. PICK j \in JobId \ Rows :
        jobs' = [jobs EXCEPT ![j] = QueuedRow(o, k, m, index, NoJob)]
  BY DEF Create
<1>2. now' = now /\ issued' = issued /\ now \in Nat /\ m \in 1..100
  BY ConstantsOK DEF Create, TypeOK
<1>3. leaseView' = [leaseView EXCEPT ![j] = Leases!NewRow(m)]
  <2>1. RowView(QueuedRow(o, k, m, index, NoJob)) = Leases!NewRow(m)
    BY <1>2, QueuedView
  <2>2. leaseView' = [leaseView EXCEPT ![j] = RowView(QueuedRow(o, k, m, index, NoJob))]
    BY <1>1, <1>2, OneRowView
  <2>3. QED
    BY <2>1, <2>2
<1>4. leaseView[j].status = "absent"
  BY <1>1, StatusOfView DEF Rows
<1>5. QED
  BY <1>2, <1>3, <1>4 DEF Leases!Enqueue, Leases!Created

LEMMA ClaimSimulated ==
  ASSUME TypeOK, NEW o \in Owner, Claim(o)
  PROVE  \E j \in JobId, t \in Token : Leases!Claim(j, t)
<1>1. PICK j \in Claimable(o), t \in Token \ issued :
        /\ jobs' = [jobs EXCEPT ![j] = StartedRow(@, t)]
        /\ issued' = issued \cup {t}
  BY DEF Claim
<1>2. /\ j \in JobId /\ jobs[j] \in Row /\ jobs[j].status = "queued"
      /\ jobs[j].available_at <= now /\ jobs[j].attempt < jobs[j].max_attempts
      /\ now' = now /\ now \in Nat
  BY DEF Claim, Claimable, TypeOK, NoRow
<1>3. leaseView' = [leaseView EXCEPT ![j] = Leases!Start(leaseView[j], t)]
  <2>1. leaseView' = [leaseView EXCEPT ![j] = RowView(StartedRow(jobs[j], t))]
    BY <1>1, <1>2, OneRowView
  <2>2. QED
    BY <1>2, <2>1, StartedView, StatusOfView
<1>4. leaseView[j].waits = "due"
  <2>1. leaseView[j].waits = WaitOf(jobs[j])
    BY <1>2, StatusOfView, ViewFields
  <2>2. ~(jobs[j].available_at > now)
    BY <1>2 DEF Row
  <2>3. QED
    BY <1>2, <2>1, <2>2 DEF WaitOf
<1>5. /\ leaseView[j].status = "queued"
      /\ leaseView[j].attempt < leaseView[j].max_attempts
  BY <1>2, StatusOfView, ViewFields
<1>6. QED
  BY <1>1, <1>2, <1>3, <1>4, <1>5 DEF Leases!Claim

LEMMA LeaseHeldInView ==
  ASSUME TypeOK, NEW j \in JobId, NEW t, HoldsLease(j, t)
  PROVE  jobs[j] \in Row /\ Leases!HoldsLease(j, t)
<1>1. jobs[j] \in Row
  BY DEF HoldsLease, TypeOK, NoRow
<1>2. /\ leaseView[j].status = "running" /\ leaseView[j].holder = t
      /\ leaseView[j].lease = "live"
  BY <1>1, StatusOfView, ViewFields DEF HoldsLease, LeaseOf
<1>3. QED
  BY <1>1, <1>2 DEF Leases!HoldsLease, Leases!Running

LEMMA FinishSimulated ==
  ASSUME TypeOK, AgesOK, NEW j \in JobId, NEW t \in issued, NEW outcome \in Outcome,
         Finish(j, t, outcome)
  PROVE  Leases!Finish(j, t, outcome)
<1> DEFINE status == AfterRun(jobs[j], outcome)
<1>1. /\ HoldsLease(j, t) /\ now' = now /\ now \in Nat /\ issued' = issued
      /\ jobs' = [jobs EXCEPT ![j] =
                    Transition(jobs[j], status, outcome # "success")]
  BY DEF Finish, TypeOK
<1>2. jobs[j] \in Row /\ Leases!HoldsLease(j, t) /\ jobs[j].attempt >= 1
  BY <1>1, LeaseHeldInView DEF AgesOK, AgeOK, Rows, HoldsLease
<1>3. leaseView' = [leaseView EXCEPT ![j] =
                      RowView(Transition(jobs[j], status, outcome # "success"))]
  BY <1>1, OneRowView
<1>4. status \in Status \ {"running"}
  BY AfterRunType DEF Status, Settled
<1> HIDE DEF status
<1>5. RowView(Transition(jobs[j], status, outcome # "success"))
        = Leases!Leave(leaseView[j], status)
  BY <1>1, <1>2, <1>4, TransitionView, StatusOfView
<1>6. status = Leases!AfterRun(leaseView[j], outcome)
  BY <1>2, SameOutcome, StatusOfView DEF status
<1>7. QED
  BY <1>1, <1>2, <1>3, <1>5, <1>6 DEF Leases!Finish

LEMMA RecoverSimulated ==
  ASSUME TypeOK, AgesOK, NEW o \in Owner, RecoverExpired(o)
  PROVE  \E S \in SUBSET JobId : Leases!Recover(S)
<1> DEFINE S == Expired(o)
<1>1. /\ S # {} /\ S \subseteq JobId /\ now' = now /\ now \in Nat /\ issued' = issued
  BY DEF RecoverExpired, Expired, TypeOK
<1>2. ASSUME NEW j \in S
      PROVE  /\ jobs[j] \in Row /\ jobs[j].attempt >= 1
             /\ j \in Leases!Lapsed
  <2>1. /\ j \in JobId /\ jobs[j].status = "running"
        /\ jobs[j].lease_expires_at <= now
    BY DEF Expired
  <2>2. jobs[j] \in Row /\ jobs[j].attempt >= 1
    BY <2>1 DEF TypeOK, NoRow, AgesOK, AgeOK, Rows
  <2>3. ~(jobs[j].lease_expires_at > now)
    BY <1>1, <2>1, <2>2 DEF Row
  <2>4. leaseView[j].status = "running" /\ leaseView[j].lease = "lapsed"
    BY <2>1, <2>2, <2>3, StatusOfView, ViewFields DEF LeaseOf
  <2>5. QED
    BY <2>1, <2>2, <2>4 DEF Leases!Lapsed, Leases!Running
<1>3. leaseView' = [j \in JobId |->
                      IF j \in S
                      THEN Leases!Leave(leaseView[j], Leases!AfterFailedRun(leaseView[j]))
                      ELSE leaseView[j]]
  <2>1. leaseView' = [j \in JobId |-> RowView(jobs'[j])]
    BY <1>1, ViewUnderSameClock
  <2>2. ASSUME NEW j \in JobId, j \notin S PROVE RowView(jobs'[j]) = leaseView[j]
    BY <2>2 DEF RecoverExpired, leaseView
  <2>3. ASSUME NEW j \in S
        PROVE  RowView(jobs'[j])
                 = Leases!Leave(leaseView[j], Leases!AfterFailedRun(leaseView[j]))
    <3>1. jobs'[j] = Transition(jobs[j], AfterFailedRun(jobs[j]), TRUE)
      BY <1>1 DEF RecoverExpired
    <3>2. AfterFailedRun(jobs[j]) \in Status \ {"running"}
      BY AfterFailedRunType DEF Status, Settled
    <3>3. RowView(jobs'[j])
            = Leases!Leave(RowView(jobs[j]), AfterFailedRun(jobs[j]))
      BY <1>1, <1>2, <3>1, <3>2, TransitionView
    <3>4. RowView(jobs[j]) = leaseView[j]
      BY <1>1, StatusOfView
    <3>5. Leases!AfterFailedRun(RowView(jobs[j])) = AfterFailedRun(jobs[j])
      BY <1>2, SameOutcome
    <3>6. QED
      BY <3>3, <3>4, <3>5
  <2>4. QED
    BY <2>1, <2>2, <2>3
<1>4. S \subseteq Leases!Lapsed
  BY <1>2
<1>5. QED
  BY <1>1, <1>3, <1>4 DEF Leases!Recover, Leases!Recovered

LEMMA CancelQueuedSimulated ==
  ASSUME TypeOK, NEW j \in JobId, CancelQueued(j)
  PROVE  Leases!Cancel(j)
<1>1. /\ jobs[j].status = "queued" /\ ~jobs[j].cancel_requested
      /\ now' = now /\ now \in Nat /\ issued' = issued
      /\ jobs' = [jobs EXCEPT ![j] =
                    Transition(CancelRequestedRow(jobs[j]), "cancelled", FALSE)]
  BY DEF CancelQueued, TypeOK
<1>2. jobs[j] \in Row
  BY <1>1 DEF TypeOK, NoRow
<1>3. CancelRequestedRow(jobs[j]) \in Row
  BY <1>2, CancelRequestedRowType
<1>4. leaseView[j].status = "queued" /\ ~leaseView[j].cancel_requested
      /\ leaseView[j] = RowView(jobs[j])
  BY <1>1, <1>2, StatusOfView, ViewFields
<1>5. RowView(Transition(CancelRequestedRow(jobs[j]), "cancelled", FALSE))
        = Leases!Leave(Leases!Request(leaseView[j]), "cancelled")
  <2>1. "cancelled" \in Status \ {"running"}
    BY DEF Status, Settled
  <2>2. RowView(Transition(CancelRequestedRow(jobs[j]), "cancelled", FALSE))
          = Leases!Leave(RowView(CancelRequestedRow(jobs[j])), "cancelled")
    BY <1>1, <1>3, <2>1, TransitionView
  <2>3. QED
    BY <1>2, <1>4, <2>2, CancelRequestedView
<1>6. leaseView' = [leaseView EXCEPT ![j] =
                      Leases!Leave(Leases!Request(leaseView[j]), "cancelled")]
  BY <1>1, <1>5, OneRowView
<1>7. QED
  BY <1>1, <1>4, <1>6 DEF Leases!Cancel

LEMMA CancelRunningSimulated ==
  ASSUME TypeOK, NEW j \in JobId, CancelRunning(j)
  PROVE  Leases!Cancel(j)
<1>1. /\ jobs[j].status = "running" /\ ~jobs[j].cancel_requested
      /\ now' = now /\ issued' = issued
      /\ jobs' = [jobs EXCEPT ![j] = CancelRequestedRow(jobs[j])]
  BY DEF CancelRunning
<1>2. jobs[j] \in Row
  BY <1>1 DEF TypeOK, NoRow
<1>3. leaseView[j].status = "running" /\ ~leaseView[j].cancel_requested
      /\ leaseView[j] = RowView(jobs[j])
  BY <1>1, <1>2, StatusOfView, ViewFields
<1>4. leaseView' = [leaseView EXCEPT ![j] = Leases!Request(leaseView[j])]
  <2>1. leaseView' = [leaseView EXCEPT ![j] = RowView(CancelRequestedRow(jobs[j]))]
    BY <1>1, OneRowView
  <2>2. QED
    BY <1>2, <1>3, <2>1, CancelRequestedView
<1>5. QED
  BY <1>1, <1>3, <1>4 DEF Leases!Cancel

LEMMA HeartbeatInvisible ==
  ASSUME TypeOK, NEW j \in JobId, NEW t \in issued, Heartbeat(j, t)
  PROVE  leaseView' = leaseView /\ issued' = issued
<1>1. /\ HoldsLease(j, t) /\ now' = now /\ now \in Nat /\ issued' = issued
      /\ jobs' = [jobs EXCEPT ![j] = RenewedRow(jobs[j])]
  BY DEF Heartbeat, TypeOK
<1>2. jobs[j] \in Row
  BY <1>1, LeaseHeldInView
<1>3. RowView(RenewedRow(jobs[j])) = leaseView[j]
  BY <1>1, <1>2, RenewedView, StatusOfView DEF HoldsLease
<1>4. leaseView' = [leaseView EXCEPT ![j] = leaseView[j]]
  BY <1>1, <1>3, OneRowView
<1>5. QED
  BY <1>1, <1>4 DEF leaseView

LEMMA RetrySimulated ==
  ASSUME TypeOK, BudgetsOK, NEW j \in JobId, Retry(j)
  PROVE  \E n \in JobId, m \in Attempts :
           leaseView[n].status = "absent"
           /\ leaseView' = [leaseView EXCEPT ![n] = Leases!NewRow(m)]
<1>1. PICK n \in JobId \ Rows :
        jobs' = [jobs EXCEPT ![n] = QueuedRow(jobs[j].owner, jobs[j].kind,
                                              jobs[j].max_attempts, FALSE, j)]
  BY DEF Retry
<1>2. now' = now /\ now \in Nat
  BY DEF Retry, TypeOK
<1>3. jobs[j] \in Row
  BY DEF Retry, TypeOK, NoRow
<1>4. /\ jobs[j].owner \in Owner /\ jobs[j].kind \in Kind
      /\ jobs[j].max_attempts \in 1..100 /\ jobs[j].max_attempts \in Attempts
  BY <1>3 DEF Row, BudgetsOK, Rows, Retry
<1>5. leaseView' = [leaseView EXCEPT ![n] = Leases!NewRow(jobs[j].max_attempts)]
  <2> DEFINE row == QueuedRow(jobs[j].owner, jobs[j].kind, jobs[j].max_attempts, FALSE, j)
  <2>1. RowView(row) = Leases!NewRow(jobs[j].max_attempts)
    BY <1>2, <1>4, QueuedView
  <2>2. leaseView' = [leaseView EXCEPT ![n] = RowView(row)]
    BY <1>1, <1>2, OneRowView
  <2>3. QED
    BY <2>1, <2>2
<1>6. leaseView[n].status = "absent"
  BY <1>1, StatusOfView DEF Rows
<1>7. QED
  BY <1>4, <1>5, <1>6

(* The view of a row one second later.                                       *)
ViewLater(row) ==
  IF row.status = "running" /\ row.lease_expires_at <= now + 1
  THEN [RowView(row) EXCEPT !.lease = "lapsed"]
  ELSE IF row.status = "queued" /\ row.available_at <= now + 1
       THEN [RowView(row) EXCEPT !.waits = "due"]
       ELSE RowView(row)

LEMMA ViewAges ==
  ASSUME NEW row \in Row, now \in Nat, now' = now + 1
  PROVE  RowView(row)' = ViewLater(row)
<1> DEFINE view == RowView(row)
           later == RowView(row)'
           aged == ViewLater(row)
<1>1. /\ row # NoRow /\ row.lease_expires_at \in Nat /\ row.available_at \in Nat
      /\ ~(row.status = "running" /\ row.status = "queued")
  BY DEF Row, Status, Settled, NoRow
<1>2. /\ later.status = row.status /\ later.attempt = row.attempt
      /\ later.max_attempts = row.max_attempts /\ later.holder = row.lease_owner
      /\ later.lease = LeaseOf(row)' /\ later.waits = WaitOf(row)'
      /\ later.cancel_requested = row.cancel_requested
  BY <1>1 DEF RowView
<1>3. later \in Leases!JobState
  BY <1>1 DEF RowView, Row, Leases!JobState, LeaseOf, WaitOf, Status, Settled,
              Leases!Settled
<1>4. view \in Leases!JobState
  BY ViewType
<1>5. LeaseOf(row)' = IF row.status = "running" /\ row.lease_expires_at <= now + 1
                      THEN "lapsed" ELSE LeaseOf(row)
  BY <1>1 DEF LeaseOf
<1>6. WaitOf(row)' = IF row.status = "queued" /\ row.available_at <= now + 1
                     THEN "due" ELSE WaitOf(row)
  BY <1>1 DEF WaitOf
<1>7. aged \in Leases!JobState
  BY <1>4 DEF ViewLater, Leases!JobState
<1>8. /\ view.status = row.status /\ view.attempt = row.attempt
      /\ view.max_attempts = row.max_attempts /\ view.holder = row.lease_owner
      /\ view.lease = LeaseOf(row) /\ view.waits = WaitOf(row)
      /\ view.cancel_requested = row.cancel_requested
  BY ViewFields
<1>9. /\ aged.status = row.status /\ aged.attempt = row.attempt
      /\ aged.max_attempts = row.max_attempts /\ aged.holder = row.lease_owner
      /\ aged.cancel_requested = row.cancel_requested
  BY <1>4, <1>8 DEF ViewLater, Leases!JobState
<1>10. /\ aged.lease = IF row.status = "running" /\ row.lease_expires_at <= now + 1
                       THEN "lapsed" ELSE LeaseOf(row)
       /\ aged.waits = IF row.status = "queued" /\ row.available_at <= now + 1
                       THEN "due" ELSE WaitOf(row)
  BY <1>1, <1>4, <1>8 DEF ViewLater, Leases!JobState
<1> HIDE DEF later, aged, view
<1>11. later = aged
  BY <1>2, <1>3, <1>5, <1>6, <1>7, <1>9, <1>10, SameView
<1>12. QED
  BY <1>11 DEF later, aged

LEMMA TickSimulated ==
  ASSUME TypeOK, Tick
  PROVE  \E L, D \in SUBSET JobId : Leases!TimePasses(L, D)
<1> DEFINE L == {j \in JobId : jobs[j].status = "running"
                               /\ jobs[j].lease_expires_at <= now + 1}
           D == {j \in JobId : jobs[j].status = "queued"
                               /\ jobs[j].available_at <= now + 1}
<1>1. now' = now + 1 /\ now \in Nat /\ jobs' = jobs /\ issued' = issued
  BY DEF Tick, TypeOK
<1>2. \A j \in JobId : jobs[j] = NoRow \/ jobs[j] \in Row
  BY DEF TypeOK
<1>3. L \subseteq Leases!Running
      /\ D \subseteq {j \in JobId : leaseView[j].status = "queued"}
  BY StatusOfView DEF Leases!Running
<1>4. ASSUME NEW j \in JobId
      PROVE  leaseView'[j] = IF j \in L THEN [leaseView[j] EXCEPT !.lease = "lapsed"]
                             ELSE IF j \in D THEN [leaseView[j] EXCEPT !.waits = "due"]
                             ELSE leaseView[j]
  <2>1. leaseView'[j] = RowView(jobs[j])' /\ leaseView[j] = RowView(jobs[j])
    BY <1>1 DEF leaseView
  <2>2. CASE jobs[j] = NoRow
    <3>1. jobs[j].status = "absent" /\ jobs'[j] = NoRow
      BY <1>1, <2>2 DEF NoRow
    <3>2. RowView(jobs[j])' = RowView(jobs[j])
      BY <2>2, <3>1 DEF RowView
    <3>3. QED
      BY <2>1, <3>1, <3>2
  <2>3. CASE jobs[j] \in Row
    <3>1. RowView(jobs[j])' = ViewLater(jobs[j])
      BY <1>1, <2>3, ViewAges
    <3>2. QED
      BY <2>1, <3>1 DEF ViewLater
  <2>4. QED
    BY <1>2, <2>2, <2>3
<1>5. leaseView' = [j \in JobId |->
                      IF j \in L THEN [leaseView[j] EXCEPT !.lease = "lapsed"]
                      ELSE IF j \in D THEN [leaseView[j] EXCEPT !.waits = "due"]
                      ELSE leaseView[j]]
  <2>1. leaseView' = [j \in JobId |-> leaseView'[j]]
    BY DEF leaseView
  <2>2. QED
    BY <1>4, <2>1
<1>6. QED
  BY <1>1, <1>3, <1>5 DEF Leases!TimePasses

LEMMA StepSimulated ==
  ASSUME TypeOK, AgesOK, BudgetsOK, [Next]_vars
  PROVE  [Leases!LeasesNext]_(Leases!leaseVars)
<1> USE DEF Leases!LeasesNext
<1>1. ASSUME NEW o \in Owner, NEW k \in Kind, NEW m \in Attempts,
             NEW index \in BOOLEAN, Create(o, k, m, index)
      PROVE  Leases!LeasesNext
  <2>1. PICK j \in JobId : Leases!Enqueue(j, m)
    BY <1>1, EnqueueSimulated
  <2>2. QED
    BY <2>1
<1>2. ASSUME NEW o \in Owner, Claim(o) PROVE Leases!LeasesNext
  BY <1>2, ClaimSimulated
<1>3. ASSUME NEW j \in JobId, NEW t \in issued, Heartbeat(j, t)
      PROVE  UNCHANGED Leases!leaseVars
  BY <1>3, HeartbeatInvisible DEF Leases!leaseVars
<1>4. ASSUME NEW j \in JobId, NEW t \in issued, AppendEvent(j, t)
      PROVE  UNCHANGED Leases!leaseVars
  <2>1. now' = now /\ jobs' = jobs /\ issued' = issued
    BY <1>4 DEF AppendEvent
  <2>2. leaseView' = leaseView
    BY <2>1, ViewUnderSameClock DEF leaseView
  <2>3. QED
    BY <2>1, <2>2 DEF Leases!leaseVars
<1>5. ASSUME NEW j \in JobId, NEW t \in issued, NEW outcome \in Outcome,
             Finish(j, t, outcome)
      PROVE  Leases!LeasesNext
  <2>1. outcome \in Leases!Outcome
    BY DEF Outcome, Leases!Outcome
  <2>2. QED
    BY <1>5, <2>1, FinishSimulated
<1>6. ASSUME NEW o \in Owner, RecoverExpired(o) PROVE Leases!LeasesNext
  BY <1>6, RecoverSimulated
<1>7. ASSUME NEW j \in JobId, CancelQueued(j) PROVE Leases!LeasesNext
  BY <1>7, CancelQueuedSimulated
<1>8. ASSUME NEW j \in JobId, CancelRunning(j) PROVE Leases!LeasesNext
  BY <1>8, CancelRunningSimulated
<1>9. ASSUME NEW j \in JobId, Retry(j) PROVE Leases!LeasesNext
  <2>1. PICK n \in JobId, m \in Attempts :
          leaseView[n].status = "absent"
          /\ leaseView' = [leaseView EXCEPT ![n] = Leases!NewRow(m)]
    BY <1>9, RetrySimulated
  <2>2. issued' = issued
    BY <1>9 DEF Retry
  <2>3. Leases!Enqueue(n, m)
    BY <2>1, <2>2 DEF Leases!Enqueue, Leases!Created
  <2>4. QED
    BY <2>3
<1>10. ASSUME Tick PROVE Leases!LeasesNext
  BY <1>10, TickSimulated
<1>11. ASSUME UNCHANGED vars PROVE UNCHANGED Leases!leaseVars
  <2>1. now' = now /\ jobs' = jobs /\ issued' = issued
    BY <1>11 DEF vars
  <2>2. leaseView' = leaseView
    BY <2>1, ViewUnderSameClock DEF leaseView
  <2>3. QED
    BY <2>1, <2>2 DEF Leases!leaseVars
<1> HIDE DEF Leases!LeasesNext
<1>12. QED
  BY <1>1, <1>2, <1>3, <1>4, <1>5, <1>6, <1>7, <1>8, <1>9, <1>10, <1>11
     DEF Next

(* The queue implements its contract: whatever is true of the lease protocol *)
(* of JobLeases is true of the table, so the worker and the indexing task    *)
(* may be studied on the contract alone.                                     *)
THEOREM QueueImplementsLeases == Spec => ImplementsLeases
<1>1. Init => Leases!LeasesInit
  BY InitIsLeasesInit
<1>2. TypeOK /\ AgesOK /\ BudgetsOK /\ [Next]_vars
        => [Leases!LeasesNext]_(Leases!leaseVars)
  BY StepSimulated
<1>3. QED
  BY <1>1, <1>2, TypeCorrect, AgesAlwaysOK, BudgetsAlwaysOK, PTL
     DEF Spec, ImplementsLeases, Leases!LeasesSpec
===============================================================================
