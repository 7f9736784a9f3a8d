----------------------------- MODULE LeasedRunProofs -----------------------------
(* Theorems about JobLeases and the two modules that run jobs under its     *)
(* leases, for every value of their constants: BackgroundWorker, the        *)
(* executor with its slots, and DocumentIndexing, the handler with the      *)
(* tables and vectors it changes.                                           *)
EXTENDS BackgroundWorker, DocumentIndexing, FiniteSetTheorems, TLAPS

(***************************************************************************)
(* The leases.  The worker and document indexing change several rows in    *)
(* one step, so the lemmas are about what a step can do to one row         *)
(* (RowStep), and a table all of whose rows take such steps (TableStep).   *)
(***************************************************************************)

-----------------------------------------------------------------------------
(* What can happen to the row of job j.                                     *)
RowCreated(j) ==
  job[j].status = "absent" /\ \E m \in Attempts : job'[j] = NewRow(m)
RowStarted(j) ==
  /\ job[j].status = "queued" /\ job[j].attempt < job[j].max_attempts
  /\ \E t \in Token \ issued : /\ job'[j] = Start(job[j], t)
                               /\ issued' = issued \cup {t}
RowLeft(j) ==
  job[j].status = "running" /\
  \E outcome \in Outcome : job'[j] = Leave(job[j], AfterRun(job[j], outcome))
RowCancelled(j) ==
  job[j].status = "queued" /\ job'[j] = Leave(Request(job[j]), "cancelled")
RowMarked(j) ==
  job[j].status = "running" /\ job'[j] = Request(job[j])
RowLapsed(j) ==
  job[j].status = "running" /\ job'[j] = [job[j] EXCEPT !.lease = "lapsed"]
RowDue(j) ==
  job[j].status = "queued" /\ job'[j] = [job[j] EXCEPT !.waits = "due"]

RowStep(j) ==
  \/ job'[j] = job[j]
  \/ RowCreated(j) \/ RowStarted(j) \/ RowLeft(j) \/ RowCancelled(j)
  \/ RowMarked(j) \/ RowLapsed(j) \/ RowDue(j)

(* At most one row is started in a step, so each token goes to one job.     *)
TableStep ==
  /\ job' = [j \in JobId |-> job'[j]]
  /\ issued \subseteq issued' /\ issued' \subseteq Token
  /\ \A j \in JobId : RowStep(j)
  /\ \A i, j \in JobId : RowStarted(i) /\ RowStarted(j) => i = j

-----------------------------------------------------------------------------
(* What is true of every row, and of any two.                               *)
RowOK(j) ==
  /\ job[j].status = "queued" =>
       ~job[j].cancel_requested /\ job[j].attempt < job[j].max_attempts
  /\ job[j].status = "running" =>
       /\ job[j].holder \in issued /\ job[j].lease \in {"live", "lapsed"}
       /\ job[j].attempt <= job[j].max_attempts
  /\ job[j].status \notin {"running", "absent"} => job[j].holder = NoToken

OneJobPerToken ==
  \A i, j \in Running : job[i].holder = job[j].holder => i = j

LeasesInv ==
  /\ LeasesTypeOK
  /\ \A j \in JobId : RowOK(j)
  /\ OneJobPerToken

-----------------------------------------------------------------------------
LEMMA RowTypes ==
  ASSUME LeasesTypeOK, NEW j \in JobId
  PROVE  /\ job[j] = NoRow \/ job[j] \in JobState
         /\ job[j].status = "absent" <=> job[j] = NoRow
         /\ job[j].status # "absent" <=> job[j] \in JobState
         /\ job[j].status \in {"absent", "queued", "running"} \cup Settled
<1>1. job[j] \in JobState \cup {NoRow}
  BY DEF LeasesTypeOK
<1>2. NoRow.status = "absent" /\ "absent" \notin {"queued", "running"} \cup Settled
  BY DEF NoRow, Settled
<1>3. \A row \in JobState : row.status \in {"queued", "running"} \cup Settled
  BY DEF JobState
<1>4. QED
  BY <1>1, <1>2, <1>3

LEMMA AfterRunType ==
  ASSUME NEW row, NEW outcome
  PROVE  /\ AfterRun(row, outcome) \in {"queued", "succeeded", "failed", "cancelled"}
         /\ AfterRun(row, outcome) = "queued" =>
              ~row.cancel_requested /\ row.attempt < row.max_attempts
         /\ AfterRun(row, outcome) = "succeeded" =>
              ~row.cancel_requested /\ outcome = "success"
BY DEF AfterRun, AfterFailedRun

LEMMA AfterFailureIsAfterRun ==
  ASSUME NEW row
  PROVE  AfterFailedRun(row) = AfterRun(row, "failure") /\ "failure" \in Outcome
BY DEF AfterRun, Outcome

LEMMA NewRowType ==
  ASSUME NEW m \in Attempts
  PROVE  /\ NewRow(m) \in JobState
         /\ NewRow(m).status = "queued" /\ ~NewRow(m).cancel_requested
         /\ NewRow(m).attempt < NewRow(m).max_attempts
         /\ NewRow(m).holder = NoToken
<1>1. m \in 1..100 /\ 0 \in Nat /\ 0 < m
  BY LeasesAssumption
<1>2. QED
  BY <1>1 DEF NewRow, JobState

LEMMA StartType ==
  ASSUME NEW row \in JobState, NEW t \in Token, row.attempt < row.max_attempts
  PROVE  /\ Start(row, t) \in JobState
         /\ Start(row, t).status = "running" /\ Start(row, t).holder = t
         /\ Start(row, t).lease = "live"
         /\ Start(row, t).attempt <= Start(row, t).max_attempts
         /\ Start(row, t).cancel_requested = row.cancel_requested
<1>1. row.attempt \in Nat /\ row.attempt + 1 \in Nat /\ row.max_attempts \in Nat
  BY DEF JobState
<1>2. Start(row, t) \in JobState
  BY <1>1 DEF Start, JobState
<1>3. Start(row, t).attempt = row.attempt + 1 /\ Start(row, t).max_attempts = row.max_attempts
  BY DEF Start, JobState
<1>4. Start(row, t).attempt <= Start(row, t).max_attempts
  BY <1>1, <1>3
<1>5. QED
  BY <1>2, <1>4 DEF Start, JobState

LEMMA LeaveType ==
  ASSUME NEW row \in JobState, NEW status \in {"queued"} \cup Settled
  PROVE  /\ Leave(row, status) \in JobState
         /\ Leave(row, status).status = status
         /\ Leave(row, status).holder = NoToken
         /\ Leave(row, status).attempt = row.attempt
         /\ Leave(row, status).max_attempts = row.max_attempts
         /\ Leave(row, status).cancel_requested = row.cancel_requested
<1>1. CASE status = "queued"
  BY <1>1 DEF Leave, JobState, Settled
<1>2. CASE status # "queued"
  BY <1>2 DEF Leave, JobState, Settled
<1>3. QED
  BY <1>1, <1>2

LEMMA RequestType ==
  ASSUME NEW row \in JobState
  PROVE  /\ Request(row) \in JobState
         /\ Request(row).status = row.status /\ Request(row).holder = row.holder
         /\ Request(row).lease = row.lease /\ Request(row).attempt = row.attempt
         /\ Request(row).max_attempts = row.max_attempts
         /\ Request(row).cancel_requested
BY DEF Request, JobState

LEMMA TimeType ==
  ASSUME NEW row \in JobState, NEW lapsed, NEW due,
         lapsed = [row EXCEPT !.lease = "lapsed"], due = [row EXCEPT !.waits = "due"]
  PROVE  \A r \in {lapsed, due} :
           /\ r \in JobState /\ r.status = row.status /\ r.holder = row.holder
           /\ r.attempt = row.attempt /\ r.max_attempts = row.max_attempts
           /\ r.cancel_requested = row.cancel_requested
           /\ r.lease \in {row.lease, "lapsed"}
BY DEF JobState

-----------------------------------------------------------------------------
(* What a step of a row does to what the proofs need of it.                 *)
RowEffect(j) ==
  /\ job'[j] = NoRow \/ job'[j] \in JobState
  /\ RowOK(j)'
  /\ job[j].status # "absent" => job'[j].status # "absent"
  /\ job[j].status \in Settled => job'[j] = job[j]
  /\ job'[j].status = "running" =>
       \/ job[j].status = "running" /\ job'[j].holder = job[j].holder
       \/ RowStarted(j) /\ job'[j].holder \in issued' \ issued
  /\ (job[j].status = "running" /\ job'[j].status = "running") =>
       /\ job'[j].lease = "live" => job[j].lease = "live"
       /\ job[j].cancel_requested => job'[j].cancel_requested
  /\ (job'[j].status = "succeeded" /\ job[j].status # "succeeded") =>
       job[j].status = "running" /\ ~job[j].cancel_requested

LEMMA RowStepEffect ==
  ASSUME LeasesTypeOK, issued \subseteq issued', NEW j \in JobId, RowOK(j), RowStep(j)
  PROVE  RowEffect(j)
<1> DEFINE row == job[j]
<1>1. /\ row = NoRow \/ row \in JobState
      /\ row.status = "absent" <=> row = NoRow
      /\ row.status # "absent" <=> row \in JobState
      /\ row.status \in {"absent", "queued", "running"} \cup Settled
  BY RowTypes
<1>2. CASE job'[j] = job[j]
  BY <1>1, <1>2 DEF RowEffect, RowOK
<1>3. CASE RowCreated(j)
  <2>1. PICK m \in Attempts : job'[j] = NewRow(m)
    BY <1>3 DEF RowCreated
  <2>2. QED
    BY <1>3, <2>1, NewRowType DEF RowCreated, RowEffect, RowOK, Settled
<1>4. CASE RowStarted(j)
  <2>1. PICK t \in Token \ issued : job'[j] = Start(row, t) /\ issued' = issued \cup {t}
    BY <1>4 DEF RowStarted
  <2>2. row \in JobState /\ row.status = "queued" /\ row.attempt < row.max_attempts
    BY <1>1, <1>4 DEF RowStarted
  <2>3. QED
    BY <1>4, <2>1, <2>2, StartType DEF RowEffect, RowOK, Settled
<1>5. CASE RowLeft(j)
  <2>1. PICK outcome \in Outcome : job'[j] = Leave(row, AfterRun(row, outcome))
    BY <1>5 DEF RowLeft
  <2>2. row \in JobState /\ row.status = "running"
    BY <1>1, <1>5 DEF RowLeft
  <2> DEFINE status == AfterRun(row, outcome)
  <2>3. /\ status \in {"queued"} \cup Settled
        /\ status = "queued" => ~row.cancel_requested /\ row.attempt < row.max_attempts
        /\ status = "succeeded" => ~row.cancel_requested
    BY AfterRunType DEF Settled
  <2> HIDE DEF status
  <2>4. QED
    BY <2>1, <2>2, <2>3, LeaveType DEF RowEffect, RowOK, Settled, status
<1>6. CASE RowCancelled(j)
  <2>1. row \in JobState /\ row.status = "queued"
    BY <1>1, <1>6 DEF RowCancelled
  <2>2. Request(row) \in JobState /\ "cancelled" \in {"queued"} \cup Settled
    BY <2>1, RequestType DEF Settled
  <2>3. QED
    BY <1>6, <2>1, <2>2, LeaveType DEF RowCancelled, RowEffect, RowOK, Settled
<1>7. CASE RowMarked(j)
  <2>1. row \in JobState /\ row.status = "running"
    BY <1>1, <1>7 DEF RowMarked
  <2>2. QED
    BY <1>7, <2>1, RequestType DEF RowMarked, RowEffect, RowOK, Settled
<1>8. CASE RowLapsed(j) \/ RowDue(j)
  <2>1. row \in JobState /\ row.status \in {"queued", "running"}
    BY <1>1, <1>8 DEF RowLapsed, RowDue
  <2>2. /\ job'[j] \in JobState /\ job'[j].status = row.status
        /\ job'[j].holder = row.holder
        /\ job'[j].attempt = row.attempt /\ job'[j].max_attempts = row.max_attempts
        /\ job'[j].cancel_requested = row.cancel_requested
        /\ job'[j].lease \in {row.lease, "lapsed"}
    BY <1>8, <2>1, TimeType DEF RowLapsed, RowDue
  <2>3. QED
    BY <2>1, <2>2 DEF RowEffect, RowOK, Settled
<1>9. QED
  BY <1>2, <1>3, <1>4, <1>5, <1>6, <1>7, <1>8 DEF RowStep

(* A job succeeds only by leaving its run.                                  *)
LEMMA SuccessIsRowLeft ==
  ASSUME LeasesInv, TableStep, NEW j \in JobId,
         job[j].status # "succeeded", job'[j].status = "succeeded"
  PROVE  RowLeft(j)
<1>1. RowStep(j) /\ LeasesTypeOK
  BY DEF TableStep, LeasesInv
<1>2. /\ job[j] = NoRow \/ job[j] \in JobState
      /\ job[j].status = "absent" <=> job[j] = NoRow
  BY <1>1, RowTypes
<1>3. ~RowCreated(j)
  BY NewRowType DEF RowCreated
<1>4. ~RowStarted(j)
  BY <1>1, RowTypes, StartType DEF RowStarted
<1>5. ~RowCancelled(j) /\ ~RowMarked(j)
  <2>1. job[j].status \in {"queued", "running"} => job[j] \in JobState
    BY <1>1, RowTypes
  <2>2. ASSUME job[j] \in JobState
        PROVE  /\ Leave(Request(job[j]), "cancelled").status = "cancelled"
               /\ Request(job[j]).status = job[j].status
    BY <2>2, RequestType, LeaveType DEF Settled
  <2>3. QED
    BY <2>1, <2>2 DEF RowCancelled, RowMarked
<1>6. ~RowLapsed(j) /\ ~RowDue(j)
  <2>1. job[j].status \in {"queued", "running"} => job[j] \in JobState
    BY <1>1, RowTypes
  <2>2. QED
    BY <2>1, TimeType DEF RowLapsed, RowDue
<1>7. QED
  BY <1>1, <1>3, <1>4, <1>5, <1>6 DEF RowStep

(* A table whose rows take such steps keeps its invariant.                  *)
LEMMA TableStepKeepsInv ==
  ASSUME LeasesInv, TableStep
  PROVE  LeasesInv' /\ \A j \in JobId : RowEffect(j)
<1>1. \A j \in JobId : RowEffect(j)
  BY RowStepEffect DEF LeasesInv, TableStep
<1>2. LeasesTypeOK'
  BY <1>1 DEF LeasesTypeOK, TableStep, RowEffect
<1>3. \A j \in JobId : RowOK(j)'
  BY <1>1 DEF RowEffect
<1>4. OneJobPerToken'
  <2> SUFFICES ASSUME NEW i \in JobId, NEW j \in JobId, job'[i].status = "running",
                      job'[j].status = "running", job'[i].holder = job'[j].holder
               PROVE  i = j
    BY DEF OneJobPerToken, Running
  <2>1. \A k \in {i, j} : \/ job[k].status = "running" /\ job'[k].holder = job[k].holder
                          \/ RowStarted(k) /\ job'[k].holder \in issued' \ issued
    BY <1>1 DEF RowEffect
  <2>2. \A k \in {i, j} : job[k].status = "running" => job[k].holder \in issued
    BY DEF LeasesInv, RowOK
  <2>3. QED
    BY <2>1, <2>2 DEF LeasesInv, OneJobPerToken, Running, TableStep
<1>5. QED
  BY <1>1, <1>2, <1>3, <1>4 DEF LeasesInv

(* Who holds a lease after a step held it before, if the token is not new,  *)
(* and a cancel request is still there.                                     *)
LEMMA LeaseHeldBefore ==
  ASSUME NEW j \in JobId, RowEffect(j), NEW t \in issued, HoldsLease(j, t)'
  PROVE  /\ HoldsLease(j, t)
         /\ job[j].cancel_requested => job'[j].cancel_requested
BY DEF HoldsLease, Running, RowEffect

-----------------------------------------------------------------------------
(* The steps of the queue, alone or combined, are table steps.              *)
LEMMA NothingStarted ==
  ASSUME issued' = issued
  PROVE  \A j \in JobId : ~RowStarted(j)
BY DEF RowStarted

LEMMA UnchangedStep ==
  ASSUME LeasesInv, UNCHANGED leaseVars
  PROVE  TableStep
BY DEF LeasesInv, LeasesTypeOK, leaseVars, TableStep, RowStep, RowStarted

LEMMA OneRowStep ==
  ASSUME LeasesInv, NEW j \in JobId, NEW r, job' = [job EXCEPT ![j] = r],
         issued' = issued,
         job'[j] = r => RowStep(j)
  PROVE  TableStep
<1>1. job \in [JobId -> JobState \cup {NoRow}] /\ issued \subseteq Token
  BY DEF LeasesInv, LeasesTypeOK
<1>2. job' = [i \in JobId |-> job'[i]] /\ job'[j] = r
  BY <1>1
<1>3. \A i \in JobId : i # j => job'[i] = job[i]
  BY <1>1
<1>4. \A i \in JobId : RowStep(i)
  BY <1>2, <1>3 DEF RowStep
<1>5. QED
  BY <1>1, <1>2, <1>4, NothingStarted DEF TableStep

LEMMA EnqueueStep ==
  ASSUME LeasesInv, NEW j \in JobId, NEW m \in Attempts, Enqueue(j, m)
  PROVE  TableStep
<1>1. job[j].status = "absent"
  BY DEF Enqueue, Created
<1>2. QED
  BY <1>1, OneRowStep DEF Enqueue, RowStep, RowCreated

LEMMA LeaveStep ==
  ASSUME LeasesInv, NEW j \in Running, NEW outcome \in Outcome, issued' = issued,
         job' = [job EXCEPT ![j] = Leave(@, AfterRun(@, outcome))]
  PROVE  TableStep
<1>1. j \in JobId /\ job[j].status = "running"
  BY DEF Running
<1>2. QED
  BY <1>1, OneRowStep DEF RowStep, RowLeft

LEMMA CancelStep ==
  ASSUME LeasesInv, NEW j \in JobId, Cancel(j)
  PROVE  TableStep
<1>1. CASE job[j].status = "queued"
  BY <1>1, OneRowStep DEF Cancel, RowStep, RowCancelled
<1>2. CASE job[j].status = "running"
  BY <1>2, OneRowStep DEF Cancel, RowStep, RowMarked
<1>3. QED
  BY <1>1, <1>2 DEF Cancel

LEMMA TimeStep ==
  ASSUME LeasesInv, NEW L, NEW D, TimePasses(L, D)
  PROVE  TableStep
<1>1. ASSUME NEW j \in JobId PROVE RowStep(j)
  BY <1>1 DEF TimePasses, Running, RowStep, RowLapsed, RowDue
<1>2. issued' = issued /\ issued \subseteq Token /\ job' = [j \in JobId |-> job'[j]]
  BY DEF TimePasses, LeasesInv, LeasesTypeOK
<1>3. QED
  BY <1>1, <1>2, NothingStarted DEF TableStep

LEMMA RecoveredRows ==
  ASSUME NEW S, S \subseteq Lapsed, NEW j \in JobId
  PROVE  /\ j \in S => /\ job[j].status = "running" /\ job[j].lease = "lapsed"
                       /\ Recovered(S)[j] = Leave(job[j], AfterRun(job[j], "failure"))
         /\ j \notin S => Recovered(S)[j] = job[j]
BY AfterFailureIsAfterRun DEF Recovered, Lapsed, Running

LEMMA RecoverStep ==
  ASSUME LeasesInv, NEW S, S \subseteq Lapsed, job' = Recovered(S), issued' = issued
  PROVE  TableStep
<1>1. ASSUME NEW j \in JobId PROVE RowStep(j)
  BY RecoveredRows, AfterFailureIsAfterRun DEF RowStep, RowLeft
<1>2. issued \subseteq Token /\ job' = [j \in JobId |-> job'[j]]
  BY DEF LeasesInv, LeasesTypeOK, Recovered
<1>3. QED
  BY <1>1, <1>2, NothingStarted DEF TableStep

(* A poll recovers the expired runs S and claims job j.                     *)
Claims(S, j, t) ==
  /\ S \subseteq Lapsed /\ j \in Due /\ t \in Token \ issued
  /\ job' = [Recovered(S) EXCEPT ![j] = Start(@, t)]
  /\ issued' = issued \cup {t}

LEMMA RecoverAndClaimStep ==
  ASSUME LeasesInv, NEW S, NEW j, NEW t, Claims(S, j, t)
  PROVE  /\ TableStep /\ RowStarted(j)
         /\ j \notin S /\ job'[j] = Start(job[j], t)
         /\ \A i \in JobId : i # j => job'[i] = Recovered(S)[i]
<1>1. /\ j \in JobId /\ job[j].status = "queued" /\ job[j].attempt < job[j].max_attempts
      /\ j \notin S /\ S \subseteq Lapsed /\ t \in Token \ issued
      /\ job' = [Recovered(S) EXCEPT ![j] = Start(@, t)]
      /\ issued' = issued \cup {t}
  BY DEF Claims, Due, Lapsed, Running
<1>2. Recovered(S) = [i \in JobId |-> Recovered(S)[i]] /\ Recovered(S)[j] = job[j]
  BY <1>1, RecoveredRows DEF Recovered
<1>3. /\ job' = [i \in JobId |-> job'[i]] /\ job'[j] = Start(job[j], t)
      /\ \A i \in JobId : i # j => job'[i] = Recovered(S)[i]
  BY <1>1, <1>2
<1>4. RowStarted(j)
  BY <1>1, <1>3 DEF RowStarted
<1>5. ASSUME NEW i \in JobId, i # j PROVE RowStep(i) /\ ~RowStarted(i)
  <2>1. CASE i \in S
    <3>1. /\ job[i].status = "running"
          /\ job'[i] = Leave(job[i], AfterRun(job[i], "failure"))
      BY <1>1, <1>3, <1>5, <2>1, RecoveredRows
    <3>2. RowLeft(i)
      BY <3>1 DEF RowLeft, Outcome
    <3>3. QED
      BY <3>1, <3>2 DEF RowStep, RowStarted
  <2>2. CASE i \notin S
    <3>1. job'[i] = job[i]
      BY <1>1, <1>3, <1>5, <2>2, RecoveredRows
    <3>2. ASSUME RowStarted(i) PROVE FALSE
      <4>1. PICK u \in Token : job'[i] = Start(job[i], u) /\ job[i].status = "queued"
                              /\ job[i].attempt < job[i].max_attempts
        BY <3>2 DEF RowStarted
      <4>2. job[i] \in JobState
        BY <4>1, RowTypes DEF LeasesInv
      <4>3. QED
        BY <3>1, <4>1, <4>2, StartType
    <3>3. QED
      BY <3>1, <3>2 DEF RowStep
  <2>3. QED
    BY <2>1, <2>2
<1>6. issued \subseteq Token
  BY DEF LeasesInv, LeasesTypeOK
<1>7. QED
  BY <1>1, <1>3, <1>4, <1>5, <1>6 DEF TableStep, RowStep

-----------------------------------------------------------------------------
(* The contract keeps its own promises.                                     *)
LEMMA InitHasInv == LeasesInit => LeasesInv
BY DEF LeasesInit, LeasesInv, LeasesTypeOK, RowOK, OneJobPerToken, Running, NoRow

LEMMA LeasesStep == LeasesInv /\ [LeasesNext]_leaseVars => TableStep
<1> SUFFICES ASSUME LeasesInv, [LeasesNext]_leaseVars PROVE TableStep
  OBVIOUS
<1>1. CASE UNCHANGED leaseVars
  BY <1>1, UnchangedStep
<1>2. CASE \E j \in JobId, m \in Attempts : Enqueue(j, m)
  BY <1>2, EnqueueStep
<1>3. CASE \E j \in JobId, t \in Token : Claim(j, t)
  <2>1. PICK j \in JobId, t \in Token : Claim(j, t)
    BY <1>3
  <2>2. job = [i \in JobId |-> job[i]]
    BY DEF LeasesInv, LeasesTypeOK
  <2>3. Recovered({}) = job
    BY <2>2 DEF Recovered
  <2>4. /\ j \in Due /\ t \in Token \ issued /\ issued' = issued \cup {t}
        /\ job' = [job EXCEPT ![j] = Start(@, t)]
    BY <2>1 DEF Claim, Due
  <2>5. /\ job' = [Recovered({}) EXCEPT ![j] = Start(@, t)]
        /\ {} \subseteq Lapsed
    BY <2>3, <2>4
  <2>6. Claims({}, j, t)
    BY <2>4, <2>5 DEF Claims
  <2>7. QED
    BY <2>6, RecoverAndClaimStep
<1>4. CASE \E j \in JobId, t \in issued, outcome \in Outcome : Finish(j, t, outcome)
  BY <1>4, LeaveStep DEF Finish, HoldsLease
<1>5. CASE \E S \in SUBSET JobId : Recover(S)
  BY <1>5, RecoverStep DEF Recover
<1>6. CASE \E j \in JobId : Cancel(j)
  BY <1>6, CancelStep
<1>7. CASE \E L, D \in SUBSET JobId : TimePasses(L, D)
  BY <1>7, TimeStep
<1>8. QED
  BY <1>1, <1>2, <1>3, <1>4, <1>5, <1>6, <1>7 DEF LeasesNext

(* In every behaviour of the contract each row is well formed: a queued job *)
(* has an attempt left and no pending cancel, a running one holds a token   *)
(* that was issued, and no token runs two jobs (background_jobs.py, claim   *)
(* and finish).                                                             *)
THEOREM LeasesAreSound == LeasesSpec => []LeasesInv
<1>1. LeasesInv /\ [LeasesNext]_leaseVars => LeasesInv'
  BY LeasesStep, TableStepKeepsInv
<1>2. QED
  BY <1>1, InitHasInv, PTL DEF LeasesSpec

(* A settled job never changes again, and a lease that lapsed never comes   *)
(* back to life for the run that held it.                                   *)
SettledAndLapsedStay ==
  \A j \in JobId :
    /\ job[j].status \in Settled => job'[j] = job[j]
    /\ \A t \in issued : HoldsLease(j, t)' => HoldsLease(j, t)

THEOREM LeasesAreFinal == LeasesSpec => [][SettledAndLapsedStay]_leaseVars
<1>1. LeasesInv /\ [LeasesNext]_leaseVars => [SettledAndLapsedStay]_leaseVars
  <2> SUFFICES ASSUME LeasesInv, [LeasesNext]_leaseVars
               PROVE  SettledAndLapsedStay
    OBVIOUS
  <2>1. \A j \in JobId : RowEffect(j)
    BY LeasesStep, TableStepKeepsInv
  <2>2. QED
    BY <2>1, LeaseHeldBefore DEF SettledAndLapsedStay, RowEffect
<1>2. QED
  BY <1>1, LeasesAreSound, PTL DEF LeasesSpec


(***************************************************************************)
(* The executor.  WorkerInv is inductive: NoRunAbandoned,                  *)
(* NothingRunsAfterShutdown and SuccessIsEarned need to know what a slot   *)
(* in each phase still keeps and what its outcome says about its lease.    *)
(***************************************************************************)
-----------------------------------------------------------------------------
(* What the phase of a slot says.  A slot that executes nothing keeps       *)
(* nothing; a lease the run noticed as lost is lost; a cancelled context    *)
(* means a cancel request as long as the lease is held; an outcome has its  *)
(* reason.                                                                  *)
AtRest(s) == slot[s].phase \in {"off", "idle", "polling"}
SlotOK(s) ==
  /\ AtRest(s) => /\ slot[s].of = NoJob /\ slot[s].token = NoToken
                  /\ slot[s].handler = "none" /\ slot[s].beat = "none"
  /\ ~AtRest(s) => /\ slot[s].of \in JobId /\ slot[s].token \in issued
                   /\ slot[s].handler # "none"
                   /\ (slot[s].beat = "lost" \/ slot[s].handler = "lease_lost") => ~Holds(s)
  /\ slot[s].phase = "executing" /\ slot[s].cancelled /\ Holds(s) =>
       job[slot[s].of].cancel_requested
  /\ slot[s].phase = "draining" =>
       /\ slot[s].outcome # "none"
       /\ slot[s].outcome = "lease_lost" => ~Holds(s)
       /\ (slot[s].outcome = "success" /\ Holds(s)) =>
            slot[s].handler = "returned" \/ job[slot[s].of].cancel_requested

ProcessTypeOK ==
  /\ up \in BOOLEAN /\ stopping \in BOOLEAN
  /\ faults \in 0..MaxFaults /\ restarts \in 0..MaxRestarts

DownIsOff == ~up => \A s \in Slot : slot[s].phase = "off"

WorkerInv ==
  /\ LeasesInv
  /\ slot \in [Slot -> SlotState]
  /\ ProcessTypeOK
  /\ \A s \in Slot : SlotOK(s)
  /\ DownIsOff
  /\ NoRunAbandoned

-----------------------------------------------------------------------------
LEMMA VacantType ==
  ASSUME NEW phase \in {"off", "idle", "polling"}
  PROVE  /\ Vacant(phase) \in SlotState /\ Vacant(phase).phase = phase
         /\ Vacant(phase).of = NoJob /\ Vacant(phase).token = NoToken
         /\ Vacant(phase).handler = "none" /\ Vacant(phase).beat = "none"
BY DEF Vacant, SlotState

LEMMA ReleasedIsVacant ==
  ASSUME NEW x, Drained(x), NEW phase \in {"off", "idle", "polling"}
  PROVE  Released(x, phase) = Vacant(phase)
<1>1. Released(x, phase) = [Vacant(phase) EXCEPT !.handler = "none", !.beat = "none"]
  BY DEF Released, Drained
<1>2. QED
  BY <1>1 DEF Vacant

LEMMA ExecutingType ==
  ASSUME NEW j \in JobId, NEW t \in Token
  PROVE  /\ Executing(j, t) \in SlotState /\ Executing(j, t).phase = "executing"
         /\ Executing(j, t).of = j /\ Executing(j, t).token = t
         /\ Executing(j, t).handler = "working" /\ Executing(j, t).beat = "beating"
         /\ ~Executing(j, t).cancelled
BY DEF Executing, SlotState

(* A slot that does not move keeps what its phase says while the table      *)
(* moves: a lease that is held was held before, and its cancel request too. *)
LEMMA SlotKept ==
  ASSUME WorkerInv, TableStep, NEW s \in Slot, slot'[s] = slot[s]
  PROVE  SlotOK(s)'
<1>1. issued \subseteq issued' /\ SlotOK(s)
  BY DEF TableStep, WorkerInv
<1>2. ASSUME ~AtRest(s)
      PROVE  /\ Holds(s)' => Holds(s)
             /\ (Holds(s)' /\ job[slot[s].of].cancel_requested)
                  => job'[slot[s].of].cancel_requested
  <2>1. slot[s].of \in JobId /\ slot[s].token \in issued
    BY <1>1, <1>2 DEF SlotOK
  <2>2. RowEffect(slot[s].of)
    BY <2>1, TableStepKeepsInv DEF WorkerInv
  <2>3. Holds(s)' = HoldsLease(slot[s].of, slot[s].token)'
    BY DEF Holds, HoldsLease, Running
  <2>4. QED
    BY <2>1, <2>2, <2>3, LeaseHeldBefore DEF Holds
<1>3. CASE AtRest(s)
  BY <1>1, <1>3 DEF SlotOK, AtRest
<1>4. CASE ~AtRest(s)
  BY <1>1, <1>2, <1>4 DEF SlotOK, AtRest
<1>5. QED
  BY <1>3, <1>4

(* While nothing has failed, a run that goes on had a slot before the step. *)
LEMMA HadSlot ==
  ASSUME WorkerInv, TableStep, faults = 0,
         NEW j \in JobId, job'[j].status = "running", job'[j].lease = "live", ~RowStarted(j)
  PROVE  \E s \in Slot : /\ ~AtRest(s) /\ Holds(s)
                         /\ slot[s].of = j /\ slot[s].token = job'[j].holder
<1>1. RowEffect(j)
  BY TableStepKeepsInv DEF WorkerInv
<1>2. /\ job[j].status = "running" /\ job[j].lease = "live"
      /\ job'[j].holder = job[j].holder
  BY <1>1 DEF RowEffect
<1>3. PICK s \in Slot : slot[s].of = j /\ slot[s].token = job[j].holder
  BY <1>2 DEF WorkerInv, NoRunAbandoned, Running
<1>4. ~AtRest(s)
  BY <1>3, WorkerAssumption DEF WorkerInv, SlotOK
<1>5. QED
  BY <1>2, <1>3, <1>4 DEF Holds, HoldsLease, Running

(* A slot moves while its process stays as it is.                           *)
LEMMA SlotMoves ==
  ASSUME WorkerInv, TableStep, NEW s \in Slot, NEW x \in SlotState,
         Moves(s, x), ~AtRest(s) \/ x.phase # "off" => up,
         faults' \in 0..MaxFaults, faults' = 0 => faults = 0,
         slot'[s] = x => SlotOK(s)',
         faults' = 0 =>
           \A j \in JobId :
             (job'[j].status = "running" /\ job'[j].lease = "live") =>
               \/ x.of = j /\ x.token = job'[j].holder
               \/ ~RowStarted(j) /\ (slot[s].of = j => ~Holds(s))
  PROVE  WorkerInv'
<1>1. slot' \in [Slot -> SlotState] /\ slot'[s] = x
      /\ \A r \in Slot : r # s => slot'[r] = slot[r]
  BY DEF WorkerInv, Moves
<1>2. LeasesInv' /\ ProcessTypeOK'
  BY TableStepKeepsInv DEF WorkerInv, ProcessTypeOK, Moves
<1>3. \A r \in Slot : SlotOK(r)'
  BY <1>1, SlotKept
<1>4. DownIsOff'
  BY <1>1 DEF WorkerInv, DownIsOff, AtRest, Moves
<1>5. ASSUME faults' = 0, NEW j \in JobId,
             job'[j].status = "running", job'[j].lease = "live"
      PROVE  \E r \in Slot : slot'[r].of = j /\ slot'[r].token = job'[j].holder
  <2>1. CASE x.of = j /\ x.token = job'[j].holder
    BY <1>1, <2>1
  <2>2. CASE ~RowStarted(j) /\ (slot[s].of = j => ~Holds(s))
    <3>1. PICK r \in Slot : /\ ~AtRest(r) /\ Holds(r)
                            /\ slot[r].of = j /\ slot[r].token = job'[j].holder
      BY <1>5, <2>2, HadSlot
    <3>2. r # s
      BY <2>2, <3>1
    <3>3. QED
      BY <1>1, <3>1, <3>2
  <2>3. QED
    BY <1>5, <2>1, <2>2
<1>6. QED
  BY <1>1, <1>2, <1>3, <1>4, <1>5 DEF WorkerInv, NoRunAbandoned, Running

(* The same, when the table does not change.                                *)
LEMMA SlotMovesAlone ==
  ASSUME WorkerInv, UNCHANGED <<job, issued>>, NEW s \in Slot, NEW x \in SlotState,
         Moves(s, x), ~AtRest(s) \/ x.phase # "off" => up,
         faults' \in 0..MaxFaults, faults' = 0 => faults = 0,
         slot'[s] = x => SlotOK(s)',
         faults' = 0 => \/ x.of = slot[s].of /\ x.token = slot[s].token
                        \/ AtRest(s) \/ ~Holds(s)
  PROVE  WorkerInv'
<1>1. TableStep /\ \A j \in JobId : ~RowStarted(j)
  BY UnchangedStep, NothingStarted DEF WorkerInv, leaseVars
<1>2. AtRest(s) => slot[s].of \notin JobId
  BY WorkerAssumption DEF WorkerInv, SlotOK
<1>3. ASSUME faults' = 0, NEW j \in JobId, job'[j].status = "running", job'[j].lease = "live"
      PROVE  \/ x.of = j /\ x.token = job'[j].holder
             \/ ~RowStarted(j) /\ (slot[s].of = j => ~Holds(s))
  BY <1>1, <1>2, <1>3 DEF Holds, HoldsLease, Running
<1>4. QED
  BY <1>1, <1>3, SlotMoves

(* In an active phase the process is up.                                    *)
LEMMA MovesWhileUp ==
  ASSUME WorkerInv, NEW s \in Slot, slot[s].phase # "off"
  PROVE  up /\ faults \in 0..MaxFaults /\ slot[s] \in SlotState /\ SlotOK(s)
BY DEF WorkerInv, DownIsOff, ProcessTypeOK

LEMMA FaultCounts ==
  ASSUME faults \in 0..MaxFaults, Fault
  PROVE  faults' \in 0..MaxFaults /\ faults' # 0
<1>1. MaxFaults \in Nat
  BY WorkerAssumption
<1>2. QED
  BY <1>1 DEF Fault

LEMMA BeginPollKeeps ==
  ASSUME WorkerInv, NEW s \in Slot, BeginPoll(s)
  PROVE  WorkerInv'
<1>1. AtRest(s) /\ slot[s].phase # "off" /\ Moves(s, Vacant("polling"))
      /\ UNCHANGED <<job, issued, faults>>
  BY DEF BeginPoll, AtRest
<1>2. slot'[s] = Vacant("polling") => SlotOK(s)'
  BY VacantType DEF SlotOK, AtRest
<1>3. QED
  BY <1>1, <1>2, MovesWhileUp, VacantType, SlotMovesAlone

LEMMA LoopEndsKeeps ==
  ASSUME WorkerInv, NEW s \in Slot, LoopEnds(s)
  PROVE  WorkerInv'
<1> DEFINE x == [slot[s] EXCEPT !.phase = "off"]
<1>1. /\ AtRest(s) /\ slot[s].phase # "off" /\ Moves(s, x)
      /\ UNCHANGED <<job, issued, faults>>
  BY DEF LoopEnds, AtRest
<1>2. up /\ faults \in 0..MaxFaults /\ slot[s] \in SlotState /\ SlotOK(s)
  BY <1>1, MovesWhileUp
<1>3. /\ x \in SlotState /\ x.phase = "off" /\ x.of = slot[s].of /\ x.token = slot[s].token
      /\ x.handler = slot[s].handler /\ x.beat = slot[s].beat
  BY <1>2 DEF SlotState
<1> HIDE DEF x
<1>4. slot'[s] = x => SlotOK(s)'
  BY <1>1, <1>2, <1>3 DEF SlotOK, AtRest
<1>5. QED
  BY <1>1, <1>2, <1>3, <1>4, SlotMovesAlone

(* A step inside a run: the slot keeps job and token.                       *)
LEMMA RunMoves ==
  ASSUME WorkerInv, UNCHANGED <<job, issued>>, NEW s \in Slot, ~AtRest(s),
         NEW x \in SlotState, Moves(s, x), x.phase \in {"executing", "draining"},
         x.of = slot[s].of, x.token = slot[s].token, x.handler # "none",
         faults' \in 0..MaxFaults, faults' = 0 => faults = 0,
         x.beat = "lost" \/ x.handler = "lease_lost" => ~Holds(s),
         x.phase = "executing" =>
           (x.cancelled /\ Holds(s) => job[x.of].cancel_requested),
         x.phase = "draining" =>
           /\ x.outcome # "none"
           /\ x.outcome = "lease_lost" => ~Holds(s)
           /\ (x.outcome = "success" /\ Holds(s)) =>
                x.handler = "returned" \/ job[x.of].cancel_requested
  PROVE  WorkerInv'
<1>1. SlotOK(s) /\ up
  BY MovesWhileUp DEF AtRest
<1>2. ASSUME slot'[s] = x PROVE SlotOK(s)'
  <2>1. (Holds(s)' <=> Holds(s)) /\ ~AtRest(s)'
    BY <1>2 DEF Holds, HoldsLease, Running, AtRest
  <2>2. QED
    BY <1>1, <1>2, <2>1 DEF SlotOK
<1>3. QED
  BY <1>1, <1>2, SlotMovesAlone

LEMMA HandlerEndsKeeps ==
  ASSUME WorkerInv, NEW s \in Slot, HandlerEnds(s)
  PROVE  WorkerInv'
<1>1. PICK result \in {"returned", "raised", "lease_lost"} :
        /\ result = "lease_lost" => ~Holds(s)
        /\ Moves(s, [slot[s] EXCEPT !.handler = result])
  BY DEF HandlerEnds
<1> DEFINE x == [slot[s] EXCEPT !.handler = result]
<1>2. /\ slot[s].phase = "executing" /\ ~AtRest(s)
      /\ UNCHANGED <<job, issued, faults>>
  BY DEF HandlerEnds, AtRest
<1>3. slot[s] \in SlotState /\ SlotOK(s) /\ faults \in 0..MaxFaults
  BY <1>2, MovesWhileUp
<1>4. /\ x \in SlotState /\ x.phase = "executing" /\ x.handler = result
      /\ x.of = slot[s].of /\ x.token = slot[s].token /\ x.beat = slot[s].beat
      /\ x.cancelled = slot[s].cancelled
  BY <1>2, <1>3 DEF SlotState
<1> HIDE DEF x
<1>5. Moves(s, x)
  BY <1>1 DEF x
<1>6. QED
  BY <1>1, <1>2, <1>3, <1>4, <1>5, RunMoves DEF SlotOK

LEMMA BeatKeeps ==
  ASSUME WorkerInv, NEW s \in Slot, Beat(s) \/ BeatFails(s)
  PROVE  WorkerInv'
<1>1. /\ slot[s].phase = "executing" /\ ~AtRest(s)
      /\ UNCHANGED <<job, issued>>
  BY DEF Beat, BeatFails, AtRest
<1>2. slot[s] \in SlotState /\ SlotOK(s) /\ faults \in 0..MaxFaults
  BY <1>1, MovesWhileUp
<1>3. CASE /\ Holds(s) /\ job[slot[s].of].cancel_requested /\ faults' = faults
           /\ Moves(s, [slot[s] EXCEPT !.cancelled = TRUE])
  <2> DEFINE x == [slot[s] EXCEPT !.cancelled = TRUE]
  <2>1. /\ x \in SlotState /\ x.phase = "executing" /\ x.handler = slot[s].handler
        /\ x.of = slot[s].of /\ x.token = slot[s].token /\ x.beat = slot[s].beat
    BY <1>1, <1>2 DEF SlotState
  <2>2. Moves(s, x)
    BY <1>3
  <2> HIDE DEF x
  <2>3. QED
    BY <1>1, <1>2, <1>3, <2>1, <2>2, RunMoves DEF SlotOK
<1>4. ASSUME NEW beat \in {"lost", "failed"}, beat = "lost" => ~Holds(s),
             Moves(s, [slot[s] EXCEPT !.beat = beat]),
             faults' \in 0..MaxFaults, faults' = 0 => faults = 0
      PROVE  WorkerInv'
  <2> DEFINE x == [slot[s] EXCEPT !.beat = beat]
  <2>1. /\ x \in SlotState /\ x.phase = "executing" /\ x.handler = slot[s].handler
        /\ x.of = slot[s].of /\ x.token = slot[s].token /\ x.beat = beat
        /\ x.cancelled = slot[s].cancelled
    BY <1>1, <1>2 DEF SlotState
  <2>2. Moves(s, x)
    BY <1>4
  <2> HIDE DEF x
  <2>3. QED
    BY <1>1, <1>2, <1>4, <2>1, <2>2, RunMoves DEF SlotOK
<1>5. CASE BeatFails(s)
  BY <1>2, <1>4, <1>5, FaultCounts DEF BeatFails
<1>6. CASE ~Holds(s) /\ Moves(s, [slot[s] EXCEPT !.beat = "lost"]) /\ faults' = faults
  BY <1>2, <1>4, <1>6
<1>7. QED
  BY <1>3, <1>5, <1>6 DEF Beat

LEMMA VerdictReasons ==
  ASSUME NEW x \in SlotState, x.handler # "none", NEW stop \in BOOLEAN, NEW cancel \in BOOLEAN
  PROVE  /\ Verdict(x, stop, cancel) \in Outcome \cup {"lease_lost"}
         /\ Verdict(x, stop, cancel) = "lease_lost" =>
              x.beat = "lost" \/ x.handler = "lease_lost"
         /\ Verdict(x, stop, cancel) = "success" => cancel \/ x.handler = "returned"
<1>1. x.handler \in {"working", "returned", "raised", "lease_lost"}
  BY DEF SlotState
<1>2. /\ HandlerVerdict(x) \in Outcome \cup {"lease_lost"}
      /\ HandlerVerdict(x) = "lease_lost" => x.handler = "lease_lost"
      /\ HandlerVerdict(x) = "success" => x.handler = "returned"
  BY <1>1 DEF HandlerVerdict, Outcome
<1>3. QED
  BY <1>2 DEF Verdict, Outcome

LEMMA WakeKeeps ==
  ASSUME WorkerInv, NEW s \in Slot, Wake(s)
  PROVE  WorkerInv'
<1>1. PICK stop \in BOOLEAN, cancel \in BOOLEAN :
        /\ cancel => slot[s].cancelled
        /\ Moves(s, [slot[s] EXCEPT !.phase = "draining", !.cancelled = TRUE,
                                    !.outcome = Verdict(slot[s], stop, cancel)])
  BY DEF Wake
<1> DEFINE v == Verdict(slot[s], stop, cancel)
           x == [slot[s] EXCEPT !.phase = "draining", !.cancelled = TRUE, !.outcome = v]
<1>2. /\ slot[s].phase = "executing" /\ ~AtRest(s)
      /\ UNCHANGED <<job, issued, faults>>
  BY DEF Wake, AtRest
<1>3. slot[s] \in SlotState /\ SlotOK(s) /\ faults \in 0..MaxFaults
  BY <1>2, MovesWhileUp
<1>4. /\ v \in Outcome \cup {"lease_lost"}
      /\ v = "lease_lost" => slot[s].beat = "lost" \/ slot[s].handler = "lease_lost"
      /\ v = "success" => cancel \/ slot[s].handler = "returned"
  BY <1>2, <1>3, VerdictReasons DEF SlotOK
<1>5. v # "none"
  BY <1>4 DEF Outcome
<1>6. Moves(s, x)
  BY <1>1
<1> HIDE DEF v
<1>7. /\ x \in SlotState /\ x.phase = "draining" /\ x.handler = slot[s].handler
      /\ x.of = slot[s].of /\ x.token = slot[s].token /\ x.beat = slot[s].beat
      /\ x.outcome = v
  BY <1>3, <1>4 DEF SlotState
<1> HIDE DEF x
<1>8. QED
  BY <1>1, <1>2, <1>3, <1>4, <1>5, <1>6, <1>7, RunMoves DEF SlotOK

LEMMA DrainKeeps ==
  ASSUME WorkerInv, NEW s \in Slot, HandlerStops(s) \/ BeatEnds(s)
  PROVE  WorkerInv'
<1>1. /\ slot[s].phase # "executing" /\ UNCHANGED <<job, issued, faults>>
      /\ slot[s].handler = "working" \/ slot[s].beat = "beating"
  BY DEF HandlerStops, BeatEnds
<1>2. slot[s] \in SlotState /\ SlotOK(s)
  BY DEF WorkerInv
<1>3. ~AtRest(s) /\ slot[s].phase = "draining"
  BY <1>1, <1>2 DEF SlotOK, AtRest, SlotState
<1>4. faults \in 0..MaxFaults
  BY DEF WorkerInv, ProcessTypeOK
<1>5. CASE HandlerStops(s)
  <2> DEFINE x == [slot[s] EXCEPT !.handler = "raised"]
  <2>1. /\ x \in SlotState /\ x.phase = "draining" /\ x.handler = "raised"
        /\ x.of = slot[s].of /\ x.token = slot[s].token /\ x.beat = slot[s].beat
        /\ x.outcome = slot[s].outcome
    BY <1>2, <1>3 DEF SlotState
  <2>2. Moves(s, x) /\ slot[s].handler = "working"
    BY <1>5 DEF HandlerStops
  <2> HIDE DEF x
  <2>3. QED
    BY <1>1, <1>2, <1>3, <1>4, <2>1, <2>2, RunMoves DEF SlotOK
<1>6. CASE BeatEnds(s)
  <2> DEFINE x == [slot[s] EXCEPT !.beat = "none"]
  <2>1. /\ x \in SlotState /\ x.phase = "draining" /\ x.handler = slot[s].handler
        /\ x.of = slot[s].of /\ x.token = slot[s].token /\ x.beat = "none"
        /\ x.outcome = slot[s].outcome
    BY <1>2, <1>3 DEF SlotState
  <2>2. Moves(s, x)
    BY <1>6 DEF BeatEnds
  <2> HIDE DEF x
  <2>3. QED
    BY <1>1, <1>2, <1>3, <1>4, <2>1, <2>2, RunMoves DEF SlotOK
<1>7. QED
  BY <1>5, <1>6

(* The end of a run: a slot at rest keeps nothing, whatever the table does. *)
LEMMA RestIsOK ==
  ASSUME NEW s \in Slot, NEW phase \in {"off", "idle", "polling"},
         slot'[s] = Vacant(phase)
  PROVE  SlotOK(s)'
BY VacantType DEF SlotOK, AtRest

LEMMA WriteBackKeeps ==
  ASSUME WorkerInv, NEW s \in Slot, WriteBack(s)
  PROVE  WorkerInv'
<1> DEFINE phase == IF stopping /\ slot[s].outcome # "lease_lost" THEN "off" ELSE "idle"
<1>1. /\ Drained(slot[s]) /\ slot[s].phase = "draining" /\ ~AtRest(s)
      /\ UNCHANGED <<issued, faults>> /\ phase \in {"off", "idle", "polling"}
  BY DEF WriteBack, Drained, AtRest
<1>2. up /\ faults \in 0..MaxFaults /\ slot[s] \in SlotState /\ SlotOK(s)
  BY <1>1, MovesWhileUp
<1>3. Moves(s, Vacant(phase))
  BY <1>1, ReleasedIsVacant DEF WriteBack
<1> HIDE DEF phase
<1>4. slot'[s] = Vacant(phase) => SlotOK(s)'
  BY <1>1, RestIsOK
<1>5. Vacant(phase) \in SlotState
  BY <1>1, VacantType
<1>6. CASE slot[s].outcome # "lease_lost" /\ Holds(s)
  <2>1. slot[s].of \in Running /\ slot[s].outcome \in Outcome
    BY <1>1, <1>2, <1>6 DEF Holds, HoldsLease, SlotOK, SlotState
  <2>2. job' = [job EXCEPT ![slot[s].of] = Leave(@, AfterRun(@, slot[s].outcome))]
    BY <1>6 DEF WriteBack
  <2>3. TableStep
    BY <1>1, <2>1, <2>2, LeaveStep DEF WorkerInv
  <2>4. job'[slot[s].of].status # "running"
    <3>1. slot[s].of \in JobId /\ job[slot[s].of] \in JobState
      BY <2>1, RowTypes DEF Running, WorkerInv, LeasesInv
    <3>2. AfterRun(job[slot[s].of], slot[s].outcome) \in {"queued"} \cup Settled
          /\ AfterRun(job[slot[s].of], slot[s].outcome) # "running"
      BY AfterRunType DEF Settled
    <3>3. job'[slot[s].of] = Leave(job[slot[s].of], AfterRun(job[slot[s].of], slot[s].outcome))
      BY <2>2, <3>1 DEF WorkerInv, LeasesInv, LeasesTypeOK
    <3>4. QED
      BY <3>1, <3>2, <3>3, LeaveType
  <2>5. QED
    BY <1>1, <1>2, <1>3, <1>4, <1>5, <2>3, <2>4, NothingStarted, SlotMoves
<1>7. CASE ~(slot[s].outcome # "lease_lost" /\ Holds(s))
  <2>1. job' = job /\ ~Holds(s)
    BY <1>1, <1>2, <1>7 DEF WriteBack, SlotOK
  <2>2. QED
    BY <1>1, <1>2, <1>3, <1>4, <1>5, <2>1, SlotMovesAlone
<1>8. QED
  BY <1>6, <1>7

LEMMA WriteFailsKeeps ==
  ASSUME WorkerInv, NEW s \in Slot, WriteFails(s)
  PROVE  WorkerInv'
<1>1. /\ Drained(slot[s]) /\ slot[s].phase = "draining" /\ ~AtRest(s)
      /\ UNCHANGED <<job, issued>> /\ Fault
  BY DEF WriteFails, Drained, AtRest
<1>2. up /\ faults \in 0..MaxFaults
  BY <1>1, MovesWhileUp
<1>3. Moves(s, Vacant("idle"))
  BY <1>1, ReleasedIsVacant DEF WriteFails
<1>4. Vacant("idle") \in SlotState /\ (slot'[s] = Vacant("idle") => SlotOK(s)')
  BY VacantType, RestIsOK
<1>5. faults' \in 0..MaxFaults /\ faults' # 0
  BY <1>1, <1>2, FaultCounts
<1>6. QED
  BY <1>1, <1>2, <1>3, <1>4, <1>5, SlotMovesAlone

LEMMA PollKeeps ==
  ASSUME WorkerInv, NEW s \in Slot, Poll(s) \/ PollFails(s)
  PROVE  WorkerInv'
<1>1. AtRest(s) /\ slot[s].phase # "off"
  BY DEF Poll, PollFails, AtRest
<1>2. up /\ faults \in 0..MaxFaults /\ SlotOK(s) /\ slot[s].of \notin JobId
  BY <1>1, MovesWhileUp, WorkerAssumption DEF SlotOK
<1>3. ASSUME NEW S, S \subseteq Lapsed, job' = Recovered(S), issued' = issued,
             Moves(s, Vacant("idle")), faults' \in 0..MaxFaults, faults' = 0 => faults = 0
      PROVE  WorkerInv'
  <2>1. TableStep /\ \A j \in JobId : ~RowStarted(j)
    BY <1>3, RecoverStep, NothingStarted DEF WorkerInv
  <2>2. Vacant("idle") \in SlotState /\ (slot'[s] = Vacant("idle") => SlotOK(s)')
    BY VacantType, RestIsOK
  <2>3. QED
    BY <1>2, <1>3, <2>1, <2>2, SlotMoves
<1>4. CASE \E j \in Due, t \in Token \ issued, S \in SUBSET Lapsed :
             /\ job' = [Recovered(S) EXCEPT ![j] = Start(@, t)]
             /\ issued' = issued \cup {t}
             /\ Moves(s, Executing(j, t)) /\ faults' = faults
  <2>1. PICK j \in Due, t \in Token \ issued, S \in SUBSET Lapsed :
             Claims(S, j, t) /\ Moves(s, Executing(j, t)) /\ faults' = faults
    BY <1>4 DEF Claims
  <2>2. TableStep /\ RowStarted(j) /\ job'[j] = Start(job[j], t)
    BY <2>1, RecoverAndClaimStep DEF WorkerInv
  <2>3. j \in JobId /\ t \in Token /\ t \in issued'
    BY <2>1 DEF Claims, Due
  <2>4. job[j] \in JobState /\ job[j].attempt < job[j].max_attempts
    BY <2>2, <2>3, RowTypes DEF RowStarted, WorkerInv, LeasesInv
  <2>5. job'[j].holder = t
    BY <2>2, <2>4, StartType
  <2>6. \A i \in JobId : RowStarted(i) => i = j
    BY <2>2, <2>3 DEF TableStep
  <2>7. Executing(j, t) \in SlotState /\ (slot'[s] = Executing(j, t) => SlotOK(s)')
    BY <2>3, ExecutingType DEF SlotOK, AtRest
  <2>8. Executing(j, t).of = j /\ Executing(j, t).token = t
    BY <2>3, ExecutingType
  <2>9. QED
    BY <1>2, <2>1, <2>2, <2>5, <2>6, <2>7, <2>8, SlotMoves
<1>5. CASE PollFails(s)
  BY <1>2, <1>3, <1>5, FaultCounts DEF PollFails
<1>6. QED
  BY <1>2, <1>3, <1>4, <1>5 DEF Poll

-----------------------------------------------------------------------------
(* Steps of the process, of clients and of the clock.                       *)
LEMMA ProcessKeeps ==
  ASSUME WorkerInv, Stop \/ ShutDown \/ Crash \/ Restart
  PROVE  WorkerInv'
<1>1. UNCHANGED <<job, issued>>
  BY DEF Stop, ShutDown, Crash, Restart
<1>2. TableStep /\ LeasesInv'
  BY <1>1, UnchangedStep, TableStepKeepsInv DEF WorkerInv, leaseVars
<1>3. CASE Stop \/ ShutDown
  <2>1. slot' = slot /\ faults' = faults
    BY <1>3 DEF Stop, ShutDown
  <2>2. \A s \in Slot : SlotOK(s)'
    BY <1>2, <2>1, SlotKept
  <2>3. ProcessTypeOK' /\ DownIsOff'
    BY <1>3 DEF Stop, ShutDown, WorkerInv, ProcessTypeOK, DownIsOff
  <2>4. NoRunAbandoned'
    BY <1>1, <2>1 DEF WorkerInv, NoRunAbandoned, Running
  <2>5. QED
    BY <1>2, <2>1, <2>2, <2>3, <2>4 DEF WorkerInv
<1>4. CASE Crash
  <2>1. slot' = [s \in Slot |-> Vacant("off")]
    BY <1>4 DEF Crash
  <2>2. slot' \in [Slot -> SlotState] /\ \A s \in Slot : slot'[s] = Vacant("off")
    BY <2>1, VacantType
  <2>3. \A s \in Slot : SlotOK(s)'
    BY <2>2, RestIsOK
  <2>4. faults' \in 0..MaxFaults /\ faults' # 0
    BY <1>4, FaultCounts DEF Crash, WorkerInv, ProcessTypeOK
  <2>5. ProcessTypeOK' /\ DownIsOff' /\ NoRunAbandoned'
    BY <1>4, <2>2, <2>4, VacantType
    DEF Crash, WorkerInv, ProcessTypeOK, DownIsOff, NoRunAbandoned
  <2>6. QED
    BY <1>2, <2>2, <2>3, <2>5 DEF WorkerInv
<1>5. CASE Restart
  <2>1. slot' = [s \in Slot |-> Vacant("idle")] /\ faults' = faults
    BY <1>5 DEF Restart
  <2>2. slot' \in [Slot -> SlotState] /\ \A s \in Slot : slot'[s] = Vacant("idle")
    BY <2>1, VacantType
  <2>3. \A s \in Slot : SlotOK(s)'
    BY <2>2, RestIsOK
  <2>4. ProcessTypeOK' /\ DownIsOff'
    <3>1. MaxRestarts \in Nat /\ restarts \in 0..MaxRestarts /\ restarts < MaxRestarts
      BY <1>5, WorkerAssumption DEF Restart, WorkerInv, ProcessTypeOK
    <3>2. restarts + 1 \in 0..MaxRestarts
      BY <3>1
    <3>3. QED
      BY <1>5, <3>2 DEF Restart, WorkerInv, ProcessTypeOK, DownIsOff
  <2>5. NoRunAbandoned'
    <3>1. \A s \in Slot : slot[s].phase = "off" /\ slot[s].of \notin JobId
      BY <1>5, WorkerAssumption DEF Restart, WorkerInv, DownIsOff, SlotOK, AtRest
    <3>2. QED
      BY <1>1, <2>1, <3>1 DEF WorkerInv, NoRunAbandoned, Running
  <2>6. QED
    BY <1>2, <2>2, <2>3, <2>4, <2>5 DEF WorkerInv
<1>6. QED
  BY <1>3, <1>4, <1>5

LEMMA SlotsStayKeeps ==
  ASSUME WorkerInv, TableStep, issued' = issued, UNCHANGED <<slot, up, stopping, restarts>>,
         faults' \in 0..MaxFaults, faults' = 0 => faults = 0
  PROVE  WorkerInv'
<1>1. LeasesInv' /\ \A j \in JobId : ~RowStarted(j)
  BY TableStepKeepsInv, NothingStarted DEF WorkerInv
<1>2. \A s \in Slot : SlotOK(s)'
  BY SlotKept
<1>3. ProcessTypeOK' /\ DownIsOff'
  BY DEF WorkerInv, ProcessTypeOK, DownIsOff
<1>4. NoRunAbandoned'
  BY <1>1, HadSlot DEF NoRunAbandoned, Running
<1>5. QED
  BY <1>1, <1>2, <1>3, <1>4 DEF WorkerInv

(* What clients and the clock do to the table.                              *)
LEMMA OutsideStep ==
  ASSUME WorkerInv,
         \/ \E j \in JobId, m \in Attempts : Submit(j, m)
         \/ \E j \in JobId : RequestCancel(j)
         \/ \E j \in JobId : Lapse(j) \/ Stall(j) \/ DelayEnds(j)
  PROVE  /\ TableStep /\ issued' = issued /\ UNCHANGED <<slot, up, stopping, restarts>>
         /\ faults' \in 0..MaxFaults /\ (faults' = 0 => faults = 0)
         /\ \A j \in JobId : ~RowLeft(j) \/ job'[j].status # "succeeded"
<1>1. LeasesInv /\ faults \in 0..MaxFaults
  BY DEF WorkerInv, ProcessTypeOK
<1>2. CASE \E j \in JobId, m \in Attempts : Submit(j, m)
  <2>1. PICK j \in JobId, m \in Attempts : Submit(j, m)
    BY <1>2
  <2>2. TableStep
    BY <1>1, <2>1, EnqueueStep DEF Submit
  <2>3. job' = [job EXCEPT ![j] = NewRow(m)] /\ job \in [JobId -> JobState \cup {NoRow}]
    BY <1>1, <2>1 DEF Submit, Enqueue, LeasesInv, LeasesTypeOK
  <2>4. \A i \in JobId : ~RowLeft(i) \/ job'[i].status # "succeeded"
    BY <2>3, NewRowType DEF RowLeft
  <2>5. QED
    BY <1>1, <2>1, <2>2, <2>4 DEF Submit, Enqueue, workerVars
<1>3. CASE \E j \in JobId : RequestCancel(j)
  <2>1. PICK j \in JobId : RequestCancel(j)
    BY <1>3
  <2>2. TableStep
    BY <1>1, <2>1, CancelStep DEF RequestCancel
  <2>3. ASSUME NEW i \in JobId, RowLeft(i), job'[i].status = "succeeded" PROVE FALSE
    <3>1. job[i] \in JobState /\ job[i].status = "running"
      BY <1>1, <2>3, RowTypes DEF RowLeft, LeasesInv
    <3>2. job'[i] = job[i] \/ job'[i] = Request(job[i])
      BY <1>1, <2>1, <3>1 DEF RequestCancel, Cancel, LeasesInv, LeasesTypeOK
    <3>3. QED
      BY <2>3, <3>1, <3>2, RequestType
  <2>4. QED
    BY <1>1, <2>1, <2>2, <2>3 DEF RequestCancel, Cancel, workerVars
<1>4. ASSUME NEW L, NEW D, TimePasses(L, D)
      PROVE  /\ TableStep /\ issued' = issued
             /\ \A i \in JobId : ~RowLeft(i) \/ job'[i].status # "succeeded"
  <2>1. TableStep /\ issued' = issued
    BY <1>1, <1>4, TimeStep DEF TimePasses
  <2>2. ASSUME NEW i \in JobId, RowLeft(i), job'[i].status = "succeeded" PROVE FALSE
    <3>1. job[i] \in JobState /\ job[i].status = "running"
      BY <1>1, <2>2, RowTypes DEF RowLeft, LeasesInv
    <3>2. job'[i].status = job[i].status
      BY <1>4, <3>1, TimeType DEF TimePasses
    <3>3. QED
      BY <2>2, <3>1, <3>2
  <2>3. QED
    BY <2>1, <2>2
<1>5. CASE \E j \in JobId : Lapse(j) \/ Stall(j) \/ DelayEnds(j)
  <2>1. PICK j \in JobId : Lapse(j) \/ Stall(j) \/ DelayEnds(j)
    BY <1>5
  <2>2. CASE Lapse(j) \/ DelayEnds(j)
    BY <1>1, <1>4, <2>2 DEF Lapse, DelayEnds, workerVars
  <2>3. CASE Stall(j)
    <3>1. faults' \in 0..MaxFaults /\ faults' # 0
      BY <1>1, <2>3, FaultCounts DEF Stall
    <3>2. QED
      BY <1>4, <2>3, <3>1 DEF Stall
  <2>4. QED
    BY <2>1, <2>2, <2>3
<1>6. QED
  BY <1>2, <1>3, <1>5

LEMMA WorkerInit == Init => WorkerInv
<1> SUFFICES ASSUME Init PROVE WorkerInv
  OBVIOUS
<1>1. LeasesInv /\ \A j \in JobId : job[j].status = "absent"
  BY InitHasInv DEF Init, LeasesInit, NoRow
<1>2. slot \in [Slot -> SlotState] /\ \A s \in Slot : SlotOK(s)
  BY VacantType DEF Init, SlotOK, AtRest
<1>3. ProcessTypeOK /\ DownIsOff
  <2>1. 0 \in 0..MaxFaults /\ 0 \in 0..MaxRestarts
    BY WorkerAssumption
  <2>2. QED
    BY <2>1 DEF Init, ProcessTypeOK, DownIsOff
<1>4. NoRunAbandoned
  BY <1>1 DEF NoRunAbandoned, Running
<1>5. QED
  BY <1>1, <1>2, <1>3, <1>4 DEF WorkerInv

LEMMA WorkerStep == WorkerInv /\ [Next]_vars => WorkerInv'
<1> SUFFICES ASSUME WorkerInv, [Next]_vars PROVE WorkerInv'
  OBVIOUS
<1>1. CASE UNCHANGED vars
  <2>1. TableStep
    BY <1>1, UnchangedStep DEF vars, WorkerInv, leaseVars
  <2>2. QED
    BY <1>1, <2>1, SlotsStayKeeps DEF vars, WorkerInv, ProcessTypeOK
<1>2. CASE \E s \in Slot : SlotStep(s)
  BY <1>2, BeginPollKeeps, LoopEndsKeeps, HandlerEndsKeeps, BeatKeeps, WakeKeeps, DrainKeeps,
     WriteBackKeeps, WriteFailsKeeps, PollKeeps DEF SlotStep
<1>3. CASE Stop \/ ShutDown \/ Crash \/ Restart
  BY <1>3, ProcessKeeps
<1>4. CASE \/ \E j \in JobId, m \in Attempts : Submit(j, m)
           \/ \E j \in JobId : RequestCancel(j)
           \/ \E j \in JobId : Lapse(j) \/ Stall(j) \/ DelayEnds(j)
  BY <1>4, OutsideStep, SlotsStayKeeps
<1>5. QED
  BY <1>1, <1>2, <1>3, <1>4 DEF Next

LEMMA WorkerInvariant == Spec => []WorkerInv
<1>1. QED
  BY WorkerInit, WorkerStep, PTL DEF Spec

-----------------------------------------------------------------------------
(* Every variable stays in its domain.                                      *)
THEOREM WorkerTypeCorrect == Spec => []WorkerTypeOK
<1>1. WorkerInv => WorkerTypeOK
  BY DEF WorkerInv, WorkerTypeOK, ProcessTypeOK, LeasesInv
<1>2. QED
  BY <1>1, WorkerInvariant, PTL

(* Without a fault no stop, cancel, timeout or lost heartbeat makes a slot  *)
(* let go of a job whose lease is live (_execute).                          *)
THEOREM RunsNeverAbandoned == Spec => []NoRunAbandoned
<1>1. WorkerInv => NoRunAbandoned
  BY DEF WorkerInv
<1>2. QED
  BY <1>1, WorkerInvariant, PTL

(* When the process is down, no handler and no heartbeat of it is left:     *)
(* lifespan waits for the slots, and a slot ends only when it has drained.  *)
THEOREM ShutdownLeavesNothing == Spec => []NothingRunsAfterShutdown
<1>1. WorkerInv => NothingRunsAfterShutdown
  BY DEF WorkerInv, DownIsOff, SlotOK, AtRest, NothingRunsAfterShutdown
<1>2. QED
  BY <1>1, WorkerInvariant, PTL

(* A success is written only for a handler that returned, by the run that   *)
(* holds the lease and without a cancel request (finish, _execute).         *)
THEOREM SuccessAlwaysEarned == Spec => SuccessIsEarned
<1> DEFINE Earned ==
      \A j \in JobId :
        (job[j].status # "succeeded" /\ job'[j].status = "succeeded") =>
          \E s \in Slot : /\ slot[s].of = j /\ slot[s].token = job[j].holder
                          /\ slot[s].handler = "returned"
<1>1. WorkerInv /\ [Next]_vars => [Earned]_vars
  <2> SUFFICES ASSUME WorkerInv, Next, NEW j \in JobId,
                      job[j].status # "succeeded", job'[j].status = "succeeded"
               PROVE  \E s \in Slot : /\ slot[s].of = j /\ slot[s].token = job[j].holder
                                       /\ slot[s].handler = "returned"
    OBVIOUS
  <2>1. LeasesInv /\ job' # job
    BY DEF WorkerInv
  <2>2. CASE \E s \in Slot : WriteBack(s)
    <3>1. PICK s \in Slot : WriteBack(s)
      BY <2>2
    <3> DEFINE outcome == slot[s].outcome
               i == slot[s].of
    <3>2. /\ outcome # "lease_lost" /\ Holds(s) /\ slot[s].phase = "draining"
          /\ job' = [job EXCEPT ![i] = Leave(@, AfterRun(@, outcome))]
      BY <2>1, <3>1 DEF WriteBack, Drained
    <3>3. i \in JobId /\ job[i].status = "running" /\ job[i].holder = slot[s].token
      BY <3>2 DEF Holds, HoldsLease, Running
    <3>4. i = j
      BY <3>2, <3>3, <2>1 DEF LeasesInv, LeasesTypeOK
    <3>5. job'[j] = Leave(job[j], AfterRun(job[j], outcome)) /\ job[j] \in JobState
      BY <2>1, <3>2, <3>3, <3>4, RowTypes DEF LeasesInv, LeasesTypeOK
    <3>6. AfterRun(job[j], outcome) = "succeeded"
      BY <3>5, AfterRunType, LeaveType DEF Settled
    <3>7. outcome = "success" /\ ~job[j].cancel_requested
      BY <3>6, AfterRunType
    <3>8. slot[s].handler = "returned"
      BY <3>2, <3>3, <3>4, <3>7 DEF WorkerInv, SlotOK
    <3>9. QED
      BY <3>3, <3>4, <3>8
  <2>3. CASE \E s \in Slot : Poll(s) \/ PollFails(s)
    <3>1. PICK S \in SUBSET Lapsed :
            job'[j] = Recovered(S)[j] \/ RowStarted(j)
      <4>1. CASE \E s \in Slot : PollFails(s)
        BY <4>1 DEF PollFails
      <4>2. CASE \E s \in Slot : Poll(s)
        <5>1. PICK s \in Slot : Poll(s)
          BY <4>2
        <5>2. CASE job' = Recovered(Lapsed)
          BY <5>2
        <5>3. CASE \E k \in Due, t \in Token \ issued, S \in SUBSET Lapsed :
                     /\ job' = [Recovered(S) EXCEPT ![k] = Start(@, t)]
                     /\ issued' = issued \cup {t}
          <6>1. PICK k \in Due, t \in Token \ issued, S \in SUBSET Lapsed : Claims(S, k, t)
            BY <5>3 DEF Claims
          <6>2. /\ RowStarted(k)
                /\ \A l \in JobId : l # k => job'[l] = Recovered(S)[l]
            BY <2>1, <6>1, RecoverAndClaimStep
          <6>3. QED
            BY <6>2
        <5>4. QED
          BY <5>1, <5>2, <5>3 DEF Poll
      <4>3. QED
        BY <2>3, <4>1, <4>2
    <3>2. CASE RowStarted(j)
      <4>1. job[j] \in JobState
        BY <2>1, <3>2, RowTypes DEF RowStarted, LeasesInv
      <4>2. job'[j].status = "running"
        BY <3>2, <4>1, StartType DEF RowStarted
      <4>3. QED
        BY <4>2
    <3>3. CASE job'[j] = Recovered(S)[j]
      <4>1. /\ job[j].status = "running"
            /\ job'[j] = Leave(job[j], AfterRun(job[j], "failure"))
        BY <3>3, RecoveredRows
      <4>2. job[j] \in JobState
        BY <2>1, <4>1, RowTypes DEF LeasesInv
      <4>3. AfterRun(job[j], "failure") = "succeeded"
        BY <4>1, <4>2, AfterRunType, LeaveType DEF Settled
      <4>4. QED
        BY <4>3, AfterRunType
    <3>4. QED
      BY <3>1, <3>2, <3>3
  <2>4. CASE \/ \E k \in JobId, m \in Attempts : Submit(k, m)
             \/ \E k \in JobId : RequestCancel(k)
             \/ \E k \in JobId : Lapse(k) \/ Stall(k) \/ DelayEnds(k)
    <3>1. TableStep /\ ~RowLeft(j)
      BY <2>4, OutsideStep
    <3>2. QED
      BY <2>1, <3>1, SuccessIsRowLeft
  <2>5. QED
    BY <2>1, <2>2, <2>3, <2>4
    DEF Next, SlotStep, BeginPoll, HandlerEnds, Beat, BeatFails, Wake, HandlerStops, BeatEnds,
        WriteFails, LoopEnds, Stop, ShutDown, Crash, Restart
<1>2. QED
  BY <1>1, WorkerInvariant, PTL DEF Spec, SuccessIsEarned

(***************************************************************************)
(* Indexing: who owns a document, what its clients see, and what Milvus    *)
(* holds of it.                                                            *)
(***************************************************************************)

-----------------------------------------------------------------------------
(* The inductive invariant.  Its parts are about a task, a document, a run,  *)
(* a request; the last part is about the chunks and holds until a lease ends *)
(* during a Milvus call.                                                     *)

(* Tasks are numbered in the order they were created in.                     *)
Numbered == Created = 1..Cardinality(Created)

(* A task in progress is the latest of a live document, and a retry is       *)
(* later than the task it repeats: an active task is never superseded.       *)
TaskOK(j) ==
  /\ task[j] \in TaskRow
  /\ task[j].status = Shown(job[j].status)
  /\ doc[task[j].of].state # "absent"
  /\ task[j].retry_of # NoTask =>
       task[j].retry_of < j /\ task[j].retry_of \in TasksOf(task[j].of)
  /\ Active(j) =>
       /\ doc[task[j].of].state = "live"
       /\ \A i \in TasksOf(task[j].of) : i <= j

Latest(j) == \A i \in TasksOf(task[j].of) : i <= j

DocOK(d) ==
  /\ doc[d].state = "live" =>
       \/ TasksOf(d) = {} /\ doc[d].index_status = "pending"
       \/ \E j \in TasksOf(d) : Latest(j) /\ doc[d].index_status = task[j].status
  /\ doc[d].cleaned => doc[d].state = "deleted"

RequestOK(c) ==
  /\ request[c].phase \in {"soft_delete", "vectors", "confirm"} =>
       request[c].of \in Doc /\ doc[request[c].of].state # "absent"
  /\ request[c].phase \in {"vectors", "confirm"} =>
       doc[request[c].of].state = "deleted"

RunOK(t) ==
  /\ run[t].at # "none" => t \in issued /\ run[t].of \in Created
  /\ AtWork(t) => run[t].step < LastCheckpoint

TablesOK ==
  /\ IndexTypeOK /\ LeasesInv /\ Numbered
  /\ \A j \in Created : TaskOK(j)
  /\ \A j \in JobId \ Created : task[j] = AbsentTask
  /\ \A d \in Doc : DocOK(d)

(* A run that changes Milvus holds its lease.                                *)
TouchOK(t) == Touches(t) => HoldsLease(run[t].of, t)

(* Between the delete and the insert the document has no chunks, after the   *)
(* insert those of this run, as long as its lease lasts and nobody cancels.  *)
MustBeEmpty(t) == run[t].at \in {"checkpoint", "working"} /\ run[t].step = 5
MustBeMine(t) ==
  \/ run[t].at \in {"checkpoint", "working"} /\ run[t].step = LastCheckpoint
  \/ run[t].at = "ended" /\ run[t].outcome = "success"
ProgressOK(t) ==
  run[t].at # "none" /\ HoldsLease(run[t].of, t) =>
    /\ run[t].at = "draining" /\ run[t].outcome = "success" => job[run[t].of].cancel_requested
    /\ ~job[run[t].of].cancel_requested =>
         /\ MustBeEmpty(t) => chunks[DocOf(t)] = {}
         /\ MustBeMine(t) => chunks[DocOf(t)] = {t}

DocChunksOK(d) ==
  /\ doc[d].cleaned => chunks[d] = {}
  /\ doc[d].state = "live" /\ doc[d].index_status = "succeeded" =>
       \E t \in Token : chunks[d] = {t}

ConfirmOK(c) == request[c].phase = "confirm" => chunks[request[c].of] = {}

ChunksOK ==
  ~overrun =>
    /\ \A t \in Token : TouchOK(t) /\ ProgressOK(t)
    /\ \A d \in Doc : DocChunksOK(d)
    /\ \A c \in Client : ConfirmOK(c)

IndexInv ==
  /\ TablesOK
  /\ \A t \in Token : RunOK(t)
  /\ \A c \in Client : RequestOK(c)
  /\ ChunksOK

-----------------------------------------------------------------------------
(* What the domains of the tables say about a row.                           *)
LEMMA JobRows ==
  ASSUME LeasesTypeOK, NEW j \in JobId
  PROVE  /\ j \in Created <=> job[j].status # "absent"
         /\ j \in Created => /\ job[j] \in JobState
                            /\ job[j].status \in {"queued", "running"} \cup Settled
BY RowTypes DEF Created

LEMMA ShownStatus ==
  ASSUME NEW s \in {"queued", "running"} \cup Settled
  PROVE  /\ Shown(s) \in TaskStatus
         /\ Shown(s) \in {"pending", "running"} <=> s \in {"queued", "running"}
         /\ Shown(s) = "running" <=> s = "running"
         /\ Shown(s) = "succeeded" <=> s = "succeeded"
BY DEF Shown, TaskStatus, Settled

LEMMA DocRows ==
  ASSUME IndexTypeOK, NEW d \in Doc
  PROVE  /\ doc[d].state = "absent" => doc[d] = AbsentDoc
         /\ doc[d].state # "absent" => doc[d] \in DocRow
         /\ doc[d].state \in {"absent", "live", "deleted"}
         /\ doc[d].cleaned \in BOOLEAN
<1>1. doc[d] \in DocRow \cup {AbsentDoc}
  BY DEF IndexTypeOK
<1>2. AbsentDoc.state = "absent" /\ AbsentDoc.cleaned = FALSE
  BY DEF AbsentDoc
<1>3. \A row \in DocRow : row.state \in {"live", "deleted"} /\ row.cleaned \in BOOLEAN
  BY DEF DocRow
<1>4. QED
  BY <1>1, <1>2, <1>3

LEMMA RunRows ==
  ASSUME IndexTypeOK, NEW t \in Token
  PROVE  /\ run[t].at = "none" <=> run[t] = NoRun
         /\ run[t].at # "none" => run[t] \in RunState
         /\ run[t].at \in {"none", "checkpoint", "working", "draining", "ended"}
<1>1. run[t] \in RunState \cup {NoRun}
  BY DEF IndexTypeOK
<1>2. NoRun.at = "none"
  BY DEF NoRun
<1>3. \A r \in RunState : r.at \in {"checkpoint", "working", "draining", "ended"}
  BY DEF RunState
<1>4. QED
  BY <1>1, <1>2, <1>3

LEMMA RequestRows ==
  ASSUME IndexTypeOK, NEW c \in Client
  PROVE  /\ request[c].phase = "none" <=> request[c] = NoRequest
         /\ request[c].phase # "none" => request[c] \in RequestState
         /\ request[c].phase \in {"none", "soft_delete", "vectors", "confirm", "add"}
<1>1. request[c] \in RequestState \cup {NoRequest}
  BY DEF IndexTypeOK
<1>2. NoRequest.phase = "none"
  BY DEF NoRequest
<1>3. \A r \in RequestState : r.phase \in {"soft_delete", "vectors", "confirm", "add"}
  BY DEF RequestState
<1>4. QED
  BY <1>1, <1>2, <1>3

LEMMA StepNames ==
  /\ LastCheckpoint = 6
  /\ Steps[1] = "read" /\ Steps[2] = "embed" /\ Steps[3] = "initialize"
  /\ Steps[4] = "delete" /\ Steps[5] = "insert"
BY DEF Steps, LastCheckpoint

LEMMA JobNumbers ==
  /\ \A j \in JobId : j \in Nat /\ j # NoTask
  /\ Cardinality(JobId) \in Nat
<1>1. Cardinality(JobId) \in Nat
  BY IndexAssumption, FS_CardinalityType
<1>2. QED
  BY <1>1, IndexAssumption DEF NoTask

(* A task is active exactly as long as its job is queued or running, and a   *)
(* holder of a lease runs the latest task of a live document.                *)
LEMMA ActiveJob ==
  ASSUME TablesOK, NEW j \in Created
  PROVE  /\ j \in JobId /\ task[j].of \in Doc /\ j \in TasksOf(task[j].of)
         /\ Active(j) <=> job[j].status \in {"queued", "running"}
         /\ Active(j) => doc[task[j].of].state = "live" /\ Latest(j) /\ ~Superseded(j)
<1>1. TaskOK(j) /\ j \in JobId /\ LeasesTypeOK
  BY DEF TablesOK, Created, LeasesInv
<1>2. task[j].of \in Doc
  BY <1>1 DEF TaskOK, TaskRow
<1>3. Active(j) <=> job[j].status \in {"queued", "running"}
  BY <1>1, JobRows, ShownStatus DEF TaskOK, Active
<1>4. ASSUME Active(j), NEW i \in Created, task[i].retry_of = j PROVE FALSE
  <2>1. TaskOK(i) /\ i \in Nat /\ j \in Nat /\ j # NoTask
    BY <1>1, <1>4, JobNumbers DEF TablesOK, Created
  <2>2. j < i /\ j \in TasksOf(task[i].of)
    BY <1>4, <2>1 DEF TaskOK
  <2>3. i <= j
    BY <1>1, <1>4, <2>2 DEF TaskOK, TasksOf
  <2>4. QED
    BY <2>1, <2>2, <2>3
<1>5. QED
  BY <1>1, <1>2, <1>3, <1>4 DEF TaskOK, TasksOf, Superseded, Latest

LEMMA OneLatest ==
  ASSUME TablesOK, NEW d, NEW i \in TasksOf(d), NEW j \in TasksOf(d), Latest(i), Latest(j)
  PROVE  i = j
<1>1. i \in Nat /\ j \in Nat /\ i \in TasksOf(task[j].of) /\ j \in TasksOf(task[i].of)
  BY JobNumbers DEF TasksOf, Created
<1>2. QED
  BY <1>1 DEF Latest

-----------------------------------------------------------------------------
(* A step of the queue whose events are projected: S are the jobs whose      *)
(* status it may change.                                                     *)
Projects(S) ==
  /\ TableStep
  /\ \A j \in S : j \in Created /\ job[j].status \in {"queued", "running"}
  /\ \A j \in JobId \ S : job'[j].status = job[j].status
  /\ Project(S)

LEMMA ProjectedTasks ==
  ASSUME TablesOK, NEW S, Projects(S)
  PROVE  /\ Created' = Created
         /\ task' = [j \in JobId |-> task'[j]]
         /\ \A j \in JobId : task'[j].of = task[j].of /\ task'[j].retry_of = task[j].retry_of
         /\ \A j \in JobId \ Created : task'[j] = AbsentTask
         /\ \A j \in Created : /\ task'[j] \in TaskRow
                               /\ task'[j].status = Shown(job'[j].status)
                               /\ Active(j)' => Active(j)
<1>1. /\ LeasesTypeOK /\ LeasesInv /\ TableStep
      /\ LeasesInv' /\ LeasesTypeOK'
      /\ \A j \in JobId : RowEffect(j)
  BY TableStepKeepsInv DEF Projects, TablesOK, LeasesInv
<1>2. ASSUME NEW j \in JobId
      PROVE  j \in Created <=> job'[j].status # "absent"
  <2>1. CASE j \in S
    BY <1>1, <1>2, <2>1 DEF Projects, RowEffect, Created
  <2>2. CASE j \notin S
    BY <1>2, <2>2 DEF Projects, Created
  <2>3. QED
    BY <2>1, <2>2
<1>3. Created' = Created
  BY <1>2 DEF Created
<1>4. ASSUME NEW j \in JobId
      PROVE  /\ j \in S => task'[j] = [task[j] EXCEPT !.status = Shown(job'[j].status)]
             /\ j \notin S => task'[j] = task[j]
  BY <1>4 DEF Projects, Project
<1>5. \A j \in JobId \ Created : task[j] = AbsentTask /\ j \notin S
  BY DEF TablesOK, Projects
<1>6. ASSUME NEW j \in Created
      PROVE  /\ task'[j] \in TaskRow
             /\ task'[j].status = Shown(job'[j].status)
             /\ task'[j].of = task[j].of /\ task'[j].retry_of = task[j].retry_of
             /\ Active(j)' => Active(j)
  <2>1. /\ j \in JobId /\ task[j] \in TaskRow /\ task[j].status = Shown(job[j].status)
        /\ job'[j].status \in {"queued", "running"} \cup Settled
        /\ job[j].status \in {"queued", "running"} \cup Settled
    <3>1. j \in JobId /\ TaskOK(j) /\ j \in Created'
      BY <1>3, <1>6 DEF TablesOK, Created
    <3>2. job[j].status \in {"queued", "running"} \cup Settled
      BY <1>1, <1>6, <3>1, JobRows
    <3>3. job'[j].status \in {"queued", "running"} \cup Settled
      BY <1>1, <3>1 DEF LeasesTypeOK, JobState, Created, NoRow
    <3>4. QED
      BY <3>1, <3>2, <3>3 DEF TaskOK
  <2>2. Shown(job'[j].status) \in TaskStatus
    BY <2>1, ShownStatus
  <2>3. CASE j \in S
    <3>1. task'[j] = [task[j] EXCEPT !.status = Shown(job'[j].status)]
      BY <1>4, <2>1, <2>3
    <3>2. Active(j)
      BY <1>6, <2>3, ActiveJob DEF Projects
    <3>3. QED
      BY <2>1, <2>2, <3>1, <3>2 DEF TaskRow
  <2>4. CASE j \notin S
    <3>1. task'[j] = task[j] /\ job'[j].status = job[j].status
      BY <1>4, <2>1, <2>4 DEF Projects
    <3>2. QED
      BY <2>1, <3>1 DEF Active
  <2>5. QED
    BY <2>3, <2>4
<1>7. task' = [j \in JobId |-> task'[j]]
  BY DEF Projects, Project
<1>8. QED
  BY <1>3, <1>4, <1>5, <1>6, <1>7

LEMMA ProjectedDocs ==
  ASSUME TablesOK, NEW S, Projects(S)
  PROVE  /\ doc' \in [Doc -> DocRow \cup {AbsentDoc}]
         /\ \A d \in Doc :
              /\ doc'[d].state = doc[d].state /\ doc'[d].cleaned = doc[d].cleaned
              /\ doc'[d] = doc[d] \/ \E j \in S : /\ task[j].of = d /\ doc[d].state = "live"
                                                  /\ doc'[d].index_status = task'[j].status
              /\ \A j \in S : task[j].of = d => doc'[d].index_status = task'[j].status
<1>1. /\ IndexTypeOK
      /\ S \subseteq Created /\ S \subseteq JobId
      /\ \A j \in S : Active(j)
  BY ActiveJob DEF TablesOK, Projects, Created
<1>2. \A j \in S : /\ task[j].of \in Doc /\ doc[task[j].of].state = "live"
                   /\ ~Superseded(j) /\ Latest(j) /\ j \in TasksOf(task[j].of)
  BY <1>1, ActiveJob
<1>3. \A j \in Created : task'[j] \in TaskRow /\ task'[j].status = Shown(job'[j].status)
  BY ProjectedTasks
<1>4. ASSUME NEW d \in Doc
      PROVE  /\ doc'[d] \in DocRow \cup {AbsentDoc}
             /\ doc'[d].state = doc[d].state /\ doc'[d].cleaned = doc[d].cleaned
             /\ doc'[d] = doc[d] \/ \E j \in S : /\ task[j].of = d /\ doc[d].state = "live"
                                                 /\ doc'[d].index_status = task'[j].status
             /\ \A j \in S : task[j].of = d => doc'[d].index_status = task'[j].status
  <2>1. doc[d] \in DocRow \cup {AbsentDoc}
    BY <1>1, <1>4 DEF IndexTypeOK
  <2>2. CASE \E j \in S : task[j].of = d
    <3>1. PICK j \in S : task[j].of = d
      BY <2>2
    <3>2. \A i \in S : task[i].of = d => i = j
      BY <1>2, <3>1, OneLatest
    <3>3. (CHOOSE i \in S : task[i].of = d) = j
      BY <3>1, <3>2
    <3>4. doc[d].state = "live" /\ ~Superseded(j)
      BY <1>2, <3>1
    <3>5. doc'[d] = [doc[d] EXCEPT !.index_status = Shown(job'[j].status)]
      BY <1>4, <3>1, <3>3, <3>4 DEF Projects, Project
    <3>6. doc[d] \in DocRow /\ Shown(job'[j].status) = task'[j].status
      BY <1>1, <1>3, <3>1, <3>4, DocRows
    <3>7. task'[j].status \in TaskStatus
      BY <1>1, <1>3, <3>1 DEF TaskRow
    <3>8. /\ doc'[d] \in DocRow /\ doc'[d].index_status = task'[j].status
          /\ doc'[d].state = doc[d].state /\ doc'[d].cleaned = doc[d].cleaned
      BY <3>5, <3>6, <3>7 DEF DocRow
    <3>9. QED
      BY <3>1, <3>2, <3>4, <3>8
  <2>3. CASE ~\E j \in S : task[j].of = d
    <3>1. doc'[d] = doc[d]
      BY <1>4, <2>3 DEF Projects, Project
    <3>2. QED
      BY <2>1, <2>3, <3>1
  <2>4. QED
    BY <2>2, <2>3
<1>5. doc' = [d \in Doc |-> doc'[d]]
  BY DEF Projects, Project
<1>6. QED
  BY <1>4, <1>5

(* A projected step keeps tasks, jobs and documents in agreement.            *)
LEMMA ProjectKeepsTables ==
  ASSUME TablesOK, NEW S, Projects(S), IndexTypeOK'
  PROVE  TablesOK'
<1>1. /\ LeasesInv' /\ IndexTypeOK /\ \A j \in JobId : RowEffect(j)
  BY TableStepKeepsInv DEF TablesOK, Projects
<1>2. /\ Created' = Created
      /\ \A j \in JobId : task'[j].of = task[j].of /\ task'[j].retry_of = task[j].retry_of
      /\ \A j \in JobId \ Created : task'[j] = AbsentTask
      /\ \A j \in Created : /\ task'[j] \in TaskRow
                            /\ task'[j].status = Shown(job'[j].status)
                            /\ Active(j)' => Active(j)
  BY ProjectedTasks
<1>3. \A d \in Doc :
        /\ doc'[d].state = doc[d].state /\ doc'[d].cleaned = doc[d].cleaned
        /\ doc'[d] = doc[d] \/ \E j \in S : /\ task[j].of = d
                                            /\ doc'[d].index_status = task'[j].status
        /\ \A j \in S : task[j].of = d => doc'[d].index_status = task'[j].status
  BY ProjectedDocs
<1>4. \A d : TasksOf(d)' = TasksOf(d)
  BY <1>2 DEF TasksOf, Created
<1>5. \A j \in Created : task[j].of \in Doc /\ TaskOK(j) /\ j \in JobId /\ j \in TasksOf(task[j].of)
  BY ActiveJob DEF TablesOK
<1>6. \A j \in Created : Latest(j)' <=> Latest(j)
  BY <1>2, <1>4, <1>5 DEF Latest
<1>7. ASSUME NEW j \in Created PROVE TaskOK(j)'
  <2>1. doc'[task'[j].of].state = doc[task[j].of].state
    BY <1>2, <1>3, <1>5, <1>7
  <2>2. TasksOf(task[j].of)' = TasksOf(task[j].of)
    <3>1. task'[j].of = task[j].of
      BY <1>2, <1>5, <1>7
    <3>2. TasksOf(task[j].of)' = {i \in Created' : task'[i].of = task'[j].of}
      BY DEF TasksOf
    <3>3. TasksOf(task[j].of)' = {i \in Created : task'[i].of = task[j].of}
      BY <1>2, <3>1, <3>2
    <3>4. \A i \in Created : task'[i].of = task[i].of
      BY <1>2, <1>5
    <3>5. QED
      BY <3>3, <3>4 DEF TasksOf
  <2>3. QED
    BY <1>2, <1>5, <1>7, <2>1, <2>2 DEF TaskOK
<1>8. ASSUME NEW d \in Doc PROVE DocOK(d)'
  <2>1. doc'[d].cleaned => doc'[d].state = "deleted"
    BY <1>3, <1>8 DEF TablesOK, DocOK
  <2>2. ASSUME doc'[d].state = "live"
        PROVE  \/ TasksOf(d)' = {} /\ doc'[d].index_status = "pending"
               \/ \E j \in TasksOf(d)' : Latest(j)' /\ doc'[d].index_status = task'[j].status
    <3>1. CASE TasksOf(d) = {}
      <4>1. doc'[d] = doc[d]
        <5>1. \A j \in S : j \in Created
          BY DEF Projects
        <5>2. QED
          BY <1>3, <1>8, <3>1, <5>1 DEF TasksOf
      <4>2. doc[d].index_status = "pending"
        BY <1>8, <2>2, <3>1, <4>1 DEF TablesOK, DocOK
      <4>3. QED
        BY <1>4, <3>1, <4>1, <4>2
    <3>2. CASE TasksOf(d) # {}
      <4>1. PICK j \in TasksOf(d) : Latest(j) /\ doc[d].index_status = task[j].status
        BY <1>3, <1>8, <2>2, <3>2 DEF TablesOK, DocOK
      <4>2. j \in Created /\ task[j].of = d /\ Latest(j)'
        BY <1>6, <4>1 DEF TasksOf
      <4>3. CASE j \in S
        BY <1>3, <1>4, <1>8, <4>1, <4>2, <4>3
      <4>4. CASE j \notin S
        <5>1. \A i \in S : i \in Created /\ Active(i)
          BY ActiveJob DEF Projects
        <5>2. \A i \in S : task[i].of = d => Latest(i) /\ i \in TasksOf(d)
          BY <5>1, ActiveJob
        <5>3. doc'[d] = doc[d]
          BY <1>3, <1>8, <4>1, <4>4, <5>2, OneLatest
        <5>4. task'[j].status = task[j].status
          <6>1. job'[j].status = job[j].status
            BY <1>5, <4>2, <4>4 DEF Projects
          <6>2. QED
            BY <1>2, <1>5, <4>2, <6>1 DEF TaskOK
        <5>5. QED
          BY <1>4, <4>1, <4>2, <5>3, <5>4
      <4>5. QED
        BY <4>3, <4>4
    <3>3. QED
      BY <3>1, <3>2
  <2>3. QED
    BY <2>1, <2>2 DEF DocOK
<1>9. Numbered'
  BY <1>2 DEF TablesOK, Numbered
<1>10. QED
  BY <1>1, <1>2, <1>7, <1>8, <1>9 DEF TablesOK

(* A step that leaves the status of every job and both tables alone, too.    *)
LEMMA ClockKeepsTables ==
  ASSUME TablesOK, TableStep, UNCHANGED <<task, doc>>, IndexTypeOK',
         \A j \in JobId : job'[j].status = job[j].status
  PROVE  TablesOK'
<1>1. LeasesInv'
  BY TableStepKeepsInv DEF TablesOK
<1>2. Created' = Created
  BY DEF Created
<1>3. /\ \A d : TasksOf(d)' = TasksOf(d)
      /\ \A j : Active(j)' <=> Active(j)
      /\ \A j : Latest(j)' <=> Latest(j)
  BY <1>2 DEF TasksOf, Active, Latest
<1>4. \A j \in Created : TaskOK(j)'
  BY <1>3 DEF TablesOK, TaskOK, Created
<1>5. \A d \in Doc : DocOK(d)'
  BY <1>3 DEF TablesOK, DocOK
<1>6. QED
  BY <1>1, <1>2, <1>4, <1>5 DEF TablesOK, Numbered

-----------------------------------------------------------------------------
(* Who may change the chunks of a document: the run that holds the lease of  *)
(* its latest task, and nobody else.                                         *)
LEMMA LeaseOnLiveDoc ==
  ASSUME TablesOK, NEW t \in Token, RunOK(t), run[t].at # "none", HoldsLease(run[t].of, t)
  PROVE  /\ DocOf(t) \in Doc /\ doc[DocOf(t)].state = "live"
         /\ run[t].of \in TasksOf(DocOf(t)) /\ Latest(run[t].of)
         /\ doc[DocOf(t)].index_status # "succeeded"
<1> DEFINE j == run[t].of
<1>1. j \in Created /\ job[j].status = "running"
  BY DEF RunOK, HoldsLease, Running
<1>2. /\ DocOf(t) \in Doc /\ j \in TasksOf(DocOf(t)) /\ Latest(j)
      /\ doc[DocOf(t)].state = "live" /\ Active(j)
  BY <1>1, ActiveJob DEF DocOf
<1>3. PICK i \in TasksOf(DocOf(t)) : Latest(i) /\ doc[DocOf(t)].index_status = task[i].status
  BY <1>2 DEF TablesOK, DocOK
<1>4. i = j
  BY <1>2, <1>3, OneLatest
<1>5. QED
  BY <1>2, <1>3, <1>4 DEF Active

LEMMA OneWriter ==
  ASSUME TablesOK, NEW t \in Token, NEW u \in Token, RunOK(t), RunOK(u),
         run[t].at # "none", HoldsLease(run[t].of, t),
         run[u].at # "none", HoldsLease(run[u].of, u), DocOf(t) = DocOf(u)
  PROVE  t = u
<1>1. run[t].of = run[u].of
  BY LeaseOnLiveDoc, OneLatest
<1>2. QED
  BY <1>1 DEF HoldsLease

LEMMA WrittenEffect ==
  ASSUME IndexTypeOK, NEW t \in Token, RunOK(t), AtWork(t), DocOf(t) \in Doc
  PROVE  /\ Written(t) \in [Doc -> SUBSET Token]
         /\ \A d \in Doc : d # DocOf(t) => Written(t)[d] = chunks[d]
         /\ ~Touches(t) => Written(t) = chunks
         /\ run[t].step = 4 => Written(t)[DocOf(t)] = {}
         /\ run[t].step = 5 => Written(t)[DocOf(t)] = chunks[DocOf(t)] \cup {t}
<1>1. chunks \in [Doc -> SUBSET Token]
  BY DEF IndexTypeOK
<1>2. run[t].step \in 1..5
  <2>1. run[t].step \in 1..LastCheckpoint /\ run[t].step < LastCheckpoint
    BY RunRows DEF RunOK, AtWork, RunState
  <2>2. QED
    BY <2>1, StepNames
<1>3. CASE run[t].step = 4
  BY <1>1, <1>3, StepNames DEF Written, Touches
<1>4. CASE run[t].step = 5
  BY <1>1, <1>4, StepNames DEF Written, Touches
<1>5. CASE run[t].step \in 1..3
  <2>1. Steps[run[t].step] \notin {"delete", "insert"}
    BY <1>5, StepNames
  <2>2. Written(t) = chunks
    BY <2>1 DEF Written
  <2>3. QED
    BY <1>1, <1>5, <2>2
<1>6. QED
  BY <1>2, <1>3, <1>4, <1>5

LEMMA TouchSteps ==
  ASSUME IndexTypeOK, NEW t \in Token, RunOK(t), Touches(t)
  PROVE  run[t].step \in {4, 5} /\ run[t].at # "none"
<1>1. run[t].step \in 1..LastCheckpoint /\ run[t].step < LastCheckpoint
  BY RunRows DEF RunOK, Touches, AtWork, RunState
<1>2. QED
  BY <1>1, StepNames DEF Touches, AtWork

-----------------------------------------------------------------------------
(* Steps that change tasks and jobs but no chunks, for the runs they do not  *)
(* touch and for the requests.                                               *)
Relabels ==
  /\ TableStep /\ UNCHANGED <<chunks, request>>
  /\ overrun => overrun'
  /\ Created \subseteq Created'
  /\ \A j \in Created : task'[j].of = task[j].of
  /\ \A d \in Doc : doc'[d].state = doc[d].state /\ doc'[d].cleaned = doc[d].cleaned

LEMMA RelabelKeepsRuns ==
  ASSUME TablesOK, Relabels, NEW t \in Token, RunOK(t), run'[t] = run[t]
  PROVE  /\ RunOK(t)'
         /\ run[t].at # "none" /\ HoldsLease(run[t].of, t)' => HoldsLease(run[t].of, t)
         /\ ProgressOK(t) => ProgressOK(t)'
<1>1. RunOK(t)' /\ (run[t].at # "none" => t \in issued /\ run[t].of \in Created)
  BY DEF RunOK, Relabels, TableStep, AtWork
<1>2. \A j \in JobId : RowEffect(j)
  BY TableStepKeepsInv DEF TablesOK, Relabels
<1>3. CASE run[t].at = "none"
  BY <1>1, <1>3 DEF ProgressOK
<1>4. CASE run[t].at # "none"
  <2> DEFINE j == run[t].of
  <2>1. t \in issued /\ j \in Created /\ j \in JobId
    BY <1>1, <1>4 DEF Created
  <2>2. HoldsLease(j, t)' => /\ HoldsLease(j, t)
                             /\ job[j].cancel_requested => job'[j].cancel_requested
    BY <1>2, <2>1, LeaseHeldBefore
  <2>3. DocOf(t)' = DocOf(t) /\ chunks' = chunks /\ run'[t].of = j
    BY <2>1 DEF DocOf, Relabels
  <2>4. MustBeEmpty(t)' = MustBeEmpty(t) /\ MustBeMine(t)' = MustBeMine(t)
    BY DEF MustBeEmpty, MustBeMine
  <2>5. HoldsLease(run[t].of, t)' => HoldsLease(run[t].of, t)'
    OBVIOUS
  <2>6. ASSUME ProgressOK(t) PROVE ProgressOK(t)'
    <3> SUFFICES ASSUME HoldsLease(j, t)'
                 PROVE  /\ run[t].at = "draining" /\ run[t].outcome = "success"
                             => job'[j].cancel_requested
                        /\ ~job'[j].cancel_requested =>
                             /\ MustBeEmpty(t)' => chunks'[DocOf(t)'] = {}
                             /\ MustBeMine(t)' => chunks'[DocOf(t)'] = {t}
      BY <2>3 DEF ProgressOK, HoldsLease
    <3>1. QED
      BY <1>4, <2>2, <2>3, <2>4, <2>6 DEF ProgressOK
  <2>7. QED
    BY <1>1, <2>2, <2>6
<1>5. QED
  BY <1>3, <1>4

LEMMA RelabelKeepsRequests ==
  ASSUME Relabels, NEW c \in Client, RequestOK(c)
  PROVE  RequestOK(c)' /\ (ConfirmOK(c) => ConfirmOK(c)')
BY DEF RequestOK, ConfirmOK, Relabels

-----------------------------------------------------------------------------
(* A step of the handler of run t, which goes to r and may write to Milvus.  *)
RunMoved(t, r) ==
  /\ RunsTo(t, r)
  /\ chunks' \in {chunks, IF AtWork(t) THEN Written(t) ELSE chunks}

LEMMA MovesChunks ==
  ASSUME IndexInv, NEW t \in Token, NEW r, RunMoved(t, r)
  PROVE  /\ chunks' \in [Doc -> SUBSET Token]
         /\ chunks' # chunks => /\ Touches(t) /\ run[t].at # "none" /\ DocOf(t) \in Doc
                                /\ \A d \in Doc : d # DocOf(t) => chunks'[d] = chunks[d]
<1>1. chunks \in [Doc -> SUBSET Token] /\ IndexTypeOK /\ RunOK(t) /\ TablesOK
  BY DEF IndexInv, TablesOK, IndexTypeOK
<1>2. CASE chunks' = chunks
  BY <1>1, <1>2
<1>3. CASE chunks' # chunks
  <2>1. AtWork(t) /\ chunks' = Written(t) /\ run[t].at # "none"
    BY <1>3 DEF RunMoved, AtWork
  <2>2. run[t].of \in Created
    BY <1>1, <2>1 DEF RunOK
  <2>3. DocOf(t) \in Doc
    BY <1>1, <2>2, ActiveJob DEF DocOf
  <2>4. QED
    BY <1>1, <1>3, <2>1, <2>3, WrittenEffect
<1>4. QED
  BY <1>2, <1>3

LEMMA MovesKeepTables ==
  ASSUME IndexInv, NEW t \in Token, NEW r \in RunState \cup {NoRun}, RunMoved(t, r)
  PROVE  TablesOK'
<1>1. TablesOK /\ IndexTypeOK /\ LeasesInv /\ UNCHANGED <<job, issued, task, doc, request, overrun>>
  BY DEF IndexInv, TablesOK, RunMoved, RunsTo
<1>2. TableStep
  BY <1>1, UnchangedStep DEF leaseVars
<1>3. run' \in [Token -> RunState \cup {NoRun}]
  BY <1>1 DEF IndexTypeOK, RunMoved, RunsTo
<1>4. chunks' \in [Doc -> SUBSET Token]
  BY MovesChunks
<1>5. IndexTypeOK'
  BY <1>1, <1>3, <1>4 DEF IndexTypeOK, LeasesTypeOK
<1>6. QED
  BY <1>1, <1>2, <1>5, ClockKeepsTables

(* Whatever the run does, everybody else's part of the invariant stays.      *)
LEMMA MovesKeepRest ==
  ASSUME IndexInv, NEW t \in Token, NEW r, RunMoved(t, r)
  PROVE  /\ \A u \in Token : u # t => RunOK(u)'
         /\ \A c \in Client : RequestOK(c)'
         /\ ~overrun' => /\ \A u \in Token : u # t => TouchOK(u)' /\ ProgressOK(u)'
                         /\ \A d \in Doc : DocChunksOK(d)'
                         /\ \A c \in Client : ConfirmOK(c)'
<1>1. /\ TablesOK /\ IndexTypeOK /\ UNCHANGED <<job, issued, task, doc, request, overrun>>
      /\ \A u \in Token : u # t => run'[u] = run[u]
      /\ \A u \in Token : RunOK(u)
      /\ \A c \in Client : RequestOK(c)
  BY DEF IndexInv, TablesOK, IndexTypeOK, RunMoved, RunsTo
<1>2. Created' = Created /\ Running' = Running
  BY <1>1 DEF Created, Running
<1>3. \A u \in Token : u # t => RunOK(u)'
  BY <1>1, <1>2 DEF RunOK, AtWork
<1>4. \A c \in Client : RequestOK(c)'
  BY <1>1 DEF RequestOK
<1>5. ASSUME ~overrun'
      PROVE  /\ \A u \in Token : u # t => TouchOK(u)' /\ ProgressOK(u)'
             /\ \A d \in Doc : DocChunksOK(d)'
             /\ \A c \in Client : ConfirmOK(c)'
  <2>1. /\ \A u \in Token : TouchOK(u) /\ ProgressOK(u)
        /\ \A d \in Doc : DocChunksOK(d)
        /\ \A c \in Client : ConfirmOK(c)
    BY <1>1, <1>5 DEF IndexInv, ChunksOK
  <2>2. chunks' # chunks => /\ DocOf(t) \in Doc /\ HoldsLease(run[t].of, t) /\ run[t].at # "none"
                            /\ doc[DocOf(t)].state = "live"
                            /\ doc[DocOf(t)].index_status # "succeeded"
                            /\ \A d \in Doc : d # DocOf(t) => chunks'[d] = chunks[d]
    BY <1>1, <2>1, MovesChunks, LeaseOnLiveDoc DEF TouchOK
  <2>3. ASSUME NEW u \in Token, u # t PROVE TouchOK(u)' /\ ProgressOK(u)'
    <3>1. run'[u] = run[u] /\ TouchOK(u) /\ ProgressOK(u) /\ RunOK(u)
      BY <1>1, <2>1, <2>3
    <3>2. TouchOK(u)'
      BY <1>1, <1>2, <3>1 DEF TouchOK, Touches, AtWork, HoldsLease
    <3>3. ASSUME run[u].at # "none", HoldsLease(run[u].of, u)
          PROVE  chunks'[DocOf(u)] = chunks[DocOf(u)]
      <4>1. DocOf(u) \in Doc
        BY <1>1, <3>1, <3>3, LeaseOnLiveDoc
      <4>2. chunks' # chunks => DocOf(u) # DocOf(t)
        BY <1>1, <2>2, <2>3, <3>1, <3>3, OneWriter
      <4>3. QED
        BY <2>2, <4>1, <4>2
    <3>4. ProgressOK(u)'
      <4>1. /\ MustBeEmpty(u)' = MustBeEmpty(u) /\ MustBeMine(u)' = MustBeMine(u)
            /\ run'[u].of = run[u].of /\ task' = task /\ job' = job
        BY <1>1, <3>1 DEF MustBeEmpty, MustBeMine
      <4>2. HoldsLease(run[u].of, u)' = HoldsLease(run[u].of, u)
        BY <1>2, <4>1 DEF HoldsLease
      <4>3. DocOf(u)' = DocOf(u)
        BY <4>1 DEF DocOf
      <4>4. QED
        BY <3>1, <3>3, <4>1, <4>2, <4>3 DEF ProgressOK
    <3>5. QED
      BY <3>2, <3>4
  <2>4. ASSUME NEW d \in Doc PROVE DocChunksOK(d)'
    <3>1. DocOK(d) /\ DocChunksOK(d)
      BY <1>1, <2>1 DEF TablesOK
    <3>2. CASE chunks' # chunks /\ d = DocOf(t)
      BY <1>1, <2>2, <3>1, <3>2 DEF DocChunksOK, DocOK
    <3>3. CASE chunks' = chunks \/ d # DocOf(t)
      BY <1>1, <2>2, <3>1, <3>3 DEF DocChunksOK
    <3>4. QED
      BY <3>2, <3>3
  <2>5. ASSUME NEW c \in Client PROVE ConfirmOK(c)'
    <3>1. RequestOK(c) /\ ConfirmOK(c)
      BY <1>1, <2>1
    <3>2. CASE request[c].phase = "confirm"
      BY <1>1, <2>2, <3>1, <3>2 DEF RequestOK, ConfirmOK
    <3>3. CASE request[c].phase # "confirm"
      BY <1>1, <3>3 DEF ConfirmOK
    <3>4. QED
      BY <3>2, <3>3
  <2>6. QED
    BY <2>3, <2>4, <2>5
<1>6. QED
  BY <1>3, <1>4, <1>5

LEMMA MovesKeepInv ==
  ASSUME IndexInv, NEW t \in Token, NEW r \in RunState \cup {NoRun}, RunMoved(t, r),
         RunOK(t)', ~overrun' => TouchOK(t)' /\ ProgressOK(t)'
  PROVE  IndexInv'
BY MovesKeepTables, MovesKeepRest DEF IndexInv, ChunksOK

LEMMA MovesFacts ==
  ASSUME IndexInv, NEW t \in Token, run[t].at # "none", NEW r, RunMoved(t, r)
  PROVE  /\ run'[t] = r /\ job' = job /\ (overrun' <=> overrun)
         /\ t \in issued' /\ run[t].of \in Created'
         /\ HoldsLease(run[t].of, t)' <=> /\ r.of \in Running /\ job[r.of].holder = t
                                          /\ job[r.of].lease = "live"
         /\ r.of = run[t].of => DocOf(t)' = DocOf(t)
         /\ run[t] \in RunState
         /\ RunOK(t) /\ (~overrun => TouchOK(t) /\ ProgressOK(t))
<1>1. /\ IndexTypeOK /\ RunOK(t) /\ (~overrun => TouchOK(t) /\ ProgressOK(t))
      /\ UNCHANGED <<job, issued, task, doc, request, overrun>>
      /\ run' = [run EXCEPT ![t] = r] /\ run \in [Token -> RunState \cup {NoRun}]
  BY DEF IndexInv, TablesOK, IndexTypeOK, ChunksOK, RunMoved, RunsTo
<1>2. run'[t] = r /\ Running' = Running /\ Created' = Created
  BY <1>1 DEF Running, Created
<1>3. run[t] \in RunState /\ t \in issued /\ run[t].of \in Created
  BY <1>1, RunRows DEF RunOK
<1>4. QED
  BY <1>1, <1>2, <1>3 DEF HoldsLease, DocOf

(* A run that ends claims success only if it was cancelled, or is done.      *)
LEMMA EndsKeepInv ==
  ASSUME IndexInv, NEW t \in Token, run[t].at # "none",
         NEW outcome \in {"none", "success", "failure", "lease_lost"},
         RunMoved(t, End(t, outcome)),
         (/\ ~overrun /\ outcome = "success" /\ HoldsLease(run[t].of, t)
          /\ ~job[run[t].of].cancel_requested) => chunks'[DocOf(t)] = {t}
  PROVE  IndexInv'
<1> DEFINE r == End(t, outcome)
<1>1. run[t] \in RunState
  BY MovesFacts
<1>2. r \in RunState /\ r.at = "ended" /\ r.outcome = outcome /\ r.of = run[t].of
  <2>1. run[t].of \in JobId /\ 1 \in 1..LastCheckpoint
    BY <1>1, StepNames DEF RunState
  <2>2. QED
    BY <2>1 DEF End, NewRun, RunState
<1> HIDE DEF r
<1>3. /\ run'[t] = r /\ job' = job /\ (overrun' <=> overrun) /\ DocOf(t)' = DocOf(t)
      /\ t \in issued' /\ run[t].of \in Created'
      /\ HoldsLease(run[t].of, t)' <=> HoldsLease(run[t].of, t)
  BY <1>2, MovesFacts DEF HoldsLease, r
<1>4. RunOK(t)' /\ TouchOK(t)'
  BY <1>2, <1>3 DEF RunOK, TouchOK, Touches, AtWork
<1>5. ~overrun' => ProgressOK(t)'
  BY <1>2, <1>3 DEF ProgressOK, MustBeEmpty, MustBeMine
<1>6. QED
  BY <1>2, <1>4, <1>5, MovesKeepInv DEF r

LEMMA CheckpointKeeps ==
  ASSUME IndexInv, NEW t \in Token, Checkpoint(t)
  PROVE  IndexInv'
<1> DEFINE r == run[t]
<1>1. run[t].at = "checkpoint" /\ chunks' = chunks
  BY DEF Checkpoint
<1>2. CASE ~HoldsLease(r.of, t)
  <2>1. RunMoved(t, End(t, "lease_lost"))
    BY <1>2, <1>1 DEF Checkpoint, RunMoved
  <2>2. QED
    BY <1>1, <2>1, EndsKeepInv
<1>3. CASE HoldsLease(r.of, t) /\ job[r.of].cancel_requested
  <2>1. RunMoved(t, End(t, "success"))
    BY <1>3, <1>1 DEF Checkpoint, RunMoved
  <2>2. QED
    BY <1>1, <1>3, <2>1, EndsKeepInv
<1>4. CASE HoldsLease(r.of, t) /\ ~job[r.of].cancel_requested
  <2>1. CASE doc[DocOf(t)].state # "live"
    <3>1. RunMoved(t, End(t, "failure"))
      BY <1>1, <1>4, <2>1 DEF Checkpoint, RunMoved
    <3>2. QED
      BY <1>1, <3>1, EndsKeepInv
  <2>2. CASE doc[DocOf(t)].state = "live" /\ r.step = LastCheckpoint
    <3>1. RunMoved(t, End(t, "success"))
      BY <1>1, <1>4, <2>2 DEF Checkpoint, RunMoved
    <3>2. ~overrun => chunks[DocOf(t)] = {t}
      BY <1>1, <1>4, <2>2 DEF IndexInv, ChunksOK, ProgressOK, MustBeMine
    <3>3. QED
      BY <1>1, <3>1, <3>2, EndsKeepInv
  <2>3. CASE doc[DocOf(t)].state = "live" /\ r.step # LastCheckpoint
    <3> DEFINE s == [r EXCEPT !.at = "working"]
    <3>1. RunMoved(t, s)
      BY <1>1, <1>4, <2>3 DEF Checkpoint, RunMoved
    <3>2. r \in RunState
      BY <1>1, <3>1, MovesFacts
    <3>3. s \in RunState /\ s.at = "working" /\ s.of = r.of /\ s.step = r.step
      BY <3>2 DEF RunState
    <3> HIDE DEF s
    <3>4. /\ run'[t] = s /\ job' = job /\ (overrun' <=> overrun) /\ DocOf(t)' = DocOf(t)
          /\ t \in issued' /\ run[t].of \in Created'
          /\ HoldsLease(run[t].of, t)' <=> HoldsLease(run[t].of, t)
          /\ RunOK(t) /\ (~overrun => TouchOK(t) /\ ProgressOK(t))
      BY <1>1, <3>1, <3>3, MovesFacts DEF HoldsLease
    <3>5. r.step < LastCheckpoint
      BY <2>3, <3>2, StepNames DEF RunState
    <3>6. RunOK(t)'
      BY <3>3, <3>4, <3>5 DEF RunOK, AtWork
    <3>7. TouchOK(t)'
      BY <1>4, <3>3, <3>4 DEF TouchOK
    <3>8. ~overrun' => ProgressOK(t)'
      BY <1>1, <1>4, <2>3, <3>3, <3>4 DEF ProgressOK, MustBeEmpty, MustBeMine
    <3>9. QED
      BY <3>1, <3>3, <3>6, <3>7, <3>8, MovesKeepInv
  <2>4. QED
    BY <2>1, <2>2, <2>3
<1>5. QED
  BY <1>2, <1>3, <1>4

LEMMA StepDoneKeeps ==
  ASSUME IndexInv, NEW t \in Token, StepDone(t)
  PROVE  IndexInv'
<1> DEFINE r == run[t]
<1>1. AtWork(t) /\ chunks' = Written(t) /\ run[t].at # "none"
  BY DEF StepDone, AtWork
<1>2. CASE r.at = "draining"
  <2>1. RunMoved(t, End(t, r.outcome))
    BY <1>1, <1>2 DEF StepDone, RunMoved
  <2>2. r.outcome \in {"none", "success", "failure", "lease_lost"}
    BY <1>1, <2>1, MovesFacts DEF RunState
  <2>3. ~overrun => ProgressOK(t)
    BY DEF IndexInv, ChunksOK
  <2>4. QED
    BY <1>1, <1>2, <2>1, <2>2, <2>3, EndsKeepInv DEF ProgressOK
<1>3. CASE r.at = "working"
  <2> DEFINE s == [r EXCEPT !.step = @ + 1, !.at = "checkpoint"]
  <2>1. RunMoved(t, s)
    BY <1>1, <1>3 DEF StepDone, RunMoved
  <2>2. r \in RunState /\ RunOK(t) /\ (~overrun => TouchOK(t) /\ ProgressOK(t))
    BY <1>1, <2>1, MovesFacts
  <2>3. r.step \in 1..5 /\ r.step + 1 \in 1..LastCheckpoint
    <3>1. r.step \in 1..LastCheckpoint /\ r.step < LastCheckpoint
      BY <1>1, <2>2 DEF RunOK, RunState
    <3>2. QED
      BY <3>1, StepNames
  <2>4. s \in RunState /\ s.at = "checkpoint" /\ s.of = r.of /\ s.step = r.step + 1
    BY <2>2, <2>3 DEF RunState
  <2> HIDE DEF s
  <2>5. /\ run'[t] = s /\ job' = job /\ (overrun' <=> overrun) /\ DocOf(t)' = DocOf(t)
        /\ t \in issued' /\ run[t].of \in Created'
        /\ HoldsLease(run[t].of, t)' <=> HoldsLease(run[t].of, t)
    BY <1>1, <2>1, <2>4, MovesFacts DEF HoldsLease
  <2>6. RunOK(t)' /\ TouchOK(t)'
    BY <2>4, <2>5 DEF RunOK, AtWork, TouchOK, Touches
  <2>7. ASSUME ~overrun', HoldsLease(run[t].of, t), ~job[r.of].cancel_requested
        PROVE  /\ s.step = 5 => chunks'[DocOf(t)] = {}
               /\ s.step = LastCheckpoint => chunks'[DocOf(t)] = {t}
    <3>1. IndexTypeOK /\ TablesOK
      BY DEF IndexInv, TablesOK
    <3>2. DocOf(t) \in Doc
      BY <1>1, <2>2, <2>7, <3>1, LeaseOnLiveDoc
    <3>3. r.step = 5 => chunks[DocOf(t)] = {}
      BY <1>1, <1>3, <2>2, <2>5, <2>7 DEF ProgressOK, MustBeEmpty
    <3>4. r.step = 4 => chunks'[DocOf(t)] = {}
      BY <1>1, <2>2, <3>1, <3>2, WrittenEffect
    <3>5. r.step = 5 => chunks'[DocOf(t)] = {t}
      BY <1>1, <2>2, <3>1, <3>2, <3>3, WrittenEffect
    <3>6. QED
      BY <2>3, <2>4, <3>4, <3>5, StepNames
  <2>8. ~overrun' => ProgressOK(t)'
    BY <2>4, <2>5, <2>7 DEF ProgressOK, MustBeEmpty, MustBeMine
  <2>9. QED
    BY <2>1, <2>4, <2>6, <2>8, MovesKeepInv
<1>4. QED
  BY <1>1, <1>2, <1>3 DEF AtWork

LEMMA StepFailsKeeps ==
  ASSUME IndexInv, NEW t \in Token, StepFails(t)
  PROVE  IndexInv'
<1>1. AtWork(t) /\ chunks' \in {chunks, Written(t)} /\ run[t].at # "none"
  BY DEF StepFails, AtWork
<1>2. CASE run[t].at = "draining"
  <2>1. RunMoved(t, End(t, run[t].outcome))
    BY <1>1, <1>2 DEF StepFails, RunMoved
  <2>2. run[t].outcome \in {"none", "success", "failure", "lease_lost"}
    BY <1>1, <2>1, MovesFacts DEF RunState
  <2>3. ~overrun => ProgressOK(t)
    BY DEF IndexInv, ChunksOK
  <2>4. QED
    BY <1>1, <1>2, <2>1, <2>2, <2>3, EndsKeepInv DEF ProgressOK
<1>3. CASE run[t].at = "working"
  <2>1. RunMoved(t, End(t, "failure"))
    BY <1>1, <1>3 DEF StepFails, RunMoved
  <2>2. QED
    BY <1>1, <2>1, EndsKeepInv
<1>4. QED
  BY <1>1, <1>2, <1>3 DEF AtWork

LEMMA InterruptKeeps ==
  ASSUME IndexInv, NEW t \in Token, Interrupt(t)
  PROVE  IndexInv'
<1> DEFINE r == run[t]
<1>1. r.at \in {"checkpoint", "working"} /\ chunks' = chunks /\ run[t].at # "none"
  BY DEF Interrupt
<1>2. PICK outcome \in {"success", "failure"} :
        /\ outcome = "success" => job[r.of].cancel_requested
        /\ IF r.at = "working" /\ Steps[r.step] # "embed"
           THEN RunsTo(t, [r EXCEPT !.at = "draining", !.outcome = outcome])
           ELSE RunsTo(t, End(t, outcome))
  BY DEF Interrupt
<1>3. CASE r.at = "working" /\ Steps[r.step] # "embed"
  <2> DEFINE s == [r EXCEPT !.at = "draining", !.outcome = outcome]
  <2>1. RunMoved(t, s)
    BY <1>1, <1>2, <1>3 DEF RunMoved
  <2>2. r \in RunState /\ RunOK(t) /\ (~overrun => TouchOK(t) /\ ProgressOK(t))
    BY <1>1, <2>1, MovesFacts
  <2>3. s \in RunState /\ s.at = "draining" /\ s.of = r.of /\ s.step = r.step
        /\ s.outcome = outcome
    BY <2>2 DEF RunState
  <2> HIDE DEF s
  <2>4. /\ run'[t] = s /\ job' = job /\ (overrun' <=> overrun) /\ DocOf(t)' = DocOf(t)
        /\ t \in issued' /\ run[t].of \in Created'
        /\ HoldsLease(run[t].of, t)' <=> HoldsLease(run[t].of, t)
    BY <1>1, <2>1, <2>3, MovesFacts DEF HoldsLease
  <2>5. RunOK(t)'
    BY <1>3, <2>2, <2>3, <2>4 DEF RunOK, AtWork
  <2>6. ~overrun' => TouchOK(t)'
    BY <1>3, <2>2, <2>3, <2>4 DEF TouchOK, Touches, AtWork
  <2>7. ProgressOK(t)'
    BY <1>2, <2>3, <2>4 DEF ProgressOK, MustBeEmpty, MustBeMine
  <2>8. QED
    BY <2>1, <2>3, <2>5, <2>6, <2>7, MovesKeepInv
<1>4. CASE ~(r.at = "working" /\ Steps[r.step] # "embed")
  <2>1. RunMoved(t, End(t, outcome))
    BY <1>1, <1>2, <1>4 DEF RunMoved
  <2>2. QED
    BY <1>1, <1>2, <2>1, EndsKeepInv
<1>5. QED
  BY <1>3, <1>4

LEMMA VanishKeeps ==
  ASSUME IndexInv, NEW t \in Token, Vanish(t)
  PROVE  IndexInv'
<1>1. RunMoved(t, NoRun) /\ run[t].at # "none"
  BY DEF Vanish, RunMoved
<1>2. run'[t] = NoRun /\ NoRun.at = "none"
  BY <1>1, MovesFacts DEF NoRun
<1>3. RunOK(t)' /\ TouchOK(t)' /\ ProgressOK(t)'
  BY <1>2 DEF RunOK, AtWork, TouchOK, Touches, ProgressOK
<1>4. QED
  BY <1>1, <1>3, MovesKeepInv

-----------------------------------------------------------------------------
(* Requests: they change documents and chunks of documents that have no      *)
(* active task, and neither jobs nor tasks nor runs.                         *)
DocChange(c, r) ==
  /\ RequestGoes(c, r)
  /\ r \in RequestState \cup {NoRequest}
  /\ doc' \in [Doc -> DocRow \cup {AbsentDoc}] /\ chunks' \in [Doc -> SUBSET Token]
  /\ \A d \in Doc : doc[d].state = "live" =>
       /\ chunks'[d] = chunks[d]
       /\ doc'[d].index_status = doc[d].index_status
       /\ doc'[d].state # "live" => ~Busy(d)
  /\ \A d \in Doc : /\ doc[d].state # "absent" => doc'[d].state # "absent"
                    /\ doc[d].state = "deleted" => doc'[d].state = "deleted"
                    /\ doc'[d].cleaned => doc'[d].state = "deleted"
                    /\ (doc[d].state = "absent" /\ doc'[d].state = "live") =>
                         doc'[d].index_status = "pending"
                    /\ chunks'[d] \in {chunks[d], {}}

LEMMA DocChangeKeepsTables ==
  ASSUME TablesOK, NEW c \in Client, NEW r, DocChange(c, r)
  PROVE  TablesOK'
<1>1. /\ UNCHANGED <<job, issued, task, run, overrun>> /\ IndexTypeOK /\ LeasesInv
      /\ LeasesTypeOK
  BY DEF DocChange, RequestGoes, TablesOK, IndexTypeOK
<1>2. request' \in [Client -> RequestState \cup {NoRequest}]
  BY <1>1 DEF IndexTypeOK, DocChange, RequestGoes
<1>3. IndexTypeOK'
  BY <1>1, <1>2 DEF IndexTypeOK, LeasesTypeOK, DocChange
<1>4. LeasesInv'
  <2>1. TableStep
    BY <1>1, UnchangedStep DEF leaseVars
  <2>2. QED
    BY <1>1, <2>1, TableStepKeepsInv
<1>5. /\ Created' = Created /\ \A d : TasksOf(d)' = TasksOf(d)
      /\ \A j : Active(j)' <=> Active(j)
      /\ \A j : Latest(j)' <=> Latest(j)
  BY <1>1 DEF Created, TasksOf, Active, Latest
<1>6. ASSUME NEW j \in Created PROVE TaskOK(j)'
  <2>1. TaskOK(j) /\ task[j].of \in Doc /\ j \in TasksOf(task[j].of)
    BY <1>6, ActiveJob DEF TablesOK
  <2>2. Active(j) => doc'[task[j].of].state = "live"
    <3> SUFFICES ASSUME Active(j) PROVE doc'[task[j].of].state = "live"
      OBVIOUS
    <3>1. Busy(task[j].of) /\ doc[task[j].of].state = "live"
      BY <2>1 DEF Busy, TaskOK
    <3>2. QED
      BY <2>1, <3>1 DEF DocChange
  <2>3. doc'[task[j].of].state # "absent"
    BY <2>1 DEF TaskOK, DocChange
  <2>4. QED
    BY <1>1, <1>5, <2>1, <2>2, <2>3 DEF TaskOK
<1>7. ASSUME NEW d \in Doc PROVE DocOK(d)'
  <2>1. DocOK(d) /\ doc[d].state \in {"absent", "live", "deleted"}
    BY <1>1, <1>7, DocRows DEF TablesOK
  <2>2. CASE doc[d].state = "absent"
    <3>1. TasksOf(d) = {}
      BY <2>2 DEF TablesOK, TaskOK, TasksOf
    <3>2. QED
      BY <1>5, <1>7, <2>2, <3>1 DEF DocOK, DocChange
  <2>3. CASE doc[d].state = "live"
    BY <1>1, <1>5, <1>7, <2>1, <2>3 DEF DocOK, DocChange
  <2>4. CASE doc[d].state = "deleted"
    BY <1>7, <2>4 DEF DocOK, DocChange
  <2>5. QED
    BY <2>1, <2>2, <2>3, <2>4
<1>8. QED
  BY <1>1, <1>3, <1>4, <1>5, <1>6, <1>7 DEF TablesOK, Numbered

LEMMA DocChangeKeepsInv ==
  ASSUME IndexInv, NEW c \in Client, NEW r, DocChange(c, r),
         RequestOK(c)', ~overrun => ConfirmOK(c)',
         ~overrun => \A d \in Doc : doc'[d].cleaned => doc[d].cleaned \/ chunks'[d] = {}
  PROVE  IndexInv'
<1>1. /\ TablesOK /\ IndexTypeOK /\ UNCHANGED <<job, issued, task, run, overrun>>
      /\ \A u \in Token : RunOK(u)
      /\ \A b \in Client : RequestOK(b)
  BY DEF IndexInv, TablesOK, DocChange, RequestGoes
<1>2. TablesOK'
  BY <1>1, DocChangeKeepsTables
<1>3. Created' = Created /\ Running' = Running
  BY <1>1 DEF Created, Running
<1>4. ASSUME NEW u \in Token PROVE RunOK(u)'
  BY <1>1, <1>3 DEF RunOK, AtWork
<1>5. \A b \in Client : b # c => request'[b] = request[b]
  BY <1>1 DEF IndexTypeOK, DocChange, RequestGoes
<1>6. ASSUME NEW b \in Client, b # c PROVE RequestOK(b)'
  <2>1. RequestOK(b) /\ request'[b] = request[b]
    BY <1>1, <1>5, <1>6
  <2>2. QED
    BY <2>1 DEF RequestOK, DocChange
<1>7. ASSUME ~overrun'
      PROVE  /\ \A u \in Token : TouchOK(u)' /\ ProgressOK(u)'
             /\ \A d \in Doc : DocChunksOK(d)'
             /\ \A b \in Client : ConfirmOK(b)'
  <2>1. /\ \A u \in Token : TouchOK(u) /\ ProgressOK(u)
        /\ \A d \in Doc : DocChunksOK(d)
        /\ \A b \in Client : ConfirmOK(b)
    BY <1>1, <1>7 DEF IndexInv, ChunksOK
  <2>2. ASSUME NEW u \in Token PROVE TouchOK(u)' /\ ProgressOK(u)'
    <3>1. TouchOK(u) /\ ProgressOK(u) /\ RunOK(u) /\ run'[u] = run[u] /\ job' = job
      BY <1>1, <2>1
    <3>2. /\ Touches(u)' = Touches(u) /\ MustBeEmpty(u)' = MustBeEmpty(u)
          /\ MustBeMine(u)' = MustBeMine(u)
          /\ HoldsLease(run[u].of, u)' = HoldsLease(run[u].of, u)
          /\ DocOf(u)' = DocOf(u)
      BY <1>1, <1>3 DEF Touches, AtWork, MustBeEmpty, MustBeMine, HoldsLease, DocOf
    <3>3. ASSUME run[u].at # "none", HoldsLease(run[u].of, u)
          PROVE  chunks'[DocOf(u)] = chunks[DocOf(u)]
      BY <1>1, <3>1, <3>3, LeaseOnLiveDoc DEF DocChange
    <3>4. QED
      BY <3>1, <3>2, <3>3 DEF TouchOK, ProgressOK
  <2>3. ASSUME NEW d \in Doc PROVE DocChunksOK(d)'
    <3>1. DocChunksOK(d) /\ doc[d].state \in {"absent", "live", "deleted"}
          /\ chunks'[d] \in {chunks[d], {}}
      BY <1>1, <2>1, <2>3, DocRows DEF DocChange
    <3>2. doc'[d].cleaned => chunks'[d] = {}
      BY <1>1, <1>7, <3>1 DEF DocChunksOK
    <3>3. doc'[d].state = "live" /\ doc'[d].index_status = "succeeded" =>
            \E t \in Token : chunks'[d] = {t}
      BY <2>3, <3>1 DEF DocChunksOK, DocChange
    <3>4. QED
      BY <3>2, <3>3 DEF DocChunksOK
  <2>4. ASSUME NEW b \in Client PROVE ConfirmOK(b)'
    <3>1. CASE b = c
      BY <1>1, <1>7, <3>1
    <3>2. CASE b # c
      <4>1. request'[b] = request[b] /\ ConfirmOK(b) /\ RequestOK(b)
        BY <1>1, <1>5, <2>1, <3>2
      <4>2. QED
        BY <4>1 DEF ConfirmOK, RequestOK, DocChange
    <3>3. QED
      BY <3>1, <3>2
  <2>5. QED
    BY <2>2, <2>3, <2>4
<1>8. \A b \in Client : RequestOK(b)'
  BY <1>6
<1>9. ChunksOK'
  BY <1>7 DEF ChunksOK
<1>10. QED
  BY <1>2, <1>4, <1>8, <1>9 DEF IndexInv

(* A request that goes on, without touching documents or chunks.             *)
LEMMA RequestOnlyKeeps ==
  ASSUME IndexInv, NEW c \in Client, NEW r \in RequestState \cup {NoRequest},
         RequestGoes(c, r), UNCHANGED <<doc, chunks>>,
         r.phase \in {"none", "soft_delete", "add"},
         r.phase = "soft_delete" => r.of \in Doc /\ doc[r.of].state # "absent"
  PROVE  IndexInv'
<1>1. TablesOK /\ IndexTypeOK /\ request'[c] = r
  BY DEF IndexInv, TablesOK, IndexTypeOK, RequestGoes
<1>2. DocChange(c, r)
  <2>1. \A d \in Doc : DocOK(d) /\ doc[d].state \in {"absent", "live", "deleted"}
    BY <1>1, DocRows DEF TablesOK
  <2>2. doc' \in [Doc -> DocRow \cup {AbsentDoc}] /\ chunks' \in [Doc -> SUBSET Token]
    BY <1>1 DEF IndexTypeOK
  <2>3. QED
    BY <2>1, <2>2 DEF DocChange, DocOK
<1>3. RequestOK(c)' /\ ConfirmOK(c)'
  BY <1>1 DEF RequestOK, ConfirmOK
<1>4. QED
  BY <1>2, <1>3, DocChangeKeepsInv

LEMMA DeleteKeeps ==
  ASSUME IndexInv, NEW c \in Client, NEW d \in Doc, Delete(c, d)
  PROVE  IndexInv'
<1> DEFINE r == [phase |-> "soft_delete", of |-> d, upload |-> FALSE]
<1>1. r \in RequestState /\ r.phase = "soft_delete" /\ r.of = d
  BY DEF RequestState
<1>2. QED
  BY <1>1, RequestOnlyKeeps DEF Delete

LEMMA UploadKeeps ==
  ASSUME IndexInv, NEW c \in Client, Upload(c)
  PROVE  IndexInv'
<1>1. CASE RequestGoes(c, [phase |-> "add", of |-> NoDoc, upload |-> TRUE])
  <2> DEFINE r == [phase |-> "add", of |-> NoDoc, upload |-> TRUE]
  <2>1. r \in RequestState /\ r.phase = "add"
    BY DEF RequestState
  <2>2. QED
    BY <1>1, <2>1, RequestOnlyKeeps DEF Upload
<1>2. ASSUME NEW d \in Uncleaned,
             RequestGoes(c, [phase |-> "soft_delete", of |-> d, upload |-> TRUE])
      PROVE  IndexInv'
  <2> DEFINE r == [phase |-> "soft_delete", of |-> d, upload |-> TRUE]
  <2>1. r \in RequestState /\ r.phase = "soft_delete" /\ r.of = d
        /\ d \in Doc /\ doc[d].state # "absent"
    BY DEF RequestState, Uncleaned
  <2>2. QED
    BY <1>2, <2>1, RequestOnlyKeeps DEF Upload
<1>3. QED
  BY <1>1, <1>2 DEF Upload

(* What Proceed writes; the upload goes on to its own transaction.           *)
NextRequest(c, phase) ==
  IF phase = "add" /\ ~request[c].upload THEN NoRequest
  ELSE [request[c] EXCEPT !.phase = phase]

LEMMA NextRequestType ==
  ASSUME IndexInv, NEW c \in Client, request[c].phase # "none",
         NEW phase \in {"soft_delete", "vectors", "confirm", "add"}
  PROVE  /\ NextRequest(c, phase) \in RequestState \cup {NoRequest}
         /\ NextRequest(c, phase).phase \in {"none", phase}
         /\ NextRequest(c, phase).phase = "none" => phase = "add"
         /\ NextRequest(c, phase).phase # "none" => NextRequest(c, phase).of = request[c].of
<1>1. request[c] \in RequestState
  BY RequestRows DEF IndexInv, TablesOK
<1>2. CASE phase = "add" /\ ~request[c].upload
  BY <1>2 DEF NextRequest, NoRequest
<1>3. CASE ~(phase = "add" /\ ~request[c].upload)
  <2> DEFINE r == [request[c] EXCEPT !.phase = phase]
  <2>1. r \in RequestState /\ r.phase = phase /\ r.of = request[c].of
    BY <1>1 DEF RequestState
  <2>2. NextRequest(c, phase) = r
    BY <1>3 DEF NextRequest
  <2>3. QED
    BY <2>1, <2>2
<1>4. QED
  BY <1>2, <1>3

LEMMA SoftDeleteKeeps ==
  ASSUME IndexInv, NEW c \in Client, SoftDelete(c)
  PROVE  IndexInv'
<1> DEFINE d == request[c].of
<1>1. /\ TablesOK /\ IndexTypeOK /\ request[c].phase = "soft_delete" /\ RequestOK(c)
      /\ doc \in [Doc -> DocRow \cup {AbsentDoc}] /\ chunks' = chunks
      /\ chunks \in [Doc -> SUBSET Token]
  BY DEF SoftDelete, IndexInv, TablesOK, IndexTypeOK
<1>2. d \in Doc /\ doc[d].state # "absent" /\ doc[d] \in DocRow
  BY <1>1, DocRows DEF RequestOK
<1>3. CASE Busy(d)
  <2>1. RequestGoes(c, NoRequest) /\ UNCHANGED <<doc, chunks>>
    BY <1>1, <1>3 DEF SoftDelete
  <2>2. NoRequest.phase = "none"
    BY DEF NoRequest
  <2>3. QED
    BY <2>1, <2>2, RequestOnlyKeeps
<1>4. CASE ~Busy(d)
  <2> DEFINE phase == IF doc[d].cleaned THEN "add" ELSE "vectors"
             r == NextRequest(c, phase)
  <2>1. RequestGoes(c, r) /\ doc' = [doc EXCEPT ![d].state = "deleted"]
    BY <1>4 DEF SoftDelete, Proceed, NextRequest
  <2>2. /\ r \in RequestState \cup {NoRequest} /\ r.phase \in {"none", "add", "vectors"}
        /\ r.phase # "none" => r.of = d
    BY <1>1, NextRequestType
  <2> HIDE DEF r
  <2>3. doc'[d] \in DocRow /\ doc'[d].state = "deleted" /\ doc'[d].cleaned = doc[d].cleaned
    BY <1>1, <1>2, <2>1 DEF DocRow
  <2>4. \A e \in Doc : e # d => doc'[e] = doc[e]
    BY <1>1, <2>1
  <2>5. doc' \in [Doc -> DocRow \cup {AbsentDoc}]
    BY <1>1, <2>1, <2>3
  <2>6. \A e \in Doc : doc[e].state \in {"absent", "live", "deleted"} /\ DocOK(e)
    BY <1>1, DocRows DEF TablesOK
  <2>7. \A e \in Doc : /\ doc[e].cleaned => doc[e].state = "deleted"
                       /\ doc'[e].cleaned = doc[e].cleaned
    BY <2>3, <2>4, <2>6 DEF DocOK
  <2>8. doc'[d].index_status = doc[d].index_status
    BY <1>1, <1>2, <2>1 DEF DocRow
  <2>9. DocChange(c, r)
    BY <1>1, <1>2, <1>4, <2>1, <2>2, <2>3, <2>4, <2>5, <2>6, <2>7, <2>8 DEF DocChange
  <2>10. request'[c] = r
    BY <1>1, <2>1 DEF RequestGoes, IndexTypeOK
  <2>11. RequestOK(c)' /\ ConfirmOK(c)'
    BY <1>2, <2>2, <2>3, <2>10 DEF RequestOK, ConfirmOK
  <2>12. QED
    BY <2>7, <2>9, <2>11, DocChangeKeepsInv
<1>5. QED
  BY <1>3, <1>4

LEMMA DeleteVectorsKeeps ==
  ASSUME IndexInv, NEW c \in Client, DeleteVectors(c)
  PROVE  IndexInv'
<1> DEFINE d == request[c].of
           r == NextRequest(c, "confirm")
<1>1. /\ TablesOK /\ IndexTypeOK /\ request[c].phase = "vectors" /\ RequestOK(c)
      /\ doc \in [Doc -> DocRow \cup {AbsentDoc}] /\ doc' = doc
      /\ chunks \in [Doc -> SUBSET Token] /\ chunks' = [chunks EXCEPT ![d] = {}]
      /\ RequestGoes(c, r)
  BY DEF DeleteVectors, Proceed, NextRequest, IndexInv, TablesOK, IndexTypeOK
<1>2. d \in Doc /\ doc[d].state = "deleted"
  BY <1>1 DEF RequestOK
<1>3. r \in RequestState \cup {NoRequest} /\ r.phase = "confirm" /\ r.of = d
  BY <1>1, NextRequestType
<1> HIDE DEF r
<1>4. \A e \in Doc : doc[e].state \in {"absent", "live", "deleted"} /\ DocOK(e)
  BY <1>1, DocRows DEF TablesOK
<1>5. DocChange(c, r)
  BY <1>1, <1>2, <1>3, <1>4 DEF DocChange, DocOK
<1>6. request'[c] = r
  BY <1>1 DEF RequestGoes, IndexTypeOK
<1>7. RequestOK(c)' /\ ConfirmOK(c)'
  BY <1>1, <1>2, <1>3, <1>6 DEF RequestOK, ConfirmOK
<1>8. QED
  BY <1>1, <1>5, <1>7, DocChangeKeepsInv

LEMMA ConfirmCleanupKeeps ==
  ASSUME IndexInv, NEW c \in Client, ConfirmCleanup(c)
  PROVE  IndexInv'
<1> DEFINE d == request[c].of
           r == NextRequest(c, "add")
<1>1. /\ TablesOK /\ IndexTypeOK /\ request[c].phase = "confirm" /\ RequestOK(c)
      /\ doc \in [Doc -> DocRow \cup {AbsentDoc}] /\ chunks' = chunks
      /\ chunks \in [Doc -> SUBSET Token] /\ doc' = [doc EXCEPT ![d].cleaned = TRUE]
      /\ RequestGoes(c, r)
  BY DEF ConfirmCleanup, Proceed, NextRequest, IndexInv, TablesOK, IndexTypeOK
<1>2. d \in Doc /\ doc[d].state = "deleted" /\ doc[d] \in DocRow
  BY <1>1, DocRows DEF RequestOK
<1>3. r \in RequestState \cup {NoRequest} /\ r.phase \in {"none", "add"}
  BY <1>1, NextRequestType
<1> HIDE DEF r
<1>4. doc'[d] \in DocRow /\ doc'[d].state = "deleted"
  BY <1>1, <1>2 DEF DocRow
<1>5. \A e \in Doc : e # d => doc'[e] = doc[e]
  BY <1>1
<1>6. doc' \in [Doc -> DocRow \cup {AbsentDoc}]
  BY <1>1, <1>4
<1>7. \A e \in Doc : doc[e].state \in {"absent", "live", "deleted"} /\ DocOK(e)
  BY <1>1, DocRows DEF TablesOK
<1>8. DocChange(c, r)
  BY <1>1, <1>2, <1>3, <1>4, <1>5, <1>6, <1>7 DEF DocChange, DocOK
<1>9. request'[c] = r
  BY <1>1 DEF RequestGoes, IndexTypeOK
<1>10. RequestOK(c)' /\ ConfirmOK(c)'
  BY <1>3, <1>9 DEF RequestOK, ConfirmOK
<1>11. ~overrun => chunks[d] = {}
  BY <1>1 DEF IndexInv, ChunksOK, ConfirmOK
<1>12. QED
  BY <1>1, <1>5, <1>8, <1>10, <1>11, DocChangeKeepsInv

LEMMA AddKeeps ==
  ASSUME IndexInv, NEW c \in Client, Add(c)
  PROVE  IndexInv'
<1>1. /\ TablesOK /\ IndexTypeOK /\ chunks' = chunks /\ RequestGoes(c, NoRequest)
      /\ doc \in [Doc -> DocRow \cup {AbsentDoc}] /\ chunks \in [Doc -> SUBSET Token]
      /\ NoRequest.phase = "none"
  BY DEF Add, IndexInv, TablesOK, IndexTypeOK, NoRequest
<1>2. CASE doc' = doc
  BY <1>1, <1>2, RequestOnlyKeeps
<1>3. ASSUME NEW d \in Doc, doc[d].state = "absent",
             doc' = [doc EXCEPT ![d].state = "live"]
      PROVE  IndexInv'
  <2>1. doc[d] = AbsentDoc
    BY <1>1, <1>3, DocRows
  <2>2. /\ doc'[d] \in DocRow /\ doc'[d].state = "live" /\ ~doc'[d].cleaned
        /\ doc'[d].index_status = "pending"
    <3>1. doc'[d] = [AbsentDoc EXCEPT !.state = "live"]
      BY <1>1, <1>3, <2>1
    <3>2. doc'[d] = [state |-> "live", index_status |-> "pending", cleaned |-> FALSE]
      BY <3>1 DEF AbsentDoc
    <3>3. QED
      BY <3>2 DEF DocRow, TaskStatus
  <2>3. \A e \in Doc : e # d => doc'[e] = doc[e]
    BY <1>1, <1>3
  <2>4. doc' \in [Doc -> DocRow \cup {AbsentDoc}]
    BY <1>1, <1>3, <2>2
  <2>5. \A e \in Doc : doc[e].state \in {"absent", "live", "deleted"} /\ DocOK(e)
    BY <1>1, DocRows DEF TablesOK
  <2>6. DocChange(c, NoRequest)
    BY <1>1, <1>3, <2>2, <2>3, <2>4, <2>5 DEF DocChange, DocOK
  <2>7. request'[c] = NoRequest
    BY <1>1 DEF RequestGoes, IndexTypeOK
  <2>8. RequestOK(c)' /\ ConfirmOK(c)'
    BY <1>1, <2>7 DEF RequestOK, ConfirmOK
  <2>9. \A e \in Doc : doc'[e].cleaned => doc[e].cleaned
    BY <2>2, <2>3
  <2>10. QED
    BY <2>6, <2>8, <2>9, DocChangeKeepsInv
<1>4. QED
  BY <1>2, <1>3 DEF Add

LEMMA RequestFailsKeeps ==
  ASSUME IndexInv, NEW c \in Client, RequestFails(c)
  PROVE  IndexInv'
<1>1. /\ TablesOK /\ IndexTypeOK /\ RequestOK(c) /\ RequestGoes(c, NoRequest) /\ doc' = doc
      /\ doc \in [Doc -> DocRow \cup {AbsentDoc}] /\ chunks \in [Doc -> SUBSET Token]
      /\ NoRequest.phase = "none"
  BY DEF RequestFails, IndexInv, TablesOK, IndexTypeOK, NoRequest
<1>2. CASE chunks' = chunks
  BY <1>1, <1>2, RequestOnlyKeeps
<1>3. CASE request[c].phase = "vectors" /\ chunks' = [chunks EXCEPT ![request[c].of] = {}]
  <2>1. request[c].of \in Doc /\ doc[request[c].of].state = "deleted"
    BY <1>1, <1>3 DEF RequestOK
  <2>2. \A e \in Doc : doc[e].state \in {"absent", "live", "deleted"} /\ DocOK(e)
    BY <1>1, DocRows DEF TablesOK
  <2>3. DocChange(c, NoRequest)
    BY <1>1, <1>3, <2>1, <2>2 DEF DocChange, DocOK
  <2>4. request'[c] = NoRequest
    BY <1>1 DEF RequestGoes, IndexTypeOK
  <2>5. RequestOK(c)' /\ ConfirmOK(c)'
    BY <1>1, <2>4 DEF RequestOK, ConfirmOK
  <2>6. QED
    BY <1>1, <2>3, <2>5, DocChangeKeepsInv
<1>4. QED
  BY <1>2, <1>3 DEF RequestFails

-----------------------------------------------------------------------------
(* Steps of the queue.  The runs T may change, the others keep their leases  *)
(* as long as they touch Milvus.                                             *)
RunsBut(T) ==
  /\ run' \in [Token -> RunState \cup {NoRun}]
  /\ \A u \in Token \ T : run'[u] = run[u]
  /\ \A u \in Token \ T : \A i \in JobId :
       HoldsLease(i, u) /\ Touches(u) => HoldsLease(i, u)' \/ overrun'

LEMMA RelabelKeepsInv ==
  ASSUME IndexInv, Relabels, TablesOK', NEW T, RunsBut(T),
         \A u \in Token \cap T : RunOK(u)' /\ (~overrun' => TouchOK(u)' /\ ProgressOK(u)'),
         ~overrun' => \A d \in Doc : DocChunksOK(d)'
  PROVE  IndexInv'
<1>1. /\ TablesOK /\ (~overrun' => ~overrun)
      /\ \A u \in Token : RunOK(u)
      /\ \A c \in Client : RequestOK(c)
      /\ ~overrun => /\ \A u \in Token : TouchOK(u) /\ ProgressOK(u)
                     /\ \A c \in Client : ConfirmOK(c)
  BY DEF IndexInv, ChunksOK, Relabels
<1>2. ASSUME NEW u \in Token
      PROVE  RunOK(u)' /\ (~overrun' => TouchOK(u)' /\ ProgressOK(u)')
  <2>1. CASE u \in T
    BY <2>1
  <2>2. CASE u \notin T
    <3>1. run'[u] = run[u]
      BY <2>2 DEF RunsBut
    <3>2. RunOK(u)' /\ (ProgressOK(u) => ProgressOK(u)')
      BY <1>1, <3>1, RelabelKeepsRuns
    <3>3. ~overrun' => TouchOK(u)'
      <4> SUFFICES ASSUME ~overrun', Touches(u)' PROVE HoldsLease(run[u].of, u)'
        BY DEF TouchOK
      <4>1. Touches(u) /\ run[u].at # "none"
        BY <3>1 DEF Touches, AtWork
      <4>2. HoldsLease(run[u].of, u) /\ run[u].of \in JobId
        BY <1>1, <4>1 DEF TouchOK, RunOK, Created
      <4>3. \A i \in JobId : HoldsLease(i, u) => HoldsLease(i, u)'
        BY <2>2, <4>1 DEF RunsBut
      <4>4. \A i : i = run[u].of => i = run'[u].of
        BY <3>1
      <4>5. QED
        BY <3>1, <4>2, <4>3 DEF HoldsLease
    <3>4. QED
      BY <1>1, <3>2, <3>3
  <2>3. QED
    BY <2>1, <2>2
<1>3. \A c \in Client : RequestOK(c)' /\ (~overrun' => ConfirmOK(c)')
  BY <1>1, RelabelKeepsRequests
<1>4. ChunksOK'
  BY <1>2, <1>3 DEF ChunksOK
<1>5. QED
  BY <1>2, <1>3, <1>4 DEF IndexInv

LEMMA ProjectKeepsInv ==
  ASSUME IndexInv, NEW S, Projects(S), UNCHANGED <<chunks, request, overrun>>,
         NEW T, RunsBut(T),
         \A u \in Token \cap T : RunOK(u)' /\ (~overrun' => TouchOK(u)' /\ ProgressOK(u)'),
         ~overrun => \A j \in S : job'[j].status = "succeeded" =>
                       \E t \in Token : chunks[task[j].of] = {t}
  PROVE  IndexInv'
<1>1. TablesOK /\ IndexTypeOK /\ LeasesInv /\ TableStep
  BY DEF IndexInv, TablesOK, Projects
<1>2. /\ Created' = Created /\ task' = [j \in JobId |-> task'[j]]
      /\ \A j \in JobId : task'[j].of = task[j].of
      /\ \A j \in JobId \ Created : task'[j] = AbsentTask
      /\ \A j \in Created : task'[j] \in TaskRow /\ task'[j].status = Shown(job'[j].status)
  BY <1>1, ProjectedTasks
<1>3. /\ doc' \in [Doc -> DocRow \cup {AbsentDoc}]
      /\ \A d \in Doc :
           /\ doc'[d].state = doc[d].state /\ doc'[d].cleaned = doc[d].cleaned
           /\ doc'[d] = doc[d] \/ \E j \in S : /\ task[j].of = d
                                               /\ doc'[d].index_status = task'[j].status
  BY <1>1, ProjectedDocs
<1>4. LeasesTypeOK' /\ LeasesInv'
  BY <1>1, TableStepKeepsInv DEF LeasesInv
<1>5. task' \in [JobId -> TaskRow \cup {AbsentTask}]
  BY <1>2
<1>6. IndexTypeOK'
  BY <1>1, <1>3, <1>4, <1>5 DEF IndexTypeOK, RunsBut
<1>7. TablesOK'
  BY <1>1, <1>6, ProjectKeepsTables
<1>8. Relabels
  BY <1>1, <1>2, <1>3 DEF Relabels, Created
<1>9. ASSUME ~overrun', NEW d \in Doc PROVE DocChunksOK(d)'
  <2>1. DocChunksOK(d)
    BY <1>9 DEF IndexInv, ChunksOK
  <2>2. CASE doc'[d] = doc[d]
    BY <2>1, <2>2 DEF DocChunksOK
  <2>3. ASSUME NEW j \in S, task[j].of = d, doc'[d].index_status = task'[j].status
        PROVE  DocChunksOK(d)'
    <3>1. j \in Created /\ j \in JobId
      BY DEF Projects, Created
    <3>2. job'[j].status \in {"queued", "running"} \cup Settled
      BY <1>2, <1>4, <3>1 DEF LeasesTypeOK, JobState, Created, NoRow
    <3>3. task'[j].status = "succeeded" => job'[j].status = "succeeded"
      BY <1>2, <3>1, <3>2, ShownStatus
    <3>4. QED
      BY <1>3, <1>9, <2>1, <2>3, <3>3 DEF DocChunksOK
  <2>4. QED
    BY <1>3, <2>2, <2>3
<1>10. QED
  BY <1>7, <1>8, <1>9, RelabelKeepsInv

LEMMA CancelTaskKeeps ==
  ASSUME IndexInv, NEW j \in JobId, CancelTask(j)
  PROVE  IndexInv'
<1>1. /\ TablesOK /\ IndexTypeOK /\ LeasesInv /\ LeasesTypeOK /\ j \in Created /\ Cancel(j)
      /\ Project({j}) /\ UNCHANGED <<chunks, run, request, overrun>>
  BY DEF CancelTask, IndexInv, TablesOK, LeasesInv
<1>2. /\ job' = [job EXCEPT ![j] = IF job[j].status = "queued"
                                   THEN Leave(Request(job[j]), "cancelled") ELSE Request(job[j])]
      /\ job[j].status \in {"queued", "running"}
      /\ job \in [JobId -> JobState \cup {NoRow}] /\ job[j] \in JobState
  <2>1. job[j] \in JobState
    BY <1>1, JobRows
  <2>2. QED
    BY <1>1, <2>1 DEF Cancel, LeasesTypeOK
<1>3. \A i \in JobId : i # j => job'[i] = job[i]
  BY <1>2
<1>4. Projects({j})
  BY <1>1, <1>2, <1>3, CancelStep DEF Projects
<1>5. RunsBut({})
  <2>1. run' \in [Token -> RunState \cup {NoRun}]
    BY <1>1 DEF IndexTypeOK
  <2>2. ASSUME NEW u \in Token, NEW i \in JobId, HoldsLease(i, u) PROVE HoldsLease(i, u)'
    <3>1. CASE i # j
      BY <1>3, <2>2, <3>1 DEF HoldsLease, Running
    <3>2. CASE i = j
      <4>1. job'[j] = Request(job[j])
        BY <1>2, <2>2, <3>2 DEF HoldsLease, Running
      <4>2. QED
        BY <1>2, <2>2, <3>2, <4>1, RequestType DEF HoldsLease, Running
    <3>3. QED
      BY <3>1, <3>2
  <2>3. QED
    BY <1>1, <2>1, <2>2 DEF RunsBut
<1>6. job'[j].status # "succeeded"
  <2>1. Request(job[j]) \in JobState /\ Request(job[j]).status = job[j].status
    BY <1>2, RequestType
  <2>2. Leave(Request(job[j]), "cancelled").status = "cancelled"
    BY <2>1, LeaveType DEF Settled
  <2>3. QED
    BY <1>2, <2>1, <2>2
<1>7. QED
  BY <1>1, <1>4, <1>5, <1>6, ProjectKeepsInv

(* What recovering and claiming does to who holds a lease.                   *)
LEMMA RecoveredLeases ==
  ASSUME NEW i \in JobId, NEW u, HoldsLease(i, u), job'[i] = Recovered(Lapsed)[i]
  PROVE  HoldsLease(i, u)'
<1>1. i \notin Lapsed
  BY DEF HoldsLease, Lapsed
<1>2. job'[i] = job[i]
  BY <1>1 DEF Recovered
<1>3. QED
  BY <1>2 DEF HoldsLease, Running

LEMMA RecoveredStatus ==
  ASSUME LeasesTypeOK, NEW i \in JobId, job'[i] = Recovered(Lapsed)[i]
  PROVE  /\ i \notin Lapsed => job'[i].status = job[i].status
         /\ i \in Lapsed => job'[i].status # "succeeded"
<1>1. CASE i \notin Lapsed
  BY <1>1 DEF Recovered
<1>2. CASE i \in Lapsed
  <2>1. job[i].status = "running" /\ job'[i] = Leave(job[i], AfterRun(job[i], "failure"))
    BY <1>2, RecoveredRows
  <2>2. job[i] \in JobState
    BY <2>1, RowTypes
  <2> DEFINE status == AfterRun(job[i], "failure")
  <2>3. status \in {"queued"} \cup Settled /\ status # "succeeded"
    BY AfterRunType DEF Settled
  <2>4. job'[i] = Leave(job[i], status)
    BY <2>1
  <2> HIDE DEF status
  <2>5. job'[i].status = status
    BY <2>2, <2>3, <2>4, LeaveType
  <2>6. QED
    BY <1>2, <2>3, <2>5
<1>3. QED
  BY <1>1, <1>2

LEMMA ClaimTaskKeeps ==
  ASSUME IndexInv, ClaimTask
  PROVE  IndexInv'
<1>1. /\ TablesOK /\ IndexTypeOK /\ LeasesInv /\ LeasesTypeOK
      /\ UNCHANGED <<chunks, request, overrun>>
      /\ run \in [Token -> RunState \cup {NoRun}]
  BY DEF ClaimTask, IndexInv, TablesOK, IndexTypeOK, LeasesInv
<1>2. \A i \in Lapsed : /\ i \in Created /\ i \in JobId
                        /\ job[i].status \in {"queued", "running"}
  BY DEF Lapsed, Running, Created
<1>3. CASE /\ job' = Recovered(Lapsed) /\ Project(Lapsed)
           /\ UNCHANGED <<issued, run>>
  <2>1. TableStep
    <3>1. Lapsed \subseteq Lapsed /\ job' = Recovered(Lapsed) /\ issued' = issued
      BY <1>3
    <3>2. QED
      BY <1>1, <3>1, RecoverStep
  <2>2. \A i \in JobId : /\ i \notin Lapsed => job'[i].status = job[i].status
                         /\ i \in Lapsed => job'[i].status # "succeeded"
    BY <1>1, <1>3, RecoveredStatus
  <2>3. Projects(Lapsed)
    BY <1>2, <1>3, <2>1, <2>2 DEF Projects
  <2>4. RunsBut({})
    BY <1>1, <1>3, RecoveredLeases DEF RunsBut
  <2>5. QED
    BY <1>1, <1>2, <2>2, <2>3, <2>4, ProjectKeepsInv
<1>4. ASSUME NEW j \in Due, NEW t \in Token \ issued,
             job' = [Recovered(Lapsed) EXCEPT ![j] = Start(@, t)],
             issued' = issued \cup {t},
             run' = [run EXCEPT ![t] = NewRun(j)],
             Project(Lapsed \cup {j})
      PROVE  IndexInv'
  <2>1. Claims(Lapsed, j, t)
    BY <1>4 DEF Claims
  <2>2. /\ TableStep /\ j \notin Lapsed /\ job'[j] = Start(job[j], t)
        /\ \A i \in JobId : i # j => job'[i] = Recovered(Lapsed)[i]
    BY <1>1, <2>1, RecoverAndClaimStep
  <2>3. /\ j \in JobId /\ j \in Created /\ job[j].status = "queued" /\ job[j] \in JobState
        /\ job[j].attempt < job[j].max_attempts
    BY <1>1, JobRows DEF Due, Created
  <2>4. job'[j].status = "running"
    BY <2>2, <2>3, StartType
  <2>5. \A i \in JobId : i # j => /\ i \notin Lapsed => job'[i].status = job[i].status
                                  /\ i \in Lapsed => job'[i].status # "succeeded"
    BY <1>1, <2>2, RecoveredStatus
  <2>6. Projects(Lapsed \cup {j})
    BY <1>2, <1>4, <2>2, <2>3, <2>5 DEF Projects
  <2>7. NewRun(j) \in RunState /\ NewRun(j).at = "checkpoint" /\ NewRun(j).step = 1
        /\ NewRun(j).of = j
    BY <2>3, StepNames DEF NewRun, RunState
  <2>8. run' \in [Token -> RunState \cup {NoRun}] /\ run'[t] = NewRun(j)
    BY <1>1, <1>4, <2>7
  <2>9. ASSUME NEW u \in Token, NEW i \in JobId, HoldsLease(i, u) PROVE HoldsLease(i, u)'
    <3>1. i # j
      BY <2>3, <2>9 DEF HoldsLease, Running
    <3>2. QED
      BY <2>2, <2>9, <3>1, RecoveredLeases
  <2>10. RunsBut({t})
    BY <1>1, <1>4, <2>8, <2>9 DEF RunsBut
  <2>11. t \in issued' /\ j \in Created'
    BY <1>4, <2>3, <2>4 DEF Created
  <2>12. RunOK(t)' /\ TouchOK(t)'
    BY <2>7, <2>8, <2>11 DEF RunOK, AtWork, TouchOK, Touches
  <2>13. ProgressOK(t)'
    BY <2>7, <2>8, StepNames DEF ProgressOK, MustBeEmpty, MustBeMine
  <2>14. QED
    BY <1>1, <1>2, <2>4, <2>5, <2>6, <2>10, <2>12, <2>13, ProjectKeepsInv
<1>5. QED
  BY <1>3, <1>4 DEF ClaimTask

LEMMA FinishRunKeeps ==
  ASSUME IndexInv, NEW t \in Token, FinishRun(t)
  PROVE  IndexInv'
<1> DEFINE r == run[t]
<1>1. /\ TablesOK /\ IndexTypeOK /\ LeasesInv /\ LeasesTypeOK /\ RunOK(t)
      /\ UNCHANGED <<issued, chunks, request, overrun>>
      /\ r.at = "ended" /\ run' = [run EXCEPT ![t] = NoRun]
      /\ run \in [Token -> RunState \cup {NoRun}]
  BY DEF FinishRun, IndexInv, TablesOK, IndexTypeOK, LeasesInv
<1>2. CASE ~(r.outcome # "lease_lost" /\ HoldsLease(r.of, t))
  <2>1. RunMoved(t, NoRun) /\ NoRun.at = "none"
    BY <1>1, <1>2 DEF FinishRun, RunMoved, RunsTo, NoRun
  <2>2. run'[t] = NoRun
    BY <1>1
  <2>3. RunOK(t)' /\ TouchOK(t)' /\ ProgressOK(t)'
    BY <2>1, <2>2 DEF RunOK, AtWork, TouchOK, Touches, ProgressOK
  <2>4. QED
    BY <2>1, <2>3, MovesKeepInv
<1>3. CASE r.outcome # "lease_lost" /\ HoldsLease(r.of, t)
  <2> DEFINE j == r.of
  <2>1. /\ job' = [job EXCEPT ![j] = Leave(job[j], AfterRun(job[j], r.outcome))]
        /\ Project({j})
    BY <1>1, <1>3 DEF FinishRun
  <2>2. /\ j \in Created /\ j \in JobId /\ j \in Running /\ job[j].status = "running"
        /\ job[j] \in JobState /\ job[j].holder = t
    <3>1. j \in Created /\ j \in JobId
      BY <1>1 DEF RunOK, Created
    <3>2. QED
      BY <1>1, <1>3, <3>1, JobRows DEF HoldsLease, Running
  <2>3. /\ \A i \in JobId : i # j => job'[i] = job[i]
        /\ job'[j] = Leave(job[j], AfterRun(job[j], r.outcome))
    BY <1>1, <2>1, <2>2 DEF LeasesTypeOK
  <2>4. TableStep
    <3>1. CASE r.outcome \in Outcome
      <4>1. job' = [job EXCEPT ![j] = Leave(@, AfterRun(@, r.outcome))] /\ issued' = issued
        BY <1>1, <2>1
      <4>2. QED
        BY <1>1, <2>2, <3>1, <4>1, LeaveStep
    <3>2. CASE r.outcome \notin Outcome
      <4>1. r.outcome # "success"
        BY <3>2 DEF Outcome
      <4>2. AfterRun(job[j], r.outcome) = AfterRun(job[j], "failure")
        BY <4>1 DEF AfterRun
      <4>3. job' = [job EXCEPT ![j] = Leave(@, AfterRun(@, "failure"))] /\ "failure" \in Outcome
        BY <2>1, <4>2 DEF Outcome
      <4>4. QED
        BY <1>1, <2>2, <4>3, LeaveStep
    <3>3. QED
      BY <3>1, <3>2
  <2>5. Projects({j})
    BY <2>1, <2>2, <2>3, <2>4 DEF Projects
  <2>6. ASSUME NEW u \in Token \ {t}, NEW i \in JobId, HoldsLease(i, u) PROVE HoldsLease(i, u)'
    <3>1. i # j
      BY <2>2, <2>6 DEF HoldsLease
    <3>2. QED
      BY <2>3, <2>6, <3>1 DEF HoldsLease, Running
  <2>7. run'[t] = NoRun /\ NoRun.at = "none" /\ run' \in [Token -> RunState \cup {NoRun}]
    BY <1>1 DEF NoRun
  <2>8. RunsBut({t})
    BY <1>1, <2>6, <2>7 DEF RunsBut
  <2>9. RunOK(t)' /\ TouchOK(t)' /\ ProgressOK(t)'
    BY <2>7 DEF RunOK, AtWork, TouchOK, Touches, ProgressOK
  <2>10. ASSUME ~overrun, job'[j].status = "succeeded"
         PROVE  \E u \in Token : chunks[task[j].of] = {u}
    <3> DEFINE status == AfterRun(job[j], r.outcome)
    <3>1. /\ status \in {"queued"} \cup Settled
          /\ job'[j] = Leave(job[j], status) /\ job[j] \in JobState
      BY <2>2, <2>3, AfterRunType DEF Settled
    <3>2. status = "succeeded"
      <4> HIDE DEF status
      <4>1. Leave(job[j], status).status = status
        BY <3>1, LeaveType
      <4>2. QED
        BY <2>10, <3>1, <4>1
    <3>3. ~job[j].cancel_requested /\ r.outcome = "success"
      BY <3>2, AfterRunType
    <3>4. ProgressOK(t)
      BY <2>10 DEF IndexInv, ChunksOK
    <3>5. chunks[DocOf(t)] = {t}
      BY <1>1, <1>3, <3>3, <3>4 DEF ProgressOK, MustBeMine
    <3>6. QED
      BY <3>5 DEF DocOf
  <2>11. QED
    BY <1>1, <2>5, <2>8, <2>9, <2>10, ProjectKeepsInv
<1>4. QED
  BY <1>2, <1>3

(* A new task is numbered after all others, so it is its document's latest.  *)
LEMMA CreateTaskTables ==
  ASSUME IndexInv, NEW d \in Doc, NEW m \in Attempts, CreateTask(d, m)
  PROVE  /\ TablesOK' /\ Relabels
         /\ \A e \in Doc : doc'[e] = doc[e] \/ doc'[e].index_status = "pending"
         /\ \A i \in JobId : \A u : HoldsLease(i, u) => HoldsLease(i, u)'
<1>0. PICK j \in JobId : j = Cardinality(Created) + 1
  BY DEF CreateTask
<1>1. /\ TablesOK /\ IndexTypeOK /\ LeasesInv /\ LeasesTypeOK /\ Numbered
      /\ doc[d].state = "live" /\ ~Busy(d) /\ j \in JobId /\ Enqueue(j, m)
      /\ doc' = [doc EXCEPT ![d].index_status = "pending"]
      /\ UNCHANGED <<chunks, run, request, overrun>>
      /\ doc \in [Doc -> DocRow \cup {AbsentDoc}]
      /\ task \in [JobId -> TaskRow \cup {AbsentTask}]
  BY <1>0 DEF CreateTask, IndexInv, TablesOK, IndexTypeOK, LeasesInv
<1>2. PICK source \in IF TasksOf(d) = {} THEN {NoTask} ELSE TasksOf(d) :
        task' = [task EXCEPT ![j] = [status |-> "pending", of |-> d, retry_of |-> source]]
  BY <1>0 DEF CreateTask
<1>3. Cardinality(Created) \in Nat
  <2>1. Created \in SUBSET JobId
    BY DEF Created
  <2>2. IsFiniteSet(Created)
    BY <2>1, IndexAssumption, FS_Subset
  <2>3. QED
    BY <2>2, FS_CardinalityType
<1>4. Created = 1..Cardinality(Created)
  BY <1>1 DEF Numbered
<1>5. /\ j \in Nat /\ j \notin Created /\ j # NoTask
      /\ \A i \in Created : i \in Nat /\ i < j /\ i \in JobId
  <2> DEFINE k == Cardinality(Created)
  <2>1. Created = 1..k /\ k \in Nat /\ j = k + 1
    BY <1>0, <1>3, <1>4
  <2> HIDE DEF k
  <2>2. j \in Nat /\ j \notin Created /\ j # 0 /\ \A i \in Created : i \in Nat /\ i < j
    BY <2>1
  <2>3. Created \subseteq JobId
    BY DEF Created
  <2>4. QED
    BY <2>2, <2>3 DEF NoTask
<1>6. TableStep
  BY <1>1, EnqueueStep
<1>7. /\ job'[j] = NewRow(m) /\ job'[j].status = "queued"
      /\ \A i \in JobId : i # j => job'[i] = job[i]
  BY <1>1, NewRowType DEF Enqueue, LeasesTypeOK
<1>8. Created' = Created \cup {j}
  BY <1>1, <1>7 DEF Created
<1>9. Numbered'
  <2>1. Created' = 1..j
    BY <1>0, <1>3, <1>4, <1>8
  <2>2. Cardinality(1..j) = j
    BY <1>0, <1>3, <1>5, FS_Interval
  <2>3. QED
    BY <2>1, <2>2 DEF Numbered
<1>10. /\ source \in JobId \cup {NoTask}
       /\ source # NoTask => source \in TasksOf(d) /\ source < j
  BY <1>5 DEF TasksOf
<1>11. /\ task'[j] \in TaskRow /\ task'[j].status = "pending" /\ task'[j].of = d
       /\ task'[j].retry_of = source
       /\ \A i \in JobId : i # j => task'[i] = task[i]
  BY <1>1, <1>2, <1>10 DEF TaskRow, TaskStatus
<1>12. doc[d] \in DocRow
  BY <1>1, DocRows
<1>13. /\ doc'[d] \in DocRow /\ doc'[d].state = doc[d].state /\ doc'[d].cleaned = doc[d].cleaned
       /\ doc'[d].index_status = "pending"
       /\ \A e \in Doc : e # d => doc'[e] = doc[e]
  BY <1>1, <1>12 DEF DocRow, TaskStatus
<1>14. LeasesInv' /\ LeasesTypeOK'
  BY <1>1, <1>6, TableStepKeepsInv DEF LeasesInv
<1>15. IndexTypeOK'
  <2>1. task' \in [JobId -> TaskRow \cup {AbsentTask}]
    BY <1>1, <1>2, <1>11
  <2>2. doc' \in [Doc -> DocRow \cup {AbsentDoc}]
    BY <1>1, <1>13
  <2>3. QED
    BY <1>1, <1>14, <2>1, <2>2 DEF IndexTypeOK
<1>16. \A e : TasksOf(e)' = IF e = d THEN TasksOf(d) \cup {j} ELSE TasksOf(e)
  BY <1>5, <1>8, <1>11 DEF TasksOf
<1>17. ASSUME NEW i \in Created PROVE TaskOK(i)'
  <2>1. /\ i \in JobId /\ i # j /\ TaskOK(i) /\ task[i].of \in Doc
        /\ i \in TasksOf(task[i].of) /\ task'[i] = task[i] /\ job'[i] = job[i]
    BY <1>1, <1>5, <1>11, <1>7, <1>17, ActiveJob DEF TablesOK
  <2>2. doc'[task[i].of].state = doc[task[i].of].state
    BY <1>13, <2>1
  <2>3. Active(i)' = Active(i) /\ (Active(i) => task[i].of # d)
    BY <1>1, <2>1 DEF Active, Busy
  <2>4. \A e : e = task[i].of => TasksOf(task[i].of)' = TasksOf(e)'
    BY <2>1
  <2>5. TasksOf(task[i].of) \subseteq TasksOf(task[i].of)'
    BY <1>16, <2>4
  <2>6. Active(i) => TasksOf(task[i].of)' = TasksOf(task[i].of)
    BY <1>16, <2>3, <2>4
  <2>7. QED
    BY <2>1, <2>2, <2>3, <2>5, <2>6 DEF TaskOK
<1>18. TaskOK(j)'
  <2>1. Shown("queued") = "pending"
    BY DEF Shown
  <2>2. TasksOf(task[j].of)' = TasksOf(d) \cup {j}
    <3>1. TasksOf(task[j].of)' = TasksOf(d)'
      BY <1>11 DEF TasksOf
    <3>2. QED
      BY <1>16, <3>1
  <2>3. \A i \in TasksOf(d) \cup {j} : i <= j
    BY <1>5 DEF TasksOf
  <2>4. source # NoTask => source < j /\ source \in TasksOf(d) \cup {j}
    BY <1>10
  <2>5. QED
    BY <1>1, <1>7, <1>11, <1>13, <2>1, <2>2, <2>3, <2>4 DEF TaskOK
<1>19. ASSUME NEW e \in Doc PROVE DocOK(e)'
  <2>1. DocOK(e)
    BY <1>1 DEF TablesOK
  <2>2. CASE e = d
    <3>1. j \in TasksOf(d)' /\ \A i \in TasksOf(d)' : i <= j
      BY <1>5, <1>16 DEF TasksOf
    <3>2. Latest(j)'
      <4>1. TasksOf(task[j].of)' = TasksOf(d)'
        BY <1>11 DEF TasksOf
      <4>2. QED
        BY <3>1, <4>1 DEF Latest
    <3>3. /\ doc'[d].index_status = task'[j].status
          /\ doc'[d].cleaned => doc'[d].state = "deleted"
      BY <1>11, <1>13, <2>1, <2>2 DEF DocOK
    <3>4. QED
      BY <2>2, <3>1, <3>2, <3>3 DEF DocOK
  <2>3. CASE e # d
    <3>1. doc'[e] = doc[e] /\ TasksOf(e)' = TasksOf(e)
      BY <1>13, <1>16, <2>3
    <3>2. ASSUME NEW i \in TasksOf(e), Latest(i)
          PROVE  Latest(i)' /\ task'[i].status = task[i].status
      <4>1. i \in Created /\ task[i].of = e /\ task'[i] = task[i]
        BY <1>5, <1>11, <3>2 DEF TasksOf
      <4>2. TasksOf(task[i].of)' = TasksOf(e)' /\ TasksOf(task[i].of) = TasksOf(e)
        BY <4>1 DEF TasksOf
      <4>3. QED
        BY <3>1, <3>2, <4>1, <4>2 DEF Latest
    <3>3. QED
      BY <2>1, <3>1, <3>2 DEF DocOK
  <2>4. QED
    BY <2>2, <2>3
<1>20. TablesOK'
  <2>1. \A i \in Created' : TaskOK(i)'
    BY <1>8, <1>17, <1>18
  <2>2. \A i \in JobId \ Created' : task'[i] = AbsentTask
    BY <1>1, <1>8, <1>11 DEF TablesOK
  <2>3. QED
    BY <1>9, <1>14, <1>15, <1>19, <2>1, <2>2 DEF TablesOK
<1>21. Relabels
  BY <1>1, <1>5, <1>6, <1>8, <1>11, <1>13 DEF Relabels
<1>22. ASSUME NEW i \in JobId, NEW u, HoldsLease(i, u) PROVE HoldsLease(i, u)'
  <2>1. i # j
    BY <1>5, <1>22 DEF HoldsLease, Running, Created
  <2>2. QED
    BY <1>7, <1>22, <2>1 DEF HoldsLease, Running
<1>23. QED
  BY <1>13, <1>20, <1>21, <1>22

LEMMA CreateTaskKeeps ==
  ASSUME IndexInv, NEW d \in Doc, NEW m \in Attempts, CreateTask(d, m)
  PROVE  IndexInv'
<1>1. /\ TablesOK' /\ Relabels
      /\ \A e \in Doc : doc'[e] = doc[e] \/ doc'[e].index_status = "pending"
      /\ \A i \in JobId : \A u : HoldsLease(i, u) => HoldsLease(i, u)'
  BY CreateTaskTables
<1>2. UNCHANGED <<chunks, run, request, overrun>> /\ IndexTypeOK
  BY DEF CreateTask, IndexInv, TablesOK
<1>3. RunsBut({})
  BY <1>1, <1>2 DEF RunsBut, IndexTypeOK
<1>4. ~overrun' => \A e \in Doc : DocChunksOK(e)'
  <2> SUFFICES ASSUME ~overrun', NEW e \in Doc PROVE DocChunksOK(e)'
    OBVIOUS
  <2>1. DocChunksOK(e)
    BY <1>2 DEF IndexInv, ChunksOK
  <2>2. QED
    BY <1>1, <1>2, <2>1 DEF DocChunksOK, Relabels
<1>5. QED
  BY <1>1, <1>3, <1>4, RelabelKeepsInv

-----------------------------------------------------------------------------
(* Time.                                                                     *)
LEMMA LapseKeeps ==
  ASSUME IndexInv, NEW j \in JobId, LeaseEnds(j)
  PROVE  IndexInv'
<1>1. /\ TablesOK /\ IndexTypeOK /\ LeasesInv /\ LeasesTypeOK /\ TimePasses({j}, {})
      /\ job[j].status = "running" /\ issued' = issued
      /\ UNCHANGED <<task, doc, chunks, run, request>> /\ overrun' \in BOOLEAN
      /\ overrun' <=> (overrun \/ \E t \in Token : job[j].holder = t /\ Touches(t))
      /\ run \in [Token -> RunState \cup {NoRun}]
  BY DEF LeaseEnds, TimePasses, Running, IndexInv, TablesOK, IndexTypeOK, LeasesInv
<1>2. TableStep
  BY <1>1, TimeStep
<1>3. /\ job'[j] = [job[j] EXCEPT !.lease = "lapsed"] /\ job[j] \in JobState
      /\ \A i \in JobId : i # j => job'[i] = job[i]
  BY <1>1, RowTypes DEF TimePasses
<1>4. \A i \in JobId : job'[i].status = job[i].status
  BY <1>3 DEF JobState
<1>5. LeasesTypeOK' /\ LeasesInv'
  BY <1>1, <1>2, TableStepKeepsInv DEF LeasesInv
<1>6. IndexTypeOK'
  BY <1>1, <1>5 DEF IndexTypeOK
<1>7. TablesOK'
  BY <1>1, <1>2, <1>4, <1>6, ClockKeepsTables
<1>8. Relabels
  BY <1>1, <1>2, <1>4 DEF Relabels, Created
<1>9. ASSUME NEW u \in Token, NEW i \in JobId, HoldsLease(i, u), Touches(u)
      PROVE  HoldsLease(i, u)' \/ overrun'
  <2>1. CASE i = j
    BY <1>1, <1>9, <2>1 DEF HoldsLease
  <2>2. CASE i # j
    BY <1>3, <1>9, <2>2 DEF HoldsLease, Running
  <2>3. QED
    BY <2>1, <2>2
<1>10. RunsBut({})
  BY <1>1, <1>9 DEF RunsBut
<1>11. ~overrun' => \A d \in Doc : DocChunksOK(d)'
  BY <1>1 DEF IndexInv, ChunksOK, DocChunksOK
<1>12. QED
  BY <1>7, <1>8, <1>10, <1>11, RelabelKeepsInv

LEMMA DelayEndsKeeps ==
  ASSUME IndexInv, NEW j \in JobId, RetryDue(j)
  PROVE  IndexInv'
<1>1. /\ TablesOK /\ IndexTypeOK /\ LeasesInv /\ LeasesTypeOK /\ TimePasses({}, {j})
      /\ job[j].status = "queued" /\ issued' = issued
      /\ UNCHANGED <<task, doc, chunks, run, request, overrun>>
      /\ run \in [Token -> RunState \cup {NoRun}]
  BY DEF RetryDue, TimePasses, indexVars, IndexInv, TablesOK, IndexTypeOK, LeasesInv
<1>2. TableStep
  BY <1>1, TimeStep
<1>3. /\ job'[j] = [job[j] EXCEPT !.waits = "due"] /\ job[j] \in JobState
      /\ \A i \in JobId : i # j => job'[i] = job[i]
  BY <1>1, RowTypes DEF TimePasses
<1>4. \A i \in JobId : job'[i].status = job[i].status
  BY <1>3 DEF JobState
<1>5. LeasesTypeOK' /\ LeasesInv'
  BY <1>1, <1>2, TableStepKeepsInv DEF LeasesInv
<1>6. IndexTypeOK'
  BY <1>1, <1>5 DEF IndexTypeOK
<1>7. TablesOK'
  BY <1>1, <1>2, <1>4, <1>6, ClockKeepsTables
<1>8. Relabels
  BY <1>1, <1>2, <1>4 DEF Relabels, Created
<1>9. ASSUME NEW u \in Token, NEW i \in JobId, HoldsLease(i, u) PROVE HoldsLease(i, u)'
  <2>1. i # j
    BY <1>1, <1>9 DEF HoldsLease, Running
  <2>2. QED
    BY <1>3, <1>9, <2>1 DEF HoldsLease, Running
<1>10. RunsBut({})
  BY <1>1, <1>9 DEF RunsBut
<1>11. ~overrun' => \A d \in Doc : DocChunksOK(d)'
  BY <1>1 DEF IndexInv, ChunksOK, DocChunksOK
<1>12. QED
  BY <1>7, <1>8, <1>10, <1>11, RelabelKeepsInv

-----------------------------------------------------------------------------
(* The invariant holds at first and after each step.                         *)
LEMMA IndexStarts == IndexInit => IndexInv
<1> SUFFICES ASSUME IndexInit PROVE IndexInv
  OBVIOUS
<1>1. LeasesInv /\ LeasesTypeOK /\ Created = {}
  <2>1. LeasesInv
    BY InitHasInv DEF IndexInit
  <2>2. Created = {}
    BY DEF IndexInit, LeasesInit, NoRow, Created
  <2>3. QED
    BY <2>1, <2>2 DEF LeasesInv
<1>2. IndexTypeOK
  BY <1>1 DEF IndexInit, IndexTypeOK
<1>3. Numbered
  <2>1. Cardinality({}) = 0
    BY FS_EmptySet
  <2>2. QED
    BY <1>1, <2>1 DEF Numbered
<1>4. TablesOK
  <2>1. \A d \in Doc : DocOK(d)
    BY <1>1 DEF IndexInit, DocOK, AbsentDoc
  <2>2. QED
    BY <1>1, <1>2, <1>3, <2>1 DEF IndexInit, TablesOK
<1>5. \A t \in Token : RunOK(t) /\ TouchOK(t) /\ ProgressOK(t)
  BY DEF IndexInit, NoRun, RunOK, AtWork, TouchOK, Touches, ProgressOK
<1>6. \A c \in Client : RequestOK(c) /\ ConfirmOK(c)
  BY DEF IndexInit, NoRequest, RequestOK, ConfirmOK
<1>7. \A d \in Doc : DocChunksOK(d)
  BY DEF IndexInit, AbsentDoc, DocChunksOK
<1>8. QED
  BY <1>4, <1>5, <1>6, <1>7 DEF IndexInv, ChunksOK

LEMMA IndexStep == IndexInv /\ [IndexNext]_indexingVars => IndexInv'
<1> SUFFICES ASSUME IndexInv, [IndexNext]_indexingVars PROVE IndexInv'
  OBVIOUS
<1>1. CASE UNCHANGED indexingVars
  <2>1. UNCHANGED <<job, issued, task, doc, chunks, run, request, overrun>>
    BY <1>1 DEF indexingVars
  <2>2. TablesOK'
    <3>1. TablesOK /\ IndexTypeOK /\ LeasesInv
      BY DEF IndexInv, TablesOK
    <3>2. TableStep
      BY <2>1, <3>1, UnchangedStep DEF leaseVars
    <3>3. IndexTypeOK'
      BY <2>1, <3>1 DEF IndexTypeOK, LeasesTypeOK
    <3>4. QED
      BY <2>1, <3>1, <3>2, <3>3, ClockKeepsTables
  <2>3. \A t \in Token : RunOK(t)'
    BY <2>1 DEF IndexInv, RunOK, AtWork, Created
  <2>4. \A c \in Client : RequestOK(c)'
    BY <2>1 DEF IndexInv, RequestOK
  <2>5. ChunksOK'
    <3>1. \A t : TouchOK(t)' <=> TouchOK(t)
      BY <2>1 DEF TouchOK, Touches, AtWork, HoldsLease, Running
    <3>2. \A t : ProgressOK(t)' <=> ProgressOK(t)
      BY <2>1 DEF ProgressOK, HoldsLease, Running, MustBeEmpty, MustBeMine, DocOf
    <3>3. \A d : DocChunksOK(d)' <=> DocChunksOK(d)
      BY <2>1 DEF DocChunksOK
    <3>4. \A c : ConfirmOK(c)' <=> ConfirmOK(c)
      BY <2>1 DEF ConfirmOK
    <3>5. QED
      BY <2>1, <3>1, <3>2, <3>3, <3>4 DEF IndexInv, ChunksOK
  <2>6. QED
    BY <2>2, <2>3, <2>4, <2>5 DEF IndexInv
<1>2. CASE \E d \in Doc, m \in Attempts : CreateTask(d, m)
  BY <1>2, CreateTaskKeeps
<1>3. CASE \E j \in JobId : CancelTask(j) \/ LeaseEnds(j) \/ RetryDue(j)
  BY <1>3, CancelTaskKeeps, LapseKeeps, DelayEndsKeeps
<1>4. CASE ClaimTask
  BY <1>4, ClaimTaskKeeps
<1>5. CASE \E t \in Token :
             \/ Checkpoint(t) \/ StepDone(t) \/ StepFails(t) \/ Interrupt(t)
             \/ FinishRun(t) \/ Vanish(t)
  BY <1>5, CheckpointKeeps, StepDoneKeeps, StepFailsKeeps, InterruptKeeps, FinishRunKeeps,
     VanishKeeps
<1>6. CASE \E c \in Client :
             \/ \E d \in Doc : Delete(c, d)
             \/ Upload(c) \/ SoftDelete(c) \/ DeleteVectors(c) \/ ConfirmCleanup(c)
             \/ Add(c) \/ RequestFails(c)
  BY <1>6, DeleteKeeps, UploadKeeps, SoftDeleteKeeps, DeleteVectorsKeeps, ConfirmCleanupKeeps,
     AddKeeps, RequestFailsKeeps
<1>7. QED
  BY <1>1, <1>2, <1>3, <1>4, <1>5, <1>6 DEF IndexNext

LEMMA IndexInvariant == IndexSpec => []IndexInv
BY IndexStarts, IndexStep, PTL DEF IndexSpec

-----------------------------------------------------------------------------
(* Tasks, documents, chunks, runs and requests stay in their domains.        *)
THEOREM IndexTypeCorrect == IndexSpec => []IndexTypeOK
<1>1. IndexInv => IndexTypeOK
  BY DEF IndexInv, TablesOK
<1>2. QED
  BY <1>1, IndexInvariant, PTL

(* Whatever clients, worker and clock do, a document with a task in progress *)
(* is live and has no other (index_tasks.py, create; knowledge.py,           *)
(* soft_delete).                                                             *)
THEOREM DocumentOwned == IndexSpec => []ActiveTaskOwnsDocument
<1>1. IndexInv => ActiveTaskOwnsDocument
  <2> SUFFICES ASSUME IndexInv, NEW j \in Created, Active(j)
               PROVE  /\ doc[task[j].of].state = "live"
                      /\ \A i \in TasksOf(task[j].of) : Active(i) => i = j
    BY DEF ActiveTaskOwnsDocument
  <2>1. TablesOK
    BY DEF IndexInv
  <2>2. /\ doc[task[j].of].state = "live" /\ Latest(j) /\ j \in TasksOf(task[j].of)
    BY <2>1, ActiveJob
  <2>3. ASSUME NEW i \in TasksOf(task[j].of), Active(i) PROVE i = j
    <3>1. Latest(i)
      BY <2>1, <2>3, ActiveJob DEF TasksOf
    <3>2. QED
      BY <2>1, <2>2, <2>3, <3>1, OneLatest
  <2>4. QED
    BY <2>2, <2>3
<1>2. QED
  BY <1>1, IndexInvariant, PTL

(* Task and document show the state of the job, in every state               *)
(* (index_projection.py, project_index_job).                                 *)
THEOREM ProjectionNeverStale == IndexSpec => []ProjectionIsCurrent
<1>1. IndexInv => ProjectionIsCurrent
  <2> SUFFICES ASSUME IndexInv PROVE ProjectionIsCurrent
    OBVIOUS
  <2>1. TablesOK
    BY DEF IndexInv
  <2>2. \A j \in Created : task[j].status = Shown(job[j].status)
    BY <2>1 DEF TablesOK, TaskOK
  <2>3. ASSUME NEW d \in Doc, doc[d].state = "live"
        PROVE  doc[d].index_status =
                 IF TasksOf(d) = {} THEN "pending"
                 ELSE task[CHOOSE j \in TasksOf(d) : \A i \in TasksOf(d) : i <= j].status
    <3>1. CASE TasksOf(d) = {}
      BY <2>1, <2>3, <3>1 DEF TablesOK, DocOK
    <3>2. CASE TasksOf(d) # {}
      <4>1. PICK j \in TasksOf(d) : Latest(j) /\ doc[d].index_status = task[j].status
        BY <2>1, <2>3, <3>2 DEF TablesOK, DocOK
      <4>2. \A i \in TasksOf(d) : Latest(i) <=> \A k \in TasksOf(d) : k <= i
        BY DEF Latest, TasksOf
      <4>3. \A i \in TasksOf(d) : (\A k \in TasksOf(d) : k <= i) => i = j
        BY <2>1, <4>1, <4>2, OneLatest
      <4>4. (CHOOSE i \in TasksOf(d) : \A k \in TasksOf(d) : k <= i) = j
        BY <4>1, <4>2, <4>3
      <4>5. QED
        BY <3>2, <4>1, <4>4
    <3>3. QED
      BY <3>1, <3>2
  <2>4. QED
    BY <2>2, <2>3 DEF ProjectionIsCurrent
<1>2. QED
  BY <1>1, IndexInvariant, PTL

(* A document shown as succeeded has the chunks of exactly one run           *)
(* (document_indexing.py, the handler).                                      *)
THEOREM SuccessIsComplete == IndexSpec => []SucceededIsComplete
<1>1. IndexInv => SucceededIsComplete
  BY FS_Singleton DEF IndexInv, ChunksOK, DocChunksOK, SucceededIsComplete
<1>2. QED
  BY <1>1, IndexInvariant, PTL

(* A document whose cleanup was confirmed has no chunks, ever after          *)
(* (knowledge.py, delete_document).                                          *)
THEOREM CleanedForEver == IndexSpec => []CleanedStaysClean
<1>1. IndexInv => CleanedStaysClean
  BY DEF IndexInv, ChunksOK, DocChunksOK, CleanedStaysClean
<1>2. QED
  BY <1>1, IndexInvariant, PTL
==================================================================================
