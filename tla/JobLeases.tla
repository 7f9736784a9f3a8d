------------------------------ MODULE JobLeases ------------------------------
(***************************************************************************)
(* What the job queue promises, without owners, kinds, event log and clock.*)
(* Time is reduced to the two comparisons the code makes with it: a lease  *)
(* is live until it expires, a queued job is due once its delay is over.   *)
(* BackgroundJobs implements this module; BackgroundWorker runs on it.     *)
(***************************************************************************)
EXTENDS Integers, FiniteSets

CONSTANTS
  JobId,     \* jobs
  Token,     \* lease tokens, each issued once
  Attempts,  \* the max_attempts values of jobs
  NoToken    \* the lease_owner of a job that is not running

ASSUME LeasesAssumption ==
  /\ Attempts \subseteq 1..100
  /\ NoToken \notin Token

VARIABLES
  job,     \* job[j]: NoRow, or what the table says about j
  issued   \* every token ever handed out

leaseVars == <<job, issued>>

Settled == {"succeeded", "failed", "cancelled"}
Outcome == {"success", "failure", "timeout", "shutdown"}

NoRow == [status |-> "absent"]
JobState ==
  [status: {"queued", "running"} \cup Settled,
   attempt: Nat, max_attempts: 1..100,
   holder: Token \cup {NoToken},   \* lease_owner
   lease: {"none", "live", "lapsed"},    \* lapsed: lease_expires_at <= now
   waits: {"no", "delayed", "due"},      \* due: queued and available_at <= now
   cancel_requested: BOOLEAN]

NewRow(m) ==
  [status |-> "queued", attempt |-> 0, max_attempts |-> m, holder |-> NoToken,
   lease |-> "none", waits |-> "due", cancel_requested |-> FALSE]

Created == {j \in JobId : job[j].status # "absent"}
Running == {j \in JobId : job[j].status = "running"}
Lapsed == {j \in Running : job[j].lease = "lapsed"}

(* A run that did not succeed: a cancel request wins, then attempts left. *)
AfterFailedRunOnceMore(row) ==                       \* mutant of AfterFailedRun
  IF row.cancel_requested THEN "cancelled"
  ELSE IF row.attempt <= row.max_attempts THEN "queued" ELSE "failed"
AfterFailedRun(row) ==
  IF row.cancel_requested THEN "cancelled"
  ELSE IF row.attempt < row.max_attempts THEN "queued" ELSE "failed"

AfterRunSuccessFirst(row, outcome) ==                \* mutant of AfterRun
  IF outcome = "success" THEN "succeeded" ELSE AfterFailedRun(row)
AfterRun(row, outcome) ==
  IF outcome = "success" /\ ~row.cancel_requested
  THEN "succeeded" ELSE AfterFailedRun(row)

Start(row, t) ==
  [row EXCEPT !.status = "running",
              !.attempt = @ + 1,
              !.holder = t,
              !.lease = "live",
              !.waits = "no"]

(* Leaving a state drops the lease; a job queued again waits for its delay. *)
Leave(row, status) ==
  [row EXCEPT !.status = status,
              !.holder = NoToken,
              !.lease = "none",
              !.waits = IF status = "queued" THEN "delayed" ELSE "no"]

Request(row) == [row EXCEPT !.cancel_requested = TRUE]

(* What a poll finds: jobs it may claim, and the table once it has recovered *)
(* the expired runs S.                                                     *)
Due ==
  {j \in JobId : /\ job[j].status = "queued" /\ job[j].waits = "due"
                 /\ job[j].attempt < job[j].max_attempts}

Recovered(S) ==
  [j \in JobId |->
     IF j \in S THEN Leave(job[j], AfterFailedRun(job[j])) ELSE job[j]]

HoldsLease(j, t) == j \in Running /\ job[j].holder = t /\ job[j].lease = "live"

-----------------------------------------------------------------------------
LeasesInit ==
  /\ job = [j \in JobId |-> NoRow]
  /\ issued = {}

(* create, or retry of a settled job: a new row. *)
Enqueue(j, m) ==
  /\ j \notin Created
  /\ job' = [job EXCEPT ![j] = NewRow(m)]
  /\ UNCHANGED issued

Claim(j, t) ==
  /\ job[j].status = "queued" /\ job[j].waits = "due"
  /\ job[j].attempt < job[j].max_attempts
  /\ t \in Token \ issued
  /\ job' = [job EXCEPT ![j] = Start(@, t)]
  /\ issued' = issued \cup {t}

(* finish: only the holder of a live lease writes a result. *)
Finish(j, t, outcome) ==
  /\ HoldsLease(j, t)
  /\ job' = [job EXCEPT ![j] = Leave(@, AfterRun(@, outcome))]
  /\ UNCHANGED issued

(* recover_expired: expired runs end as failed runs. *)
Recover(S) ==
  /\ S # {} /\ S \subseteq Lapsed
  /\ job' = Recovered(S)
  /\ UNCHANGED issued

Cancel(j) ==
  /\ job[j].status \in {"queued", "running"}
  /\ ~job[j].cancel_requested
  /\ job' = [job EXCEPT ![j] =
               IF @.status = "queued"
               THEN Leave(Request(@), "cancelled") ELSE Request(@)]
  /\ UNCHANGED issued

(* The clock passes the end of the leases L and of the delays D. *)
TimePasses(L, D) ==
  /\ L \subseteq Running
  /\ D \subseteq {j \in JobId : job[j].status = "queued"}
  /\ job' = [j \in JobId |->
               IF j \in L THEN [job[j] EXCEPT !.lease = "lapsed"]
               ELSE IF j \in D THEN [job[j] EXCEPT !.waits = "due"]
               ELSE job[j]]
  /\ UNCHANGED issued

LeasesNext ==
  \/ \E j \in JobId, m \in Attempts : Enqueue(j, m)
  \/ \E j \in JobId, t \in Token : Claim(j, t)
  \/ \E j \in JobId, t \in issued, outcome \in Outcome : Finish(j, t, outcome)
  \/ \E S \in SUBSET JobId : Recover(S)
  \/ \E j \in JobId : Cancel(j)
  \/ \E L, D \in SUBSET JobId : TimePasses(L, D)

LeasesSpec == LeasesInit /\ [][LeasesNext]_leaseVars

-----------------------------------------------------------------------------
LeasesTypeOK ==
  /\ job \in [JobId -> JobState \cup {NoRow}]
  /\ issued \subseteq Token
=============================================================================
