---------------------------- MODULE BackgroundJobs ----------------------------
(***************************************************************************)
(* The durable job queue of apps/backend/src/oncall_pilot/background_jobs. *)
(* Every repository method runs in one SQLite transaction whose first      *)
(* statement takes the writer lock, so every method is one action here.    *)
(* A method that raises rolls its transaction back and is a stutter.       *)
(*                                                                         *)
(* Time stamps are whole seconds of a clock that never runs backwards; the *)
(* several utc_now() calls of one method read the same instant.            *)
(***************************************************************************)
EXTENDS Integers, Sequences, FiniteSets

CONSTANTS
  JobId,         \* identities of rows (uuid4)
  Owner,         \* owner_user_id values
  Kind,          \* job kinds in the table
  Registered,    \* kinds the worker has a handler for
  Token,         \* lease tokens "worker:uuid4", each issued once
  Attempts,      \* the max_attempts values callers pass
  LeaseSeconds,  \* length of a lease
  MaxTime,       \* bound on the clock
  MaxEvents,     \* bound on the events AppendEvent may bring a job to
  NoJob, NoToken \* SQL NULL

ASSUME ConstantsOK ==
  /\ Registered \subseteq Kind
  /\ Attempts \subseteq 1..100
  /\ LeaseSeconds \in Nat \ {0}
  /\ MaxTime \in Nat
  /\ MaxEvents \in Nat
  /\ NoJob \notin JobId
  /\ NoToken \notin Token

VARIABLES
  now,      \* the wall clock
  jobs,     \* table background_jobs
  events,   \* table background_job_events: per job, in sequence order
  issued    \* every token ever written by claim

vars == <<now, jobs, events, issued>>

Settled == {"succeeded", "failed", "cancelled"}
Status == {"queued", "running"} \cup Settled
EventType == Status \cup {"cancel_requested", "retried", "progress"}
Outcome == {"success", "failure", "timeout", "shutdown"}

(* A row of the table.  lease_expires_at is 0 for NULL: a lease ends at a   *)
(* time greater than 0.  error and completed say whether the column is set. *)
Row == [owner: Owner, kind: Kind, index_task: BOOLEAN,
        status: Status,
        attempt: Nat, max_attempts: 1..100,
        available_at: Nat, created_at: Nat,
        lease_owner: Token \cup {NoToken}, lease_expires_at: Nat,
        cancel_requested: BOOLEAN, retry_of: JobId \cup {NoJob},
        completed: BOOLEAN, error: BOOLEAN]

NoRow == [status |-> "absent"]   \* no such row

Rows == {j \in JobId : jobs[j].status # "absent"}

(* Exponential backoff, min(2^min(attempt, 5), 30) seconds. *)
BackoffSeconds == <<1, 2, 4, 8, 16, 30>>
RetryDelayStartingLow(attempt) ==                    \* mutant of RetryDelay
  BackoffSeconds[IF attempt < 5 THEN attempt ELSE 5]
RetryDelay(attempt) == BackoffSeconds[1 + (IF attempt < 5 THEN attempt ELSE 5)]

-----------------------------------------------------------------------------
(* Row updates shared by the actions. *)

(* The row INSERTed by create; retry then points it at the job it repeats. *)
QueuedRow(o, k, m, index, source) ==
  [owner |-> o, kind |-> k, index_task |-> index,
   status |-> "queued", attempt |-> 0, max_attempts |-> m,
   available_at |-> now, created_at |-> now,
   lease_owner |-> NoToken, lease_expires_at |-> 0,
   cancel_requested |-> FALSE, retry_of |-> source,
   completed |-> FALSE, error |-> FALSE]

(* claim: one more attempt, under a new token and a full lease. *)
StartedRowReusingToken(row, t) ==                    \* mutant of StartedRow
  [row EXCEPT !.status = "running",
              !.attempt = @ + 1,
              !.lease_owner = IF issued = {} THEN t ELSE CHOOSE u \in issued : TRUE,
              !.lease_expires_at = now + LeaseSeconds]
StartedRow(row, t) ==
  [row EXCEPT !.status = "running",
              !.attempt = @ + 1,
              !.lease_owner = t,
              !.lease_expires_at = now + LeaseSeconds]

RenewedRow(row) == [row EXCEPT !.lease_expires_at = now + LeaseSeconds]

CancelRequestedRow(row) == [row EXCEPT !.cancel_requested = TRUE]

(* _transition: leave the running (or queued) state and drop the lease. *)
TransitionKeepingLease(row, status, error) ==        \* mutant of Transition
  [row EXCEPT !.status = status, !.error = error, !.completed = status # "queued"]
Transition(row, status, error) ==
  [row EXCEPT !.status = status,
              !.error = error,
              !.available_at = IF status = "queued"
                               THEN now + RetryDelay(row.attempt) ELSE @,
              !.completed = status # "queued",
              !.lease_owner = NoToken,
              !.lease_expires_at = 0]

(* Where a run that did not succeed goes: a cancel request wins, then the   *)
(* attempts that are left.                                                  *)
AfterFailedRunOnceMore(row) ==                       \* mutant of AfterFailedRun
  IF row.cancel_requested THEN "cancelled"
  ELSE IF row.attempt <= row.max_attempts THEN "queued" ELSE "failed"
AfterFailedRunExpired(row) ==                        \* mutant of AfterFailedRun
  IF row.cancel_requested THEN "cancelled"
  ELSE IF row.attempt < row.max_attempts THEN "queued" ELSE "expired"
AfterFailedRun(row) ==
  IF row.cancel_requested THEN "cancelled"
  ELSE IF row.attempt < row.max_attempts THEN "queued" ELSE "failed"

AfterRunSuccessFirst(row, outcome) ==                \* mutant of AfterRun
  IF outcome = "success" THEN "succeeded" ELSE AfterFailedRun(row)
AfterRun(row, outcome) ==
  IF outcome = "success" /\ ~row.cancel_requested
  THEN "succeeded" ELSE AfterFailedRun(row)

(* require_lease: the caller's token is the row's and has not expired. *)
HoldsToken(j, t) ==                                  \* mutant of HoldsLease
  jobs[j].status = "running" /\ jobs[j].lease_owner = t
HoldsIssuedToken(j, t) ==                            \* mutant of HoldsLease
  j \in Rows /\ t \in issued
HoldsLease(j, t) ==
  /\ jobs[j].status = "running"
  /\ jobs[j].lease_owner = t
  /\ jobs[j].lease_expires_at > now

Expired(o) ==
  {j \in JobId : /\ jobs[j].status = "running"
                 /\ jobs[j].owner = o
                 /\ jobs[j].lease_expires_at <= now}

ClaimableAtOnce(o) ==                                \* mutant of Claimable
  {j \in JobId : /\ jobs[j].status = "queued"
                 /\ jobs[j].owner = o
                 /\ jobs[j].attempt < jobs[j].max_attempts
                 /\ jobs[j].kind \in Registered}
Claimable(o) ==
  {j \in JobId : /\ jobs[j].status = "queued"
                 /\ jobs[j].owner = o
                 /\ jobs[j].available_at <= now
                 /\ jobs[j].attempt < jobs[j].max_attempts
                 /\ jobs[j].kind \in Registered}

(* ORDER BY available_at, created_at, id: ids are random, so a tie on both  *)
(* stamps may go either way.                                                *)
InAnyOrder(i, j) == TRUE                             \* mutant of NotAfter
NotAfter(i, j) ==
  \/ jobs[i].available_at < jobs[j].available_at
  \/ /\ jobs[i].available_at = jobs[j].available_at
     /\ jobs[i].created_at <= jobs[j].created_at

-----------------------------------------------------------------------------
Init ==
  /\ now = 0
  /\ issued = {}
  /\ events = [j \in JobId |-> << >>]
  /\ jobs = [j \in JobId |-> NoRow]

(* create, and the same INSERT made by IndexTaskRepository.create. *)
Create(o, k, m, index) ==
  \E j \in JobId \ Rows :
    /\ jobs' = [jobs EXCEPT ![j] = QueuedRow(o, k, m, index, NoJob)]
    /\ events' = [events EXCEPT ![j] = <<"queued">>]
    /\ UNCHANGED <<now, issued>>

(* claim: the first claimable row of the owner becomes running under a     *)
(* token nobody has held before.                                           *)
Claim(o) ==
  \E j \in Claimable(o), t \in Token \ issued :
    /\ \A i \in Claimable(o) : NotAfter(j, i)
    /\ jobs' = [jobs EXCEPT ![j] = StartedRow(@, t)]
    /\ events' = [events EXCEPT ![j] = Append(@, "running")]
    /\ issued' = issued \cup {t}
    /\ UNCHANGED now

(* heartbeat: renew a live lease; no event. *)
Heartbeat(j, t) ==
  /\ HoldsLease(j, t)
  /\ jobs' = [jobs EXCEPT ![j] = RenewedRow(@)]
  /\ UNCHANGED <<now, events, issued>>

(* append_event: a handler's own event, under a live lease. *)
AppendEvent(j, t) ==
  /\ HoldsLease(j, t)
  /\ Len(events[j]) < MaxEvents
  /\ events' = [events EXCEPT ![j] = Append(@, "progress")]
  /\ UNCHANGED <<now, jobs, issued>>

FinishSilently(j, t, outcome) ==                     \* mutant of Finish
  /\ HoldsLease(j, t)
  /\ jobs' = [jobs EXCEPT ![j] =
                Transition(@, AfterRun(jobs[j], outcome), outcome # "success")]
  /\ UNCHANGED <<now, events, issued>>

(* finish: the executor writes its outcome back, under a live lease. *)
Finish(j, t, outcome) ==
  LET status == AfterRun(jobs[j], outcome)
  IN  /\ HoldsLease(j, t)
      /\ jobs' = [jobs EXCEPT ![j] =
                    Transition(@, status, outcome # "success")]
      /\ events' = [events EXCEPT ![j] = Append(@, status)]
      /\ UNCHANGED <<now, issued>>

(* recover_expired: every expired run of the owner in one transaction. *)
RecoverExpired(o) ==
  /\ Expired(o) # {}
  /\ jobs' = [j \in JobId |->
                IF j \in Expired(o)
                THEN Transition(jobs[j], AfterFailedRun(jobs[j]), TRUE)
                ELSE jobs[j]]
  /\ events' = [j \in JobId |->
                  IF j \in Expired(o)
                  THEN Append(events[j], AfterFailedRun(jobs[j]))
                  ELSE events[j]]
  /\ UNCHANGED <<now, issued>>

(* cancel of a waiting job settles it at once ... *)
CancelQueued(j) ==
  /\ jobs[j].status = "queued"
  /\ ~jobs[j].cancel_requested
  /\ jobs' = [jobs EXCEPT ![j] =
                Transition(CancelRequestedRow(@), "cancelled", FALSE)]
  /\ events' = [events EXCEPT ![j] = @ \o <<"cancel_requested", "cancelled">>]
  /\ UNCHANGED <<now, issued>>

(* ... and of a running job leaves a request for its executor to see. *)
CancelRunning(j) ==
  /\ jobs[j].status = "running"
  /\ ~jobs[j].cancel_requested
  /\ jobs' = [jobs EXCEPT ![j] = CancelRequestedRow(@)]
  /\ events' = [events EXCEPT ![j] = Append(@, "cancel_requested")]
  /\ UNCHANGED <<now, issued>>

RetryAnySettled(j) ==                                \* mutant of Retry
  /\ jobs[j].status \in Settled
  /\ \E n \in JobId \ Rows :
       /\ jobs' = [jobs EXCEPT ![n] =
                     QueuedRow(jobs[j].owner, jobs[j].kind,
                               jobs[j].max_attempts, FALSE, j)]
       /\ events' = [events EXCEPT ![n] = <<"queued">>]
  /\ UNCHANGED <<now, issued>>

(* retry: a new job repeats a failed or cancelled one; index jobs have     *)
(* their own retry.                                                        *)
Retry(j) ==
  /\ jobs[j].status \in {"failed", "cancelled"}
  /\ ~jobs[j].index_task
  /\ \E n \in JobId \ Rows :
       /\ jobs' = [jobs EXCEPT ![n] =
                     QueuedRow(jobs[j].owner, jobs[j].kind,
                               jobs[j].max_attempts, FALSE, j)]
       /\ events' = [events EXCEPT ![n] = <<"queued">>,
                                   ![j] = Append(@, "retried")]
  /\ UNCHANGED <<now, issued>>

Tick ==
  /\ now < MaxTime
  /\ now' = now + 1
  /\ UNCHANGED <<jobs, events, issued>>

Next ==
  \/ \E o \in Owner, k \in Kind, m \in Attempts, index \in BOOLEAN :
       Create(o, k, m, index)
  \/ \E o \in Owner : Claim(o)
  \/ \E j \in JobId, t \in issued : Heartbeat(j, t)
  \/ \E j \in JobId, t \in issued : AppendEvent(j, t)
  \/ \E j \in JobId, t \in issued, outcome \in Outcome : Finish(j, t, outcome)
  \/ \E o \in Owner : RecoverExpired(o)
  \/ \E j \in JobId : CancelQueued(j)
  \/ \E j \in JobId : CancelRunning(j)
  \/ \E j \in JobId : Retry(j)
  \/ Tick

Spec == Init /\ [][Next]_vars

-----------------------------------------------------------------------------
(* Every variable stays in its domain. *)
TypeOK ==
  /\ now \in Nat
  /\ jobs \in [JobId -> Row \cup {NoRow}]
  /\ events \in [JobId -> Seq(EventType)]
  /\ issued \subseteq Token

(* No sequence of repository calls runs into a CHECK constraint of the     *)
(* table (background_models.py): the lease columns are set exactly while   *)
(* the job runs, and no run is started beyond max_attempts.                *)
ChecksHold ==
  \A j \in Rows :
    /\ jobs[j].status = "running" <=> jobs[j].lease_owner # NoToken
    /\ jobs[j].status = "running" <=> jobs[j].lease_expires_at # 0
    /\ jobs[j].attempt <= jobs[j].max_attempts

(* A queued job can be claimed: it has an attempt left and no pending      *)
(* cancel request.  claim skips rows without an attempt left and nothing   *)
(* else settles a queued row, so such a row would be stranded.             *)
NoStrandedJob ==
  \A j \in Rows :
    jobs[j].status = "queued" =>
      jobs[j].attempt < jobs[j].max_attempts /\ ~jobs[j].cancel_requested

(* A cancel request is never lost: not to a late success, a failure, a     *)
(* timeout or the recovery of an expired lease.  And nothing is cancelled  *)
(* without a request.                                                      *)
CancelWins ==
  \A j \in Rows :
    /\ jobs[j].cancel_requested => jobs[j].status \in {"running", "cancelled"}
    /\ jobs[j].status = "cancelled" => jobs[j].cancel_requested

(* The row that clients read explains itself: completed_at is set exactly  *)
(* on settled jobs, a succeeded job carries no error of an earlier attempt *)
(* and a failed one carries an error.                                      *)
SettledRowsExplained ==
  \A j \in Rows :
    /\ jobs[j].completed <=> jobs[j].status \in Settled
    /\ jobs[j].status = "succeeded" => ~jobs[j].error
    /\ jobs[j].status = "failed" => jobs[j].error

(* A retry repeats a job of the same owner and kind that failed or was     *)
(* cancelled, and the job it repeats is older.                             *)
RetryLineage ==
  \A j \in Rows :
    jobs[j].retry_of # NoJob =>
      /\ jobs[jobs[j].retry_of].status \in {"failed", "cancelled"}
      /\ jobs[jobs[j].retry_of].owner = jobs[j].owner
      /\ jobs[jobs[j].retry_of].kind = jobs[j].kind
      /\ jobs[jobs[j].retry_of].created_at <= jobs[j].created_at
      /\ jobs[j].retry_of # j

(* Two runs never share a lease. *)
LeasesAreExclusive ==
  \A i, j \in Rows :
    /\ jobs[i].status = "running" => jobs[i].lease_owner \in issued
    /\ /\ i # j
       /\ jobs[i].status = "running"
       /\ jobs[j].status = "running"
       => jobs[i].lease_owner # jobs[j].lease_owner

(* First come, first served: while a job that could have run from the      *)
(* start is still waiting for its first run, no younger job of the same    *)
(* owner has been started.                                                 *)
FirstComeFirstServed ==
  \A i, j \in Rows :
    /\ jobs[i].owner = jobs[j].owner
    /\ jobs[i].kind \in Registered
    /\ jobs[i].status = "queued" /\ jobs[i].attempt = 0
    /\ jobs[i].created_at < jobs[j].created_at
    => jobs[j].attempt = 0

(* The event log of a job, replayed from sequence 1, tells the lifecycle   *)
(* the row went through: it ends in the row's status, each step is one the *)
(* state machine allows, and there is one "running" per attempt.  A        *)
(* handler's own events stand inside a run, between its "running" and the  *)
(* event that ends it.                                                     *)
StatusPlaces(log) == {n \in DOMAIN log : log[n] \in Status}

Succession ==
  {<<"queued", "running">>, <<"queued", "cancelled">>} \cup
  ({"running"} \X ({"queued"} \cup Settled))

Replays(log, status, attempt) ==
  LET places == StatusPlaces(log) IN
  /\ 1 \in places /\ log[1] = "queued"
  /\ \E n \in places : log[n] = status /\ \A m \in places : m <= n
  /\ \A m, n \in places :
       m < n /\ (\A l \in places : l <= m \/ n <= l) => <<log[m], log[n]>> \in Succession
  /\ Cardinality({n \in places : log[n] = "running"}) = attempt
  /\ \A n \in DOMAIN log :
       log[n] = "progress" =>
         \E m \in places : /\ m < n /\ log[m] = "running"
                           /\ \A l \in places : l <= m \/ n < l

EventsReplay == \A j \in Rows : Replays(events[j], jobs[j].status, jobs[j].attempt)

-----------------------------------------------------------------------------
(* A settled job never changes again, whatever executor, recovery, cancel  *)
(* or retry comes late.                                                    *)
SettledIsFinal ==
  [][\A j \in Rows : jobs[j].status \in Settled => jobs'[j] = jobs[j]]_vars

(* Fencing: once a lease has expired its executor can neither renew it nor *)
(* write a result or an event under it; only a cancel request or the       *)
(* recovery of the run (never a success) touches the job.                  *)
ExpiredLeaseIsDead ==
  [][\A j \in Rows :
       (jobs[j].status = "running" /\ jobs[j].lease_expires_at <= now) =>
         /\ jobs'[j].lease_owner \in {jobs[j].lease_owner, NoToken}
         /\ jobs'[j].lease_expires_at \in {jobs[j].lease_expires_at, 0}
         /\ jobs'[j].status # "succeeded"
         /\ events'[j] # events[j] => jobs'[j] # jobs[j]]_vars

(* A failed run is not retried at once: a job that goes back to the queue  *)
(* waits for a delay of at least one and at most 30 seconds that does not  *)
(* shrink as attempts are used up.                                         *)
BackoffRespected ==
  [][\A j \in Rows :
       (jobs[j].status = "running" /\ jobs'[j].status = "queued") =>
         /\ jobs'[j].available_at - now \in 2..30
         /\ \A a \in 1..jobs[j].attempt :
              jobs'[j].available_at - now >= RetryDelay(a)]_vars

-----------------------------------------------------------------------------
(* What the queue promises its callers, without clock, owners and log.     *)
LeaseOf(row) ==
  IF row.status # "running" THEN "none"
  ELSE IF row.lease_expires_at > now THEN "live" ELSE "lapsed"

WaitOf(row) ==
  IF row.status # "queued" THEN "no"
  ELSE IF row.available_at > now THEN "delayed" ELSE "due"

RowView(row) ==
  IF row = NoRow THEN NoRow
  ELSE [status |-> row.status,
        attempt |-> row.attempt,
        max_attempts |-> row.max_attempts,
        holder |-> row.lease_owner,
        lease |-> LeaseOf(row),
        waits |-> WaitOf(row),
        cancel_requested |-> row.cancel_requested]

leaseView == [j \in JobId |-> RowView(jobs[j])]

Leases == INSTANCE JobLeases WITH job <- leaseView

(* Every repository method and every second of the clock is a step of      *)
(* JobLeases or leaves its view alone: clients that rely on the lease      *)
(* protocol need not know about the rest of the table.                     *)
ImplementsLeases == Leases!LeasesSpec

=============================================================================
