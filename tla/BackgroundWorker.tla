--------------------------- MODULE BackgroundWorker ---------------------------
(***************************************************************************)
(* The executor of apps/backend/src/oncall_pilot/background_runtime.py: a  *)
(* process with a few polling slots, each of which claims a job, runs its  *)
(* handler beside a heartbeat, waits for the first of handler, heartbeat,  *)
(* stop, cancel and timeout, drains both tasks and writes the outcome back.*)
(* The queue is the contract JobLeases, which BackgroundJobs implements.   *)
(*                                                                         *)
(* One action is the code between two awaits that other tasks can notice.  *)
(* Owners are left out: a poll recovers the expired runs of owner after    *)
(* owner until it has claimed a job, so of some when it claims, of all when *)
(* there is nothing to claim.                                              *)
(***************************************************************************)
EXTENDS JobLeases

CONSTANTS
  Slot,         \* the _loop tasks, `concurrency` of them
  NoJob,        \* the job of a slot that executes none
  MaxFaults,    \* bound on crashes, failed transactions and stalls
  MaxRestarts   \* bound on the starts of the process after the first

ASSUME WorkerAssumption ==
  /\ NoJob \notin JobId
  /\ MaxFaults \in Nat /\ MaxRestarts \in Nat

VARIABLES
  slot,      \* slot[s]: what the task of slot s is doing
  up,        \* the process is running
  stopping,  \* stop_event is set
  faults,    \* how many faults have happened
  restarts   \* how many times the process was started again

workerVars == <<slot, up, stopping, faults, restarts>>
vars == <<job, issued, slot, up, stopping, faults, restarts>>

(* phase: "polling" is inside _next, "executing" inside asyncio.wait,      *)
(* "draining" after the finally block of _execute has begun.               *)
SlotState ==
  [phase: {"off", "idle", "polling", "executing", "draining"},
   of: JobId \cup {NoJob}, token: Token \cup {NoToken},
   handler: {"none", "working", "returned", "raised", "lease_lost"},
   beat: {"none", "beating", "lost", "failed"},
   cancelled: BOOLEAN,                            \* context.cancelled
   outcome: Outcome \cup {"none", "lease_lost"}]

Vacant(phase) ==
  [phase |-> phase, of |-> NoJob, token |-> NoToken, handler |-> "none",
   beat |-> "none", cancelled |-> FALSE, outcome |-> "none"]

Executing(j, t) ==
  [phase |-> "executing", of |-> j, token |-> t, handler |-> "working",
   beat |-> "beating", cancelled |-> FALSE, outcome |-> "none"]

Holds(s) == HoldsLease(slot[s].of, slot[s].token)

(* A live lease that no heartbeat renews.                                  *)
Unattended(j) ==
  \A s \in Slot : ~(slot[s].of = j /\ slot[s].token = job[j].holder
                    /\ slot[s].beat = "beating")

(* What a slot keeps when it lets go of a run: tasks that have not ended.  *)
Released(x, phase) ==
  [Vacant(phase) EXCEPT
     !.handler = IF x.handler = "working" THEN "working" ELSE "none",
     !.beat = IF x.beat = "beating" THEN "beating" ELSE "none"]

(* The branch _execute takes when its wait ends, given what has completed: *)
(* stop and cancel say whether the tasks waiting for those events have.    *)
HandlerVerdictOnTime(x) ==                           \* mutant of HandlerVerdict
  IF x.handler = "raised" THEN "failure" ELSE "success"
HandlerVerdict(x) ==
  CASE x.handler = "working"    -> "timeout"
    [] x.handler = "returned"   -> "success"
    [] x.handler = "raised"     -> "failure"
    [] x.handler = "lease_lost" -> "lease_lost"

VerdictLeavingCancelled(x, stop, cancel) ==          \* mutant of Verdict
  IF stop THEN "shutdown" ELSE IF cancel THEN "lease_lost" ELSE HandlerVerdict(x)
Verdict(x, stop, cancel) ==
  IF stop THEN "shutdown"
  ELSE IF cancel THEN "success"
  ELSE IF x.beat = "lost" THEN "lease_lost"
  ELSE IF x.beat = "failed" THEN "failure"
  ELSE HandlerVerdict(x)

-----------------------------------------------------------------------------
Init ==
  /\ LeasesInit
  /\ slot = [s \in Slot |-> Vacant("idle")]
  /\ up = TRUE
  /\ stopping = FALSE
  /\ faults = 0
  /\ restarts = 0

Fault == faults < MaxFaults /\ faults' = faults + 1

Moves(s, x) ==
  /\ slot' = [slot EXCEPT ![s] = x]
  /\ UNCHANGED <<up, stopping, restarts>>

(* _loop: look at stop_event, then poll.                                   *)
BeginPoll(s) ==
  /\ slot[s].phase = "idle" /\ ~stopping
  /\ Moves(s, Vacant("polling"))
  /\ UNCHANGED <<job, issued, faults>>

(* _next: one transaction recovers expired runs and claims a due job.  The *)
(* stop event may have been set since the slot looked.                     *)
Poll(s) ==
  /\ slot[s].phase = "polling"
  /\ \/ \E j \in Due, t \in Token \ issued, S \in SUBSET Lapsed :
          /\ job' = [Recovered(S) EXCEPT ![j] = Start(@, t)]
          /\ issued' = issued \cup {t}
          /\ Moves(s, Executing(j, t))
     \/ /\ Due = {} /\ job' = Recovered(Lapsed)
        /\ Moves(s, Vacant("idle"))
        /\ UNCHANGED issued
  /\ UNCHANGED faults

(* A transaction of the poll fails; those of earlier owners stand.         *)
PollFails(s) ==
  /\ slot[s].phase = "polling"
  /\ \E S \in SUBSET Lapsed : job' = Recovered(S)
  /\ Moves(s, Vacant("idle"))
  /\ Fault
  /\ UNCHANGED issued

HandlerEnds(s) ==
  /\ slot[s].phase = "executing" /\ slot[s].handler = "working"
  /\ \E result \in {"returned", "raised", "lease_lost"} :
       /\ result = "lease_lost" => ~Holds(s)
       /\ Moves(s, [slot[s] EXCEPT !.handler = result])
  /\ UNCHANGED <<job, issued, faults>>

(* _heartbeat: renews the lease and notices a cancel request.              *)
Beat(s) ==
  /\ slot[s].phase = "executing" /\ slot[s].beat = "beating"
  /\ \/ /\ Holds(s) /\ job[slot[s].of].cancel_requested
        /\ Moves(s, [slot[s] EXCEPT !.cancelled = TRUE])
     \/ /\ ~Holds(s)
        /\ Moves(s, [slot[s] EXCEPT !.beat = "lost"])
  /\ UNCHANGED <<job, issued, faults>>

BeatFails(s) ==
  /\ slot[s].phase = "executing" /\ slot[s].beat = "beating"
  /\ Moves(s, [slot[s] EXCEPT !.beat = "failed"])
  /\ Fault
  /\ UNCHANGED <<job, issued>>

(* The wait ends, at the latest by its timeout; the outcome is settled and *)
(* the finally block cancels the handler and tells the heartbeat to end.   *)
(* An event set just before may not have reached the task that waits for it.*)
Wake(s) ==
  /\ slot[s].phase = "executing"
  /\ \E stop, cancel \in BOOLEAN :
       /\ stop => stopping
       /\ cancel => slot[s].cancelled
       /\ Moves(s, [slot[s] EXCEPT !.phase = "draining",
                                   !.cancelled = TRUE,
                                   !.outcome = Verdict(slot[s], stop, cancel)])
  /\ UNCHANGED <<job, issued, faults>>

(* Draining: a cancelled handler ends once its bounded thread is done, the *)
(* heartbeat after the transaction it is in.                               *)
HandlerStops(s) ==
  /\ slot[s].phase # "executing" /\ slot[s].handler = "working"
  /\ Moves(s, [slot[s] EXCEPT !.handler = "raised"])
  /\ UNCHANGED <<job, issued, faults>>

BeatEnds(s) ==
  /\ slot[s].phase # "executing" /\ slot[s].beat = "beating"
  /\ Moves(s, [slot[s] EXCEPT !.beat = "none"])
  /\ UNCHANGED <<job, issued, faults>>

DrainedHandlerOnly(x) ==                             \* mutant of Drained
  x.phase = "draining" /\ x.handler # "working"
Drained(x) ==
  /\ x.phase = "draining"
  /\ x.handler # "working" /\ x.beat # "beating"

(* The outcome is written under the lease; a lost lease drops it.          *)
WriteBack(s) ==
  LET x == slot[s] IN
  /\ Drained(x)
  /\ job' = IF x.outcome # "lease_lost" /\ Holds(s)
            THEN [job EXCEPT ![x.of] = Leave(@, AfterRun(@, x.outcome))]
            ELSE job
  /\ Moves(s, Released(x, IF stopping /\ x.outcome # "lease_lost"
                          THEN "off" ELSE "idle"))
  /\ UNCHANGED <<issued, faults>>

WriteFails(s) ==
  /\ Drained(slot[s]) /\ slot[s].outcome # "lease_lost"
  /\ Moves(s, Released(slot[s], "idle"))
  /\ Fault
  /\ UNCHANGED <<job, issued>>

LoopEndsInPoll(s) ==                                 \* mutant of LoopEnds
  /\ slot[s].phase = "polling" /\ stopping
  /\ Moves(s, [slot[s] EXCEPT !.phase = "off"])
  /\ UNCHANGED <<job, issued, faults>>
LoopEnds(s) ==
  /\ slot[s].phase = "idle" /\ stopping
  /\ Moves(s, [slot[s] EXCEPT !.phase = "off"])
  /\ UNCHANGED <<job, issued, faults>>

-----------------------------------------------------------------------------
(* The process.                                                            *)
Stop ==
  /\ up /\ ~stopping
  /\ restarts < MaxRestarts
  /\ stopping' = TRUE
  /\ UNCHANGED <<job, issued, slot, up, faults, restarts>>

(* lifespan returns when every slot's task has ended.                      *)
ShutDown ==
  /\ up /\ stopping
  /\ \A s \in Slot : slot[s].phase = "off"
  /\ up' = FALSE
  /\ UNCHANGED <<job, issued, slot, stopping, faults, restarts>>

Crash ==
  /\ up /\ restarts < MaxRestarts
  /\ up' = FALSE
  /\ slot' = [s \in Slot |-> Vacant("off")]
  /\ Fault
  /\ UNCHANGED <<job, issued, stopping, restarts>>

Restart ==
  /\ ~up /\ restarts < MaxRestarts
  /\ up' = TRUE
  /\ stopping' = FALSE
  /\ slot' = [s \in Slot |-> Vacant("idle")]
  /\ restarts' = restarts + 1
  /\ UNCHANGED <<job, issued, faults>>

(* Clients and the clock.                                                  *)
Submit(j, m) == Enqueue(j, m) /\ UNCHANGED workerVars
RequestCancel(j) == Cancel(j) /\ UNCHANGED workerVars

Lapse(j) ==
  /\ HoldsLease(j, job[j].holder) /\ Unattended(j)
  /\ TimePasses({j}, {})
  /\ UNCHANGED workerVars

(* The process or the database stalls for longer than a lease.             *)
Stall(j) ==
  /\ HoldsLease(j, job[j].holder) /\ ~Unattended(j)
  /\ TimePasses({j}, {})
  /\ Fault
  /\ UNCHANGED <<slot, up, stopping, restarts>>

DelayEnds(j) ==
  /\ job[j].status = "queued" /\ job[j].waits = "delayed"
  /\ TimePasses({}, {j})
  /\ UNCHANGED workerVars

SlotStep(s) ==
  \/ BeginPoll(s) \/ Poll(s) \/ PollFails(s)
  \/ HandlerEnds(s) \/ Beat(s) \/ BeatFails(s)
  \/ Wake(s) \/ HandlerStops(s) \/ BeatEnds(s)
  \/ WriteBack(s) \/ WriteFails(s) \/ LoopEnds(s)

Next ==
  \/ \E s \in Slot : SlotStep(s)
  \/ Stop \/ ShutDown \/ Crash \/ Restart
  \/ \E j \in JobId, m \in Attempts : Submit(j, m)
  \/ \E j \in JobId : RequestCancel(j)
  \/ \E j \in JobId : Lapse(j) \/ Stall(j) \/ DelayEnds(j)

(* Tasks that can run do run; a wait has a timeout, a bounded thread ends, *)
(* clocks advance, and a process that went down is started again.          *)
Fairness ==
  /\ \A s \in Slot :
       /\ WF_vars(BeginPoll(s)) /\ WF_vars(Poll(s)) /\ WF_vars(Wake(s))
       /\ WF_vars(HandlerStops(s)) /\ WF_vars(BeatEnds(s))
       /\ WF_vars(WriteBack(s)) /\ WF_vars(LoopEnds(s))
  /\ \A j \in JobId : WF_vars(Lapse(j)) /\ WF_vars(DelayEnds(j))
  /\ WF_vars(ShutDown) /\ WF_vars(Restart)

Spec == Init /\ [][Next]_vars /\ Fairness

-----------------------------------------------------------------------------
(* Every variable stays in its domain. *)
WorkerTypeOK ==
  /\ LeasesTypeOK
  /\ slot \in [Slot -> SlotState]
  /\ up \in BOOLEAN /\ stopping \in BOOLEAN
  /\ faults \in 0..MaxFaults /\ restarts \in 0..MaxRestarts

(* While nothing fails, no run is abandoned under a live lease: a slot is  *)
(* there to write its outcome back.  Otherwise a stop or a cancel would    *)
(* cost the job a whole lease before it can go on.                         *)
NoRunAbandoned ==
  faults = 0 =>
    \A j \in Running :
      job[j].lease = "live" =>
        \E s \in Slot : slot[s].of = j /\ slot[s].token = job[j].holder

(* After an orderly shutdown no handler and no heartbeat is left that could *)
(* touch the database, which the lifespan closes next.                     *)
NothingRunsAfterShutdown ==
  ~up => \A s \in Slot : slot[s].handler # "working" /\ slot[s].beat # "beating"

(* A job succeeds only by the run that holds its lease, whose handler has  *)
(* returned: not by a timeout, a stop, a lost heartbeat or a cancel that   *)
(* came while the handler was at work.                                     *)
SuccessIsEarned ==
  [][\A j \in JobId :
       (job[j].status # "succeeded" /\ job'[j].status = "succeeded") =>
         \E s \in Slot : /\ slot[s].of = j /\ slot[s].token = job[j].holder
                         /\ slot[s].handler = "returned"]_vars

(* Whatever crashes, stalls, stops and failed transactions there are, every *)
(* job that was accepted is settled in the end.                            *)
EveryJobSettles ==
  \A j \in JobId : job[j].status # "absent" ~> job[j].status \in Settled

(* A cancel request takes effect even if the run never notices it.         *)
CancelTakesEffect ==
  \A j \in JobId :
    (job[j].status = "running" /\ job[j].cancel_requested)
      ~> job[j].status = "cancelled"

(* The comment in _execute: after a lost lease or a failed database access *)
(* of the heartbeat, the handler is cancelled and the job is left to the   *)
(* recovery of its lease.  So such a run writes nothing back.              *)
HeartbeatFailureLeftToLease ==
  [][\A s \in Slot :
       (/\ slot[s].phase = "draining" /\ slot[s].outcome \in {"failure", "lease_lost"}
        /\ slot[s].beat \in {"failed", "lost"} /\ Holds(s))
         => job'[slot[s].of].status = "running"]_vars

(* An orderly shutdown ends: every slot drains, none waits for another.    *)
ShutdownCompletes == (up /\ stopping) ~> ~up
===============================================================================
