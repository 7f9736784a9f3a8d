--------------------------- MODULE DocumentIndexing ---------------------------
(***************************************************************************)
(* Indexing the documents of one knowledge base: the domain tasks of       *)
(* index_tasks.py, their projection (index_projection.py), the handler of  *)
(* document_indexing.py, and the upload, overwrite and delete requests of  *)
(* knowledge.py that race with it over two stores, SQLite and Milvus, that *)
(* share no transaction.                                                   *)
(*                                                                         *)
(* A task and its job are one identity.  The worker is reduced to what it  *)
(* does to a run: it may interrupt it at any point.  A timeout, a stop and *)
(* a failed heartbeat are all outcome "failure" here: finish treats them   *)
(* alike but for the error text.  All documents have the same content, so they  *)
(* compete for one SHA-256; a document of other content never interferes.  *)
(***************************************************************************)
EXTENDS JobLeases, Sequences

CONSTANTS
  Doc,      \* document ids
  Client,   \* HTTP requests in progress
  NoDoc     \* no document

ASSUME IndexAssumption ==
  /\ IsFiniteSet(JobId)
  /\ JobId = 1..Cardinality(JobId)   \* tasks in the order of created_at
  /\ NoDoc \notin Doc

VARIABLES
  task,      \* table document_index_tasks
  doc,       \* table knowledge_documents
  chunks,    \* chunks[d]: the runs whose chunks of d are in Milvus
  run,       \* run[t]: the handler that executes under token t
  request,   \* request[c]: the upload or delete of client c
  overrun    \* history: a lease ended while its run was changing Milvus

indexVars == <<task, doc, chunks, run, request, overrun>>
indexingVars == <<job, issued, task, doc, chunks, run, request, overrun>>

TaskStatus == {"pending", "running"} \cup Settled

(* queued is pending to clients.                                           *)
Shown(status) == IF status = "queued" THEN "pending" ELSE status

NoTask == 0
TaskRow == [status: TaskStatus, of: Doc, retry_of: JobId \cup {NoTask}]
AbsentTask == [status |-> "absent", of |-> NoDoc, retry_of |-> NoTask]

DocRow == [state: {"live", "deleted"}, index_status: TaskStatus, cleaned: BOOLEAN]
AbsentDoc == [state |-> "absent", index_status |-> "pending", cleaned |-> FALSE]

(* What the handler does after each checkpoint; a last checkpoint follows. *)
StepsInsertFirst ==                                  \* mutant of Steps
  <<"read", "embed", "initialize", "insert", "delete">>
Steps == <<"read", "embed", "initialize", "delete", "insert">>
LastCheckpoint == Len(Steps) + 1

RunState ==
  [of: JobId, step: 1..LastCheckpoint,
   at: {"checkpoint", "working", "draining", "ended"},
   outcome: {"none", "success", "failure", "lease_lost"}]
NoRun == [at |-> "none"]
NewRun(j) == [of |-> j, step |-> 1, at |-> "checkpoint", outcome |-> "none"]

RequestState ==
  [phase: {"soft_delete", "vectors", "confirm", "add"}, of: Doc \cup {NoDoc},
   upload: BOOLEAN]
NoRequest == [phase |-> "none"]

TasksOf(d) == {j \in Created : task[j].of = d}
Active(j) == task[j].status \in {"pending", "running"}
BusyPending(d) ==                                    \* mutant of Busy
  \E j \in TasksOf(d) : task[j].status = "pending"
Busy(d) == \E j \in TasksOf(d) : Active(j)
Uncleaned == {d \in Doc : doc[d].state # "absent" /\ ~doc[d].cleaned}
SupersededIfRetry(j) == task[j].retry_of # NoTask    \* mutant of Superseded
Superseded(j) == \E i \in Created : task[i].retry_of = j
DocOf(t) == task[run[t].of].of

(* project_index_job: the events of the jobs S, in the transaction that     *)
(* changes them, show their new status on their tasks and documents.       *)
Project(S) ==
  /\ task' = [j \in JobId |->
                IF j \in S THEN [task[j] EXCEPT !.status = Shown(job'[j].status)]
                ELSE task[j]]
  /\ doc' = [d \in Doc |->
               IF doc[d].state = "live" /\ \E j \in S : task[j].of = d /\ ~Superseded(j)
               THEN [doc[d] EXCEPT !.index_status =
                       Shown(job'[CHOOSE j \in S : task[j].of = d].status)]
               ELSE doc[d]]

-----------------------------------------------------------------------------
IndexInit ==
  /\ LeasesInit
  /\ task = [j \in JobId |-> AbsentTask]
  /\ doc = [d \in Doc |-> AbsentDoc]
  /\ chunks = [d \in Doc |-> {}]
  /\ run = [t \in Token |-> NoRun]
  /\ request = [c \in Client |-> NoRequest]
  /\ overrun = FALSE

(* IndexTaskRepository.create, and its use as retry: the new task repeats  *)
(* the latest task of the document, or the one the client names.           *)
CreateTask(d, m) ==
  LET j == Cardinality(Created) + 1 IN
  /\ doc[d].state = "live" /\ ~Busy(d)
  /\ j \in JobId
  /\ \E source \in IF TasksOf(d) = {} THEN {NoTask} ELSE TasksOf(d) :
       task' = [task EXCEPT ![j] = [status |-> "pending", of |-> d, retry_of |-> source]]
  /\ Enqueue(j, m)
  /\ doc' = [doc EXCEPT ![d].index_status = "pending"]
  /\ UNCHANGED <<chunks, run, request, overrun>>

CancelTask(j) ==
  /\ j \in Created /\ doc[task[j].of].state = "live"
  /\ Cancel(j)
  /\ Project({j})
  /\ UNCHANGED <<chunks, run, request, overrun>>

(* The worker's poll: recover expired runs and claim a due job.            *)
ClaimTask ==
  /\ \/ \E j \in Due, t \in Token \ issued :
          /\ job' = [Recovered(Lapsed) EXCEPT ![j] = Start(@, t)]
          /\ issued' = issued \cup {t}
          /\ run' = [run EXCEPT ![t] = NewRun(j)]
          /\ Project(Lapsed \cup {j})
     \/ /\ Due = {} /\ Lapsed # {}
        /\ job' = Recovered(Lapsed)
        /\ Project(Lapsed)
        /\ UNCHANGED <<issued, run>>
  /\ UNCHANGED <<chunks, request, overrun>>

-----------------------------------------------------------------------------
(* The handler.                                                            *)
RunsTo(t, r) ==
  /\ run' = [run EXCEPT ![t] = r]
  /\ UNCHANGED <<job, issued, task, doc, request, overrun>>

End(t, outcome) == [NewRun(run[t].of) EXCEPT !.at = "ended", !.outcome = outcome]

(* checkpoint: lease first, then cancellation, then the document itself.   *)
Checkpoint(t) ==
  LET r == run[t] IN
  /\ r.at = "checkpoint"
  /\ \/ ~HoldsLease(r.of, t) /\ RunsTo(t, End(t, "lease_lost"))
     \/ /\ HoldsLease(r.of, t) /\ job[r.of].cancel_requested
        /\ RunsTo(t, End(t, "success"))
     \/ /\ HoldsLease(r.of, t) /\ ~job[r.of].cancel_requested
        /\ IF doc[DocOf(t)].state # "live" THEN RunsTo(t, End(t, "failure"))
           ELSE IF r.step = LastCheckpoint THEN RunsTo(t, End(t, "success"))
           ELSE RunsTo(t, [r EXCEPT !.at = "working"])
  /\ UNCHANGED chunks

(* What the current step of a run does to Milvus.                          *)
Written(t) ==
  LET d == DocOf(t) IN
  CASE Steps[run[t].step] = "delete" -> [chunks EXCEPT ![d] = {}]
    [] Steps[run[t].step] = "insert" -> [chunks EXCEPT ![d] = @ \cup {t}]
    [] OTHER -> chunks

AtWork(t) == run[t].at \in {"working", "draining"}
Touches(t) == AtWork(t) /\ Steps[run[t].step] \in {"delete", "insert"}

StepDone(t) ==
  /\ AtWork(t)
  /\ chunks' = Written(t)
  /\ IF run[t].at = "draining" THEN RunsTo(t, End(t, run[t].outcome))
     ELSE RunsTo(t, [run[t] EXCEPT !.step = @ + 1, !.at = "checkpoint"])

(* A failed call may have had its effect all the same.                     *)
StepFails(t) ==
  /\ AtWork(t)
  /\ chunks' \in {chunks, Written(t)}
  /\ IF run[t].at = "draining" THEN RunsTo(t, End(t, run[t].outcome))
     ELSE RunsTo(t, End(t, "failure"))

(* The worker cancels the handler.  A call in a thread is waited for       *)
(* (bounded_thread); an embedding request is dropped at once.              *)
Interrupt(t) ==
  LET r == run[t] IN
  /\ r.at \in {"checkpoint", "working"}
  /\ \E outcome \in {"success", "failure"} :
       /\ outcome = "success" => job[r.of].cancel_requested
       /\ IF r.at = "working" /\ Steps[r.step] # "embed"
          THEN RunsTo(t, [r EXCEPT !.at = "draining", !.outcome = outcome])
          ELSE RunsTo(t, End(t, outcome))
  /\ UNCHANGED chunks

(* finish under the lease, or nothing if it was lost.                      *)
FinishRun(t) ==
  LET r == run[t] IN
  /\ r.at = "ended"
  /\ run' = [run EXCEPT ![t] = NoRun]
  /\ IF r.outcome # "lease_lost" /\ HoldsLease(r.of, t)
     THEN /\ job' = [job EXCEPT ![r.of] = Leave(@, AfterRun(@, r.outcome))]
          /\ Project({r.of})
     ELSE UNCHANGED <<job, task, doc>>
  /\ UNCHANGED <<issued, chunks, request, overrun>>

(* The process dies, or cannot write the outcome: the run is gone, a call  *)
(* it was in may still take effect.                                        *)
Vanish(t) ==
  /\ run[t].at # "none"
  /\ chunks' \in {chunks, IF AtWork(t) THEN Written(t) ELSE chunks}
  /\ RunsTo(t, NoRun)

-----------------------------------------------------------------------------
(* Uploads and deletes: one transaction, one Milvus call, one transaction. *)
RequestGoes(c, r) ==
  /\ request' = [request EXCEPT ![c] = r]
  /\ UNCHANGED <<job, issued, task, run, overrun>>

Delete(c, d) ==
  /\ request[c] = NoRequest /\ doc[d].state # "absent"
  /\ RequestGoes(c, [phase |-> "soft_delete", of |-> d, upload |-> FALSE])
  /\ UNCHANGED <<doc, chunks>>

(* upload looks for a row with the same hash; overwrite deletes it first.  *)
Upload(c) ==
  /\ request[c] = NoRequest
  /\ \/ /\ Uncleaned = {}
        /\ RequestGoes(c, [phase |-> "add", of |-> NoDoc, upload |-> TRUE])
     \/ \E d \in Uncleaned :
          RequestGoes(c, [phase |-> "soft_delete", of |-> d, upload |-> TRUE])
  /\ UNCHANGED <<doc, chunks>>

Proceed(c, phase) ==
  RequestGoes(c, IF phase = "add" /\ ~request[c].upload THEN NoRequest
                 ELSE [request[c] EXCEPT !.phase = phase])

(* soft_delete refuses a document with an active task; a row that is       *)
(* deleted already is cleaned up if its vectors may still be there.        *)
SoftDelete(c) ==
  LET d == request[c].of IN
  /\ request[c].phase = "soft_delete"
  /\ IF Busy(d) THEN RequestGoes(c, NoRequest) /\ UNCHANGED doc
     ELSE /\ doc' = [doc EXCEPT ![d].state = "deleted"]
          /\ Proceed(c, IF doc[d].cleaned THEN "add" ELSE "vectors")
  /\ UNCHANGED chunks

DeleteVectors(c) ==
  /\ request[c].phase = "vectors"
  /\ chunks' = [chunks EXCEPT ![request[c].of] = {}]
  /\ Proceed(c, "confirm")
  /\ UNCHANGED doc

ConfirmCleanup(c) ==
  /\ request[c].phase = "confirm"
  /\ doc' = [doc EXCEPT ![request[c].of].cleaned = TRUE]
  /\ Proceed(c, "add")
  /\ UNCHANGED chunks

(* The partial unique index on the hash refuses a second uncleaned row.    *)
Add(c) ==
  /\ request[c].phase = "add"
  /\ \/ Uncleaned # {} /\ UNCHANGED doc
     \/ /\ Uncleaned = {}
        /\ \E d \in Doc :
             /\ doc[d].state = "absent"
             /\ doc' = [doc EXCEPT ![d].state = "live"]
  /\ RequestGoes(c, NoRequest)
  /\ UNCHANGED chunks

(* The Milvus call fails, or the process dies between two steps.           *)
RequestFails(c) ==
  /\ request[c] # NoRequest
  /\ chunks' \in {chunks, IF request[c].phase = "vectors"
                          THEN [chunks EXCEPT ![request[c].of] = {}] ELSE chunks}
  /\ RequestGoes(c, NoRequest)
  /\ UNCHANGED doc

-----------------------------------------------------------------------------
LeaseEnds(j) ==
  /\ j \in Running /\ job[j].lease = "live"
  /\ TimePasses({j}, {})
  /\ overrun' = (overrun \/ \E t \in Token : job[j].holder = t /\ Touches(t))
  /\ UNCHANGED <<task, doc, chunks, run, request>>

RetryDue(j) ==
  /\ job[j].status = "queued" /\ job[j].waits = "delayed"
  /\ TimePasses({}, {j})
  /\ UNCHANGED indexVars

IndexNext ==
  \/ \E d \in Doc, m \in Attempts : CreateTask(d, m)
  \/ \E j \in JobId : CancelTask(j) \/ LeaseEnds(j) \/ RetryDue(j)
  \/ ClaimTask
  \/ \E t \in Token :
       \/ Checkpoint(t) \/ StepDone(t) \/ StepFails(t) \/ Interrupt(t)
       \/ FinishRun(t) \/ Vanish(t)
  \/ \E c \in Client :
       \/ \E d \in Doc : Delete(c, d)
       \/ Upload(c) \/ SoftDelete(c) \/ DeleteVectors(c) \/ ConfirmCleanup(c)
       \/ Add(c) \/ RequestFails(c)

IndexSpec == IndexInit /\ [][IndexNext]_indexingVars

-----------------------------------------------------------------------------
(* Every variable stays in its domain. *)
IndexTypeOK ==
  /\ LeasesTypeOK
  /\ task \in [JobId -> TaskRow \cup {AbsentTask}]
  /\ doc \in [Doc -> DocRow \cup {AbsentDoc}]
  /\ chunks \in [Doc -> SUBSET Token]
  /\ run \in [Token -> RunState \cup {NoRun}]
  /\ request \in [Client -> RequestState \cup {NoRequest}]
  /\ overrun \in BOOLEAN

(* A document with a task in progress is not deleted under it, and has no  *)
(* second task in progress: neither a create, a retry, a delete nor an     *)
(* overwrite slips in, at any moment of the run's life.                    *)
ActiveTaskOwnsDocument ==
  \A j \in Created : Active(j) =>
    /\ doc[task[j].of].state = "live"
    /\ \A i \in TasksOf(task[j].of) : Active(i) => i = j

(* A client that polls a document sees the state of its latest task, and   *)
(* a client that polls the task sees the state of its job, at all times.   *)
ProjectionIsCurrent ==
  /\ \A j \in Created : task[j].status = Shown(job[j].status)
  /\ \A d \in Doc : doc[d].state = "live" =>
       doc[d].index_status =
         IF TasksOf(d) = {} THEN "pending"
         ELSE task[CHOOSE j \in TasksOf(d) : \A i \in TasksOf(d) : i <= j].status

(* A document is shown as succeeded only with exactly the chunks of one    *)
(* run in Milvus: nothing of earlier, cancelled, crashed or interrupted    *)
(* runs is left beside them.  (Unless a lease ended during a Milvus call,  *)
(* which persistence.md excludes.)                                         *)
SucceededIsComplete ==
  ~overrun =>
    \A d \in Doc :
      (doc[d].state = "live" /\ doc[d].index_status = "succeeded")
        => Cardinality(chunks[d]) = 1

(* Once the cleanup of a deleted document is confirmed, no run and no      *)
(* request puts chunks of it back: nobody will ever clean it up again.     *)
CleanedStaysClean ==
  ~overrun => \A d \in Doc : doc[d].cleaned => chunks[d] = {}

(* hybrid-knowledge-retrieval/spec.md: the corpus contains only chunks     *)
(* that were indexed successfully.  A document all of whose tasks failed   *)
(* or were cancelled should have none.                                     *)
OnlyIndexedSearchable ==
  \A d \in Doc :
    (doc[d].state = "live" /\ \A j \in TasksOf(d) : task[j].status \in {"failed", "cancelled"})
      => chunks[d] = {}
===============================================================================
