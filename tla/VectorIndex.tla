----------------------------- MODULE VectorIndex -----------------------------
(***************************************************************************)
(* The vector index of one document as a run of DocumentIndexHandler       *)
(* replaces it: clients of the model provider opened one by one, texts     *)
(* embedded in batches (llm/qwen.py), the whole batch validated, then      *)
(* calls of MilvusVectorStore, each of which first makes sure that the     *)
(* collection is ready.  The application keeps several stores on one       *)
(* Milvus; threads that share a store take turns under its lock.           *)
(* Milvus itself is external: the effect of each client call on it.        *)
(***************************************************************************)
EXTENDS Naturals, SequencesExt

CONSTANTS
  Store,        \* MilvusVectorStore objects
  Caller,       \* threads that call a store
  StoreOf,      \* StoreOf[c]: the store of caller c
  Handler,      \* the caller that is the handler of the document
  Nobody,       \* no caller
  IndexNames,   \* names of collection_indexes(), in order
  Texts,        \* number of chunks of the document
  BatchSize,    \* embedding.chunk_size
  MaxCalls,     \* bound: calls of each caller but the handler
  MaxRuns,      \* bound: runs of the handler
  MaxFailures   \* bound: failed client calls, cancels and restarts

ASSUME VectorAssumption ==
  /\ StoreOf \in [Caller -> Store]
  /\ Handler \in Caller /\ Nobody \notin Caller
  /\ IndexNames \in Seq(STRING) /\ IndexNames # <<>>
  /\ Texts \in Nat \ {0} /\ BatchSize \in Nat \ {0}

VARIABLES
  milvus,     \* the collection: field schema, indexes, whether loaded, rows
  store,      \* store[s]: has a client, is ready, who holds its lock
  call,       \* call[c]: what caller c is doing in its store
  run,        \* the run of the handler
  trouble     \* how many failures there were

vars == <<milvus, store, call, run, trouble>>

Closed == [connected |-> FALSE, ready |-> FALSE, holder |-> Nobody]
NoCall == [op |-> "none", step |-> "idle", existing |-> {}, next |-> 1, ok |-> TRUE, made |-> 0]
NoRun == [step |-> "idle", clients |-> 0, vectors |-> <<>>, next |-> 1, failed |-> FALSE, made |-> 0]

Init ==
  /\ \E schema \in {"absent", "good", "other"}, loaded \in BOOLEAN,
        indexes \in [Range(IndexNames) -> {"none", "good", "other"}] :
       /\ schema # "good" => Range(indexes) = {"none"}
       /\ loaded => indexes[IndexNames[1]] # "none"   \* the vector index comes first
       /\ milvus = [schema |-> schema, indexes |-> indexes, loaded |-> loaded, rows |-> {}]
  /\ store = [s \in Store |-> Closed]
  /\ call = [c \in Caller |-> NoCall]
  /\ run = NoRun
  /\ trouble = 0

Trouble == trouble < MaxFailures /\ trouble' = trouble + 1

-----------------------------------------------------------------------------
(* A call of a store.                                                      *)
S(c) == store[StoreOf[c]]
SetStore(c, s) == store' = [store EXCEPT ![StoreOf[c]] = s]
Goes(c, step) == call' = [call EXCEPT ![c].step = step]
Done(c, ok) == [NoCall EXCEPT !.ok = ok, !.made = call[c].made]

(* Every path out of the with block gives the lock back.                   *)
RaisesKeepingLock(c) ==                              \* mutant of Raises
  call' = [call EXCEPT ![c] = Done(c, FALSE)] /\ UNCHANGED store
Raises(c) ==
  /\ call' = [call EXCEPT ![c] = Done(c, FALSE)]
  /\ SetStore(c, [S(c) EXCEPT !.holder = IF @ = c THEN Nobody ELSE @])

(* initialize returns: initialize itself is over, the others go on.        *)
Initialized(c) ==
  IF call[c].op = "initialize" THEN call' = [call EXCEPT ![c] = Done(c, TRUE)]
  ELSE Goes(c, "data")

Ask(c, op) ==
  /\ call[c].step = "idle"
  /\ call' = [call EXCEPT ![c].op = op, ![c].step = "lock", ![c].made = @ + 1]

Lock(c) ==
  /\ call[c].step = "lock" /\ S(c).holder = Nobody
  /\ IF S(c).ready THEN Initialized(c) /\ UNCHANGED store
     ELSE /\ SetStore(c, [S(c) EXCEPT !.holder = c])
          /\ Goes(c, IF S(c).connected THEN "has" ELSE "connect")
  /\ UNCHANGED milvus

Connect(c) ==
  /\ call[c].step = "connect"
  /\ SetStore(c, [S(c) EXCEPT !.connected = TRUE])
  /\ Goes(c, "has")
  /\ UNCHANGED milvus

HasCollection(c) ==
  /\ call[c].step = "has"
  /\ Goes(c, IF milvus.schema = "absent" THEN "create" ELSE "describe")
  /\ UNCHANGED <<milvus, store>>

(* What the client call of c does to Milvus when it takes effect.          *)
Whole == {<<i, i>> : i \in 1..Texts}
After(c) ==
  LET name == IndexNames[call[c].next] IN
  CASE call[c].step = "create" /\ milvus.schema = "absent" ->
         [milvus EXCEPT !.schema = "good"]
    [] call[c].step = "index" /\ name \notin call[c].existing
         /\ milvus.indexes[name] = "none" -> [milvus EXCEPT !.indexes[name] = "good"]
    [] call[c].step = "load" -> [milvus EXCEPT !.loaded = TRUE]
    [] call[c].step = "data" /\ call[c].op = "delete" -> [milvus EXCEPT !.rows = {}]
    [] call[c].step = "data" /\ call[c].op = "insert" ->
         [milvus EXCEPT !.rows = {<<i, run.vectors[i]>> : i \in DOMAIN run.vectors}]
    [] OTHER -> milvus

(* Another store may have made the collection, or the index, meanwhile:    *)
(* Milvus accepts the same definition again, or refuses it.                *)
Create(c) ==
  /\ call[c].step = "create"
  /\ milvus' = After(c)
  /\ \/ Goes(c, "describe") /\ UNCHANGED store
     \/ milvus.schema # "absent" /\ Raises(c)

Compatible == milvus.schema = "good"
ValidateCollection(c) ==
  /\ call[c].step = "describe"
  /\ IF Compatible THEN Goes(c, "list") /\ UNCHANGED store ELSE Raises(c)
  /\ UNCHANGED milvus

ListIndexes(c) ==
  /\ call[c].step = "list"
  /\ call' = [call EXCEPT ![c].step = "index", ![c].next = 1,
                ![c].existing = {n \in Range(IndexNames) : milvus.indexes[n] # "none"}]
  /\ UNCHANGED <<milvus, store>>

NextIndex(c) ==
  /\ UNCHANGED store
  /\ call' = IF call[c].next = Len(IndexNames) THEN [call EXCEPT ![c].step = "load"]
             ELSE [call EXCEPT ![c].next = @ + 1]

(* An index that was there is validated, one that was not is created.      *)
IndexFits(name) == milvus.indexes[name] = "good"
EnsureIndexByName(c) ==                              \* mutant of EnsureIndex
  call[c].step = "index" /\ milvus' = After(c) /\ NextIndex(c)
EnsureIndex(c) ==
  LET name == IndexNames[call[c].next] IN
  /\ call[c].step = "index"
  /\ milvus' = After(c)
  /\ \/ (name \in call[c].existing => IndexFits(name)) /\ NextIndex(c)
     \/ name \in call[c].existing /\ ~IndexFits(name) /\ Raises(c)
     \/ name \notin call[c].existing /\ milvus.indexes[name] # "none" /\ Raises(c)

Load(c) ==
  /\ call[c].step = "load"
  /\ milvus' = After(c)
  /\ SetStore(c, [S(c) EXCEPT !.ready = TRUE, !.holder = Nobody])
  /\ Initialized(c)

(* Insert, delete, search or query; _connection takes the lock once more.  *)
Data(c) ==
  /\ call[c].step = "data" /\ S(c).holder = Nobody
  /\ milvus' = After(c)
  /\ call' = [call EXCEPT ![c] = Done(c, TRUE)]
  /\ UNCHANGED store

(* A client call fails or times out, and may have had its effect.          *)
Fail(c) ==
  /\ call[c].step \notin {"idle", "lock"}
  /\ call[c].step = "data" => S(c).holder = Nobody
  /\ milvus' \in {milvus, After(c)}
  /\ Raises(c)
  /\ Trouble /\ UNCHANGED run

CallStep(c) ==
  /\ \/ Lock(c) \/ Connect(c) \/ HasCollection(c) \/ Create(c) \/ ValidateCollection(c)
     \/ ListIndexes(c) \/ EnsureIndex(c) \/ Load(c) \/ Data(c)
  /\ UNCHANGED <<run, trouble>>

(* A search or a clean-up of another document.                             *)
Request(c) ==
  /\ c # Handler /\ call[c].made < MaxCalls
  /\ Ask(c, "other")
  /\ UNCHANGED <<milvus, store, run, trouble>>

-----------------------------------------------------------------------------
(* The run of the handler.                                                 *)
Clients == <<"sync_http", "async_http", "rerank_http">>
Calls == <<"initialize", "delete", "insert">>

Runs(r) == run' = r /\ UNCHANGED <<milvus, store, call>>
End == [NoRun EXCEPT !.made = run.made]
Closing(failed) == [run EXCEPT !.step = "close", !.failed = failed]

Begin ==
  /\ run.step = "idle" /\ run.made < MaxRuns
  /\ Runs([NoRun EXCEPT !.step = "open", !.made = run.made + 1])

OpenClient ==
  /\ run.step = "open"
  /\ Runs([run EXCEPT !.clients = @ + 1,
                      !.step = IF run.clients + 1 = Len(Clients) THEN "embed" ELSE "open"])

(* What the provider may send for a batch of n texts: items in any order,  *)
(* an index missing, repeated or out of range, a vector of wrong length or *)
(* with a value that is not finite.  A usable item has the vector of the   *)
(* text its index names.                                                   *)
Answers(n) == [items : UNION {[1..k -> 1..n + 1] : k \in 0..n + 1}, finite : BOOLEAN]
Complete(items, n) == Len(items) = n /\ Range(items) = 1..n
OrderedAsSent(items) == items                        \* mutant of Ordered
Ordered(items) ==                     \* of a complete answer: no index twice
  CHOOSE s \in SetToSeqs(Range(items)) : \A i, j \in DOMAIN s : i < j => s[i] < s[j]

(* The vectors of a batch, by the number of the text each belongs to.      *)
Batch == Min({BatchSize, Texts - Len(run.vectors)})
Numbers(items) == [i \in DOMAIN items |-> Len(run.vectors) + Ordered(items)[i]]

Embed(answer) ==
  /\ run.step = "embed"
  /\ Runs(IF Complete(answer.items, Batch) /\ answer.finite
          THEN [run EXCEPT !.vectors = @ \o Numbers(answer.items),
                           !.step = IF Len(run.vectors) + Batch = Texts THEN "close" ELSE @]
          ELSE Closing(TRUE))

(* A failed start or request, or a cancel, ends in the exit stack.         *)
Interrupted ==
  /\ run.step \in {"open", "embed"}
  /\ Runs(Closing(TRUE))
  /\ Trouble

(* The stack closes all clients, also those after one that fails.          *)
CloseClient ==
  /\ run.step = "close"
  /\ IF run.clients > 0 THEN Runs([run EXCEPT !.clients = @ - 1])
     ELSE Runs(IF run.failed THEN End ELSE [run EXCEPT !.step = "check"])
CloseFails ==
  /\ run.step = "close" /\ run.clients > 0
  /\ Runs([run EXCEPT !.clients = @ - 1, !.failed = TRUE])
  /\ Trouble

(* Every record is validated before the first call that changes Milvus.    *)
Check ==
  /\ run.step = "check"
  /\ Runs(IF Len(run.vectors) = Texts THEN [run EXCEPT !.step = "checkpoint"] ELSE End)

(* A checkpoint goes on with the next call, or ends the run.               *)
NextCall ==
  /\ run.step = "checkpoint" /\ run.next <= Len(Calls)
  /\ Ask(Handler, Calls[run.next])
  /\ run' = [run EXCEPT !.step = "calling"]
  /\ UNCHANGED <<milvus, store>>
Leave ==
  /\ run.step = "checkpoint" /\ run.next > Len(Calls)
  /\ Runs(End)
LeaveEarly ==
  /\ run.step = "checkpoint"
  /\ Runs(End)
  /\ Trouble

(* A cancel in the middle of a call waits for the thread (bounded_thread). *)
CancelCall ==
  /\ run.step = "calling" /\ ~run.failed
  /\ Runs([run EXCEPT !.failed = TRUE])
  /\ Trouble
Returned ==
  /\ run.step = "calling" /\ call[Handler].step = "idle"
  /\ Runs(IF run.failed \/ ~call[Handler].ok THEN End
          ELSE [run EXCEPT !.step = "checkpoint", !.next = @ + 1])

RunStep ==
  /\ \/ OpenClient \/ CloseClient \/ Check \/ NextCall \/ Leave \/ Returned
     \/ \E answer \in Answers(Batch) : Embed(answer)
  /\ UNCHANGED trouble

(* The process dies, or restarts: Milvus may still carry out what was sent. *)
Restart ==
  /\ milvus' \in {milvus} \cup {After(c) : c \in {d \in Caller : call[d].step # "idle"}}
  /\ store' = [s \in Store |-> Closed]
  /\ call' = [c \in Caller |-> Done(c, TRUE)]
  /\ run' = End
  /\ Trouble

Next ==
  \/ \E c \in Caller : CallStep(c) \/ Fail(c) \/ Request(c)
  \/ Begin /\ UNCHANGED trouble
  \/ RunStep
  \/ Interrupted \/ CloseFails \/ LeaveEarly \/ CancelCall
  \/ Restart

(* Every client call ends, at its timeout if need be (REQUEST_TIMEOUT), and *)
(* a thread that waits for a free lock gets it.                            *)
Fairness == WF_vars(RunStep) /\ \A c \in Caller : WF_vars(CallStep(c))

Spec == Init /\ [][Next]_vars /\ Fairness

-----------------------------------------------------------------------------
Usable ==
  milvus.schema = "good" /\ milvus.loaded /\ Range(milvus.indexes) = {"good"}

(* A store that counts as ready, and so a search or a write it lets        *)
(* through, meets a loaded collection with the schema and the indexes of   *)
(* schema.py, whatever other stores did or left half done meanwhile.       *)
ReadyMeansUsable ==
  /\ \A s \in Store : store[s].ready => Usable
  /\ \A c \in Caller : call[c].step = "data" => Usable

(* The vectors of a document change only when the run has a valid vector   *)
(* for each of its texts, in the order of the texts: a provider's answer   *)
(* that is wrong anywhere cannot clear an index that works, and Milvus     *)
(* holds all the vectors, each with its own text, or none.                 *)
WholeBatchOrNothing ==
  [][milvus'.rows # milvus.rows =>
       /\ run.vectors = [i \in 1..Texts |-> i]
       /\ milvus'.rows \in {{}, Whole}]_vars

(* No caller waits for ever on a store's lock, also after calls that       *)
(* failed half way, and a run ends with all its clients closed.            *)
CallsReturn ==
  /\ \A c \in Caller : call[c].step # "idle" ~> call[c].step = "idle"
  /\ run.step # "idle" ~> run.step = "idle" /\ run.clients = 0
=============================================================================
