--------------------------- MODULE VectorIndexProofs ---------------------------
(* Theorems about VectorIndex for any number of stores, threads, indexes,     *)
(* texts and failures: a store that counts as ready is usable, and the        *)
(* vectors of a document are replaced as a whole.                             *)
EXTENDS VectorIndex, FiniteSetTheorems, TLAPS

-----------------------------------------------------------------------------
(* Domains.                                                                   *)
Names == Range(IndexNames)
Good == {"none", "good", "other"}

MilvusRow ==
  [schema: {"absent", "good", "other"}, indexes: [Names -> Good],
   loaded: BOOLEAN, rows: SUBSET (Nat \X Nat)]
StoreRow == [connected: BOOLEAN, ready: BOOLEAN, holder: Caller \cup {Nobody}]
CallRow ==
  [op: {"none", "initialize", "delete", "insert", "other"},
   step: {"idle", "lock", "connect", "has", "create", "describe", "list", "index",
          "load", "data"},
   existing: SUBSET Names, next: 1..Len(IndexNames), ok: BOOLEAN, made: Nat]
RunRow ==
  [step: {"idle", "open", "embed", "close", "check", "checkpoint", "calling"},
   clients: Nat, vectors: Seq(Nat), next: Nat \ {0}, failed: BOOLEAN, made: Nat]

TypesOK ==
  /\ milvus \in MilvusRow
  /\ store \in [Store -> StoreRow]
  /\ call \in [Caller -> CallRow]
  /\ run \in RunRow
  /\ trouble \in Nat

-----------------------------------------------------------------------------
(* The inductive invariant.  A call that is past a check of Milvus relies on  *)
(* it without its store's lock: other stores only ever add what is missing.   *)
CallOK(c) ==
  /\ call[c].step \in {"list", "index", "load"} => milvus.schema = "good"
  /\ call[c].step = "index" =>
       /\ \A i \in 1..(call[c].next - 1) : milvus.indexes[IndexNames[i]] = "good"
       /\ \A n \in Names : milvus.indexes[n] = "other" => n \in call[c].existing
  /\ call[c].step = "load" => \A n \in Names : milvus.indexes[n] = "good"
  /\ call[c].step = "data" => Usable

(* Only the call that the handler waits for writes.                           *)
WriterOK(c) ==
  call[c].step = "idle" \/ call[c].op = "other" \/ (c = Handler /\ run.step = "calling")

(* Vectors come in the order of the texts, and no call is made without all.   *)
RunOK ==
  /\ Len(run.vectors) <= Texts
  /\ \A i \in 1..Len(run.vectors) : run.vectors[i] = i
  /\ run.step \in {"checkpoint", "calling"} => Len(run.vectors) = Texts

VectorInv ==
  /\ TypesOK
  /\ \A s \in Store : store[s].ready => Usable
  /\ \A c \in Caller : CallOK(c) /\ WriterOK(c)
  /\ RunOK

-----------------------------------------------------------------------------
(* The order in which a complete answer is put.                               *)
Rising(s) == \A i, j \in DOMAIN s : i < j => s[i] < s[j]

LEMMA RisingIsIdentity ==
  ASSUME NEW n \in Nat, NEW s \in [1..n -> 1..n], Rising(s), NEW i \in 1..n
  PROVE  s[i] = i
<1>1. \A j, k \in 1..n : /\ s[j] \in 1..n
                         /\ j < k => s[j] < s[k]
                         /\ j <= k => s[j] <= s[k]
                         /\ s[j] = s[k] => j = k
  <2>1. \A j, k \in 1..n : j < k => s[j] < s[k]
    BY DEF Rising
  <2>2. \A j \in 1..n : s[j] \in 1..n
    OBVIOUS
  <2>3. QED
    BY <2>1, <2>2
<1>2. i <= s[i]
  <2> DEFINE f == [j \in 1..i |-> s[j]]
  <2>1. f \in Injection(1..i, 1..s[i])
    BY <1>1 DEF Injection, IsInjective
  <2>2. /\ IsFiniteSet(1..s[i]) /\ Cardinality(1..s[i]) = s[i] /\ Cardinality(1..i) = i
    BY <1>1, FS_Interval
  <2>3. QED
    BY <2>1, <2>2, FS_Injection
<1>3. s[i] <= i
  <2> DEFINE f == [j \in i..n |-> s[j]]
  <2>1. f \in Injection(i..n, s[i]..n)
    BY <1>1 DEF Injection, IsInjective
  <2>2. /\ IsFiniteSet(s[i]..n) /\ Cardinality(s[i]..n) = n - s[i] + 1
        /\ Cardinality(i..n) = n - i + 1
    BY <1>1, FS_Interval
  <2>3. n - i + 1 <= n - s[i] + 1
    BY <2>1, <2>2, FS_Injection
  <2>4. QED
    BY <1>1, <2>3
<1>4. QED
  BY <1>1, <1>2, <1>3

LEMMA CompleteIsOrdered ==
  ASSUME NEW n \in Nat, NEW items, Complete(items, n)
  PROVE  Ordered(items) = [i \in 1..n |-> i]
<1> DEFINE id == [i \in 1..n |-> i]
<1>1. Range(items) = 1..n /\ Cardinality(1..n) = n
  BY FS_Interval DEF Complete
<1>2. SetToSeqs(Range(items)) = {f \in [1..n -> 1..n] : \A i, j \in 1..n : i # j => f[i] # f[j]}
  BY <1>1 DEF SetToSeqs
<1>3. id \in SetToSeqs(Range(items)) /\ Rising(id)
  BY <1>2 DEF Rising
<1> DEFINE s == Ordered(items)
<1>4. s \in SetToSeqs(Range(items)) /\ Rising(s)
  BY <1>3 DEF Ordered, Rising
<1>5. s \in [1..n -> 1..n]
  BY <1>2, <1>4
<1> HIDE DEF s
<1>6. \A i \in 1..n : s[i] = i
  BY <1>4, <1>5, RisingIsIdentity
<1>7. QED
  BY <1>5, <1>6 DEF s

-----------------------------------------------------------------------------
(* What a client call may do to Milvus: nothing that was usable is lost.      *)
Grown ==
  /\ milvus' \in MilvusRow
  /\ milvus.schema = "good" => milvus'.schema = "good"
  /\ milvus.loaded => milvus'.loaded
  /\ \A n \in Names :
       /\ milvus.indexes[n] = "good" => milvus'.indexes[n] = "good"
       /\ milvus'.indexes[n] = "other" => milvus.indexes[n] = "other"

LEMMA NameInOrder ==
  /\ Len(IndexNames) \in Nat \ {0}
  /\ \A i \in 1..Len(IndexNames) : IndexNames[i] \in Names
  /\ \A n \in Names : \E i \in 1..Len(IndexNames) : n = IndexNames[i]
BY VectorAssumption DEF Names, Range

LEMMA UsableMeans ==
  ASSUME milvus \in MilvusRow
  PROVE  Usable <=> /\ milvus.schema = "good" /\ milvus.loaded
                    /\ \A n \in Names : milvus.indexes[n] = "good"
<1>1. milvus.indexes \in [Names -> Good] /\ IndexNames[1] \in Names
  BY NameInOrder DEF MilvusRow
<1>2. Range(milvus.indexes) = {"good"} <=> \A n \in Names : milvus.indexes[n] = "good"
  BY <1>1 DEF Range
<1>3. QED
  BY <1>2 DEF Usable

LEMMA UsableStays ==
  ASSUME milvus \in MilvusRow, Grown, Usable
  PROVE  Usable'
<1>1. /\ milvus'.schema = "good" /\ milvus'.loaded
      /\ \A n \in Names : milvus'.indexes[n] = "good"
  BY UsableMeans DEF Grown
<1>2. milvus'.indexes \in [Names -> Good] /\ IndexNames[1] \in Names
  BY NameInOrder DEF MilvusRow, Grown
<1>3. Range(milvus'.indexes) = {"good"}
  BY <1>1, <1>2 DEF Range
<1>4. QED
  BY <1>1, <1>3 DEF Usable

LEMMA SameMilvus ==
  ASSUME milvus \in MilvusRow, milvus' = milvus
  PROVE  Grown
BY DEF Grown

LEMMA CallFields ==
  ASSUME TypesOK, NEW c \in Caller
  PROVE  /\ call[c] \in CallRow /\ call[c].next \in 1..Len(IndexNames)
         /\ IndexNames[call[c].next] \in Names /\ call[c].made \in Nat
         /\ S(c) \in StoreRow /\ StoreOf[c] \in Store
<1>1. call[c] \in CallRow /\ store \in [Store -> StoreRow] /\ StoreOf[c] \in Store
  BY VectorAssumption DEF TypesOK
<1>2. call[c].next \in 1..Len(IndexNames) /\ call[c].made \in Nat
  BY <1>1 DEF CallRow
<1>3. QED
  BY <1>1, <1>2, NameInOrder DEF S

LEMMA RowsOfRun ==
  ASSUME TypesOK
  PROVE  {<<i, run.vectors[i]>> : i \in DOMAIN run.vectors} \in SUBSET (Nat \X Nat)
<1>1. run.vectors \in Seq(Nat)
  BY DEF TypesOK, RunRow
<1>2. DOMAIN run.vectors = 1..Len(run.vectors) /\ Len(run.vectors) \in Nat
      /\ \A i \in DOMAIN run.vectors : run.vectors[i] \in Nat
  BY <1>1
<1>3. QED
  BY <1>2

(* The effect of one client call.                                             *)
LEMMA AfterGrows ==
  ASSUME TypesOK, NEW c \in Caller, milvus' = After(c)
  PROVE  /\ Grown
         /\ milvus'.rows # milvus.rows => call[c].step = "data" /\ call[c].op \in {"delete", "insert"}
         /\ call[c].step = "data" /\ call[c].op = "delete" => milvus'.rows = {}
         /\ call[c].step = "data" /\ call[c].op = "insert" =>
              milvus'.rows = {<<i, run.vectors[i]>> : i \in DOMAIN run.vectors}
<1> DEFINE name == IndexNames[call[c].next]
<1>1. milvus \in MilvusRow /\ name \in Names /\ milvus.indexes \in [Names -> Good]
  BY CallFields DEF TypesOK, MilvusRow
<1> DEFINE rows == {<<i, run.vectors[i]>> : i \in DOMAIN run.vectors}
<1>2. rows \in SUBSET (Nat \X Nat)
  BY RowsOfRun
<1> DEFINE made == call[c].step = "create" /\ milvus.schema = "absent"
           built == call[c].step = "index" /\ name \notin call[c].existing
                      /\ milvus.indexes[name] = "none"
           deleted == call[c].step = "data" /\ call[c].op = "delete"
           inserted == call[c].step = "data" /\ call[c].op = "insert"
<1>3. milvus' = CASE made -> [milvus EXCEPT !.schema = "good"]
                  [] built -> [milvus EXCEPT !.indexes[name] = "good"]
                  [] call[c].step = "load" -> [milvus EXCEPT !.loaded = TRUE]
                  [] deleted -> [milvus EXCEPT !.rows = {}]
                  [] inserted -> [milvus EXCEPT !.rows = rows]
                  [] OTHER -> milvus
  BY DEF After
<1> HIDE DEF name, rows
<1>4. CASE made
  <2>1. milvus' = [milvus EXCEPT !.schema = "good"]
    BY <1>3, <1>4
  <2>2. QED
    BY <1>1, <1>4, <2>1 DEF Grown, MilvusRow
<1>5. CASE built
  <2>1. milvus' = [milvus EXCEPT !.indexes[name] = "good"]
    BY <1>3, <1>5
  <2>2. /\ milvus'.indexes = [milvus.indexes EXCEPT ![name] = "good"]
        /\ milvus'.schema = milvus.schema /\ milvus'.loaded = milvus.loaded
        /\ milvus'.rows = milvus.rows /\ milvus' \in MilvusRow
    BY <1>1, <2>1 DEF MilvusRow, Good
  <2>3. QED
    BY <1>1, <1>5, <2>2 DEF Grown
<1>6. CASE call[c].step = "load"
  <2>1. milvus' = [milvus EXCEPT !.loaded = TRUE]
    BY <1>3, <1>6
  <2>2. QED
    BY <1>1, <1>6, <2>1 DEF Grown, MilvusRow
<1>7. CASE deleted
  <2>1. milvus' = [milvus EXCEPT !.rows = {}]
    BY <1>3, <1>7
  <2>2. QED
    BY <1>1, <1>7, <2>1 DEF Grown, MilvusRow
<1>8. CASE inserted
  <2>1. milvus' = [milvus EXCEPT !.rows = rows]
    BY <1>3, <1>8
  <2>2. milvus'.rows = rows /\ Grown
    BY <1>1, <1>2, <2>1 DEF Grown, MilvusRow
  <2>3. QED
    BY <1>8, <2>2 DEF rows
<1>9. CASE ~made /\ ~built /\ ~deleted /\ ~inserted /\ call[c].step # "load"
  <2>1. milvus' = milvus
    BY <1>3, <1>9
  <2>2. QED
    BY <1>1, <1>9, <2>1, SameMilvus
<1>10. QED
  BY <1>4, <1>5, <1>6, <1>7, <1>8, <1>9

-----------------------------------------------------------------------------
(* A step of one call.                                                        *)
CallStays(c) ==
  /\ call'[c] = call[c]
  /\ run'.step = run.step \/ run.step # "calling" \/ call[c].step = "idle"

LEMMA OthersKeep ==
  ASSUME VectorInv, Grown, NEW c \in Caller, CallStays(c)
  PROVE  CallOK(c)' /\ WriterOK(c)'
<1>1. milvus \in MilvusRow /\ CallOK(c) /\ WriterOK(c) /\ call[c] \in CallRow
  BY DEF VectorInv, TypesOK
<1>2. call[c].next \in Nat /\ call[c].next - 1 < Len(IndexNames) /\ Len(IndexNames) \in Nat
  BY <1>1, NameInOrder DEF CallRow
<1>3. \A i \in 1..(call[c].next - 1) : IndexNames[i] \in Names
  BY <1>2, NameInOrder
<1>4. CallOK(c)'
  BY <1>1, <1>3, UsableStays DEF CallOK, CallStays, Grown
<1>5. WriterOK(c)'
  BY <1>1 DEF WriterOK, CallStays
<1>6. QED
  BY <1>4, <1>5

(* The store of c after the step.                                             *)
StoreKeeps ==
  /\ store' \in [Store -> StoreRow]
  /\ \A s \in Store : store'[s].ready => store[s].ready \/ Usable'

LEMMA CallKeepsInv ==
  ASSUME VectorInv, Grown, StoreKeeps, run' = run, trouble' \in Nat,
         NEW c \in Caller, NEW x \in CallRow, call' = [call EXCEPT ![c] = x],
         CallOK(c)', WriterOK(c)'
  PROVE  VectorInv'
<1>1. TypesOK /\ milvus' \in MilvusRow /\ call \in [Caller -> CallRow]
  BY DEF VectorInv, TypesOK, Grown
<1>2. TypesOK'
  BY <1>1 DEF TypesOK, StoreKeeps
<1>3. \A s \in Store : store'[s].ready => Usable'
  BY <1>1, UsableStays DEF VectorInv, TypesOK, StoreKeeps
<1>4. \A d \in Caller : CallOK(d)' /\ WriterOK(d)'
  BY <1>1, OthersKeep DEF CallStays
<1>5. RunOK'
  BY DEF VectorInv, RunOK
<1>6. QED
  BY <1>2, <1>3, <1>4, <1>5 DEF VectorInv

LEMMA StoreSame == ASSUME TypesOK, UNCHANGED store PROVE StoreKeeps
BY DEF TypesOK, StoreKeeps

LEMMA StoreSet ==
  ASSUME TypesOK, NEW c \in Caller, NEW s \in StoreRow, SetStore(c, s),
         s.ready => S(c).ready \/ Usable'
  PROVE  StoreKeeps
<1>1. store \in [Store -> StoreRow] /\ StoreOf[c] \in Store
  BY CallFields DEF TypesOK
<1>2. store' = [store EXCEPT ![StoreOf[c]] = s]
  BY DEF SetStore
<1>3. QED
  BY <1>1, <1>2 DEF StoreKeeps, S

LEMMA DoneType ==
  ASSUME TypesOK, NEW c \in Caller, NEW ok \in BOOLEAN
  PROVE  /\ Done(c, ok) \in CallRow /\ Done(c, ok).step = "idle" /\ Done(c, ok).op = "none"
         /\ Done(c, ok).ok = ok /\ Done(c, ok).made = call[c].made
<1>1. call[c].made \in Nat /\ 1 \in 1..Len(IndexNames)
  BY CallFields, NameInOrder
<1>2. QED
  BY <1>1 DEF Done, NoCall, CallRow

LEMMA DoneKeeps ==
  ASSUME VectorInv, Grown, StoreKeeps, run' = run, trouble' \in Nat,
         NEW c \in Caller, NEW ok \in BOOLEAN, call' = [call EXCEPT ![c] = Done(c, ok)]
  PROVE  VectorInv'
<1>1. TypesOK /\ call \in [Caller -> CallRow]
  BY DEF VectorInv, TypesOK
<1>2. Done(c, ok) \in CallRow /\ call'[c].step = "idle"
  BY <1>1, DoneType
<1>3. CallOK(c)' /\ WriterOK(c)'
  BY <1>2 DEF CallOK, WriterOK
<1>4. QED
  BY <1>2, <1>3, CallKeepsInv

LEMMA GoesKeeps ==
  ASSUME VectorInv, Grown, StoreKeeps, run' = run, trouble' \in Nat,
         NEW c \in Caller, NEW step, Goes(c, step), call[c].step # "idle",
         \/ step \in {"connect", "has", "create", "describe"}
         \/ step = "list" /\ milvus'.schema = "good"
         \/ step = "data" /\ Usable'
  PROVE  VectorInv'
<1> DEFINE x == [call[c] EXCEPT !.step = step]
<1>1. TypesOK /\ call \in [Caller -> CallRow] /\ call[c] \in CallRow /\ WriterOK(c)
  BY DEF VectorInv, TypesOK
<1>2. x \in CallRow /\ x.step = step /\ x.op = call[c].op
  BY <1>1 DEF CallRow
<1>3. call' = [call EXCEPT ![c] = x] /\ call'[c] = x
  BY <1>1 DEF Goes
<1> HIDE DEF x
<1>4. CallOK(c)'
  BY <1>2, <1>3 DEF CallOK
<1>5. WriterOK(c)'
  BY <1>1, <1>2, <1>3 DEF WriterOK
<1>6. QED
  BY <1>2, <1>3, <1>4, <1>5, CallKeepsInv

LEMMA InitializedKeeps ==
  ASSUME VectorInv, Grown, StoreKeeps, run' = run, trouble' \in Nat,
         NEW c \in Caller, Initialized(c), call[c].step # "idle", Usable'
  PROVE  VectorInv'
<1>1. CASE call[c].op = "initialize"
  BY <1>1, DoneKeeps DEF Initialized
<1>2. CASE call[c].op # "initialize"
  BY <1>2, GoesKeeps DEF Initialized
<1>3. QED
  BY <1>1, <1>2

(* A call that raises gives the lock back and is over.                        *)
LEMMA RaisesKeeps ==
  ASSUME VectorInv, Grown, run' = run, trouble' \in Nat, NEW c \in Caller, Raises(c)
  PROVE  VectorInv'
<1> DEFINE s == [S(c) EXCEPT !.holder = IF @ = c THEN Nobody ELSE @]
<1>1. TypesOK /\ S(c) \in StoreRow
  BY CallFields DEF VectorInv
<1>2. s \in StoreRow /\ s.ready = S(c).ready
  BY <1>1 DEF StoreRow
<1>3. SetStore(c, s) /\ call' = [call EXCEPT ![c] = Done(c, FALSE)]
  BY DEF Raises
<1> HIDE DEF s
<1>4. StoreKeeps
  BY <1>1, <1>2, <1>3, StoreSet
<1>5. QED
  BY <1>3, <1>4, DoneKeeps

LEMMA LockKeeps ==
  ASSUME VectorInv, run' = run, trouble' = trouble, NEW c \in Caller, Lock(c)
  PROVE  VectorInv'
<1>1. /\ TypesOK /\ milvus \in MilvusRow /\ milvus' = milvus /\ call[c].step # "idle"
      /\ trouble' \in Nat /\ S(c) \in StoreRow /\ StoreOf[c] \in Store
  BY CallFields DEF VectorInv, TypesOK, Lock
<1>2. Grown
  BY <1>1, SameMilvus
<1>3. CASE S(c).ready
  <2>1. Initialized(c) /\ UNCHANGED store
    BY <1>3 DEF Lock
  <2>2. Usable /\ Usable'
    BY <1>1, <1>2, <1>3, UsableStays DEF VectorInv, S
  <2>3. QED
    BY <1>1, <1>2, <2>1, <2>2, StoreSame, InitializedKeeps
<1>4. CASE ~S(c).ready
  <2> DEFINE s == [S(c) EXCEPT !.holder = c]
  <2>1. s \in StoreRow /\ s.ready = S(c).ready
    BY <1>1 DEF StoreRow
  <2>2. SetStore(c, s) /\ Goes(c, IF S(c).connected THEN "has" ELSE "connect")
    BY <1>4 DEF Lock
  <2> HIDE DEF s
  <2>3. StoreKeeps
    BY <1>1, <2>1, <2>2, StoreSet
  <2>4. QED
    BY <1>1, <1>2, <2>2, <2>3, GoesKeeps
<1>5. QED
  BY <1>3, <1>4

LEMMA ConnectKeeps ==
  ASSUME VectorInv, run' = run, trouble' = trouble, NEW c \in Caller, Connect(c)
  PROVE  VectorInv'
<1> DEFINE s == [S(c) EXCEPT !.connected = TRUE]
<1>1. /\ TypesOK /\ milvus \in MilvusRow /\ milvus' = milvus /\ call[c].step # "idle"
      /\ trouble' \in Nat /\ S(c) \in StoreRow
  BY CallFields DEF VectorInv, TypesOK, Connect
<1>2. s \in StoreRow /\ s.ready = S(c).ready
  BY <1>1 DEF StoreRow
<1>3. SetStore(c, s) /\ Goes(c, "has")
  BY DEF Connect
<1> HIDE DEF s
<1>4. StoreKeeps /\ Grown
  BY <1>1, <1>2, <1>3, StoreSet, SameMilvus
<1>5. QED
  BY <1>1, <1>3, <1>4, GoesKeeps

LEMMA LookingKeeps ==
  ASSUME VectorInv, run' = run, trouble' = trouble, NEW c \in Caller,
         HasCollection(c) \/ ValidateCollection(c)
  PROVE  VectorInv'
<1>1. /\ TypesOK /\ milvus' = milvus /\ call[c].step # "idle"
      /\ trouble' \in Nat /\ Grown
  BY SameMilvus DEF VectorInv, TypesOK, HasCollection, ValidateCollection
<1>2. CASE HasCollection(c)
  BY <1>1, <1>2, StoreSame, GoesKeeps DEF HasCollection
<1>3. CASE ValidateCollection(c) /\ Compatible
  BY <1>1, <1>3, StoreSame, GoesKeeps DEF ValidateCollection, Compatible
<1>4. CASE ValidateCollection(c) /\ ~Compatible
  BY <1>1, <1>4, RaisesKeeps DEF ValidateCollection
<1>5. QED
  BY <1>2, <1>3, <1>4

LEMMA CreateKeeps ==
  ASSUME VectorInv, run' = run, trouble' = trouble, NEW c \in Caller, Create(c)
  PROVE  VectorInv'
<1>1. /\ TypesOK /\ milvus' = After(c) /\ call[c].step # "idle" /\ trouble' \in Nat
  BY DEF VectorInv, TypesOK, Create
<1>2. Grown
  BY <1>1, AfterGrows
<1>3. QED
  BY <1>1, <1>2, StoreSame, GoesKeeps, RaisesKeeps DEF Create

LEMMA ListIndexesKeeps ==
  ASSUME VectorInv, run' = run, trouble' = trouble, NEW c \in Caller, ListIndexes(c)
  PROVE  VectorInv'
<1> DEFINE found == {n \in Names : milvus.indexes[n] # "none"}
           x == [call[c] EXCEPT !.step = "index", !.next = 1, !.existing = found]
<1>1. /\ TypesOK /\ milvus' = milvus /\ call[c].step = "list" /\ UNCHANGED store
      /\ trouble' \in Nat /\ Grown /\ CallOK(c) /\ WriterOK(c) /\ milvus.schema = "good"
      /\ call[c] \in CallRow /\ call \in [Caller -> CallRow] /\ 1 \in 1..Len(IndexNames)
  BY SameMilvus, NameInOrder DEF VectorInv, TypesOK, ListIndexes, CallOK
<1>2. /\ x \in CallRow /\ x.step = "index" /\ x.op = call[c].op /\ x.next = 1
      /\ x.existing = found
  BY <1>1 DEF CallRow
<1>3. call' = [call EXCEPT ![c] = x] /\ call'[c] = x
  BY <1>1 DEF ListIndexes, Names
<1> HIDE DEF x
<1>4. CallOK(c)'
  BY <1>1, <1>2, <1>3 DEF CallOK
<1>5. WriterOK(c)'
  BY <1>1, <1>2, <1>3 DEF WriterOK
<1>6. QED
  BY <1>1, <1>2, <1>3, <1>4, <1>5, StoreSame, CallKeepsInv

(* After each round one more index is known to be good.                       *)
LEMMA NextIndexKeeps ==
  ASSUME VectorInv, Grown, run' = run, trouble' \in Nat, NEW c \in Caller,
         call[c].step = "index", NextIndex(c),
         milvus'.indexes[IndexNames[call[c].next]] = "good"
  PROVE  VectorInv'
<1> DEFINE k == call[c].next
           x == IF k = Len(IndexNames) THEN [call[c] EXCEPT !.step = "load"]
                ELSE [call[c] EXCEPT !.next = k + 1]
<1>1. /\ TypesOK /\ CallOK(c) /\ WriterOK(c) /\ call[c] \in CallRow
      /\ call \in [Caller -> CallRow] /\ k \in 1..Len(IndexNames)
      /\ Len(IndexNames) \in Nat \ {0} /\ milvus.schema = "good"
      /\ \A i \in 1..(k - 1) : milvus.indexes[IndexNames[i]] = "good"
      /\ \A n \in Names : milvus.indexes[n] = "other" => n \in call[c].existing
  BY CallFields, NameInOrder DEF VectorInv, TypesOK, CallOK
<1>2. /\ x \in CallRow /\ x.op = call[c].op /\ x.existing = call[c].existing
      /\ x.step = IF k = Len(IndexNames) THEN "load" ELSE "index"
      /\ x.next = IF k = Len(IndexNames) THEN k ELSE k + 1
  <2>1. CASE k = Len(IndexNames)
    BY <1>1, <2>1 DEF CallRow
  <2>2. CASE k # Len(IndexNames)
    <3>1. k + 1 \in 1..Len(IndexNames)
      BY <1>1, <2>2
    <3>2. QED
      BY <1>1, <2>2, <3>1 DEF CallRow
  <2>3. QED
    BY <2>1, <2>2
<1>3. call' = [call EXCEPT ![c] = x] /\ call'[c] = x /\ UNCHANGED store
  <2>1. CASE k = Len(IndexNames)
    BY <1>1, <2>1 DEF NextIndex
  <2>2. CASE k # Len(IndexNames)
    BY <1>1, <2>2 DEF NextIndex
  <2>3. QED
    BY <2>1, <2>2
<1> HIDE DEF x
<1>4. \A i \in 1..k : milvus'.indexes[IndexNames[i]] = "good"
  <2> SUFFICES ASSUME NEW i \in 1..k PROVE milvus'.indexes[IndexNames[i]] = "good"
    OBVIOUS
  <2>1. CASE i = k
    BY <2>1
  <2>2. CASE i # k
    <3>1. i \in 1..(k - 1) /\ IndexNames[i] \in Names
      BY <1>1, <2>2, NameInOrder
    <3>2. QED
      BY <1>1, <3>1 DEF Grown
  <2>3. QED
    BY <2>1, <2>2
<1>5. CallOK(c)'
  <2>1. CASE k = Len(IndexNames)
    <3>1. \A n \in Names : milvus'.indexes[n] = "good"
      BY <1>4, <2>1, NameInOrder
    <3>2. QED
      BY <1>1, <1>2, <1>3, <2>1, <3>1 DEF CallOK, Grown
  <2>2. CASE k # Len(IndexNames)
    <3>1. k + 1 - 1 = k
      BY <1>1
    <3>2. QED
      BY <1>1, <1>2, <1>3, <1>4, <2>2, <3>1 DEF CallOK, Grown
  <2>3. QED
    BY <2>1, <2>2
<1>6. WriterOK(c)'
  BY <1>1, <1>2, <1>3 DEF WriterOK
<1>7. QED
  BY <1>1, <1>2, <1>3, <1>5, <1>6, StoreSame, CallKeepsInv

LEMMA EnsureIndexKeeps ==
  ASSUME VectorInv, run' = run, trouble' = trouble, NEW c \in Caller, EnsureIndex(c)
  PROVE  VectorInv'
<1> DEFINE name == IndexNames[call[c].next]
<1>1. /\ TypesOK /\ milvus' = After(c) /\ call[c].step = "index" /\ trouble' \in Nat
      /\ milvus \in MilvusRow /\ name \in Names /\ milvus.indexes[name] \in Good
      /\ CallOK(c) /\ (milvus.indexes[name] = "other" => name \in call[c].existing)
      /\ Grown
  BY CallFields, AfterGrows DEF VectorInv, TypesOK, EnsureIndex, CallOK, MilvusRow
<1>2. CASE (name \in call[c].existing => IndexFits(name)) /\ NextIndex(c)
  <2>1. milvus'.indexes[name] = "good"
    <3>1. CASE milvus.indexes[name] = "good"
      BY <1>1, <3>1 DEF Grown
    <3>2. CASE name \notin call[c].existing /\ milvus.indexes[name] = "none"
      <4>1. milvus' = [milvus EXCEPT !.indexes[name] = "good"]
        BY <1>1, <3>2 DEF After
      <4>2. QED
        BY <1>1, <4>1 DEF MilvusRow
    <3>3. QED
      BY <1>1, <1>2, <3>1, <3>2 DEF IndexFits, Good
  <2>2. QED
    BY <1>1, <1>2, <2>1, NextIndexKeeps
<1>3. CASE Raises(c)
  BY <1>1, <1>3, RaisesKeeps
<1>4. QED
  BY <1>2, <1>3 DEF EnsureIndex

LEMMA LoadKeeps ==
  ASSUME VectorInv, run' = run, trouble' = trouble, NEW c \in Caller, Load(c)
  PROVE  VectorInv'
<1> DEFINE s == [S(c) EXCEPT !.ready = TRUE, !.holder = Nobody]
<1>1. /\ TypesOK /\ milvus' = After(c) /\ call[c].step = "load" /\ trouble' \in Nat
      /\ milvus \in MilvusRow /\ CallOK(c) /\ Grown /\ S(c) \in StoreRow
  BY CallFields, AfterGrows DEF VectorInv, TypesOK, Load
<1>2. Usable'
  <2>1. milvus' = [milvus EXCEPT !.loaded = TRUE]
    BY <1>1 DEF After
  <2>2. /\ milvus'.schema = "good" /\ milvus'.loaded
        /\ milvus'.indexes = milvus.indexes /\ \A n \in Names : milvus.indexes[n] = "good"
    BY <1>1, <2>1 DEF CallOK, MilvusRow
  <2>3. milvus.indexes \in [Names -> Good] /\ IndexNames[1] \in Names
    BY <1>1, NameInOrder DEF MilvusRow
  <2>4. Range(milvus.indexes) = {"good"}
    BY <2>2, <2>3 DEF Range
  <2>5. QED
    BY <2>2, <2>4 DEF Usable
<1>3. s \in StoreRow
  BY <1>1 DEF StoreRow
<1>4. SetStore(c, s) /\ Initialized(c)
  BY DEF Load
<1> HIDE DEF s
<1>5. StoreKeeps
  BY <1>1, <1>2, <1>3, <1>4, StoreSet
<1>6. QED
  BY <1>1, <1>2, <1>4, <1>5, InitializedKeeps

LEMMA DataKeeps ==
  ASSUME VectorInv, run' = run, trouble' = trouble, NEW c \in Caller, Data(c)
  PROVE  VectorInv'
<1>1. /\ TypesOK /\ milvus' = After(c) /\ trouble' \in Nat /\ Grown /\ UNCHANGED store
      /\ call' = [call EXCEPT ![c] = Done(c, TRUE)]
  BY AfterGrows DEF VectorInv, TypesOK, Data
<1>2. QED
  BY <1>1, StoreSame, DoneKeeps

LEMMA FailKeeps ==
  ASSUME VectorInv, NEW c \in Caller, Fail(c)
  PROVE  VectorInv'
<1>1. TypesOK /\ trouble' \in Nat /\ run' = run /\ Raises(c)
  BY DEF VectorInv, TypesOK, Fail, Trouble
<1>2. Grown
  BY <1>1, SameMilvus, AfterGrows DEF Fail, TypesOK
<1>3. QED
  BY <1>1, <1>2, RaisesKeeps

LEMMA CallStepKeeps ==
  ASSUME VectorInv, NEW c \in Caller, CallStep(c)
  PROVE  VectorInv'
<1>1. run' = run /\ trouble' = trouble
  BY DEF CallStep
<1>2. QED
  BY <1>1, LockKeeps, ConnectKeeps, LookingKeeps, CreateKeeps, ListIndexesKeeps,
     EnsureIndexKeeps, LoadKeeps, DataKeeps DEF CallStep

-----------------------------------------------------------------------------
(* A step of the run.                                                         *)
LEMMA RunFields ==
  ASSUME VectorInv
  PROVE  /\ TypesOK /\ run \in RunRow /\ run.vectors \in Seq(Nat) /\ Len(run.vectors) \in Nat
         /\ run.clients \in Nat /\ run.next \in Nat \ {0} /\ run.made \in Nat
         /\ RunOK /\ Texts \in Nat \ {0}
BY VectorAssumption DEF VectorInv, TypesOK, RunRow

LEMMA RunKeepsInv ==
  ASSUME VectorInv, NEW r \in RunRow, Runs(r), trouble' \in Nat,
         Len(r.vectors) <= Texts, \A i \in 1..Len(r.vectors) : r.vectors[i] = i,
         r.step \in {"checkpoint", "calling"} => Len(r.vectors) = Texts,
         r.step = run.step \/ run.step # "calling" \/ call[Handler].step = "idle"
  PROVE  VectorInv'
<1>1. TypesOK /\ run' = r /\ milvus' = milvus /\ store' = store /\ call' = call
  BY DEF VectorInv, Runs
<1>2. TypesOK'
  BY <1>1 DEF TypesOK
<1>3. Grown
  BY <1>1, SameMilvus DEF TypesOK
<1>4. ASSUME NEW c \in Caller PROVE CallOK(c)' /\ WriterOK(c)'
  <2>1. CASE CallStays(c)
    BY <1>3, <2>1, OthersKeep
  <2>2. CASE r.step # run.step /\ run.step = "calling" /\ c # Handler
    <3>1. WriterOK(c) /\ CallOK(c)
      BY DEF VectorInv
    <3>2. CallOK(c)'
      BY <1>1, <3>1 DEF CallOK, Usable
    <3>3. QED
      BY <1>1, <2>2, <3>1, <3>2 DEF WriterOK
  <2>3. QED
    BY <1>1, <2>1, <2>2 DEF CallStays
<1>5. \A s \in Store : store'[s].ready => Usable'
  BY <1>1 DEF VectorInv, Usable
<1>6. RunOK'
  BY <1>1 DEF RunOK
<1>7. QED
  BY <1>2, <1>4, <1>5, <1>6 DEF VectorInv

LEMMA NoRunFields ==
  /\ NoRun \in RunRow /\ NoRun.step = "idle" /\ Len(NoRun.vectors) = 0
  /\ \A i \in 1..Len(NoRun.vectors) : NoRun.vectors[i] = i
BY DEF NoRun, RunRow

LEMMA EndFields ==
  ASSUME run.made \in Nat
  PROVE  End \in RunRow /\ End.step = "idle" /\ End.vectors = NoRun.vectors
BY NoRunFields DEF End, RunRow

LEMMA EndKeeps ==
  ASSUME VectorInv, trouble' \in Nat, Runs(End),
         run.step # "calling" \/ call[Handler].step = "idle"
  PROVE  VectorInv'
<1>1. End \in RunRow /\ End.step = "idle" /\ Texts \in Nat
      /\ Len(End.vectors) = 0 /\ \A i \in 1..Len(End.vectors) : End.vectors[i] = i
  BY NoRunFields, RunFields, EndFields
<1>2. Len(End.vectors) <= Texts
  BY <1>1
<1>3. QED
  BY <1>1, <1>2, RunKeepsInv

LEMMA BeginKeeps ==
  ASSUME VectorInv, trouble' \in Nat, Begin
  PROVE  VectorInv'
<1> DEFINE made == run.made + 1
           r == [NoRun EXCEPT !.step = "open", !.made = made]
<1>1. made \in Nat /\ Texts \in Nat
  BY RunFields
<1>2. Runs(r) /\ run.step = "idle"
  BY DEF Begin
<1> HIDE DEF made
<1>3. r \in RunRow /\ r.vectors = NoRun.vectors /\ r.step = "open"
  BY <1>1, NoRunFields DEF RunRow
<1> HIDE DEF r
<1>4. Len(r.vectors) <= Texts /\ \A i \in 1..Len(r.vectors) : r.vectors[i] = i
  BY <1>1, <1>3, NoRunFields
<1>5. QED
  BY <1>1, <1>2, <1>3, <1>4, RunKeepsInv

(* Whatever becomes of the run, its vectors stay.                             *)
LEMMA SameVectors ==
  ASSUME VectorInv, NEW r \in RunRow, Runs(r), trouble' \in Nat,
         r.vectors = run.vectors,
         r.step \in {"checkpoint", "calling"} => Len(run.vectors) = Texts,
         r.step = run.step \/ run.step # "calling" \/ call[Handler].step = "idle"
  PROVE  VectorInv'
BY RunFields, RunKeepsInv DEF RunOK

LEMMA BatchFits ==
  ASSUME VectorInv
  PROVE  Batch \in Nat /\ Batch <= Texts - Len(run.vectors)
<1> DEFINE T == {BatchSize, Texts - Len(run.vectors)}
<1>1. /\ BatchSize \in Nat \ {0} /\ Texts - Len(run.vectors) \in Nat
  BY RunFields, VectorAssumption DEF RunOK
<1>2. \E x \in T : \A y \in T : x =< y
  BY <1>1
<1>3. Min(T) \in T /\ \A y \in T : Min(T) =< y
  BY <1>2 DEF Min
<1>4. QED
  BY <1>1, <1>3 DEF Batch

LEMMA EmbedKeeps ==
  ASSUME VectorInv, trouble' \in Nat, NEW answer \in Answers(Batch), Embed(answer)
  PROVE  VectorInv'
<1> DEFINE n == Batch
           m == Len(run.vectors)
           v == run.vectors \o Numbers(answer.items)
           r == [run EXCEPT !.vectors = v, !.step = IF m + n = Texts THEN "close" ELSE @]
<1>1. /\ run.step = "embed" /\ run \in RunRow /\ n \in Nat /\ m \in Nat /\ n <= Texts - m
      /\ run.vectors \in Seq(Nat) /\ Texts \in Nat /\ RunOK
  BY RunFields, BatchFits DEF Embed
<1>2. CASE Complete(answer.items, Batch) /\ answer.finite
  <2>1. DOMAIN answer.items = 1..n
    <3>1. PICK k \in 0..n + 1 : answer.items \in [1..k -> 1..n + 1]
      BY DEF Answers
    <3>2. Len(answer.items) = k
      BY <1>1, <3>1
    <3>3. QED
      BY <1>2, <3>1, <3>2 DEF Complete
  <2>2. Ordered(answer.items) = [i \in 1..n |-> i]
    BY <1>1, <1>2, CompleteIsOrdered
  <2>3. Numbers(answer.items) = [i \in 1..n |-> m + i]
    BY <2>1, <2>2 DEF Numbers
  <2> DEFINE w == [i \in 1..n |-> m + i]
  <2>4. w \in Seq(Nat) /\ Len(w) = n
    BY <1>1
  <2>5. v \in Seq(Nat) /\ Len(v) = m + n /\ \A i \in 1..(m + n) : v[i] = i
    BY <1>1, <2>3, <2>4 DEF RunOK
  <2>6. Runs(r)
    BY <1>2 DEF Embed
  <2> HIDE DEF v
  <2>7. r \in RunRow /\ r.vectors = v /\ r.step \in {"close", "embed"}
    BY <1>1, <2>5 DEF RunRow
  <2> HIDE DEF r
  <2>8. Len(r.vectors) <= Texts /\ \A i \in 1..Len(r.vectors) : r.vectors[i] = i
    BY <1>1, <2>5, <2>7
  <2>9. /\ r \in RunRow /\ run.step # "calling"
        /\ r.step \in {"checkpoint", "calling"} => Len(r.vectors) = Texts
    BY <1>1, <2>7
  <2>10. QED
    BY <2>6, <2>8, <2>9, RunKeepsInv
<1>3. CASE ~(Complete(answer.items, Batch) /\ answer.finite)
  <2>1. Runs(Closing(TRUE))
    BY <1>3 DEF Embed
  <2>2. Closing(TRUE) \in RunRow /\ Closing(TRUE).vectors = run.vectors /\ Closing(TRUE).step = "close"
    BY <1>1 DEF Closing, RunRow
  <2>3. QED
    BY <1>1, <2>1, <2>2, SameVectors
<1>4. QED
  BY <1>2, <1>3

LEMMA OpeningKeeps ==
  ASSUME VectorInv, trouble' \in Nat,
         OpenClient \/ (run.step \in {"open", "embed"} /\ Runs(Closing(TRUE)))
  PROVE  VectorInv'
<1>1. run \in RunRow /\ run.step # "calling" /\ run.clients \in Nat
  BY RunFields DEF OpenClient
<1>2. CASE OpenClient
  <2> DEFINE n == run.clients + 1
             step == IF n = Len(Clients) THEN "embed" ELSE "open"
             r == [run EXCEPT !.clients = n, !.step = step]
  <2>1. n \in Nat /\ step \in {"embed", "open"} /\ Runs(r)
    BY <1>1, <1>2 DEF OpenClient
  <2> HIDE DEF n, step
  <2>2. r \in RunRow /\ r.vectors = run.vectors /\ r.step = step
    BY <1>1, <2>1 DEF RunRow
  <2> HIDE DEF r
  <2>3. QED
    BY <1>1, <2>1, <2>2, SameVectors
<1>3. CASE Runs(Closing(TRUE))
  <2>1. Closing(TRUE) \in RunRow /\ Closing(TRUE).vectors = run.vectors /\ Closing(TRUE).step = "close"
    BY <1>1 DEF Closing, RunRow
  <2>2. QED
    BY <1>1, <1>3, <2>1, SameVectors
<1>4. QED
  BY <1>2, <1>3

LEMMA ClosingKeeps ==
  ASSUME VectorInv, trouble' \in Nat,
         CloseClient \/ (/\ run.step = "close" /\ run.clients > 0
                         /\ Runs([run EXCEPT !.clients = @ - 1, !.failed = TRUE]))
  PROVE  VectorInv'
<1>1. run \in RunRow /\ run.step = "close" /\ run.clients \in Nat
  BY RunFields DEF CloseClient
<1>2. ASSUME NEW failed \in BOOLEAN, run.clients > 0,
             Runs([run EXCEPT !.clients = @ - 1, !.failed = failed])
      PROVE  VectorInv'
  <2> DEFINE n == run.clients - 1
             r == [run EXCEPT !.clients = n, !.failed = failed]
  <2>1. n \in Nat /\ Runs(r)
    BY <1>1, <1>2
  <2> HIDE DEF n
  <2>2. r \in RunRow /\ r.vectors = run.vectors /\ r.step = "close"
    BY <1>1, <2>1 DEF RunRow
  <2> HIDE DEF r
  <2>3. QED
    BY <1>1, <2>1, <2>2, SameVectors
<1>3. CASE CloseClient /\ run.clients > 0
  <2>1. run.failed \in BOOLEAN /\ [run EXCEPT !.clients = @ - 1]
                                    = [run EXCEPT !.clients = @ - 1, !.failed = run.failed]
    BY <1>1 DEF RunRow
  <2>2. QED
    BY <1>2, <1>3, <2>1 DEF CloseClient
<1>4. CASE CloseClient /\ ~(run.clients > 0) /\ run.failed
  BY <1>1, <1>4, EndKeeps DEF CloseClient
<1>5. CASE CloseClient /\ ~(run.clients > 0) /\ ~run.failed
  <2> DEFINE r == [run EXCEPT !.step = "check"]
  <2>1. r \in RunRow /\ r.vectors = run.vectors /\ r.step = "check" /\ Runs(r)
    BY <1>1, <1>5 DEF RunRow, CloseClient
  <2> HIDE DEF r
  <2>2. QED
    BY <1>1, <2>1, SameVectors
<1>6. QED
  BY <1>2, <1>3, <1>4, <1>5

LEMMA CheckKeeps ==
  ASSUME VectorInv, trouble' \in Nat, Check
  PROVE  VectorInv'
<1>1. run \in RunRow /\ run.step = "check"
  BY RunFields DEF Check
<1>2. CASE Len(run.vectors) = Texts
  <2> DEFINE r == [run EXCEPT !.step = "checkpoint"]
  <2>1. r \in RunRow /\ r.vectors = run.vectors /\ r.step = "checkpoint" /\ Runs(r)
    BY <1>1, <1>2 DEF RunRow, Check
  <2> HIDE DEF r
  <2>2. QED
    BY <1>1, <1>2, <2>1, SameVectors
<1>3. CASE Len(run.vectors) # Texts
  BY <1>1, <1>3, EndKeeps DEF Check
<1>4. QED
  BY <1>2, <1>3

LEMMA CallingKeeps ==
  ASSUME VectorInv, trouble' \in Nat,
         Returned \/ (run.step = "calling" /\ Runs([run EXCEPT !.failed = TRUE]))
  PROVE  VectorInv'
<1>1. /\ run \in RunRow /\ run.step = "calling" /\ run.next \in Nat \ {0} /\ RunOK
      /\ Len(run.vectors) = Texts
  BY RunFields DEF Returned, RunOK
<1>2. CASE Runs([run EXCEPT !.failed = TRUE])
  <2> DEFINE r == [run EXCEPT !.failed = TRUE]
  <2>1. r \in RunRow /\ r.vectors = run.vectors /\ r.step = run.step
    BY <1>1 DEF RunRow
  <2> HIDE DEF r
  <2>2. QED
    BY <1>1, <1>2, <2>1, SameVectors DEF r
<1>3. CASE Returned /\ Runs(End)
  BY <1>1, <1>3, EndKeeps DEF Returned
<1>4. CASE Returned /\ Runs([run EXCEPT !.step = "checkpoint", !.next = @ + 1])
  <2> DEFINE n == run.next + 1
             r == [run EXCEPT !.step = "checkpoint", !.next = n]
  <2>1. n \in Nat \ {0} /\ Runs(r) /\ call[Handler].step = "idle"
    BY <1>1, <1>4 DEF Returned
  <2> HIDE DEF n
  <2>2. r \in RunRow /\ r.vectors = run.vectors /\ r.step = "checkpoint"
    BY <1>1, <2>1 DEF RunRow
  <2> HIDE DEF r
  <2>3. QED
    BY <1>1, <2>1, <2>2, SameVectors
<1>5. QED
  BY <1>2, <1>3, <1>4 DEF Returned

(* A new call of the handler, or of anybody else.                             *)
LEMMA AskedCall ==
  ASSUME VectorInv, NEW c \in Caller, NEW op \in {"initialize", "delete", "insert", "other"},
         Ask(c, op)
  PROVE  /\ call' \in [Caller -> CallRow] /\ call'[c].step = "lock" /\ call'[c].op = op
         /\ \A d \in Caller : d # c => call'[d] = call[d]
<1> DEFINE n == call[c].made + 1
           x == [call[c] EXCEPT !.op = op, !.step = "lock", !.made = n]
<1>1. call \in [Caller -> CallRow] /\ call[c] \in CallRow /\ n \in Nat
  BY CallFields DEF VectorInv, TypesOK
<1>2. call' = [call EXCEPT ![c] = x]
  BY <1>1 DEF Ask
<1> HIDE DEF n
<1>3. x \in CallRow /\ x.step = "lock" /\ x.op = op
  BY <1>1 DEF CallRow
<1> HIDE DEF x
<1>4. QED
  BY <1>1, <1>2, <1>3

LEMMA AskingKeeps ==
  ASSUME VectorInv, trouble' = trouble, UNCHANGED <<milvus, store>>,
         NEW c \in Caller, NEW op \in {"initialize", "delete", "insert", "other"}, Ask(c, op),
         run' \in RunRow, RunOK',
         op = "other" \/ (c = Handler /\ run'.step = "calling"),
         run'.step = run.step \/ run.step # "calling"
  PROVE  VectorInv'
<1>1. /\ TypesOK /\ milvus' = milvus /\ store' = store /\ milvus \in MilvusRow /\ Grown
      /\ trouble' \in Nat
  BY SameMilvus DEF VectorInv, TypesOK
<1>2. /\ call' \in [Caller -> CallRow] /\ call'[c].step = "lock" /\ call'[c].op = op
      /\ \A d \in Caller : d # c => call'[d] = call[d]
  BY AskedCall
<1>3. TypesOK'
  BY <1>1, <1>2 DEF TypesOK
<1>4. CallOK(c)' /\ WriterOK(c)'
  BY <1>2 DEF CallOK, WriterOK
<1>5. \A d \in Caller : d # c => CallOK(d)' /\ WriterOK(d)'
  BY <1>1, <1>2, OthersKeep DEF CallStays
<1>6. \A s \in Store : store'[s].ready => Usable'
  BY <1>1 DEF VectorInv, Usable
<1>7. QED
  BY <1>3, <1>4, <1>5, <1>6 DEF VectorInv

LEMMA NextCallKeeps ==
  ASSUME VectorInv, trouble' = trouble, NextCall
  PROVE  VectorInv'
<1>1. /\ run \in RunRow /\ run.step = "checkpoint" /\ run.next \in Nat \ {0} /\ RunOK
      /\ run.next <= 3 /\ Handler \in Caller
  BY RunFields, VectorAssumption DEF NextCall, Calls
<1>2. Calls[run.next] \in {"initialize", "delete", "insert", "other"}
  <2>1. run.next \in {1, 2, 3}
    BY <1>1
  <2>2. QED
    BY <2>1 DEF Calls
<1>3. /\ run' = [run EXCEPT !.step = "calling"] /\ UNCHANGED <<milvus, store>>
      /\ Ask(Handler, Calls[run.next])
  BY DEF NextCall
<1>4. run' \in RunRow /\ run'.step = "calling" /\ run'.vectors = run.vectors
  BY <1>1, <1>3 DEF RunRow
<1>5. RunOK'
  BY <1>1, <1>4 DEF RunOK
<1>6. QED
  BY <1>1, <1>2, <1>3, <1>4, <1>5, AskingKeeps

LEMMA RequestKeeps ==
  ASSUME VectorInv, NEW c \in Caller, Request(c)
  PROVE  VectorInv'
<1>1. /\ UNCHANGED <<milvus, store>> /\ run' = run /\ trouble' = trouble /\ Ask(c, "other")
      /\ run \in RunRow /\ RunOK
  BY RunFields DEF Request
<1>2. RunOK'
  BY <1>1 DEF RunOK
<1>3. QED
  BY <1>1, <1>2, AskingKeeps

(* The process dies; what was sent may still be done.                         *)
LEMMA RestartKeeps ==
  ASSUME VectorInv, Restart
  PROVE  VectorInv'
<1>1. /\ TypesOK /\ trouble' \in Nat /\ store' = [s \in Store |-> Closed]
      /\ call' = [c \in Caller |-> Done(c, TRUE)] /\ run' = End /\ run.made \in Nat
  BY RunFields DEF VectorInv, TypesOK, Restart, Trouble
<1>2. Grown
  BY <1>1, SameMilvus, AfterGrows DEF Restart, TypesOK
<1>3. \A c \in Caller : call'[c] \in CallRow /\ call'[c].step = "idle"
  BY <1>1, DoneType
<1>4. Closed \in StoreRow /\ ~Closed.ready
  BY DEF Closed, StoreRow
<1>5. run' \in RunRow /\ run'.step = "idle" /\ Len(run'.vectors) = 0
      /\ \A i \in 1..Len(run'.vectors) : run'.vectors[i] = i
  BY <1>1, EndFields, NoRunFields
<1>6. TypesOK'
  BY <1>1, <1>2, <1>3, <1>4, <1>5 DEF TypesOK, Grown
<1>7. RunOK'
  BY <1>5, VectorAssumption DEF RunOK
<1>8. \A c \in Caller : CallOK(c)' /\ WriterOK(c)'
  BY <1>3 DEF CallOK, WriterOK
<1>9. \A s \in Store : ~store'[s].ready
  BY <1>1, <1>4
<1>10. QED
  BY <1>6, <1>7, <1>8, <1>9 DEF VectorInv

-----------------------------------------------------------------------------
LEMMA VectorInit == Init => VectorInv
<1> SUFFICES ASSUME Init PROVE VectorInv
  OBVIOUS
<1>1. milvus \in MilvusRow
  BY DEF Init, MilvusRow, Names, Good
<1>2. Closed \in StoreRow /\ ~Closed.ready
  BY DEF Closed, StoreRow
<1>3. NoCall \in CallRow /\ NoCall.step = "idle"
  BY NameInOrder DEF NoCall, CallRow
<1>4. NoRun \in RunRow /\ NoRun.vectors = <<>> /\ NoRun.step = "idle"
  BY DEF NoRun, RunRow
<1>5. TypesOK
  BY <1>1, <1>2, <1>3, <1>4 DEF Init, TypesOK
<1>6. RunOK
  BY <1>4, VectorAssumption DEF Init, RunOK
<1>7. \A c \in Caller : CallOK(c) /\ WriterOK(c)
  BY <1>3 DEF Init, CallOK, WriterOK
<1>8. \A s \in Store : ~store[s].ready
  BY <1>2 DEF Init
<1>9. QED
  BY <1>5, <1>6, <1>7, <1>8 DEF VectorInv

LEMMA StutterKeeps == ASSUME VectorInv, UNCHANGED vars PROVE VectorInv'
BY DEF VectorInv, vars, TypesOK, CallOK, WriterOK, RunOK, Usable

LEMMA VectorStep == VectorInv /\ [Next]_vars => VectorInv'
<1> SUFFICES ASSUME VectorInv, [Next]_vars PROVE VectorInv'
  OBVIOUS
<1>1. trouble \in Nat /\ (Trouble => trouble' \in Nat)
  BY DEF VectorInv, TypesOK, Trouble
<1>2. ASSUME NEW c \in Caller, CallStep(c) \/ Fail(c) \/ Request(c) PROVE VectorInv'
  BY <1>2, CallStepKeeps, FailKeeps, RequestKeeps
<1>3. CASE Begin /\ UNCHANGED trouble
  BY <1>1, <1>3, BeginKeeps
<1>4. CASE RunStep
  <2>1. trouble' = trouble /\ trouble' \in Nat
    BY <1>1, <1>4 DEF RunStep
  <2>2. CASE Leave
    BY <2>1, <2>2, EndKeeps DEF Leave
  <2>3. QED
    BY <1>4, <2>1, <2>2, OpeningKeeps, ClosingKeeps, CheckKeeps, NextCallKeeps, CallingKeeps,
       EmbedKeeps DEF RunStep
<1>5. CASE Interrupted
  BY <1>1, <1>5, OpeningKeeps DEF Interrupted
<1>6. CASE CloseFails
  BY <1>1, <1>6, ClosingKeeps DEF CloseFails
<1>7. CASE LeaveEarly
  BY <1>1, <1>7, EndKeeps DEF LeaveEarly
<1>8. CASE CancelCall
  BY <1>1, <1>8, CallingKeeps DEF CancelCall
<1>9. CASE Restart
  BY <1>9, RestartKeeps
<1>10. CASE UNCHANGED vars
  BY <1>10, StutterKeeps
<1>11. QED
  BY <1>2, <1>3, <1>4, <1>5, <1>6, <1>7, <1>8, <1>9, <1>10 DEF Next

LEMMA VectorInvariant == Spec => []VectorInv
BY VectorInit, VectorStep, PTL DEF Spec

-----------------------------------------------------------------------------
(* The theorems.                                                              *)

(* MilvusVectorStore.initialize: a store that counts as ready, and any call   *)
(* that is past initialize, meets a loaded collection with the schema and     *)
(* all indexes, however many stores work on it and wherever they fail.        *)
THEOREM ReadyStoresAreUsable == Spec => []ReadyMeansUsable
<1>1. VectorInv => ReadyMeansUsable
  BY DEF VectorInv, CallOK, ReadyMeansUsable
<1>2. QED
  BY <1>1, VectorInvariant, PTL

(* DocumentIndexHandler: the rows of the document change only in a call of    *)
(* the handler, which it makes with a vector for each text, in their order.   *)
LEMMA RowsChangeWhole ==
  ASSUME VectorInv, [Next]_vars, milvus'.rows # milvus.rows
  PROVE  /\ run.vectors = [i \in 1..Texts |-> i]
         /\ milvus'.rows \in {{}, Whole}
<1>1. TypesOK
  BY DEF VectorInv
<1>2. PICK c \in Caller : milvus' = After(c)
  BY DEF Next, CallStep, Lock, Connect, HasCollection, Create, ValidateCollection, ListIndexes,
         EnsureIndex, Load, Data, Fail, Request, Begin, RunStep, OpenClient, CloseClient, Check,
         NextCall, Leave, Returned, Embed, Interrupted, CloseFails, LeaveEarly, CancelCall,
         Restart, Runs, vars
<1>3. /\ call[c].step = "data" /\ call[c].op \in {"delete", "insert"}
      /\ call[c].op = "delete" => milvus'.rows = {}
      /\ call[c].op = "insert" => milvus'.rows = {<<i, run.vectors[i]>> : i \in DOMAIN run.vectors}
  BY <1>1, <1>2, AfterGrows
<1>4. run.step = "calling"
  BY <1>3 DEF VectorInv, WriterOK
<1>5. /\ run.vectors \in Seq(Nat) /\ Len(run.vectors) = Texts
      /\ \A i \in 1..Texts : run.vectors[i] = i
  BY <1>4, RunFields DEF RunOK
<1>6. DOMAIN run.vectors = 1..Texts /\ run.vectors = [i \in 1..Texts |-> i]
  BY <1>5
<1>7. {<<i, run.vectors[i]>> : i \in DOMAIN run.vectors} = Whole
  BY <1>5, <1>6 DEF Whole
<1>8. QED
  BY <1>3, <1>6, <1>7

THEOREM VectorsReplacedWhole == Spec => WholeBatchOrNothing
<1>1. VectorInv /\ [Next]_vars =>
        [milvus'.rows # milvus.rows =>
           /\ run.vectors = [i \in 1..Texts |-> i]
           /\ milvus'.rows \in {{}, Whole}]_vars
  BY RowsChangeWhole
<1>2. QED
  BY <1>1, VectorInvariant, PTL DEF Spec, WholeBatchOrNothing
===============================================================================
