---------------------------- MODULE HybridRetrieval ----------------------------
(***************************************************************************)
(* One call of KnowledgeRetrievalService.retrieve (knowledge_retrieval.py): *)
(* two recall branches at the same time over one provider, their fusion by *)
(* reciprocal rank, and the reranking of the best candidates.  Each branch *)
(* may fail and the caller may be cancelled at any await.                  *)
(*                                                                         *)
(* A branch sorts its hits by score and chunk id; scores are left out, so  *)
(* a branch may end with any order of any chunks.  The stores are external *)
(* and not trusted, as in the code: any chunk may come back.               *)
(***************************************************************************)
EXTENDS Integers, Sequences, FiniteSets

CONSTANTS
  Chunk,        \* chunk ids, ordered as the strings are
  Doc, Kb,
  Of,           \* Of[c]: owner ("me" or another), knowledge base, document
  Allowed,      \* the knowledge bases the tool was created for
  KbFilters, DocFilters,  \* the optional filters the model passes
  RerankLimit,  \* _RERANK_LIMIT
  Retries       \* rerank.retries of the provider

ASSUME RetrievalAssumption ==
  /\ Chunk \subseteq Nat /\ IsFiniteSet(Chunk)
  /\ Of \in [Chunk -> [owner: {"me", "other"}, kb: Kb, doc: Doc]]
  /\ Allowed \subseteq Kb
  /\ KbFilters \subseteq [given: BOOLEAN, ids: SUBSET Kb]
  /\ DocFilters \subseteq [given: BOOLEAN, ids: SUBSET Doc]
  /\ RerankLimit \in Nat \ {0} /\ Retries \in Nat

VARIABLES
  asked,       \* the arguments of the call
  stage,       \* where retrieve is
  provider,    \* the provider is open
  vector,      \* the vector branch
  keyword,     \* the BM25L branch
  candidates,  \* what is sent to rerank
  attempt,     \* of rerank, from 0 to Retries
  results

vars == <<asked, stage, provider, vector, keyword, candidates, attempt, results>>

TopK == 1..5
RRF_K == 60

Orders(S) == UNION {{s \in [1..n -> S] : \A i, j \in 1..n : s[i] = s[j] => i = j} :
                      n \in 0..Cardinality(S)}
Elements(s) == {s[i] : i \in DOMAIN s}

Branch == [at: {"off", "embedding", "reading", "done", "failed", "cancelled"},
           hits: Orders(Chunk)]
Off == [at |-> "off", hits |-> << >>]
At(place) == [at |-> place, hits |-> << >>]
Done(hits) == [at |-> "done", hits |-> hits]
Ended(b) == b.at \in {"done", "failed", "cancelled"}

(* rank 0 stands for None.                                                 *)
Record == [chunk: Chunk, vector: 0..Cardinality(Chunk), keyword: 0..Cardinality(Chunk)]

(* _narrow_ids: a filter narrows the scope, it never replaces it.          *)
KbsReplaced(filter) == IF filter.given THEN filter.ids ELSE Allowed \* mutant of Kbs
Kbs(filter) == IF filter.given THEN filter.ids \cap Allowed ELSE Allowed
(* The elements of s that are in S, in the order of s.                     *)
Kept(s, S) ==
  LET kept == {i \in DOMAIN s : s[i] \in S}
  IN  [n \in 1..Cardinality(kept) |->
         s[CHOOSE i \in kept : Cardinality({j \in kept : j < i}) = n - 1]]

Wanted(c) == asked.docs.given => Of[c].doc \in asked.docs.ids

-----------------------------------------------------------------------------
(* Fusion.                                                                 *)
Position(c, s) == IF c \in Elements(s) THEN CHOOSE i \in DOMAIN s : s[i] = c ELSE 0

FusedUnfiltered(v, k) ==                                     \* mutant of Fused
  {[chunk |-> c, vector |-> Position(c, v), keyword |-> Position(c, k)] :
     c \in {d \in Elements(v) : Wanted(d)} \cup Elements(k)}
Fused(v, k) ==
  LET asked_for == Kept(v, {c \in Chunk : Wanted(c)})
  IN  {[chunk |-> c, vector |-> Position(c, asked_for), keyword |-> Position(c, k)] :
         c \in Elements(asked_for) \cup Elements(k)}

(* 1 / (60 + rank) for each branch that found the chunk, as a fraction.    *)
Numerator(r) ==
  IF r.vector = 0 \/ r.keyword = 0 THEN 1 ELSE 2 * RRF_K + r.vector + r.keyword
Denominator(r) ==
  IF r.vector = 0 THEN RRF_K + r.keyword
  ELSE IF r.keyword = 0 THEN RRF_K + r.vector
  ELSE (RRF_K + r.vector) * (RRF_K + r.keyword)

BestRank(r) ==
  IF r.vector = 0 THEN r.keyword
  ELSE IF r.keyword = 0 \/ r.vector <= r.keyword THEN r.vector ELSE r.keyword

(* The sort key of _fuse: score, best rank, chunk id.                      *)
Before(r, s) ==
  LET a == Numerator(r) * Denominator(s)
      b == Numerator(s) * Denominator(r)
  IN  \/ a > b
      \/ a = b /\ BestRank(r) < BestRank(s)
      \/ a = b /\ BestRank(r) = BestRank(s) /\ r.chunk < s.chunk

Sorted(R) ==
  [i \in 1..Cardinality(R) |->
     CHOOSE r \in R : Cardinality({s \in R : Before(s, r)}) = i - 1]

FirstOf(s, n) == SubSeq(s, 1, IF n < Len(s) THEN n ELSE Len(s))

-----------------------------------------------------------------------------
Init ==
  /\ asked \in [kbs: KbFilters, docs: DocFilters, topK: TopK]
  /\ stage = "start" /\ provider = FALSE
  /\ vector = Off /\ keyword = Off
  /\ candidates = << >> /\ attempt = 0 /\ results = << >>

Ends(place) ==
  /\ stage' = place /\ provider' = FALSE

(* Without a knowledge base left there is nothing to ask; otherwise both   *)
(* branches start at once, unless the provider cannot be opened.           *)
Start ==
  /\ stage = "start"
  /\ IF Kbs(asked.kbs) = {}
     THEN Ends("answered") /\ UNCHANGED <<vector, keyword>>
     ELSE \/ /\ stage' = "recall" /\ provider' = TRUE
             /\ vector' = At("embedding") /\ keyword' = At("reading")
          \/ Ends("failed") /\ UNCHANGED <<vector, keyword>>
  /\ UNCHANGED <<asked, candidates, attempt, results>>

BranchStep ==
  /\ stage = "recall"
  /\ UNCHANGED <<asked, stage, provider, candidates, attempt, results>>

Embed ==
  /\ vector.at = "embedding"
  /\ \E place \in {"reading", "failed"} : vector' = At(place)
  /\ BranchStep /\ UNCHANGED keyword

(* Milvus answers: a hit of another owner fails the branch, one of another *)
(* knowledge base is dropped.                                              *)
SearchVector ==
  /\ vector.at = "reading"
  /\ \E hits \in Orders(Chunk) :
       vector' = IF \E c \in Elements(hits) : Of[c].owner # "me" THEN At("failed")
                 ELSE Done(Kept(hits, {c \in Chunk : Of[c].kb \in Kbs(asked.kbs)}))
  /\ BranchStep /\ UNCHANGED keyword

SearchFails == vector.at = "reading" /\ vector' = At("failed") /\ BranchStep /\ UNCHANGED keyword

(* The corpus is filtered before it is scored.                             *)
Corpus == {c \in Chunk : Of[c].owner = "me" /\ Of[c].kb \in Kbs(asked.kbs) /\ Wanted(c)}
SearchKeyword ==
  /\ keyword.at = "reading"
  /\ \E hits \in Orders(Corpus) : keyword' = Done(hits)
  /\ BranchStep /\ UNCHANGED vector

ReadFails == keyword.at = "reading" /\ keyword' = At("failed") /\ BranchStep /\ UNCHANGED vector

(* _gather_required waits for both, then one failure fails the call.       *)
GatheredAtFirstFailure ==                                \* mutant of Gathered
  \/ Ended(vector) /\ Ended(keyword)
  \/ "failed" \in {vector.at, keyword.at}
Gathered == Ended(vector) /\ Ended(keyword)

Fuse ==
  /\ stage = "recall" /\ Gathered
  /\ IF "failed" \in {vector.at, keyword.at}
     THEN Ends("failed") /\ UNCHANGED candidates
     ELSE LET records == Sorted(Fused(vector.hits, keyword.hits))
          IN  IF records = << >> THEN Ends("answered") /\ UNCHANGED candidates
              ELSE /\ stage' = "rerank" /\ UNCHANGED provider
                   /\ candidates' = FirstOf(records, RerankLimit)
  /\ UNCHANGED <<asked, vector, keyword, attempt, results>>

(* rerank and _serialize: exactly one result for each candidate, or an     *)
(* error that is not tried again.                                          *)
Complete(order) == Elements(order) = DOMAIN candidates /\ Len(order) = Len(candidates)

Rerank ==
  /\ stage = "rerank"
  /\ \E n \in 0..Len(candidates) : \E order \in [1..n -> 1..Len(candidates) + 1] :
       IF Complete(order)
       THEN /\ Ends("answered")
            /\ results' = FirstOf([i \in DOMAIN order |-> candidates[order[i]]], asked.topK)
       ELSE Ends("failed") /\ UNCHANGED results
  /\ UNCHANGED <<asked, vector, keyword, candidates, attempt>>

(* A request that timed out, met no server or a status worth trying again  *)
(* is repeated after a pause, as often as configured; any other is not.    *)
Retry ==
  /\ stage = "rerank" /\ attempt < Retries
  /\ attempt' = attempt + 1
  /\ UNCHANGED <<asked, stage, provider, vector, keyword, candidates, results>>

RerankFails ==
  /\ stage = "rerank" /\ Ends("failed")
  /\ UNCHANGED <<asked, vector, keyword, candidates, attempt, results>>

(* The caller is cancelled; gather cancels both branches and waits.        *)
Cancelled(b) == IF Ended(b) THEN b ELSE At("cancelled")
Cancel ==
  /\ stage \in {"recall", "rerank"} /\ Ends("cancelled")
  /\ vector' = Cancelled(vector) /\ keyword' = Cancelled(keyword)
  /\ UNCHANGED <<asked, candidates, attempt, results>>

Next ==
  \/ Start \/ Embed \/ SearchVector \/ SearchFails \/ SearchKeyword \/ ReadFails
  \/ Fuse \/ Rerank \/ Retry \/ RerankFails \/ Cancel

Spec == Init /\ [][Next]_vars

-----------------------------------------------------------------------------
(* Every variable stays in its domain. *)
RetrievalTypeOK ==
  /\ asked \in [kbs: KbFilters, docs: DocFilters, topK: TopK]
  /\ stage \in {"start", "recall", "rerank", "answered", "failed", "cancelled"}
  /\ provider \in BOOLEAN
  /\ vector \in Branch /\ keyword \in Branch
  /\ candidates \in UNION {[1..n -> Record] : n \in 0..RerankLimit}
  /\ attempt \in 0..Retries
  /\ results \in UNION {[1..n -> Record] : n \in 0..RerankLimit}

(* Whatever the stores return and whatever filter the model passes, only   *)
(* chunks of the caller, of a knowledge base and a document that are both  *)
(* allowed and asked for, leave the service: to Qwen or to the model.      *)
ScopeIsKept ==
  \A r \in Elements(candidates) \cup Elements(results) :
    /\ Of[r.chunk].owner = "me"
    /\ Of[r.chunk].kb \in Allowed
    /\ asked.kbs.given => Of[r.chunk].kb \in asked.kbs.ids
    /\ Wanted(r.chunk)

(* The ranks a result reports are its places among the hits of each branch *)
(* that were asked for, and the candidates are the best by those ranks:    *)
(* nothing asked for and left out would have gone before one that was sent. *)
TrueRank(c, hits) ==
  Cardinality({d \in Elements(hits) : Wanted(d) /\ Position(d, hits) <= Position(c, hits)})
TrueRecord(c) == [chunk |-> c, vector |-> TrueRank(c, vector.hits),
                  keyword |-> TrueRank(c, keyword.hits)]
RanksAreTrue ==
  /\ \A r \in Elements(candidates) \cup Elements(results) : r = TrueRecord(r.chunk)
  /\ \A i, j \in DOMAIN candidates : i < j => Before(candidates[i], candidates[j])
  /\ \A c \in Elements(vector.hits) \cup Elements(keyword.hits) :
       Wanted(c) => \/ TrueRecord(c) \in Elements(candidates)
                    \/ \A r \in Elements(candidates) : Before(r, TrueRecord(c))
  /\ Elements(results) \subseteq Elements(candidates)

(* No half result: an answer has one entry for each candidate up to topK,  *)
(* no chunk twice, and an empty answer means that neither branch found     *)
(* anything.  A call that failed or was cancelled has no results and,      *)
(* since the provider closes, no branch that goes on using it.             *)
NothingPartial ==
  /\ stage = "answered" =>
       /\ \A i, j \in DOMAIN results : results[i].chunk = results[j].chunk => i = j
       /\ Len(results) = Len(FirstOf(candidates, asked.topK))
       /\ candidates = << >> =>
            ~\E c \in Elements(vector.hits) \cup Elements(keyword.hits) : Wanted(c)
       /\ "failed" \notin {vector.at, keyword.at}
  /\ stage # "answered" => results = << >>
  /\ ~provider => \A b \in {vector, keyword} : b.at = "off" \/ Ended(b)
================================================================================
