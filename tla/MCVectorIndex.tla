---------------------------- MODULE MCVectorIndex ----------------------------
EXTENDS VectorIndex

CONSTANTS handler, other, request, s1, s2

(* Two threads share the store of the job handler, requests have their own. *)
MCStoreOf == [c \in Caller |-> IF c = request THEN s2 ELSE s1]
MCIndexNames == <<"vector", "documentId">>
=============================================================================
