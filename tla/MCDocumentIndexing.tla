-------------------------- MODULE MCDocumentIndexing --------------------------
(* DocumentIndexing on small instances.  Documents and tokens are             *)
(* interchangeable.                                                           *)
EXTENDS DocumentIndexing, TLC

Symmetric == Permutations(Doc) \cup Permutations(Token) \cup Permutations(Client)
===============================================================================
