---------------------------- MODULE MCHybridRetrieval ----------------------------
(* HybridRetrieval on a small corpus: three documents of the caller in the       *)
(* knowledge base the tool is for, one in another, and one of somebody else.     *)
EXTENDS HybridRetrieval

Mine(kb, doc) == [owner |-> "me", kb |-> kb, doc |-> doc]
SmallCorpus ==
  <<Mine("k1", "d1"), Mine("k1", "d2"), Mine("k1", "d3"), Mine("k2", "d4"),
    [owner |-> "other", kb |-> "k1", doc |-> "d1"]>>
None == [given |-> FALSE, ids |-> {}]
Only(ids) == [given |-> TRUE, ids |-> ids]
SomeKbs == {None, Only({"k1", "k2"}), Only({"k2"})}
SomeDocs == {None, Only({"d2", "d3", "d4"}), Only({})}
===================================================================================
