------------------------------ MODULE MCWikiSync ------------------------------
EXTENDS WikiSync

(* Titles: the directory name of change 2 ends in the title of change 1.   *)
MCResolvesTo == [c \in Change |-> IF c = 1 THEN {1, 2} ELSE {c}]

Op(kind, r, to) == [kind |-> kind, req |-> r, to |-> to]
Ops(ops) == [skip |-> FALSE, parses |-> TRUE, complete |-> TRUE, ops |-> ops]

MCDeltas ==
  {Ops(<<Op(kind, 1, 1)>>) : kind \in {"ADDED", "MODIFIED", "REMOVED"}}
    \cup {Ops(<<Op("RENAMED", 1, 2), Op("MODIFIED", 2, 2)>>), Ops(<<Op("ADDED", 2, 2)>>),
          [Ops(<<>>) EXCEPT !.skip = TRUE],
          [Ops(<<>>) EXCEPT !.parses = FALSE, !.complete = FALSE]}

MCLaterDeltas ==
  {delta \in MCDeltas :
     IF delta.ops = <<>> THEN delta.skip ELSE delta.ops = <<Op("ADDED", 1, 1)>>}
=============================================================================
