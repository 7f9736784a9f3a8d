----------------------------- MODULE WikiSources -----------------------------
(***************************************************************************)
(* What scripts/sync_wiki.py reads: the OpenSpec changes of a repository,  *)
(* active or archived, and the main specs, with the gate an archive has to *)
(* pass before the WIKI is written (_validate_archive_specs): the deltas   *)
(* of all archived changes are folded in an order that dates and directory *)
(* names suggest, and the last word on each requirement is compared with   *)
(* the main specs.                                                         *)
(*                                                                         *)
(* A change is its name, a number, so that names are ordered.  The body of *)
(* a requirement is the change that wrote it.  A requirement stands for a  *)
(* pair of capability and requirement: the fold never mixes two of them.   *)
(***************************************************************************)
EXTENDS Integers, Sequences, FiniteSets

CONSTANTS
  Change,   \* change names
  Req,      \* requirements of the main specs
  Deltas,   \* the deltas a change may carry, see Delta
  Days      \* bound on the calendar

Absent == 0     \* no such requirement in the main specs
Base == -1      \* the body a requirement had before any of these changes

Kind == {"ADDED", "MODIFIED", "REMOVED", "RENAMED"}
(* What a change holds when it is archived: whether .openspec.yaml declares *)
(* skip_specs, whether every section of its delta specs has what its       *)
(* heading announces (it gives no operations otherwise), whether design    *)
(* and tasks are there, and the deltas.                                    *)
Delta == [skip : BOOLEAN, parses : BOOLEAN, complete : BOOLEAN,
          ops : Seq([kind : Kind, req : Req, to : Req])]

ASSUME SourcesAssumption ==
  /\ Change \subseteq Nat \ {0}
  /\ Deltas \subseteq Delta
  /\ \A delta \in Deltas : ~delta.parses => delta.ops = <<>>
  /\ Days \in Nat \ {0}

VARIABLES
  change,   \* change[c]: where change c is and what it holds
  main,     \* main[r]: the body of requirement r in the main specs
  history,  \* the archived changes in the order they were archived
  day       \* today

sourceVars == <<change, main, history, day>>

Missing ==
  [at |-> "none", created |-> 0, archived |-> 0,
   delta |-> [skip |-> FALSE, parses |-> TRUE, complete |-> FALSE, ops |-> <<>>]]

At(where) == {c \in Change : change[c].at = where}

-----------------------------------------------------------------------------
(* SpecOperation, with its place in the text of the delta; a renaming gives *)
(* two of them.  The body is known unless the operation renames.           *)
Parsed(c, i) ==
  LET op == change[c].delta.ops[i]
      Operation(half, kind, req, known) ==
        [of |-> c, pos |-> 2 * i + half, kind |-> kind, req |-> req, known |-> known]
  IN IF op.kind = "RENAMED"
     THEN {Operation(0, "REMOVED", op.req, FALSE), Operation(1, "ADDED", op.to, FALSE)}
     ELSE {Operation(0, op.kind, op.req, TRUE)}

Operations(c) == UNION {Parsed(c, i) : i \in DOMAIN change[c].delta.ops}

(* The operations on requirement r.                                        *)
About(r) == {x \in UNION {Operations(c) : c \in At("archived")} : x.req = r}
Kinds(r, c) == {x.kind : x \in {y \in About(r) : y.of = c}}

SameDates(c, d) ==
  change[c].archived = change[d].archived /\ change[c].created = change[d].created

(* groups: the kinds of operation on r that share both dates.              *)
Group(r, c) == {x.kind : x \in {y \in About(r) : SameDates(y.of, c)}}

(* The sort key: dates, then an original ADDED before what modifies it,    *)
(* then the archive name, then the order of the text.                      *)
DelayedByNameOnly(r, x) == 0                         \* mutant of Delayed
Delayed(r, x) ==
  IF Group(r, x.of) = {"ADDED", "MODIFIED"} /\ x.kind # "ADDED" THEN 1 ELSE 0

SortKey(r, x) == <<change[x.of].archived, change[x.of].created, Delayed(r, x),
                   x.of, x.pos>>

Before(s, t) ==
  \E i \in DOMAIN s : s[i] < t[i] /\ \A k \in 1..(i - 1) : s[k] = t[k]

(* latest[r], the operation the main specs have to agree with.             *)
Latest(r) ==
  CHOOSE x \in About(r) :
    \A y \in About(r) \ {x} : Before(SortKey(r, y), SortKey(r, x))

Disagrees(x, body) ==
  IF x.kind = "REMOVED"
  THEN body # Absent
  ELSE body = Absent \/ (x.known /\ body # x.of)

(* The errors of _validate_archive_specs, by what they name.               *)
Errors ==
  {<<"delta", c>> : c \in {d \in At("archived") :
                             change[d].delta.ops = <<>> /\ ~change[d].delta.skip}}
    \cup {<<"requirement", r>> : r \in {q \in Req :
             About(q) # {} /\ Disagrees(Latest(q), main[q])}}

(* Text that cannot be parsed stops the run whatever the caller allows.    *)
Accepted(allow_unsynced) ==
  /\ \A c \in At("archived") : change[c].delta.parses
  /\ Errors = {} \/ allow_unsynced

(* _validate_source_artifacts: proposal, design and tasks of every archive.*)
ArtifactsComplete == \A c \in At("archived") : change[c].delta.complete

-----------------------------------------------------------------------------
(* The people and agents who work on the changes.                          *)
Propose(c) ==
  /\ change[c].at = "none"
  /\ change' = [change EXCEPT ![c] = [Missing EXCEPT !.at = "active", !.created = day]]
  /\ UNCHANGED <<main, history, day>>

(* openspec archive: the delta is applied to the main specs, or it is not. *)
Applied(body, op, c) ==
  CASE op.kind = "REMOVED" -> [body EXCEPT ![op.req] = Absent]
    [] op.kind = "RENAMED" -> [body EXCEPT ![op.to] = body[op.req], ![op.req] = Absent]
    [] OTHER               -> [body EXCEPT ![op.req] = c]

Applies(body, op) ==
  IF op.kind = "ADDED" THEN body[op.req] = Absent
  ELSE body[op.req] # Absent /\ (op.kind = "RENAMED" => body[op.to] = Absent)

(* The main specs after each of the operations.                            *)
Bodies(c, delta) ==
  LET body[i \in 0..Len(delta.ops)] ==
        IF i = 0 THEN main ELSE Applied(body[i - 1], delta.ops[i], c)
  IN body

Archive(c, delta, synced) ==
  LET bodies == Bodies(c, delta) IN
  /\ change[c].at = "active"
  /\ \A i \in DOMAIN delta.ops : Applies(bodies[i - 1], delta.ops[i])
  /\ synced => delta.parses
  /\ change' = [change EXCEPT ![c].at = "archived", ![c].archived = day,
                              ![c].delta = delta]
  /\ main' = IF synced THEN bodies[Len(delta.ops)] ELSE main
  /\ history' = Append(history, c)
  /\ UNCHANGED day

NextDay ==
  /\ day < Days
  /\ day' = day + 1
  /\ UNCHANGED <<change, main, history>>

SourcesInit ==
  /\ change = [c \in Change |-> Missing]
  /\ main \in {[r \in Req |-> IF r \in S THEN Base ELSE Absent] : S \in SUBSET Req}
  /\ history = <<>>
  /\ day = 1

-----------------------------------------------------------------------------
(* What was really said last about r, by the order of archiving.           *)
Rank(c) == CHOOSE i \in DOMAIN history : history[i] = c
LastWord(r) ==
  CHOOSE x \in About(r) :
    \A y \in About(r) \ {x} : Before(<<Rank(y.of), y.pos>>, <<Rank(x.of), x.pos>>)

(* Dates and names tell in which order c and then d were archived, or d    *)
(* modifies what c added on the same dates.  An addition on the dates of a *)
(* change that added and modified r itself counts as the original one: it  *)
(* can only follow if that change never reached the main specs.            *)
Mixed(r, c, d) == SameDates(c, d) /\ Group(r, c) = {"ADDED", "MODIFIED"}
AddsAgain(r, c, d) ==
  Mixed(r, c, d) /\ Kinds(r, c) = {"ADDED", "MODIFIED"} /\ "ADDED" \in Kinds(r, d)

Told(r, c, d) ==
  \/ /\ Before(<<change[c].archived, change[c].created, c>>,
               <<change[d].archived, change[d].created, d>>)
     /\ ~AddsAgain(r, c, d)
  \/ Mixed(r, c, d) /\ Kinds(r, c) = {"ADDED"} /\ Kinds(r, d) = {"MODIFIED"}

OrderTold(r) ==
  \A i, k \in DOMAIN history :
    (i < k /\ Kinds(r, history[i]) # {} /\ Kinds(r, history[k]) # {})
      => Told(r, history[i], history[k])

(* The fold agrees with what happened: where dates and names tell the      *)
(* order, the main specs are compared with the change archived last, so a  *)
(* requirement that is renamed, modified on the day it was added, or       *)
(* removed and added again raises no false alarm and hides no missed sync  *)
(* (_validate_archive_specs).                                              *)
FoldFollowsHistory ==
  \A r \in Req : (About(r) # {} /\ OrderTold(r)) => Latest(r) = LastWord(r)
==============================================================================
