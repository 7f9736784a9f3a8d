------------------------------- MODULE WikiSync -------------------------------
(***************************************************************************)
(* scripts/sync_wiki.py: the projection of the OpenSpec changes into       *)
(* docs/changes and the VitePress navigation, as the sequence of file      *)
(* system calls of one run.  Changes may move while a run is at work, a    *)
(* run may be killed between two calls, and people put files of their own  *)
(* into directories of docs/changes, whatever these are named.             *)
(*                                                                         *)
(* A generated page is the record of what it shows; the index and the      *)
(* configuration are the list of pages they link.                          *)
(***************************************************************************)
EXTENDS WikiSources

CONSTANTS
  Other,       \* a directory name besides those of the changes
  ResolvesTo,  \* ResolvesTo[c]: the changes whose directory name ends in -c
  LaterDeltas, \* bound on Deltas once the WIKI has been written, see Untouched
  MaxTrouble   \* bound on what crosses a run, see trouble

ASSUME SyncAssumption ==
  /\ ResolvesTo \in [Change -> SUBSET Change]
  /\ LaterDeltas \subseteq Deltas
  /\ MaxTrouble \in Nat

VARIABLES
  dirs,     \* dirs[g][n]: directory n of docs/changes/<g>: none, its page, or no page
  theirs,   \* theirs[g][n]: the files of people in it, see Shared
  index,    \* docs/changes/index.md
  config,   \* docs/.vitepress/config.mts
  run,      \* the run at work, see Idle
  trouble   \* runs killed or forced, files put by hand, changes moved during a run

docsVars == <<dirs, theirs, index, config>>
vars == <<change, main, history, day, dirs, theirs, index, config, run, trouble>>

Groups == {"active", "archived"}
Names == Change \cup {Other}

(* "unmarked": no index.md, or one without the marker of the generator.    *)
None == [is |-> "none"]
Unmarked == [is |-> "unmarked"]

(* Files of people are "none", "apart" from every page of the generator,   *)
(* or "shared": a page was written beside them, or stood there first.      *)
Shared(was) == IF was = "none" THEN "none" ELSE "shared"

(* ChangePage of a change.                                                 *)
Page(c) == [of |-> c, group |-> change[c].at,
            created |-> change[c].created, archived |-> change[c].archived]

(* The members of a finite set in the order of Earlier.                    *)
Listed(S, Earlier(_, _)) ==
  [k \in 1..Cardinality(S) |->
     CHOOSE p \in S : Cardinality({q \in S : Earlier(q, p)}) = k - 1]

(* _collect_active_pages by name, _collect_archive_pages by name backwards.*)
ByName(p, q) == p.of < q.of
LatestFirst(p, q) == Before(<<q.archived, q.of>>, <<p.archived, p.of>>)
Pages ==
  Listed({Page(c) : c \in At("active")}, ByName)
    \o Listed({Page(c) : c \in At("archived")}, LatestFirst)

Expected(pages, g) == {pages[i].of : i \in {k \in DOMAIN pages : pages[k].group = g}}

(* _render_page: what it includes is looked up where the page says that    *)
(* the change is.                                                          *)
Includes(p) ==
  IF change[p.of].at # p.group THEN {}
  ELSE {"proposal"} \cup (IF change[p.of].delta.complete THEN {"design", "tasks"} ELSE {})
         \cup (IF change[p.of].delta.ops = <<>> THEN {} ELSE {"specs"})

Rendered(p) == [is |-> "page", page |-> p, includes |-> Includes(p)]

ManagedByPresence(x) == x.is # "none"                \* mutant of Managed
Managed(x) == x.is = "page"

(* run.step: the function at work; pages: what it collected; left: pages   *)
(* not written yet; busy: between the two calls of a removal, of directory *)
(* at, or of a write, of text; ok: whether the last run ended in success.  *)
Idle(ok) == [step |-> "idle", pages |-> <<>>, left |-> <<>>,
             at |-> Other, text |-> None, busy |-> FALSE, ok |-> ok]

Stale(g) ==
  {n \in Names : dirs[g][n].is # "none" /\ n \notin Expected(run.pages, g)}

-----------------------------------------------------------------------------
(* _validate_selected_change: the named change has to be there; the name   *)
(* of an archive may lack its date if that names a single directory.       *)
Requests ==
  [mode : {"all"}, name : {0}] \cup [mode : {"active", "archive", "title"}, name : Change]

Selected(request) ==
  CASE request.mode = "all" -> TRUE
    [] request.mode = "active" -> change[request.name].at = "active"
    [] request.mode = "archive" -> change[request.name].at = "archived"
    [] request.mode = "title" -> Cardinality(ResolvesTo[request.name] \cap At("archived")) = 1

(* Every bounded kind of trouble is counted. *)
Trouble(what) ==
  /\ trouble.killed + trouble.own + trouble.moved + trouble.forced < MaxTrouble
  /\ trouble' = [trouble EXCEPT ![what] = @ + 1]

(* sync_wiki up to its first write: nothing has changed if it raises.      *)
Start(request, allow_unsynced) ==
  /\ run.step = "idle"
  /\ Selected(request)
  /\ Accepted(allow_unsynced) /\ ArtifactsComplete
  /\ run' = [Idle(FALSE) EXCEPT !.step = "active", !.pages = Pages, !.left = Pages]
  /\ IF allow_unsynced THEN Trouble("forced") ELSE UNCHANGED trouble
  /\ UNCHANGED <<change, main, history, day, dirs, theirs, index, config>>

RunOnly == UNCHANGED <<change, main, history, day, trouble>>

(* _remove_stale_directories: rmtree removes the page or whatever else is  *)
(* in the directory, in an order of its own, then the rest of it; the      *)
(* first directory without the marker ends the run.                        *)
RemovePage(n) ==
  /\ run.step \in Groups /\ ~run.busy
  /\ n \in Stale(run.step) /\ Managed(dirs[run.step][n])
  /\ \/ /\ dirs' = [dirs EXCEPT ![run.step][n] = Unmarked]
        /\ UNCHANGED theirs
     \/ /\ theirs[run.step][n] # "none"
        /\ theirs' = [theirs EXCEPT ![run.step][n] = "none"]
        /\ UNCHANGED dirs
  /\ run' = [run EXCEPT !.busy = TRUE, !.at = n]
  /\ RunOnly /\ UNCHANGED <<index, config>>

UnlinkOnly ==                                        \* mutant of RemoveDirectory
  /\ run.step \in Groups /\ run.busy
  /\ run' = [run EXCEPT !.busy = FALSE]
  /\ RunOnly /\ UNCHANGED docsVars
RemoveDirectory ==
  /\ run.step \in Groups /\ run.busy
  /\ dirs' = [dirs EXCEPT ![run.step][run.at] = None]
  /\ theirs' = [theirs EXCEPT ![run.step][run.at] = "none"]
  /\ run' = [run EXCEPT !.busy = FALSE]
  /\ RunOnly /\ UNCHANGED <<index, config>>

RefuseDirectory ==
  /\ run.step \in Groups /\ ~run.busy
  /\ \E n \in Stale(run.step) : ~Managed(dirs[run.step][n])
  /\ run' = Idle(FALSE)
  /\ RunOnly /\ UNCHANGED docsVars

NothingStale ==
  /\ run.step \in Groups /\ ~run.busy
  /\ Stale(run.step) = {}
  /\ run' = [run EXCEPT !.step = IF run.step = "active" THEN "archived" ELSE "pages"]
  /\ RunOnly /\ UNCHANGED docsVars

(* The page is rendered, mkdir makes its directory and write_text opens    *)
(* its file, which empties it, before it writes.  Nobody looks at what is  *)
(* there: a directory made by hand under the name of a change is taken.    *)
OpenPage ==
  LET p == Head(run.left) IN
  /\ run.step = "pages" /\ run.left # <<>> /\ ~run.busy
  /\ dirs' = [dirs EXCEPT ![p.group][p.of] = Unmarked]
  /\ run' = [run EXCEPT !.busy = TRUE, !.text = Rendered(p)]
  /\ RunOnly /\ UNCHANGED <<theirs, index, config>>

WritePage ==
  LET p == Head(run.left) IN
  /\ run.step = "pages" /\ run.busy
  /\ dirs' = [dirs EXCEPT ![p.group][p.of] = run.text]
  /\ theirs' = [theirs EXCEPT ![p.group][p.of] = Shared(@)]
  /\ run' = [run EXCEPT !.busy = FALSE, !.text = None, !.left = Tail(@)]
  /\ RunOnly /\ UNCHANGED <<index, config>>

WriteIndex ==
  /\ run.step = "pages" /\ run.left = <<>>
  /\ index' = run.pages
  /\ run' = [run EXCEPT !.step = "config"]
  /\ RunOnly /\ UNCHANGED <<dirs, theirs, config>>

WriteConfig ==
  /\ run.step = "config"
  /\ config' = run.pages
  /\ run' = [run EXCEPT !.step = "validate"]
  /\ RunOnly /\ UNCHANGED <<dirs, theirs, index>>

(* _validate_outputs, of a run or of verify_wiki: the directories, every   *)
(* page, the index and the configuration are what the pages require.       *)
Validated(pages) ==
  /\ \A g \in Groups : {n \in Names : dirs[g][n].is # "none"} = Expected(pages, g)
  /\ \A i \in DOMAIN pages : dirs[pages[i].group][pages[i].of] = Rendered(pages[i])
  /\ index = pages /\ config = pages

Validate ==
  /\ run.step = "validate"
  /\ run' = Idle(Validated(run.pages))
  /\ RunOnly /\ UNCHANGED docsVars

-----------------------------------------------------------------------------
Kill ==
  /\ run.step # "idle"
  /\ Trouble("killed")
  /\ run' = Idle(FALSE)
  /\ UNCHANGED <<change, main, history, day, dirs, theirs, index, config>>

(* Somebody puts files into a directory, a new one or one that is there,   *)
(* unless rmtree is at it: it would stumble over them and raise.           *)
MakeOwn(g, n) ==
  /\ theirs[g][n] = "none"
  /\ ~(run.step = g /\ run.busy /\ run.at = n)
  /\ Trouble("own")
  /\ dirs' = [dirs EXCEPT ![g][n] = IF @ = None THEN Unmarked ELSE @]
  /\ theirs' = [theirs EXCEPT ![g][n] = IF dirs[g][n].is = "page" THEN "shared" ELSE "apart"]
  /\ UNCHANGED <<change, main, history, day, index, config, run>>

(* Bound: after the first run changes are archived with LaterDeltas only.   *)
Untouched ==
  /\ run.step = "idle" /\ index = <<>>
  /\ \A g \in Groups, n \in Names : dirs[g][n] = None

Sources ==
  /\ \/ \E c \in Change : Propose(c)
     \/ \E c \in Change, synced \in BOOLEAN,
          delta \in IF Untouched THEN Deltas ELSE LaterDeltas : Archive(c, delta, synced)
     \/ NextDay
  /\ IF run.step = "idle" THEN UNCHANGED trouble ELSE Trouble("moved")
  /\ UNCHANGED <<dirs, theirs, index, config, run>>

RunStep ==
  \/ \E n \in Names : RemovePage(n)
  \/ RemoveDirectory \/ RefuseDirectory \/ NothingStale
  \/ OpenPage \/ WritePage \/ WriteIndex \/ WriteConfig \/ Validate

Init ==
  /\ SourcesInit
  /\ dirs = [g \in Groups |-> [n \in Names |-> None]]
  /\ theirs = [g \in Groups |-> [n \in Names |-> "none"]]
  /\ index = <<>> /\ config = <<>>
  /\ run = Idle(FALSE)
  /\ trouble = [killed |-> 0, own |-> 0, moved |-> 0, forced |-> 0]

Next ==
  \/ Sources
  \/ \E request \in Requests, allow_unsynced \in BOOLEAN : Start(request, allow_unsynced)
  \/ RunStep
  \/ Kill
  \/ \E g \in Groups, n \in Names : MakeOwn(g, n)

(* A run that is not killed goes on; the workflow runs the synchronizer    *)
(* again after every change, and nobody overrides the gate as a habit.     *)
Fairness ==
  /\ WF_vars(RunStep)
  /\ WF_vars(Start([mode |-> "all", name |-> 0], FALSE))

Spec == Init /\ [][Next]_vars /\ Fairness

-----------------------------------------------------------------------------
(* What stands in the way of a run: an archive the gate refuses, or a      *)
(* directory without the marker that belongs to no change.  No run leaves  *)
(* one of these behind itself: somebody made it, or a run was killed with  *)
(* a page emptied or half removed.                                         *)
Blocked ==
  \/ ~Accepted(FALSE) \/ ~ArtifactsComplete
  \/ /\ trouble.killed + trouble.own > 0
     /\ \E g \in Groups : \E n \in Names \ Expected(Pages, g) : dirs[g][n] = Unmarked

(* The WIKI follows the changes: whatever moved, was killed half way or    *)
(* was left over, runs end in success with docs that verify_wiki accepts,  *)
(* unless something is in the way that only people can judge.              *)
Converges ==
  <>[](run.step = "idle" => (run.ok /\ Validated(Pages)) \/ Blocked)

(* A run takes files of people away only where a page was written beside   *)
(* them and only once the change of that page has been archived; what lies *)
(* apart from every page stays, whatever has begun to remove what is stale *)
(* and wherever it was killed.  That the page may have been written into a *)
(* directory made by hand is what _write_outputs does.                     *)
OwnFilesKept ==
  [][\A g \in Groups : \A n \in Names :
       theirs[g][n] # "none" /\ theirs'[g][n] = "none" =>
         theirs[g][n] = "shared" /\ g = "active" /\ n \in At("archived")]_vars
=============================================================================
