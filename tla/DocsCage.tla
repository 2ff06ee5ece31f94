------------------------------ MODULE DocsCage ------------------------------
(***************************************************************************)
(* How agents' edits of the agent-facing docs are kept in bounds: the doc  *)
(* gardener's job (internal/server/docssession.go) and the seed            *)
(* (internal/docs/seed.go) each refresh the skeletons of STRUCTURE.md,     *)
(* snapshot a directory's two files, let a session edit them for minutes,  *)
(* and then verify what it left or put the snapshot back. The two may      *)
(* overlap, people edit the same files, and the process may die.           *)
(*                                                                         *)
(* A file is what ParseDocFile and the checks tell apart: whose words are  *)
(* outside the markers, whether the markers parse, what is between them,   *)
(* and the tree it says it was generated from. Between the markers of an   *)
(* AGENTS.md is one text; between those of a STRUCTURE.md the purpose line *)
(* (text), the blurb in the row of the directory's own file, and anything  *)
(* else somebody wrote there (rest). Subdirectories' rows are left out:    *)
(* they quote what the children hold. What takes milliseconds between two  *)
(* reads or writes of files is one step.                                   *)
(***************************************************************************)
EXTENDS Naturals, Sequences, FiniteSets, SequencesExt

CONSTANTS
  Order,        \* the covered directories, children before parents (PostOrder)
  Upward(_),     \* a directory and the directories above it
  Written,      \* the directories for which people have written an AGENTS.md
  MaxEvents     \* bound of the model: runs, edits, changes of the tree and faults together

ASSUME CageAssumption ==
  /\ MaxEvents \in Nat
  /\ IsInjective(Order) /\ \A d \in ToSet(Order) : d \in Upward(d) /\ Upward(d) \subseteq ToSet(Order)

VARIABLES
  tree,         \* each directory's covered tree: what treeHash tells apart, whether its file is in it
  files,        \* each directory's two files
  cursor,       \* .lessmess/docs-seed.json: the directories marked summarized
  pass,         \* each runner's session: its target directories and their snapshot
  seed,         \* the seed's run
  \* history:
  left,         \* each file as people and accepted passes have left it
  raced,        \* directories where a pass met somebody else's edit, or died, and none was accepted since
  departed,     \* directories whose file has been away from the tree since their last accepted pass
  passed,       \* directories for which a seed's session has been accepted
  events        \* what has begun, happened or failed

docs == <<files, left>>
excused == <<raced, departed>>
cageVars == <<tree, files, cursor, pass, seed, left, raced, departed, passed, events>>

Library == ToSet(Order)       \* the covered directories
Names == {"STRUCTURE", "AGENTS"}
Runners == {"gardener", "seed"}
Wrong == MaxEvents + 1        \* a tree hash that a session made up

Absent == [there |-> FALSE, sound |-> TRUE, marked |-> FALSE, outside |-> "none",
           text |-> 0, blurb |-> 0, rest |-> FALSE, tree |-> 0]
(* What of a file is to be kept.                                           *)
Left(file) == [file EXCEPT !.tree = 0, !.rest = FALSE]
Unseen == [d \in Library |-> [hash |-> 0, file |-> FALSE]]
NoPass == [at |-> {}, snap |-> [d \in Library |-> [n \in Names |-> Absent]], tree |-> [d \in Library |-> 0]]
NoSeed == [pc |-> "idle", dirs |-> {}, force |-> FALSE, budget |-> 0, offline |-> FALSE, used |-> 0, tree |-> Unseen,
           built |-> {}, tried |-> {}, passed |-> {}, failed |-> FALSE]

CageInit ==
  /\ tree \in [Library -> [hash : {0}, file : BOOLEAN]]
  /\ files = [d \in Library |-> [n \in Names |->
       IF n = "AGENTS" /\ d \in Written THEN [Absent EXCEPT !.there = TRUE, !.outside = "people"] ELSE Absent]]
  /\ cursor = {} /\ pass = [r \in Runners |-> NoPass] /\ seed = NoSeed
  /\ left = files /\ raced = {} /\ departed = {d \in Library : ~tree[d].file} /\ passed = {}
  /\ events = 0

-----------------------------------------------------------------------------
(* Build and MergeDoc: the words outside are kept, the purpose line and the *)
(* blurb of a file still in the tree are carried forward, the rest between  *)
(* the markers is dropped.                                                  *)
Skeleton(file, version) ==
  [file EXCEPT !.there = TRUE, !.marked = TRUE, !.tree = version.hash,
               !.blurb = IF version.file THEN @ ELSE 0, !.rest = FALSE]
(* Children first; the directories before the first that does not parse.   *)
Unsound(d) == ~files[d]["STRUCTURE"].sound
Before(d) == {Order[i] : i \in 1 .. (CHOOSE i \in DOMAIN Order : Order[i] = d) - 1}
Reached == {d \in Library : ~Unsound(d) /\ \A e \in Before(d) : ~Unsound(e)}
WithSkeletons(fs, ds, versions) ==
  [d \in Library |-> IF d \in ds THEN [fs[d] EXCEPT !["STRUCTURE"] = Skeleton(@, versions[d])] ELSE fs[d]]
(* What a skeleton adds to what people and passes have left.               *)
WithCreated(lf, ds) ==
  [d \in Library |-> IF d \in ds THEN [lf[d] EXCEPT !["STRUCTURE"].there = TRUE, !["STRUCTURE"].marked = TRUE] ELSE lf[d]]

Happens == events < MaxEvents /\ events' = events + 1
InPass(d) == \E r \in Runners : d \in pass[r].at
Begin(r, ds, fs, versions) ==
  /\ pass' = [pass EXCEPT ![r] = [NoPass EXCEPT !.at = ds,
       !.snap = [d \in Library |-> IF d \in ds THEN fs[d] ELSE @[d]],
       !.tree = [d \in Library |-> IF d \in ds THEN versions[d].hash ELSE @[d]]]]
  /\ raced' = raced \cup {d \in ds : InPass(d)}
EndPass(r) == pass' = [pass EXCEPT ![r] = NoPass]

(* The check of one file against its snapshot: it parses, the words        *)
(* outside are the same, the skeleton is the one that was built.           *)
FileVerifies(r, n, before, after, version) ==
  IF ~after.there THEN ~before.there /\ (r = "seed" => n = "AGENTS")
  ELSE /\ after.sound
       /\ before.there => before.sound /\ after.outside = before.outside
       /\ n = "STRUCTURE" /\ (before.there \/ r = "seed") => after.marked /\ after.tree = version
       /\ n = "AGENTS" /\ ~before.there => after.marked
DirVerifies(r, d) == \A n \in Names : FileVerifies(r, n, pass[r].snap[d][n], files[d][n], pass[r].tree[d])
Verifies(r) == \A d \in pass[r].at : DirVerifies(r, d)

(* restore: what was there is written back, what was not is removed; the   *)
(* seed's leaves a STRUCTURE.md alone that its snapshot did not have.      *)
(* A mutant puts back only the directory that does not verify.             *)
Back(r, d, n) == LET before == pass[r].snap[d][n] IN
  IF before.there THEN before
  ELSE IF r = "seed" /\ n = "STRUCTURE" THEN files[d][n] ELSE Absent
RestoredFailing(r) ==
  [d \in Library |->
     IF d \in pass[r].at /\ ~DirVerifies(r, d) THEN [n \in Names |-> Back(r, d, n)] ELSE files[d]]
Restored(r) ==
  [d \in Library |-> IF d \in pass[r].at THEN [n \in Names |-> Back(r, d, n)] ELSE files[d]]
Accepted(r) ==
  [d \in Library |-> IF d \in pass[r].at THEN [n \in Names |-> Left(files[d][n])] ELSE left[d]]
(* An accepted pass settles what its directories hold, unless the other is *)
(* at work on them; their blurbs too, if the file is in the tree, also in  *)
(* the one that a running seed has walked and will settle with.            *)
Settled(r) ==
  /\ raced' = raced \ {d \in pass[r].at : \A q \in Runners \ {r} : d \notin pass[q].at}
  /\ departed' = departed \ {d \in pass[r].at : tree[d].file /\ (seed.pc = "idle" \/ seed.tree[d].file)}

-----------------------------------------------------------------------------
(* The gardener's job: the directories it updates and those it reviews.    *)

GardenBegins ==
  /\ pass["gardener"].at = {} /\ Happens
  /\ files' = WithSkeletons(files, Reached, tree) /\ left' = WithCreated(left, Reached)
  /\ \/ Reached = Library /\ \E ds \in SUBSET Library \ {{}} : Begin("gardener", ds, files', tree)
     \/ Reached # Library /\ UNCHANGED <<pass, raced>>
  /\ UNCHANGED <<tree, cursor, seed, departed, passed>>

(* The session's words are accepted and the skeletons settled.             *)
GardenVerified ==
  /\ pass["gardener"].at # {} /\ Verifies("gardener") /\ EndPass("gardener") /\ Settled("gardener")
  /\ files' = WithSkeletons(files, Reached, tree)
  /\ left' = WithCreated(Accepted("gardener"), Reached)
  /\ UNCHANGED <<tree, cursor, seed, passed, events>>

GardenUndone ==
  /\ pass["gardener"].at # {} /\ EndPass("gardener") /\ files' = Restored("gardener")
  /\ \/ ~Verifies("gardener") /\ UNCHANGED events
     \/ Happens      \* the session failed or timed out
  /\ UNCHANGED <<tree, cursor, seed, left, excused, passed>>

-----------------------------------------------------------------------------
(* The seed: skeletons, then one pass after the other, then the skeletons  *)
(* again, of the tree it walked at the beginning.                          *)

Missing == {d \in Library : \E n \in Names : ~files[d][n].there}
(* docsSeedWith asks for all, or for the directories without their files;  *)
(* the command line and onboarding for what the cursor has not marked. The *)
(* command line seeds offline when opencode does not answer: skeletons     *)
(* only, whatever else it asks. (Its dry run writes nothing: no step.)     *)
All == [dirs |-> {}, force |-> FALSE, budget |-> 0, offline |-> FALSE]
Requests == {All, [All EXCEPT !.force = TRUE], [All EXCEPT !.budget = 1], [All EXCEPT !.offline = TRUE]}
            \cup {[All EXCEPT !.dirs = ds] : ds \in {Missing} \ {{}}}
SeedBegins == \E req \in Requests :
  /\ seed.pc = "idle" /\ Happens
  /\ LET built == {d \in Library : ~Unsound(d)} IN
       /\ files' = WithSkeletons(files, built, tree) /\ left' = WithCreated(left, built)
       /\ seed' = [NoSeed EXCEPT !.pc = "summarize", !.dirs = req.dirs, !.force = req.force,
                     !.budget = req.budget, !.offline = req.offline, !.tree = tree, !.built = built,
                     !.failed = built # Library]
  /\ UNCHANGED <<tree, cursor, pass, excused, passed>>

(* What phase 2 does not skip; without a summarizer all stays pending.     *)
Wanted(d) ==
  /\ ~seed.offline
  /\ d \in seed.built \ seed.tried
  /\ seed.dirs # {} => d \in seed.dirs
  /\ d \in cursor => seed.force \/ d \in seed.dirs
  /\ seed.budget > 0 => seed.used < seed.budget
NextDir(d) == Wanted(d) /\ \A e \in Before(d) : ~Wanted(e)
(* A mutant marks the directory when its session begins.                   *)
SeedSessionMarks == \E d \in Library :
  /\ seed.pc = "summarize" /\ pass["seed"].at = {} /\ NextDir(d)
  /\ Begin("seed", {d}, files, seed.tree) /\ seed' = [seed EXCEPT !.tried = @ \cup {d}]
  /\ cursor' = cursor \cup {d}
  /\ UNCHANGED <<tree, files, left, departed, passed, events>>
SeedSession == \E d \in Library :
  /\ seed.pc = "summarize" /\ pass["seed"].at = {} /\ NextDir(d)
  /\ Begin("seed", {d}, files, seed.tree) /\ seed' = [seed EXCEPT !.tried = @ \cup {d}]
  /\ UNCHANGED <<tree, files, cursor, left, departed, passed, events>>

(* Accepted; the cursor is saved, or the run ends.                         *)
SeedVerified == LET at == pass["seed"].at IN
  /\ at # {} /\ Verifies("seed") /\ EndPass("seed") /\ Settled("seed")
  /\ left' = Accepted("seed") /\ passed' = passed \cup at
  /\ \/ /\ cursor' = cursor \cup at /\ UNCHANGED events
        /\ seed' = [seed EXCEPT !.used = @ + 1, !.passed = @ \cup at]
     \/ /\ Happens
        /\ seed' = NoSeed /\ UNCHANGED cursor
  /\ UNCHANGED <<tree, files>>
SeedUndone ==
  /\ pass["seed"].at # {} /\ EndPass("seed") /\ files' = Restored("seed")
  /\ \/ ~Verifies("seed") /\ UNCHANGED events
     \/ Happens
  /\ seed' = [seed EXCEPT !.failed = TRUE]
  /\ UNCHANGED <<tree, cursor, left, excused, passed>>
SeedSummarized ==
  /\ seed.pc = "summarize" /\ pass["seed"].at = {} /\ ~\E d \in Library : Wanted(d)
  /\ seed' = [seed EXCEPT !.pc = "settle"]
  /\ UNCHANGED <<tree, files, cursor, pass, left, excused, passed, events>>
SeedSettles ==
  /\ seed.pc = "settle" /\ seed' = NoSeed
  /\ LET built == {d \in seed.built : ~Unsound(d)} IN
       files' = WithSkeletons(files, built, seed.tree) /\ left' = WithCreated(left, built)
  /\ UNCHANGED <<tree, cursor, pass, excused, passed, events>>

-----------------------------------------------------------------------------
(* A session edits the files of its directories: what it was asked for,    *)
(* words outside the markers, the markers, the tree hash, or it deletes.   *)
Edited(n, file) ==
  LET present == [file EXCEPT !.there = TRUE]
  IN {[present EXCEPT !.marked = TRUE, !.text = @ + 1], [present EXCEPT !.outside = "agent"],
      [present EXCEPT !.sound = FALSE], Absent}
     \cup (IF n = "STRUCTURE" THEN {[present EXCEPT !.marked = TRUE, !.blurb = @ + 1],
                                      [present EXCEPT !.marked = TRUE, !.rest = TRUE]} ELSE {})
     \cup (IF file.there /\ n = "STRUCTURE" THEN {[file EXCEPT !.tree = Wrong]} ELSE {})
Edit(r) == \E d \in pass[r].at, n \in Names : \E file \in Edited(n, files[d][n]) \ {files[d][n]} :
  /\ Happens /\ files' = [files EXCEPT ![d][n] = file]
  /\ UNCHANGED <<tree, cursor, pass, seed, left, excused, passed>>

(* People write around the markers, break them or repair them.             *)
HumanEdit == \E d \in Library, n \in Names :
  /\ Happens
  /\ \E file \in {[files[d][n] EXCEPT !.there = TRUE, !.outside = "people"],
                  [files[d][n] EXCEPT !.sound = ~(@ /\ files[d][n].marked)]} :
       /\ files' = [files EXCEPT ![d][n] = file]
       /\ left' = [left EXCEPT ![d][n] = Left(file)]
  /\ raced' = IF InPass(d) THEN raced \cup {d} ELSE raced
  /\ UNCHANGED <<tree, cursor, pass, seed, departed, passed>>

(* A file or directory comes, goes or is renamed.                          *)
TreeChanges == \E d \in Library, file \in BOOLEAN :
  /\ Happens
  /\ tree' = [e \in Library |-> [hash |-> tree[e].hash + IF e \in Upward(d) THEN 1 ELSE 0,
                                 file |-> IF e = d THEN file ELSE tree[e].file]]
  /\ departed' = IF file THEN departed ELSE departed \cup {d}
  /\ UNCHANGED <<docs, cursor, pass, seed, raced, passed>>

(* The process dies; what a session has written stays.                     *)
Crash ==
  /\ Happens
  /\ raced' = raced \cup UNION {pass[r].at : r \in Runners}
  /\ pass' = [r \in Runners |-> NoPass] /\ seed' = NoSeed
  /\ UNCHANGED <<tree, docs, cursor, departed, passed>>

CageNext ==
  \/ GardenBegins \/ GardenVerified \/ GardenUndone
  \/ SeedBegins \/ SeedSession \/ SeedVerified \/ SeedUndone \/ SeedSummarized \/ SeedSettles
  \/ \E r \in Runners : Edit(r)
  \/ HumanEdit \/ TreeChanges \/ Crash
CageSpec == CageInit /\ [][CageNext]_cageVars
-----------------------------------------------------------------------------
Files == [there : BOOLEAN, sound : BOOLEAN, marked : BOOLEAN, outside : {"none", "people", "agent"},
          text : Nat, blurb : Nat, rest : BOOLEAN, tree : Nat]
Trees == [Library -> [hash : Nat, file : BOOLEAN]]
CageTypeOK ==
  /\ tree \in Trees
  /\ files \in [Library -> [Names -> Files]] /\ left \in [Library -> [Names -> Files]]
  /\ cursor \subseteq Library /\ raced \subseteq Library /\ departed \subseteq Library /\ passed \subseteq Library
  /\ pass \in [Runners -> [at : SUBSET Library, snap : [Library -> [Names -> Files]], tree : [Library -> Nat]]]
  /\ seed \in [pc : {"idle", "summarize", "settle"}, dirs : SUBSET Library, force : BOOLEAN, budget : Nat,
               offline : BOOLEAN, used : Nat, tree : Trees, built : SUBSET Library, tried : SUBSET Library,
               passed : SUBSET Library, failed : BOOLEAN]
  /\ events \in 0 .. MaxEvents

(* A file of d is what was left of it, but for the blurb where d is gone.  *)
Agrees(gone, d, file, accepted) ==
  Left(file) = [accepted EXCEPT !.blurb = IF d \in gone THEN file.blurb ELSE @]

(* docfile.go, "everything outside the markers is human/curated content    *)
(* and is preserved", and Build, "the directory purpose line, file purpose *)
(* blurbs ... are carried forward": with no session at work on a           *)
(* directory, its AGENTS.md is what people and accepted passes have left   *)
(* there, and so are the words around the markers of its STRUCTURE.md, its *)
(* purpose line and, unless its file left the tree since the last accepted *)
(* pass, its blurb; what else was between those markers is not promised.   *)
(* Nothing of a pass that failed or broke its bounds stays, in any of its  *)
(* directories. Not so where a pass overlapped another or a person's edit, *)
(* or died with its process, until the next one is accepted: the snapshot  *)
(* then is not what restoring it should bring back. A seed settles with    *)
(* the tree it walked at its beginning: for it a file that came since is   *)
(* still away, and the blurb of such a file is lost with it.               *)
KeptAsAccepted == \A d \in Library \ raced :
  ~InPass(d) => \A n \in Names : Agrees(departed, d, files[d][n], left[d][n])

(* A seed that had opencode to summarize with and no budget, and ends its  *)
(* passes without a failure, has had every directory it was asked for      *)
(* accepted: in this run, or, going by the cursor, in an earlier one that  *)
(* failed or died on the way.                                              *)
SeedCompletes ==
  seed.pc = "settle" /\ ~seed.failed /\ seed.budget = 0 /\ ~seed.offline
  => IF seed.dirs # {} THEN seed.dirs \subseteq seed.passed
     ELSE Library \subseteq IF seed.force THEN seed.passed ELSE passed
=============================================================================
