------------------------------- MODULE Patcher -------------------------------
(***************************************************************************)
(* sandbox/patcher.py: apply_patch and revert_patch on the tree of one     *)
(* workspace.  The tree is written and restored one file at a time, and    *)
(* each write can fail.  A diff is a sequence of sections, one for each    *)
(* `--- ` / `+++ ` pair; the hunks of a section turn the text `pre` into   *)
(* `post` and match no other text.                                         *)
(***************************************************************************)
EXTENDS Naturals, SequencesExt

CONSTANTS
  Paths,           \* the paths diffs and tests touch
  Parent,          \* for each of them below another, that other
  Texts, Empty,    \* what a file can hold, and the empty file
  Trees,           \* trees a repository is copied with
  Patches,         \* the diffs the model writes
  Backends,        \* a subset of {"git", "python"}: is there a git binary?
  RestoreFaults,   \* can restoring meet an OSError of the disk?
  MaxDepth,        \* bound: patches in force at one time
  MaxElsewhere     \* bound: writes of others

NoFile == "no file"
Dir    == "dir"
Entries == Texts \cup {NoFile, Dir}

ASSUME TextsAssumption == Empty \in Texts /\ Texts \cap {NoFile, Dir, "disk", "gone"} = {}
ASSUME PathsAssumption ==
  /\ DOMAIN Parent \subseteq Paths /\ "none" \notin Paths
  /\ \A p \in DOMAIN Parent : Parent[p] \in Paths \ DOMAIN Parent
(* Nothing is below a file.                                                 *)
IsTree(t) ==
  /\ t \in [Paths -> Entries]
  /\ \A p \in DOMAIN Parent : t[p] # NoFile => t[Parent[p]] = Dir
ASSUME TreesAssumption == \A t \in Trees : IsTree(t)
ASSUME BoundsAssumption == {MaxDepth, MaxElsewhere} \subseteq Nat
ASSUME BackendsAssumption == Backends \subseteq {"git", "python"}

(* A parsed diff: a file that is changed, created (old is "none"), deleted  *)
(* (new is "none") or renamed by each section, and whether `diff --git`     *)
(* lines stand between the sections.                                        *)
MaybePaths == Paths \cup {"none"}
Section ==
  {s \in [old : MaybePaths, new : MaybePaths, pre : Texts, post : Texts] :
     s.old # "none" \/ s.new # "none"}
ASSUME PatchesAssumption == Patches \subseteq [sections : Seq(Section), headed : BOOLEAN]

VARIABLES
  tree,        \* what each path holds
  snapshots,   \* _SNAPSHOTS of this workspace, newest last
  pc,          \* "ready" between calls, else the part of the call under way
  plan,        \* writes the backend has still to make
  snap,        \* the snapshot of the call under way
  todo,        \* the names in it that are still to be restored
  patch,       \* the diff of the call under way
  backend,     \* what _git_available() decides on
  entry,       \* history: the tree when the call under way began
  original,    \* history: the tree with no patch in force
  spoiled,     \* history: has restoring given up?
  elsewhere    \* history: writes of others so far

call == <<plan, snap, todo, patch>>
vars == <<tree, snapshots, pc, call, backend, entry, original, spoiled, elsewhere>>

-----------------------------------------------------------------------------
(* Diffs and trees. *)

Target(s) == IF s.new # "none" THEN s.new ELSE s.old

NamesOfTargets(p) == {Target(s) : s \in ToSet(p.sections)}   \* mutant

Names(p) == {q \in Paths : \E s \in ToSet(p.sections) : q \in {s.old, s.new}}

Children(p) == {q \in DOMAIN Parent : Parent[q] = p}
IsEmptyDir(t, p) == t[p] = Dir /\ \A q \in Children(p) : t[q] = NoFile

(* mkdir(parents=True) and a write, where neither meets something else.     *)
Room(t, p) == p \in DOMAIN Parent => t[Parent[p]] \notin Texts

Put(t, p, text) ==
  [q \in Paths |-> IF q = p THEN text
                   ELSE IF p \in DOMAIN Parent /\ q = Parent[p] THEN Dir ELSE t[q]]

Drop(t, p) == [t EXCEPT ![p] = NoFile]

(* git also removes the directory a file it removes leaves empty.           *)
DropAndTidy(t, p) ==
  [q \in Paths |->
     IF p \in DOMAIN Parent /\ q = Parent[p] /\ IsEmptyDir(Drop(t, p), q)
       THEN NoFile ELSE Drop(t, p)[q]]

-----------------------------------------------------------------------------
(* git apply --recount, as patcher.py calls it.  With --recount the end of  *)
(* a hunk is not known from its header: unless a `diff --git` line follows, *)
(* the headers of the next file are taken for lines of the hunk.            *)
GitSection(t, p, at, s) ==
  LET seen(q) == IF at[q] = "disk" THEN t[q] ELSE at[q]
      doomed(q) == \E d \in ToSet(p.sections) : d.old = q /\ d.new # q
      fresh(q) == \/ at[q] = "gone"
                  \/ t[q] \notin Texts
                  \/ at[q] = "disk" /\ doomed(q)
  IN  /\ IF s.old = "none" THEN s.pre = Empty ELSE seen(s.old) = s.pre
      /\ s.old # s.new /\ s.new # "none" => fresh(s.new)
      /\ s.new = "none" => s.post = Empty

GitAccepts(t, p) ==
  LET next(acc, s) ==
        [ok |-> acc.ok /\ GitSection(t, p, acc.at, s),
         at |-> [q \in Paths |-> IF q = s.new THEN s.post
                                 ELSE IF q = s.old THEN "gone" ELSE acc.at[q]]]
      alone == Len(p.sections) = 1 /\ p.sections[1].old \in {"none", Target(p.sections[1])}
  IN  /\ p.headed \/ alone
      /\ FoldLeft(next, [ok |-> TRUE, at |-> [q \in Paths |-> "disk"]], p.sections).ok

(* Everything that is replaced is removed first.  A write to "none" is none.*)
GitPlan(p) ==
  [i \in DOMAIN p.sections |->
     LET s == p.sections[i] IN [path |-> s.old, text |-> NoFile, tidy |-> s.old # s.new]]
  \o [i \in DOMAIN p.sections |->
        LET s == p.sections[i] IN [path |-> s.new, text |-> s.post, tidy |-> FALSE]]

(* _python_apply: every section is matched against the tree as it is.       *)
PythonAccepts(t, p) ==
  \A s \in ToSet(p.sections) :
    IF s.old = "none" THEN t[s.new] = NoFile /\ s.pre = Empty
                      ELSE t[Target(s)] = s.pre

PythonPlanEmpties(p) ==   \* mutant
  [i \in DOMAIN p.sections |->
     [path |-> Target(p.sections[i]), text |-> p.sections[i].post, tidy |-> FALSE]]

PythonPlan(p) ==
  [i \in DOMAIN p.sections |->
     LET s == p.sections[i]
     IN  [path |-> Target(s), text |-> IF s.new = "none" THEN NoFile ELSE s.post,
          tidy |-> FALSE]]

BackendAccepts(b, t, p) == IF b = "git" THEN GitAccepts(t, p) ELSE PythonAccepts(t, p)
BackendPlan(b, p) == IF b = "git" THEN GitPlan(p) ELSE PythonPlan(p)

(* Can the write be made?  git gives an empty directory way to a file.      *)
CanMake(b, t, w) ==
  IF w.text = NoFile THEN t[w.path] # Dir
  ELSE Room(t, w.path) /\ (t[w.path] = Dir => b = "git" /\ IsEmptyDir(t, w.path))

Make(t, w) ==
  IF w.text # NoFile THEN Put(t, w.path, w.text)
  ELSE IF w.tidy THEN DropAndTidy(t, w.path) ELSE Drop(t, w.path)

-----------------------------------------------------------------------------
NoSnap  == [order |-> <<>>, files |-> [q \in {} |-> NoFile], dirs |-> {}]
NoPatch == [sections |-> <<>>, headed |-> FALSE]

Init ==
  /\ tree \in Trees /\ entry = tree /\ original = tree
  /\ snapshots = <<>> /\ pc = "ready" /\ elsewhere = 0
  /\ plan = <<>> /\ snap = NoSnap /\ todo = {} /\ patch = NoPatch
  /\ backend \in Backends /\ spoiled = FALSE

Return(t) ==
  /\ pc' = "ready" /\ tree' = t /\ entry' = t
  /\ plan' = <<>> /\ snap' = NoSnap /\ todo' = {} /\ patch' = NoPatch

(* A diff that does not parse, or modifies a file that does not exist, is   *)
(* refused before anything is written.                                      *)
Parses(p) == p.sections # <<>>
NamesFiles(t, p) == \A s \in ToSet(p.sections) : s.old # "none" => t[s.old] \in Texts

TakeSnapshot(p) ==
  /\ pc = "ready" /\ Len(snapshots) < MaxDepth
  /\ Parses(p) /\ NamesFiles(tree, p)
  /\ snap' = [order |-> p.sections,
              files |-> [q \in Names(p) |->
                           IF tree[q] \in Texts THEN tree[q] ELSE NoFile],
              dirs  |-> {q \in Paths : tree[q] = Dir}]
  /\ patch' = p /\ pc' = "check"
  /\ UNCHANGED <<tree, entry, snapshots, plan, todo, backend, original, spoiled, elsewhere>>

StartBackend ==
  /\ pc = "check"
  /\ BackendAccepts(backend, tree, patch)
  /\ plan' = BackendPlan(backend, patch) /\ pc' = "write"
  /\ UNCHANGED <<tree, snapshots, snap, todo, patch, backend, entry, original, spoiled, elsewhere>>

Skips(k) == \A j \in 1 .. k : plan[j].path = "none"
Written == Skips(Len(plan))

WriteFile ==
  /\ pc = "write"
  /\ \E k \in DOMAIN plan :
       /\ plan[k].path # "none" /\ Skips(k - 1)
       /\ CanMake(backend, tree, plan[k])
       /\ tree' = Make(tree, plan[k])
       /\ plan' = SubSeq(plan, k + 1, Len(plan))
  /\ UNCHANGED <<snapshots, pc, snap, todo, patch, backend, entry, original, spoiled, elsewhere>>

(* The backend refuses, times out, or meets an OSError on the way.          *)
BackendFails ==
  /\ pc = "check" \/ (pc = "write" /\ ~Written)
  /\ pc' = "undo" /\ todo' = DOMAIN snap.files /\ plan' = <<>>
  /\ UNCHANGED <<tree, snapshots, snap, patch, backend, entry, original, spoiled, elsewhere>>

Applied ==
  /\ pc = "write" /\ Written
  /\ snapshots' = Append(snapshots, snap)
  /\ Return(tree)
  /\ UNCHANGED <<backend, original, spoiled, elsewhere>>

-----------------------------------------------------------------------------
RevertOldest ==   \* mutant
  /\ pc = "ready" /\ snapshots # <<>>
  /\ snap' = Head(snapshots) /\ snapshots' = Tail(snapshots)
  /\ todo' = DOMAIN Head(snapshots).files
  /\ pc' = "revert"
  /\ UNCHANGED <<tree, entry, plan, patch, backend, original, spoiled, elsewhere>>

(* revert_patch: the newest snapshot, whatever diff it is handed.           *)
Revert ==
  /\ pc = "ready" /\ snapshots # <<>>
  /\ snap' = Last(snapshots) /\ snapshots' = Front(snapshots)
  /\ todo' = DOMAIN Last(snapshots).files
  /\ pc' = "revert"
  /\ UNCHANGED <<tree, entry, plan, patch, backend, original, spoiled, elsewhere>>

(* _restore.  Next is the name that the diff mentions first: section by      *)
(* section, the old name before the new one.  One that held no file is      *)
(* unlinked, if there is anything.                                          *)
Upcoming(p) ==
  /\ p \in todo
  /\ \E k \in DOMAIN snap.order :
       /\ \A j \in 1 .. k - 1 : {snap.order[j].old, snap.order[j].new} \cap todo = {}
       /\ snap.order[k].old = p \/ (snap.order[k].new = p /\ snap.order[k].old \notin todo)

CanRestore(t, p) == t[p] # Dir /\ (snap.files[p] # NoFile => Room(t, p))

RestoreFile ==
  /\ pc \in {"undo", "revert"}
  /\ \E p \in todo :
       /\ Upcoming(p) /\ CanRestore(tree, p)
       /\ tree' = IF snap.files[p] = NoFile THEN Drop(tree, p)
                                            ELSE Put(tree, p, snap.files[p])
       /\ todo' = todo \ {p}
  /\ UNCHANGED <<snapshots, pc, plan, snap, patch, backend, entry, original, spoiled, elsewhere>>

PruneNothing(t) == t   \* mutant

(* Directories the snapshot has not seen go, while they are empty.          *)
Prune(t) ==
  [q \in Paths |-> IF IsEmptyDir(t, q) /\ q \notin snap.dirs THEN NoFile ELSE t[q]]

Restored ==
  /\ pc \in {"undo", "revert"} /\ todo = {}
  /\ Return(Prune(tree))
  /\ UNCHANGED <<snapshots, backend, original, spoiled, elsewhere>>

(* The first OSError ends restoring: it is logged, and nothing else said.   *)
RestoreGivesUp ==
  /\ pc \in {"undo", "revert"}
  /\ \E p \in todo : Upcoming(p) /\ (RestoreFaults \/ ~CanRestore(tree, p))
  /\ Return(tree) /\ spoiled' = TRUE
  /\ UNCHANGED <<snapshots, backend, original, elsewhere>>

Forget ==
  /\ pc = "ready" /\ snapshots # <<>>
  /\ snapshots' = <<>> /\ original' = tree
  /\ UNCHANGED <<tree, pc, call, backend, entry, spoiled, elsewhere>>

(* Between calls the sandbox writes and removes generated tests, and the    *)
(* tests it runs write what they like.                                      *)
Elsewhere(p, text) ==
  /\ pc = "ready" /\ elsewhere < MaxElsewhere /\ tree[p] # Dir
  /\ \/ text # NoFile /\ Room(tree, p) /\ tree' = Put(tree, p, text)
     \/ text = NoFile /\ tree' = Drop(tree, p)
  /\ entry' = tree' /\ elsewhere' = elsewhere + 1
  /\ UNCHANGED <<snapshots, pc, call, backend, original, spoiled>>

Next ==
  \/ \E p \in Patches : TakeSnapshot(p)
  \/ StartBackend \/ WriteFile \/ BackendFails \/ Applied
  \/ Revert \/ RestoreFile \/ Restored \/ RestoreGivesUp \/ Forget
  \/ \E p \in Paths, text \in Texts \cup {NoFile} : Elsewhere(p, text)

Spec == Init /\ [][Next]_vars

-----------------------------------------------------------------------------
(* The tree stays a tree, and only what the snapshot has is ever touched.   *)
Snap ==
  [order : Seq(Section),
   files : UNION {[S -> Texts \cup {NoFile}] : S \in SUBSET Paths},
   dirs  : SUBSET Paths]
Write == [path : MaybePaths, text : Texts \cup {NoFile}, tidy : BOOLEAN]

TypeOK ==
  /\ IsTree(tree) /\ IsTree(entry) /\ IsTree(original)
  /\ pc \in {"ready", "check", "write", "undo", "revert"}
  /\ backend \in Backends /\ patch \in [sections : Seq(Section), headed : BOOLEAN]
  /\ snapshots \in Seq(Snap) /\ Len(snapshots) <= MaxDepth /\ snap \in Snap
  /\ elsewhere \in 0..MaxElsewhere /\ spoiled \in BOOLEAN
  /\ todo \subseteq DOMAIN snap.files
  /\ plan \in Seq(Write)
  /\ \A i \in DOMAIN plan : plan[i].path \in DOMAIN snap.files \cup {"none"}

(* apply_patch says False only of a tree it has put back, however far the   *)
(* backend had got, with no directory it has not had before.                *)
FilesOf(t) == [p \in Paths |-> IF t[p] \in Texts THEN t[p] ELSE NoFile]
DirsOf(t)  == {p \in Paths : t[p] = Dir}
RefusedLeavesNoTrace ==
  [][pc = "undo" /\ pc' = "ready" =>
       \/ FilesOf(tree') = FilesOf(entry) /\ DirsOf(tree') \subseteq DirsOf(entry)
       \/ RestoreGivesUp]_vars

(* The attempt loop of fix.py: whatever was applied and reverted, in        *)
(* whatever number of tries, the next attempt reads the tree it was told    *)
(* of, file by file.  A directory is lost only if git let an empty one,     *)
(* which it does not track, give way to a file.                             *)
NoEmptyDir(t) == \A q \in Paths : ~IsEmptyDir(t, q)
StartsOver ==
  pc = "ready" /\ snapshots = <<>> /\ elsewhere = 0 /\ ~spoiled =>
    /\ FilesOf(tree) = FilesOf(original)
    /\ backend = "python" \/ NoEmptyDir(original) => tree = original

(* A patch that is reported as applied is applied in every file it names    *)
(* once: a file it changes, creates or renames has the new text, and a file *)
(* it deletes is gone.  Of a file it renames git removes the old name; the  *)
(* fallback leaves the file there too, and says applied all the same.       *)
OneSectionPerFile ==
  \A i, j \in DOMAIN patch.sections : i # j =>
    {patch.sections[i].old, patch.sections[i].new}
      \cap {patch.sections[j].old, patch.sections[j].new} \subseteq {"none"}
AppliedInFull ==
  pc = "write" /\ Written /\ OneSectionPerFile =>
    \A s \in ToSet(patch.sections) :
      /\ s.new # "none" => tree[s.new] = s.post
      /\ s.old \notin {"none", s.new} =>
           FilesOf(tree)[s.old] = IF backend = "git" \/ s.new = "none" THEN NoFile
                                  ELSE FilesOf(entry)[s.old]

(* Patches land whole and are taken back one by one, newest first, until    *)
(* restoring gives up.                                                      *)
InForce == IF pc = "revert" THEN Append(snapshots, snap) ELSE snapshots

Stack == INSTANCE PatchStack WITH
  Contents <- Texts \cup {NoFile},
  files    <- FilesOf(entry),
  stack    <- [i \in DOMAIN InForce |-> InForce[i].files]

ImplementsStack == Stack!Spec

(* patcher.py:368, "Never leaves the workspace half-patched".               *)
NeverHalfPatched ==
  [][pc = "undo" /\ pc' = "ready" => FilesOf(tree') = FilesOf(entry)]_vars
=============================================================================
