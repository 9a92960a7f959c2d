--------------------------- MODULE PatcherProofs ----------------------------
(***************************************************************************)
(* That patcher.py implements PatchStack, for any tree that is two levels  *)
(* deep, any diffs and any writes of others: a call, which writes and      *)
(* restores one file at a time, is one step of the stack or none.  And     *)
(* that a patch which is reported as applied is there in full, and one     *)
(* that is taken back leaves the tree as it was.                           *)
(***************************************************************************)
EXTENDS Patcher, SequenceTheorems, TLAPS

File(t, p) == IF t[p] \in Texts THEN t[p] ELSE NoFile

(* What a call has changed at each of its steps, and what it knows.         *)
Before == [q \in DOMAIN snap.files |-> File(entry, q)]
InStep ==
  /\ pc \in {"ready", "check"} => tree = entry
  /\ pc = "check" => DOMAIN snap.files = Names(patch) /\ Names(patch) # {}
  /\ pc \in {"check", "write", "undo"} =>
       /\ snap.files = Before /\ snap.dirs = DirsOf(entry) /\ DOMAIN snap.files # {}
       /\ Len(snapshots) < MaxDepth
       /\ \A p \in DOMAIN Parent : tree[p] = Dir => entry[p] = Dir
  /\ \A p \in Paths \ DOMAIN snap.files : File(tree, p) = File(entry, p)
  /\ pc \in {"undo", "revert"} =>
       \A p \in DOMAIN snap.files \ todo : File(tree, p) = snap.files[p]
  /\ pc = "revert" => Len(snapshots) < MaxDepth
  /\ pc \in {"ready", "check", "write"} => todo = {}
  /\ pc # "write" => plan = <<>>

-----------------------------------------------------------------------------
(* What the file operations do to the files, and that a tree stays a tree.  *)
LEMMA Marks == NoFile \notin Texts /\ Dir \notin Texts /\ NoFile # Dir
BY TextsAssumption DEF NoFile, Dir

LEMMA PutFile ==
  ASSUME NEW t, IsTree(t), NEW p \in Paths, NEW text \in Texts, Room(t, p),
         t[p] = Dir => IsEmptyDir(t, p)
  PROVE  /\ IsTree(Put(t, p, text))
         /\ \A q \in Paths : File(Put(t, p, text), q) = IF q = p THEN text ELSE File(t, q)
         /\ \A q \in DOMAIN Parent : Put(t, p, text)[q] = Dir => t[q] = Dir
BY Marks, PathsAssumption
DEF IsTree, Room, Put, File, Entries, IsEmptyDir, Children

LEMMA DropFile ==
  ASSUME NEW t, IsTree(t), NEW p \in Paths, t[p] # Dir
  PROVE  /\ IsTree(Drop(t, p))
         /\ \A q \in Paths : File(Drop(t, p), q) = IF q = p THEN NoFile ELSE File(t, q)
         /\ \A q \in Paths : Drop(t, p)[q] = Dir => t[q] = Dir
BY Marks, PathsAssumption DEF IsTree, Drop, File, Entries

LEMMA TidyFile ==
  ASSUME NEW t, IsTree(t), NEW p \in Paths, t[p] # Dir
  PROVE  /\ IsTree(DropAndTidy(t, p))
         /\ \A q \in Paths : File(DropAndTidy(t, p), q) = IF q = p THEN NoFile ELSE File(t, q)
         /\ \A q \in Paths : DropAndTidy(t, p)[q] = Dir => t[q] = Dir
<1> DEFINE d == Drop(t, p)
<1>1. /\ IsTree(d) /\ \A q \in Paths : File(d, q) = IF q = p THEN NoFile ELSE File(t, q)
      /\ \A q \in Paths : d[q] = Dir => t[q] = Dir
  BY DropFile
<1>2. DropAndTidy(t, p) =
        [q \in Paths |-> IF p \in DOMAIN Parent /\ q = Parent[p] /\ IsEmptyDir(d, q)
                         THEN NoFile ELSE d[q]]
  BY DEF DropAndTidy
<1> HIDE DEF d
<1>3. \A q \in Paths : File(DropAndTidy(t, p), q) = File(d, q)
  BY <1>2, Marks DEF File, IsEmptyDir
<1>4. IsTree(DropAndTidy(t, p))
  BY <1>1, <1>2, Marks, PathsAssumption DEF IsTree, IsEmptyDir, Children, Entries
<1>5. \A q \in Paths : DropAndTidy(t, p)[q] = Dir => t[q] = Dir
  BY <1>1, <1>2, Marks
<1>6. QED BY <1>1, <1>3, <1>4, <1>5

LEMMA PruneFile ==
  ASSUME NEW t, IsTree(t)
  PROVE  /\ IsTree(Prune(t))
         /\ \A q \in Paths : File(Prune(t), q) = File(t, q)
<1>1. \A q \in Paths : File(Prune(t), q) = File(t, q)
  BY Marks DEF Prune, IsEmptyDir, File
<1>2. IsTree(Prune(t))
  BY Marks, PathsAssumption DEF IsTree, Prune, IsEmptyDir, Children, Entries
<1>3. QED BY <1>1, <1>2

LEMMA MakeFile ==
  ASSUME NEW t, IsTree(t), NEW b, NEW w \in Write, w.path \in Paths, CanMake(b, t, w)
  PROVE  /\ IsTree(Make(t, w))
         /\ \A q \in Paths : File(Make(t, w), q) = IF q = w.path THEN w.text ELSE File(t, q)
         /\ \A q \in DOMAIN Parent : Make(t, w)[q] = Dir => t[q] = Dir
<1>1. w.text \in Texts \cup {NoFile}
  BY DEF Write
<1>2. CASE w.text # NoFile
  <2>1. w.text \in Texts /\ Room(t, w.path) /\ (t[w.path] = Dir => IsEmptyDir(t, w.path))
    BY <1>1, <1>2 DEF CanMake
  <2>2. Make(t, w) = Put(t, w.path, w.text)
    BY <1>2 DEF Make
  <2>3. QED BY <2>1, <2>2, PutFile
<1>3. CASE w.text = NoFile
  <2>1. t[w.path] # Dir /\ DOMAIN Parent \subseteq Paths
    BY <1>3, PathsAssumption DEF CanMake
  <2>2. Make(t, w) = DropAndTidy(t, w.path) \/ Make(t, w) = Drop(t, w.path)
    BY <1>3 DEF Make
  <2>3. QED BY <1>3, <2>1, <2>2, DropFile, TidyFile
<1>4. QED BY <1>2, <1>3

(* The backends write to no file that the diff does not name.               *)
Diff == [sections : Seq(Section), headed : BOOLEAN]

LEMMA SectionOf ==
  ASSUME NEW p \in Diff, NEW i \in DOMAIN p.sections
  PROVE  /\ p.sections[i] \in Section
         /\ p.sections[i].old \in Names(p) \cup {"none"}
         /\ p.sections[i].new \in Names(p) \cup {"none"}
         /\ p.sections[i].post \in Texts
<1>1. p.sections \in Seq(Section) /\ p.sections[i] \in Section
  BY DEF Diff
<1>2. PICK s \in ToSet(p.sections) : s = p.sections[i] /\ s \in Section
  BY <1>1 DEF ToSet
<1>3. s.old \in MaybePaths /\ s.new \in MaybePaths /\ s.post \in Texts
  BY <1>2 DEF Section
<1>4. QED BY <1>2, <1>3 DEF Names, MaybePaths

LEMMA NamesArePaths ==
  ASSUME NEW p \in Diff
  PROVE  Names(p) \subseteq Paths /\ (Parses(p) => Names(p) # {})
<1>1. Names(p) \subseteq Paths
  BY DEF Names
<1>2. ASSUME Parses(p) PROVE Names(p) # {}
  <2>1. 1 \in DOMAIN p.sections
    BY <1>2 DEF Parses, Diff
  <2>2. p.sections[1].old # "none" \/ p.sections[1].new # "none"
    BY <2>1, SectionOf DEF Section
  <2>3. QED BY <2>1, <2>2, SectionOf
<1>3. QED BY <1>1, <1>2

LEMMA PlanNames ==
  ASSUME NEW p \in Diff, NEW b
  PROVE  /\ BackendPlan(b, p) \in Seq(Write)
         /\ \A i \in DOMAIN BackendPlan(b, p) :
              BackendPlan(b, p)[i].path \in Names(p) \cup {"none"}
<1> DEFINE secs == p.sections
           Fine(s) == /\ s \in Seq(Write)
                      /\ \A i \in DOMAIN s : s[i].path \in Names(p) \cup {"none"}
           removals == [i \in DOMAIN secs |-> [path |-> secs[i].old, text |-> NoFile,
                                               tidy |-> secs[i].old # secs[i].new]]
           writes == [i \in DOMAIN secs |-> [path |-> secs[i].new, text |-> secs[i].post,
                                             tidy |-> FALSE]]
<1>1. secs \in Seq(Section)
  BY DEF Diff
<1>2. \A i \in DOMAIN secs : /\ secs[i].post \in Texts
                             /\ secs[i].old \in Names(p) \cup {"none"}
                             /\ secs[i].new \in Names(p) \cup {"none"}
  BY SectionOf
<1>3. DOMAIN secs = 1 .. Len(secs) /\ Len(secs) \in Nat /\ Names(p) \cup {"none"} \subseteq MaybePaths
  BY <1>1, NamesArePaths DEF MaybePaths
<1> DEFINE removal(i) == [path |-> secs[i].old, text |-> NoFile, tidy |-> secs[i].old # secs[i].new]
           write(i) == [path |-> secs[i].new, text |-> secs[i].post, tidy |-> FALSE]
           change(i) == [path |-> Target(secs[i]),
                         text |-> IF secs[i].new = "none" THEN NoFile ELSE secs[i].post, tidy |-> FALSE]
<1>4. \A i \in DOMAIN secs : /\ removal(i) \in Write /\ removal(i).path \in Names(p) \cup {"none"}
                             /\ write(i) \in Write /\ write(i).path \in Names(p) \cup {"none"}
                             /\ change(i) \in Write /\ change(i).path \in Names(p) \cup {"none"}
  BY <1>2, <1>3 DEF Write, Target
<1>5. Fine(removals) /\ Fine(writes) /\ Fine(PythonPlan(p))
  <2>1. /\ removals = [i \in DOMAIN secs |-> removal(i)]
        /\ writes = [i \in DOMAIN secs |-> write(i)]
        /\ PythonPlan(p) = [i \in DOMAIN secs |-> change(i)]
    BY DEF PythonPlan
  <2> HIDE DEF removal, write, change, removals, writes
  <2>2. QED BY <1>3, <1>4, <2>1
<1>6. GitPlan(p) = removals \o writes
  BY DEF GitPlan
<1>7. Fine(removals \o writes)
  <2> HIDE DEF removals, writes
  <2>1. removals \o writes \in Seq(Write)
    BY <1>5
  <2>2. \A i \in DOMAIN (removals \o writes) :
          \/ i \in DOMAIN removals /\ (removals \o writes)[i] = removals[i]
          \/ \E j \in DOMAIN writes : (removals \o writes)[i] = writes[j]
    BY <1>5
  <2>3. QED BY <1>5, <2>1, <2>2
<1>8. QED BY <1>5, <1>6, <1>7 DEF BackendPlan

-----------------------------------------------------------------------------
LEMMA SnapShape ==
  ASSUME NEW s \in Snap
  PROVE  /\ DOMAIN s.files \subseteq Paths
         /\ s.files = [q \in DOMAIN s.files |-> s.files[q]]
         /\ \A q \in DOMAIN s.files : s.files[q] \in Texts \cup {NoFile}
<1>1. PICK S \in SUBSET Paths : s.files \in [S -> Texts \cup {NoFile}]
  BY DEF Snap
<1>2. QED BY <1>1

LEMMA SnapMade ==
  ASSUME NEW S \in SUBSET Paths, NEW f \in [S -> Texts \cup {NoFile}],
         NEW o \in Seq(Section), NEW d \in SUBSET Paths
  PROVE  [order |-> o, files |-> f, dirs |-> d] \in Snap
<1>1. f \in UNION {[T -> Texts \cup {NoFile}] : T \in SUBSET Paths}
  OBVIOUS
<1>2. QED BY <1>1 DEF Snap

LEMMA NoSnapIsOne == NoSnap \in Snap /\ DOMAIN NoSnap.files = {}
<1>1. [q \in {} |-> NoFile] \in [{} -> Texts \cup {NoFile}]
  OBVIOUS
<1>2. <<>> \in Seq(Section) /\ {} \in SUBSET Paths
  OBVIOUS
<1>3. NoSnap \in Snap
  BY <1>1, <1>2, SnapMade DEF NoSnap
<1>4. QED BY <1>3 DEF NoSnap

Known == TypeOK /\ InStep

LEMMA ReturnKnows ==
  ASSUME NEW t, IsTree(t), Return(t)
  PROVE  /\ IsTree(tree') /\ IsTree(entry') /\ InStep' /\ pc' = "ready"
         /\ snap' \in Snap /\ todo' \subseteq DOMAIN snap'.files
         /\ plan' = <<>> /\ patch' \in Diff
BY NoSnapIsOne DEF Return, InStep, Diff, NoPatch

LEMMA InitKnows == Init => Known
<1> SUFFICES ASSUME Init PROVE Known
  OBVIOUS
<1>1. IsTree(tree) /\ entry = tree /\ original = tree
  BY TreesAssumption DEF Init
<1>2. TypeOK
  <2>1. /\ snap \in Snap /\ todo \subseteq DOMAIN snap.files
        /\ patch \in [sections : Seq(Section), headed : BOOLEAN]
    BY NoSnapIsOne DEF Init, NoPatch
  <2>2. /\ snapshots \in Seq(Snap) /\ Len(snapshots) <= MaxDepth
        /\ plan \in Seq(Write) /\ DOMAIN plan = {} /\ elsewhere \in 0..MaxElsewhere
    BY BoundsAssumption DEF Init
  <2>3. QED BY <1>1, <2>1, <2>2 DEF Init, TypeOK
<1>3. InStep
  BY <1>1, NoSnapIsOne DEF Init, InStep
<1>4. QED BY <1>2, <1>3 DEF Known

LEMMA TakeSnapshotKnows ==
  ASSUME Known, NEW p \in Patches, TakeSnapshot(p)
  PROVE  Known'
<1>1. p \in Diff /\ Names(p) \subseteq Paths /\ Names(p) # {}
  BY PatchesAssumption, NamesArePaths DEF Diff, TakeSnapshot
<1>2. tree = entry /\ pc = "ready" /\ Len(snapshots) < MaxDepth
  BY DEF Known, InStep, TakeSnapshot
<1>3. snap' = [order |-> p.sections, files |-> [q \in Names(p) |-> File(entry, q)],
               dirs |-> DirsOf(entry)]
  BY <1>2 DEF TakeSnapshot, File, DirsOf
<1>4. [q \in Names(p) |-> File(entry, q)] \in [Names(p) -> Texts \cup {NoFile}]
  BY DEF File
<1>5. snap' \in Snap /\ DOMAIN snap'.files = Names(p)
  <2>1. p.sections \in Seq(Section) /\ DirsOf(entry) \in SUBSET Paths
    BY <1>1 DEF Diff, DirsOf
  <2>2. snap' \in Snap
    BY <1>1, <1>3, <1>4, <2>1, SnapMade
  <2>3. QED BY <1>3, <2>2
<1>6. TypeOK'
  BY <1>1, <1>2, <1>5 DEF Known, TypeOK, InStep, TakeSnapshot, Diff
<1>7. InStep'
  BY <1>1, <1>2, <1>3, <1>5 DEF Known, TypeOK, InStep, TakeSnapshot, Before, DirsOf
<1>8. QED BY <1>6, <1>7 DEF Known

LEMMA StartBackendKnows == ASSUME Known, StartBackend PROVE Known'
<1>1. /\ patch \in Diff /\ DOMAIN snap.files = Names(patch) /\ tree = entry
      /\ pc = "check" /\ pc' = "write" /\ plan' = BackendPlan(backend, patch)
  BY DEF Known, TypeOK, InStep, StartBackend, Diff
<1>2. /\ plan' \in Seq(Write)
      /\ \A i \in DOMAIN plan' : plan'[i].path \in DOMAIN snap.files \cup {"none"}
  BY <1>1, PlanNames
<1>3. TypeOK'
  BY <1>1, <1>2 DEF Known, TypeOK, StartBackend
<1>4. InStep'
  BY <1>1 DEF Known, InStep, StartBackend, Before, DirsOf
<1>5. QED BY <1>3, <1>4 DEF Known

LEMMA WriteFileKnows == ASSUME Known, WriteFile PROVE Known'
<1>1. PICK k \in DOMAIN plan :
        /\ plan[k].path # "none" /\ CanMake(backend, tree, plan[k])
        /\ tree' = Make(tree, plan[k]) /\ plan' = SubSeq(plan, k + 1, Len(plan))
  BY DEF WriteFile
<1> DEFINE w == plan[k]
<1>2. /\ w \in Write /\ w.path \in DOMAIN snap.files /\ w.path \in Paths
      /\ IsTree(tree) /\ plan \in Seq(Write)
  <2>1. /\ IsTree(tree) /\ plan \in Seq(Write) /\ snap \in Snap
        /\ w.path \in DOMAIN snap.files \cup {"none"}
    BY DEF Known, TypeOK
  <2>2. w \in Write
    BY <2>1
  <2>3. QED BY <1>1, <2>1, <2>2, SnapShape
<1>3. /\ IsTree(tree')
      /\ \A q \in Paths : File(tree', q) = IF q = w.path THEN w.text ELSE File(tree, q)
      /\ \A q \in DOMAIN Parent : tree'[q] = Dir => tree[q] = Dir
  BY <1>1, <1>2, MakeFile
<1>4. /\ plan' \in Seq(Write)
      /\ \A i \in DOMAIN plan' : plan'[i].path \in DOMAIN snap.files \cup {"none"}
  <2>1. \A i \in DOMAIN plan : plan[i].path \in DOMAIN snap.files \cup {"none"}
    BY DEF Known, TypeOK
  <2>2. \A i \in DOMAIN plan' : k + i \in DOMAIN plan /\ plan'[i] = plan[k + i]
    BY <1>1, <1>2
  <2>3. plan' \in Seq(Write)
    BY <1>1, <1>2
  <2>4. QED BY <2>1, <2>2, <2>3
<1> HIDE DEF w
<1>5. TypeOK'
  BY <1>3, <1>4 DEF Known, TypeOK, WriteFile
<1>6. InStep'
  BY <1>2, <1>3 DEF Known, InStep, WriteFile, Before, DirsOf
<1>7. QED BY <1>5, <1>6 DEF Known

LEMMA BackendFailsKnows == ASSUME Known, BackendFails PROVE Known'
<1>1. TypeOK'
  BY DEF Known, TypeOK, BackendFails
<1>2. InStep'
  BY DEF Known, InStep, BackendFails, Before, DirsOf
<1>3. QED BY <1>1, <1>2 DEF Known

LEMMA AppliedKnows == ASSUME Known, Applied PROVE Known'
<1>1. snapshots' \in Seq(Snap) /\ Len(snapshots') <= MaxDepth
  BY BoundsAssumption DEF Known, TypeOK, InStep, Applied
<1>2. IsTree(tree) /\ Return(tree)
  BY DEF Known, TypeOK, Applied
<1>3. /\ IsTree(tree') /\ IsTree(entry') /\ InStep' /\ pc' = "ready" /\ snap' \in Snap
      /\ todo' \subseteq DOMAIN snap'.files /\ plan' = <<>> /\ patch' \in Diff
  BY <1>2, ReturnKnows
<1>4. TypeOK'
  BY <1>1, <1>3 DEF Known, TypeOK, Applied, Diff
<1>5. QED BY <1>3, <1>4 DEF Known

LEMMA SameSeq ==
  ASSUME NEW S, NEW s \in Seq(S), NEW z \in Seq(S), Len(s) = Len(z),
         \A i \in 1 .. Len(s) : s[i] = z[i]
  PROVE  s = z
OBVIOUS

LEMMA LastFront ==
  ASSUME NEW S, NEW s \in Seq(S), s # <<>>
  PROVE  /\ Last(s) \in S /\ Front(s) \in Seq(S) /\ Len(Front(s)) = Len(s) - 1
         /\ Append(Front(s), Last(s)) = s
<1>1. Len(s) \in Nat /\ Len(s) > 0 /\ Len(s) \in DOMAIN s
  OBVIOUS
<1>2. /\ Front(s) = SubSeq(s, 1, Len(s) - 1) /\ Last(s) = s[Len(s)]
  BY DEF Front, Last
<1>3. Front(s) \in Seq(S) /\ Len(Front(s)) = Len(s) - 1 /\ Last(s) \in S
  <2> DEFINE n == Len(s) - 1
  <2>1. n \in Nat /\ n <= Len(s)
    BY <1>1
  <2>2. \A i \in 1 .. n : s[i] \in S
    BY <2>1
  <2>3. SubSeq(s, 1, n) \in Seq(S) /\ Len(SubSeq(s, 1, n)) = n
    <3> HIDE DEF n
    <3>1. QED BY <2>1, <2>2, SubSeqProperties
  <2>4. s[Len(s)] \in S
    BY <1>1
  <2>5. QED BY <1>2, <2>3, <2>4
<1>4. \A i \in 1 .. Len(s) - 1 : Front(s)[i] = s[i]
  BY <1>1, <1>2
<1>5. Append(Front(s), Last(s)) \in Seq(S) /\ Len(Append(Front(s), Last(s))) = Len(s)
  BY <1>1, <1>3
<1>6. \A i \in 1 .. Len(s) : Append(Front(s), Last(s))[i] = s[i]
  BY <1>1, <1>2, <1>3, <1>4
<1> DEFINE z == Append(Front(s), Last(s))
<1> HIDE DEF z
<1>7. z \in Seq(S) /\ Len(z) = Len(s)
  BY <1>5 DEF z
<1>8. \A i \in 1 .. Len(z) : z[i] = s[i]
  BY <1>6, <1>7 DEF z
<1>9. z = s
  BY <1>7, <1>8, SameSeq
<1>10. QED BY <1>3, <1>9 DEF z

LEMMA RevertKnows == ASSUME Known, Revert PROVE Known'
<1>1. /\ snap' \in Snap /\ snapshots' \in Seq(Snap) /\ Len(snapshots') < MaxDepth
      /\ todo' = DOMAIN snap'.files
  BY LastFront, BoundsAssumption DEF Known, TypeOK, Revert
<1>2. tree = entry /\ plan = <<>> /\ pc' = "revert"
  BY DEF Known, InStep, Revert
<1>3. TypeOK'
  <2>1. Len(snapshots') \in Nat /\ MaxDepth \in Nat /\ Len(snapshots') <= MaxDepth
    BY <1>1, BoundsAssumption
  <2>2. /\ IsTree(tree') /\ IsTree(entry') /\ IsTree(original')
        /\ backend' \in Backends /\ patch' \in [sections : Seq(Section), headed : BOOLEAN]
        /\ elsewhere' \in 0..MaxElsewhere /\ spoiled' \in BOOLEAN
    BY DEF Known, TypeOK, Revert
  <2>3. plan' = <<>>
    BY <1>2 DEF Revert
  <2>4. plan' \in Seq(Write) /\ DOMAIN plan' = {}
    BY <2>3
  <2>5. QED BY <1>1, <1>2, <2>1, <2>2, <2>4 DEF TypeOK
<1>4. InStep'
  BY <1>1, <1>2 DEF Known, InStep, Revert
<1>5. QED BY <1>3, <1>4 DEF Known

LEMMA RestoreFileKnows == ASSUME Known, RestoreFile PROVE Known'
<1>1. PICK p \in todo :
        /\ CanRestore(tree, p) /\ todo' = todo \ {p}
        /\ tree' = IF snap.files[p] = NoFile THEN Drop(tree, p) ELSE Put(tree, p, snap.files[p])
  BY DEF RestoreFile
<1>2. /\ p \in DOMAIN snap.files /\ p \in Paths /\ snap.files[p] \in Texts \cup {NoFile}
      /\ IsTree(tree) /\ tree[p] # Dir /\ DOMAIN Parent \subseteq Paths
  BY <1>1, SnapShape, PathsAssumption DEF Known, TypeOK, CanRestore
<1>3. /\ IsTree(tree')
      /\ \A q \in Paths : File(tree', q) = IF q = p THEN snap.files[p] ELSE File(tree, q)
      /\ \A q \in DOMAIN Parent : tree'[q] = Dir => tree[q] = Dir
  <2>1. CASE snap.files[p] = NoFile
    BY <1>1, <1>2, <2>1, DropFile
  <2>2. CASE snap.files[p] # NoFile
    BY <1>1, <1>2, <2>2, PutFile DEF CanRestore
  <2>3. QED BY <2>1, <2>2
<1>4. TypeOK'
  BY <1>1, <1>3 DEF Known, TypeOK, RestoreFile
<1>5. InStep'
  <2>1. pc \in {"undo", "revert"} /\ pc' = pc /\ DOMAIN snap.files \subseteq Paths
    BY SnapShape DEF RestoreFile, Known, TypeOK
  <2>2. \A q \in DOMAIN snap.files \ todo' : File(tree', q) = snap.files[q]
    BY <1>1, <1>2, <1>3, <2>1 DEF Known, InStep
  <2>3. QED BY <1>2, <1>3, <2>1, <2>2 DEF Known, InStep, RestoreFile, Before, DirsOf
<1>6. QED BY <1>4, <1>5 DEF Known

LEMMA RestoredKnows == ASSUME Known, Restored PROVE Known'
<1>1. IsTree(Prune(tree)) /\ Return(Prune(tree))
  BY PruneFile DEF Known, TypeOK, Restored
<1>2. /\ IsTree(tree') /\ IsTree(entry') /\ InStep' /\ pc' = "ready" /\ snap' \in Snap
      /\ todo' \subseteq DOMAIN snap'.files /\ plan' = <<>> /\ patch' \in Diff
  BY <1>1, ReturnKnows
<1>3. TypeOK'
  BY <1>2 DEF Known, TypeOK, Restored, Diff
<1>4. QED BY <1>2, <1>3 DEF Known

LEMMA RestoreGivesUpKnows == ASSUME Known, RestoreGivesUp PROVE Known'
<1>1. IsTree(tree) /\ Return(tree)
  BY DEF Known, TypeOK, RestoreGivesUp
<1>2. /\ IsTree(tree') /\ IsTree(entry') /\ InStep' /\ pc' = "ready" /\ snap' \in Snap
      /\ todo' \subseteq DOMAIN snap'.files /\ plan' = <<>> /\ patch' \in Diff
  BY <1>1, ReturnKnows
<1>3. TypeOK'
  BY <1>2 DEF Known, TypeOK, RestoreGivesUp, Diff
<1>4. QED BY <1>2, <1>3 DEF Known

LEMMA ForgetKnows == ASSUME Known, Forget PROVE Known'
<1>1. TypeOK'
  BY BoundsAssumption DEF Known, TypeOK, Forget, call
<1>2. InStep'
  BY DEF Known, InStep, Forget, call
<1>3. QED BY <1>1, <1>2 DEF Known

LEMMA ElsewhereKnows ==
  ASSUME Known, NEW p \in Paths, NEW text \in Texts \cup {NoFile}, Elsewhere(p, text)
  PROVE  Known'
<1>1. /\ IsTree(tree')
      /\ \A q \in Paths : File(tree', q) = IF q = p THEN text ELSE File(tree, q)
  <2>1. IsTree(tree) /\ tree[p] # Dir
    BY DEF Known, TypeOK, Elsewhere
  <2>2. CASE text # NoFile
    BY <2>1, <2>2, PutFile DEF Elsewhere
  <2>3. CASE text = NoFile
    BY <2>1, <2>3, DropFile DEF Elsewhere
  <2>4. QED BY <2>2, <2>3
<1>2. TypeOK'
  BY <1>1, BoundsAssumption DEF Known, TypeOK, Elsewhere, call
<1>3. InStep'
  BY DEF Known, InStep, Elsewhere, call
<1>4. QED BY <1>2, <1>3 DEF Known

LEMMA StepKnows == Known /\ [Next]_vars => Known'
<1> SUFFICES ASSUME Known, [Next]_vars PROVE Known'
  OBVIOUS
<1>1. CASE UNCHANGED vars
  BY <1>1 DEF Known, TypeOK, InStep, vars, call, Before, DirsOf
<1>2. CASE \E p \in Patches : TakeSnapshot(p)
  BY <1>2, TakeSnapshotKnows
<1>3. CASE \E p \in Paths, text \in Texts \cup {NoFile} : Elsewhere(p, text)
  BY <1>3, ElsewhereKnows
<1>4. QED
  BY <1>1, <1>2, <1>3, StartBackendKnows, WriteFileKnows, BackendFailsKnows, AppliedKnows,
     RevertKnows, RestoreFileKnows, RestoredKnows, RestoreGivesUpKnows, ForgetKnows
  DEF Next

(* The tree is a tree at every step of every call, and a call writes to no  *)
(* file that its snapshot does not hold.                                    *)
THEOREM TypeCorrect == Spec => [](TypeOK /\ InStep)
<1>1. Spec => []Known
  BY InitKnows, StepKnows, PTL DEF Spec
<1>2. QED BY <1>1, PTL DEF Known

-----------------------------------------------------------------------------
(* A call that has taken everything back.                                   *)
LEMMA SameFiles ==
  ASSUME NEW t, NEW u, \A p \in Paths : File(t, p) = File(u, p)
  PROVE  FilesOf(t) = FilesOf(u)
BY DEF FilesOf, File

LEMMA BackAsItWas ==
  ASSUME Known, Restored, pc = "undo"
  PROVE  FilesOf(tree') = FilesOf(entry) /\ DirsOf(tree') \subseteq DirsOf(entry)
<1>1. /\ IsTree(tree) /\ IsTree(entry) /\ tree' = Prune(tree) /\ todo = {}
      /\ snap.files = Before /\ snap.dirs = DirsOf(entry)
      /\ \A p \in DOMAIN Parent : tree[p] = Dir => entry[p] = Dir
      /\ \A p \in DOMAIN snap.files \ todo : File(tree, p) = snap.files[p]
      /\ \A p \in Paths \ DOMAIN snap.files : File(tree, p) = File(entry, p)
  BY DEF Known, TypeOK, InStep, Restored, Return
<1>2. \A p \in Paths : File(tree, p) = File(entry, p)
  BY <1>1 DEF Before
<1>3. FilesOf(tree') = FilesOf(entry)
  BY <1>1, <1>2, PruneFile, SameFiles
<1>4. ASSUME NEW q \in Paths, tree'[q] = Dir, entry[q] # Dir PROVE FALSE
  <2>1. tree[q] = Dir /\ ~IsEmptyDir(tree, q)
    BY <1>1, <1>4, Marks DEF Prune, DirsOf
  <2>2. PICK c \in DOMAIN Parent : Parent[c] = q /\ tree[c] # NoFile
    BY <2>1 DEF IsEmptyDir, Children
  <2>3. c \in Paths /\ entry[c] # NoFile
    <3>1. c \in Paths
      BY <2>2, PathsAssumption
    <3>2. CASE tree[c] \in Texts
      BY <1>2, <3>1, <3>2, Marks DEF File
    <3>3. CASE tree[c] = Dir
      <4>1. entry[c] = Dir
        BY ONLY <1>1, <2>2, <3>3, Zenon
      <4>2. QED BY <3>1, <4>1, Marks
    <3>4. QED BY <1>1, <2>2, <3>1, <3>2, <3>3 DEF IsTree, Entries
  <2>4. QED BY <1>1, <1>4, <2>2, <2>3 DEF IsTree
<1>5. QED BY <1>3, <1>4 DEF DirsOf

(* A diff that does not apply leaves every file as it was, and no directory *)
(* of its own, wherever the backend stopped.                                *)
THEOREM RefusalsLeaveNoTrace == Spec => RefusedLeavesNoTrace
<1> DEFINE Undone == pc = "undo" /\ pc' = "ready" =>
                       \/ FilesOf(tree') = FilesOf(entry) /\ DirsOf(tree') \subseteq DirsOf(entry)
                       \/ RestoreGivesUp
<1>1. Known /\ [Next]_vars => [Undone]_vars
  <2> SUFFICES ASSUME Known, Next, pc = "undo", pc' = "ready", ~RestoreGivesUp
               PROVE  FilesOf(tree') = FilesOf(entry) /\ DirsOf(tree') \subseteq DirsOf(entry)
    OBVIOUS
  <2>1. Restored
    BY DEF Next, TakeSnapshot, StartBackend, WriteFile, BackendFails, Applied, Revert,
           RestoreFile, Forget, Elsewhere
  <2>2. QED BY <2>1, BackAsItWas
<1>2. QED BY <1>1, InitKnows, StepKnows, PTL DEF Spec, RefusedLeavesNoTrace

-----------------------------------------------------------------------------
(* The stack of PatchStack.                                                 *)
Shadow(s) == [i \in DOMAIN s |-> s[i].files]
FileMaps == UNION {[S -> Texts \cup {NoFile}] : S \in SUBSET Paths}

LEMMA ShadowAppend ==
  ASSUME NEW s \in Seq(Snap), NEW x \in Snap
  PROVE  /\ Shadow(Append(s, x)) = Append(Shadow(s), x.files)
         /\ Shadow(s) = SubSeq(Shadow(Append(s, x)), 1, Len(Shadow(Append(s, x))) - 1)
         /\ Shadow(Append(s, x)) # <<>>
         /\ Shadow(Append(s, x))[Len(Shadow(Append(s, x)))] = x.files
<1>1. \A r \in Seq(Snap) : /\ Shadow(r) \in Seq(FileMaps) /\ Len(Shadow(r)) = Len(r)
                           /\ \A i \in 1 .. Len(r) : Shadow(r)[i] = r[i].files
  <2> SUFFICES ASSUME NEW r \in Seq(Snap)
               PROVE  /\ Shadow(r) \in Seq(FileMaps) /\ Len(Shadow(r)) = Len(r)
                      /\ \A i \in 1 .. Len(r) : Shadow(r)[i] = r[i].files
    OBVIOUS
  <2> DEFINE n == Len(r)
             file(i) == r[i].files
  <2>1. n \in Nat /\ DOMAIN r = 1 .. n
    OBVIOUS
  <2>2. \A i \in 1 .. n : r[i] \in Snap
    BY <2>1
  <2>3. \A i \in 1 .. n : file(i) \in FileMaps
    BY <2>2 DEF Snap, FileMaps
  <2>4. Shadow(r) = [i \in 1 .. n |-> file(i)]
    BY <2>1 DEF Shadow
  <2> HIDE DEF n, file
  <2>5. Shadow(r) \in Seq(FileMaps) /\ Len(Shadow(r)) = n /\ \A i \in 1 .. n : Shadow(r)[i] = file(i)
    BY <2>1, <2>3, <2>4
  <2>6. QED BY <2>5 DEF n, file
<1> DEFINE a == Append(s, x)
<1>2. /\ a \in Seq(Snap) /\ Len(a) = Len(s) + 1 /\ Len(s) \in Nat /\ x.files \in FileMaps
      /\ a[Len(s) + 1] = x /\ \A i \in 1 .. Len(s) : a[i] = s[i]
  BY DEF Snap, FileMaps
<1> HIDE DEF a
<1> DEFINE u == Shadow(s)
           v == Shadow(a)
<1>3. /\ u \in Seq(FileMaps) /\ Len(u) = Len(s)
      /\ v \in Seq(FileMaps) /\ Len(v) = Len(s) + 1
      /\ v[Len(s) + 1] = x.files
      /\ \A i \in 1 .. Len(s) : v[i] = u[i]
  BY <1>1, <1>2
<1> HIDE DEF u, v
<1>4. v = Append(u, x.files)
  <2>1. Append(u, x.files) \in Seq(FileMaps) /\ Len(Append(u, x.files)) = Len(v)
    BY <1>2, <1>3
  <2>2. \A i \in 1 .. Len(v) : v[i] = Append(u, x.files)[i]
    BY <1>2, <1>3
  <2>3. QED BY <1>3, <2>1, <2>2, SameSeq
<1>5. u = SubSeq(v, 1, Len(v) - 1)
  <2>1. /\ SubSeq(v, 1, Len(s)) \in Seq(FileMaps) /\ Len(SubSeq(v, 1, Len(s))) = Len(u)
        /\ \A i \in 1 .. Len(u) : SubSeq(v, 1, Len(s))[i] = u[i]
    <3> DEFINE n == Len(s)
    <3>1. n \in Nat /\ Len(u) = n /\ Len(v) = n + 1 /\ \A i \in 1 .. n : v[i] \in FileMaps
      BY <1>2, <1>3
    <3>2. \A i \in 1 .. n : v[i] = u[i]
      BY <1>3
    <3> HIDE DEF n
    <3>3. /\ SubSeq(v, 1, n) \in Seq(FileMaps)
          /\ Len(SubSeq(v, 1, n)) = IF 1 <= n THEN n - 1 + 1 ELSE 0
          /\ \A i \in 1 .. n - 1 + 1 : SubSeq(v, 1, n)[i] = v[1 + i - 1]
      BY <3>1, SubSeqProperties
    <3>4. /\ Len(SubSeq(v, 1, n)) = n
          /\ \A i \in 1 .. n : SubSeq(v, 1, n)[i] = u[i]
      BY <3>1, <3>2, <3>3
    <3>5. QED BY <3>1, <3>3, <3>4 DEF n
  <2>2. u = SubSeq(v, 1, Len(s)) /\ Len(v) - 1 = Len(s)
    BY <1>2, <1>3, <2>1, SameSeq
  <2>3. QED BY <2>2
<1>6. v # <<>>
  BY <1>2, <1>3
<1>7. QED BY <1>3, <1>4, <1>5, <1>6 DEF a, u, v

LEMMA InitStacks == Init => Stack!Init
<1> SUFFICES ASSUME Init PROVE Stack!Init
  OBVIOUS
<1>1. InForce = <<>>
  BY DEF Init, InForce
<1>2. FilesOf(entry) \in [Paths -> Texts \cup {NoFile}]
  BY DEF FilesOf
<1>3. [i \in DOMAIN InForce |-> InForce[i].files] = <<>>
  BY <1>1
<1>4. spoiled = FALSE
  BY DEF Init
<1>5. QED BY <1>2, <1>3, <1>4 DEF Stack!Init

LEMMA AppliedLands ==
  ASSUME Known, Applied
  PROVE  /\ DOMAIN snap.files \in (SUBSET Paths) \ {{}}
         /\ Stack!Land(DOMAIN snap.files)
<1> DEFINE S == DOMAIN snap.files
<1>1. /\ snapshots \in Seq(Snap) /\ snap \in Snap /\ S \in (SUBSET Paths) \ {{}}
      /\ snap.files = Before /\ tree' = tree /\ entry' = tree /\ spoiled' = spoiled
      /\ InForce = snapshots /\ InForce' = Append(snapshots, snap)
      /\ \A p \in Paths \ S : File(tree, p) = File(entry, p)
  BY SnapShape DEF Known, TypeOK, InStep, Applied, Return, InForce
<1>2. Shadow(InForce') = Append(Shadow(InForce), snap.files)
  BY <1>1, ShadowAppend
<1>3. snap.files = [p \in S |-> FilesOf(entry)[p]]
  BY <1>1 DEF Before, FilesOf, File
<1>4. \A p \in Paths \ S : FilesOf(tree)[p] = FilesOf(entry)[p]
  BY <1>1 DEF FilesOf, File
<1>5. FilesOf(tree) \in [Paths -> Texts \cup {NoFile}]
  BY DEF FilesOf
<1> HIDE DEF S
<1>6. Stack!Land(S)
  BY <1>1, <1>2, <1>3, <1>4, <1>5 DEF Stack!Land, Shadow
<1>7. QED BY <1>1, <1>6 DEF S

LEMMA RestoredTakesBack ==
  ASSUME Known, Restored, pc = "revert"
  PROVE  Stack!TakeBack
<1>1. /\ snapshots \in Seq(Snap) /\ snap \in Snap /\ IsTree(tree)
      /\ InForce = Append(snapshots, snap) /\ InForce' = snapshots
      /\ entry' = Prune(tree) /\ spoiled' = spoiled /\ todo = {}
      /\ \A p \in Paths \ DOMAIN snap.files : File(tree, p) = File(entry, p)
      /\ \A p \in DOMAIN snap.files \ todo : File(tree, p) = snap.files[p]
  BY DEF Known, TypeOK, InStep, Restored, Return, InForce
<1>2. /\ Shadow(InForce') = SubSeq(Shadow(InForce), 1, Len(Shadow(InForce)) - 1)
      /\ Shadow(InForce) # <<>> /\ Shadow(InForce)[Len(Shadow(InForce))] = snap.files
  BY <1>1, ShadowAppend
<1>3. \A p \in Paths : File(Prune(tree), p) =
                       IF p \in DOMAIN snap.files THEN snap.files[p] ELSE File(entry, p)
  BY <1>1, PruneFile
<1>4. FilesOf(entry') = [p \in Paths |-> IF p \in DOMAIN snap.files THEN snap.files[p]
                                        ELSE FilesOf(entry)[p]]
  BY <1>1, <1>3 DEF FilesOf, File
<1>5. QED BY <1>1, <1>2, <1>4 DEF Stack!TakeBack, Shadow

LEMMA GivesUpSpoils == ASSUME Known, RestoreGivesUp PROVE Stack!Spoil
<1>1. /\ snapshots \in Seq(Snap) /\ snap \in Snap /\ spoiled' = TRUE
      /\ InForce' = snapshots
      /\ InForce = snapshots \/ InForce = Append(snapshots, snap)
  BY DEF Known, TypeOK, InStep, RestoreGivesUp, Return, InForce
<1>2. FilesOf(entry') \in [Paths -> Texts \cup {NoFile}]
  BY DEF FilesOf
<1>3. \/ Shadow(InForce') = Shadow(InForce)
      \/ /\ Shadow(InForce) # <<>>
         /\ Shadow(InForce') = SubSeq(Shadow(InForce), 1, Len(Shadow(InForce)) - 1)
  BY <1>1, ShadowAppend
<1>4. QED BY <1>1, <1>2, <1>3 DEF Stack!Spoil, Shadow

LEMMA ForgetSettles == ASSUME Known, Forget PROVE Stack!Settle
<1>1. InForce' = <<>> /\ entry' = entry /\ spoiled' = spoiled
  BY DEF Forget, InForce
<1>2. [i \in DOMAIN InForce' |-> InForce'[i].files] = <<>>
  BY <1>1
<1>3. QED BY <1>1, <1>2 DEF Stack!Settle

LEMMA ElsewhereIsElsewhere ==
  ASSUME Known, NEW p \in Paths, NEW text \in Texts \cup {NoFile}, Elsewhere(p, text)
  PROVE  Stack!Elsewhere(p, text)
<1>1. \A q \in Paths : File(tree', q) = IF q = p THEN text ELSE File(tree, q)
  <2>1. IsTree(tree) /\ tree[p] # Dir
    BY DEF Known, TypeOK, Elsewhere
  <2>2. CASE text # NoFile
    BY <2>1, <2>2, PutFile DEF Elsewhere
  <2>3. CASE text = NoFile
    BY <2>1, <2>3, DropFile DEF Elsewhere
  <2>4. QED BY <2>2, <2>3
<1>2. entry' = tree' /\ entry = tree /\ InForce' = InForce /\ spoiled' = spoiled
  BY DEF Known, InStep, Elsewhere, InForce, call
<1>3. FilesOf(entry') = [FilesOf(entry) EXCEPT ![p] = text]
  BY <1>1, <1>2 DEF FilesOf, File
<1>4. QED BY <1>2, <1>3 DEF Stack!Elsewhere

(* The other steps of a call, and a call that is refused, are none of the   *)
(* stack's.                                                                 *)
LEMMA QuietSteps ==
  ASSUME Known, FilesOf(entry') = FilesOf(entry), InForce' = InForce, spoiled' = spoiled
  PROVE  UNCHANGED Stack!vars
BY DEF Stack!vars

LEMMA StepStacks == Known /\ [Next]_vars => [Stack!Next]_(Stack!vars)
<1> SUFFICES ASSUME Known, [Next]_vars PROVE Stack!Next \/ UNCHANGED Stack!vars
  OBVIOUS
<1>1. CASE UNCHANGED vars
  BY <1>1, QuietSteps DEF vars, call, InForce
<1>2. CASE \E p \in Patches : TakeSnapshot(p)
  BY <1>2, QuietSteps DEF TakeSnapshot, InForce
<1>3. CASE StartBackend \/ WriteFile \/ BackendFails
  BY <1>3, QuietSteps DEF StartBackend, WriteFile, BackendFails, InForce
<1>4. CASE Applied
  <2> DEFINE S == DOMAIN snap.files
  <2>1. S \in (SUBSET Paths) \ {{}} /\ Stack!Land(S)
    BY <1>4, AppliedLands
  <2> HIDE DEF S
  <2>2. \E T \in (SUBSET Paths) \ {{}} : Stack!Land(T)
    BY <2>1 DEF Stack!Land
  <2>3. QED BY <2>2 DEF Stack!Next
<1>5. CASE Revert
  <2>1. Append(Front(snapshots), Last(snapshots)) = snapshots
    BY <1>5, LastFront DEF Known, TypeOK, Revert
  <2>2. InForce' = InForce
    BY <1>5, <2>1 DEF Revert, InForce
  <2>3. QED BY <1>5, <2>2, QuietSteps DEF Revert
<1>6. CASE RestoreFile
  BY <1>6, QuietSteps DEF RestoreFile, InForce
<1>7. CASE Restored
  <2>1. CASE pc = "revert"
    BY <1>7, <2>1, RestoredTakesBack DEF Stack!Next
  <2>2. CASE pc = "undo"
    <3>1. FilesOf(tree') = FilesOf(entry)
      BY <1>7, <2>2, BackAsItWas
    <3>2. entry' = tree' /\ InForce' = InForce /\ spoiled' = spoiled
      BY <1>7, <2>2 DEF Restored, Return, InForce
    <3>3. QED BY <3>1, <3>2, QuietSteps
  <2>3. QED BY <1>7, <2>1, <2>2 DEF Restored
<1>8. CASE RestoreGivesUp
  BY <1>8, GivesUpSpoils DEF Stack!Next
<1>9. CASE Forget
  BY <1>9, ForgetSettles DEF Stack!Next
<1>10. CASE \E p \in Paths, text \in Texts \cup {NoFile} : Elsewhere(p, text)
  BY <1>10, ElsewhereIsElsewhere DEF Stack!Next
<1>11. QED
  BY <1>1, <1>2, <1>3, <1>4, <1>5, <1>6, <1>7, <1>8, <1>9, <1>10 DEF Next

(* Applying and reverting, write by write and with the faults of a disk,    *)
(* are a stack of patches that land whole and are taken back newest first.  *)
THEOREM ImplementsTheStack == Spec => ImplementsStack
BY InitKnows, StepKnows, InitStacks, StepStacks, PTL DEF Spec, ImplementsStack, Stack!Spec

-----------------------------------------------------------------------------
(* Starting over.  What the directories of a call have been through: only   *)
(* git removes one, and restoring makes none that the call has not seen.    *)
Kept ==
  /\ pc = "revert" =>
       /\ \A q \in Paths : entry[q] = Dir => tree[q] = Dir
       /\ \A q \in DOMAIN Parent : tree[q] = Dir => entry[q] = Dir
  /\ backend = "python" =>
       /\ \A q \in Paths : entry[q] = Dir => tree[q] = Dir
       /\ \A i \in DOMAIN plan : ~plan[i].tidy

(* A directory that git has emptied is one it is about to write to: a file  *)
(* that is changed in place is removed first and written later.             *)
Rewritten ==
  pc = "write" /\ backend = "git" =>
    \A i \in DOMAIN plan :
      plan[i].path # "none" /\ plan[i].text = NoFile /\ ~plan[i].tidy =>
        \E j \in DOMAIN plan :
          j > i /\ plan[j].path = plan[i].path /\ plan[j].text # NoFile

Refilled ==
  pc = "write" /\ backend = "git" /\ NoEmptyDir(entry) =>
    \A q \in Paths : IsEmptyDir(tree, q) =>
      \E i \in DOMAIN plan : plan[i].path \in Children(q) /\ plan[i].text # NoFile

LEMMA Restoring ==
  ASSUME Known, RestoreFile
  PROVE  /\ \A q \in Paths : tree[q] = Dir => tree'[q] = Dir
         /\ \A q \in DOMAIN Parent : tree'[q] = Dir => tree[q] = Dir
<1>1. PICK p \in todo :
        /\ CanRestore(tree, p)
        /\ tree' = IF snap.files[p] = NoFile THEN Drop(tree, p) ELSE Put(tree, p, snap.files[p])
  BY DEF RestoreFile
<1>2. /\ p \in Paths /\ snap.files[p] \in Texts \cup {NoFile}
      /\ IsTree(tree) /\ tree[p] # Dir /\ DOMAIN Parent \subseteq Paths
  BY <1>1, SnapShape, PathsAssumption DEF Known, TypeOK, CanRestore
<1>3. CASE snap.files[p] = NoFile
  BY <1>1, <1>2, <1>3, Marks DEF Drop, IsTree
<1>4. CASE snap.files[p] # NoFile
  <2>1. snap.files[p] \in Texts /\ Room(tree, p) /\ tree' = Put(tree, p, snap.files[p])
    BY <1>1, <1>2, <1>4 DEF CanRestore
  <2>2. \A q \in DOMAIN Parent : tree'[q] = Dir => tree[q] = Dir
    BY <1>2, <2>1, PutFile
  <2>3. \A q \in Paths : tree[q] = Dir => tree'[q] = Dir
    BY <1>2, <2>1 DEF Put
  <2>4. QED BY <2>2, <2>3
<1>5. QED BY <1>3, <1>4

LEMMA PythonPlans ==
  ASSUME NEW p \in Diff
  PROVE  \A i \in DOMAIN PythonPlan(p) : ~PythonPlan(p)[i].tidy
BY DEF PythonPlan

LEMMA WritingKept ==
  ASSUME Known, Kept, WriteFile, backend = "python"
  PROVE  /\ \A q \in Paths : tree[q] = Dir => tree'[q] = Dir
         /\ \A i \in DOMAIN plan' : ~plan'[i].tidy
<1>1. PICK k \in DOMAIN plan :
        /\ plan[k].path # "none" /\ CanMake(backend, tree, plan[k])
        /\ tree' = Make(tree, plan[k]) /\ plan' = SubSeq(plan, k + 1, Len(plan))
  BY DEF WriteFile
<1>2. plan \in Seq(Write) /\ IsTree(tree) /\ ~plan[k].tidy
  BY <1>1 DEF Known, TypeOK, Kept
<1>3. \A i \in DOMAIN plan' : k + i \in DOMAIN plan /\ plan'[i] = plan[k + i]
  BY <1>1, <1>2
<1>4. \A i \in DOMAIN plan' : ~plan'[i].tidy
  BY <1>3 DEF Kept
<1> DEFINE w == plan[k]
<1> HIDE DEF w
<1>5. CanMake("python", tree, w) /\ tree' = Make(tree, w) /\ ~w.tidy
  BY <1>1, <1>2 DEF w
<1>6. tree[w.path] # Dir
  BY <1>5 DEF CanMake
<1>7. \A q \in Paths : tree[q] = Dir => tree'[q] = Dir
  <2>1. CASE w.text # NoFile
    <3>1. tree' = Put(tree, w.path, w.text)
      BY <1>5, <2>1 DEF Make
    <3>2. QED BY <3>1, <1>6 DEF Put
  <2>2. CASE w.text = NoFile
    <3>1. tree' = Drop(tree, w.path)
      BY <1>5, <2>2 DEF Make
    <3>2. QED BY <3>1, <1>2, <1>6 DEF Drop, IsTree
  <2>3. QED BY <2>1, <2>2
<1>8. QED BY <1>4, <1>7

LEMMA KeptStep == Known /\ Known' /\ Kept /\ [Next]_vars => Kept'
<1> SUFFICES ASSUME Known, Known', Kept, [Next]_vars PROVE Kept'
  OBVIOUS
<1>1. CASE UNCHANGED vars
  BY <1>1 DEF Kept, vars, call
<1>2. CASE \E p \in Patches : TakeSnapshot(p)
  BY <1>2 DEF Kept, TakeSnapshot
<1>3. CASE StartBackend
  <2>1. backend = "python" => plan' = PythonPlan(patch) /\ patch \in Diff
    BY <1>3 DEF StartBackend, BackendPlan, Known, TypeOK, Diff
  <2>2. backend = "python" => \A i \in DOMAIN plan' : ~plan'[i].tidy
    BY <2>1, PythonPlans
  <2>3. QED BY <1>3, <2>2 DEF Kept, StartBackend
<1>4. CASE WriteFile
  <2>1. pc' # "revert" /\ backend' = backend /\ entry' = entry
    BY <1>4 DEF WriteFile
  <2>2. QED BY <1>4, <2>1, WritingKept DEF Kept
<1>5. CASE BackendFails
  BY <1>5 DEF Kept, BackendFails
<1>6. CASE Applied \/ Restored \/ RestoreGivesUp
  <2>1. pc' = "ready" /\ entry' = tree' /\ plan' = <<>>
    BY <1>6 DEF Applied, Restored, RestoreGivesUp, Return
  <2>2. QED BY <2>1 DEF Kept
<1>7. CASE Revert
  <2>1. tree' = entry' /\ plan' = <<>>
    BY <1>7 DEF Revert, Known, InStep
  <2>2. QED BY <2>1 DEF Kept
<1>8. CASE RestoreFile
  <2>1. pc' = pc /\ entry' = entry /\ backend' = backend /\ plan' = plan
    BY <1>8 DEF RestoreFile
  <2>2. QED BY <1>8, <2>1, Restoring DEF Kept
<1>9. CASE Forget
  BY <1>9 DEF Kept, Forget, call
<1>10. CASE \E p \in Paths, text \in Texts \cup {NoFile} : Elsewhere(p, text)
  <2>1. pc' = "ready" /\ entry' = tree' /\ plan' = <<>>
    BY <1>10 DEF Elsewhere, call, Known, InStep
  <2>2. QED BY <2>1 DEF Kept
<1>11. QED
  BY <1>1, <1>2, <1>3, <1>4, <1>5, <1>6, <1>7, <1>8, <1>9, <1>10 DEF Next

LEMMA GitPlans ==
  ASSUME NEW p \in Diff
  PROVE  LET n == Len(p.sections)
             P == GitPlan(p)
         IN  /\ n \in Nat /\ DOMAIN p.sections = 1 .. n /\ DOMAIN P = 1 .. n + n
             /\ \A i \in 1 .. n :
                  /\ P[i] = [path |-> p.sections[i].old, text |-> NoFile,
                             tidy |-> p.sections[i].old # p.sections[i].new]
                  /\ P[n + i] = [path |-> p.sections[i].new, text |-> p.sections[i].post,
                                 tidy |-> FALSE]
<1> DEFINE n == Len(p.sections)
           removal(i) == [path |-> p.sections[i].old, text |-> NoFile,
                          tidy |-> p.sections[i].old # p.sections[i].new]
           write(i) == [path |-> p.sections[i].new, text |-> p.sections[i].post, tidy |-> FALSE]
           removals == [i \in 1 .. n |-> removal(i)]
           writes == [i \in 1 .. n |-> write(i)]
<1>1. n \in Nat /\ DOMAIN p.sections = 1 .. n
  BY DEF Diff
<1>2. GitPlan(p) = removals \o writes
  BY <1>1 DEF GitPlan
<1> HIDE DEF n, removal, write
<1>3. /\ Len(removals) = n /\ Len(writes) = n /\ DOMAIN (removals \o writes) = 1 .. n + n
      /\ \A i \in 1 .. n : (removals \o writes)[i] = removal(i)
      /\ \A i \in 1 .. n : (removals \o writes)[n + i] = write(i)
  BY <1>1
<1>4. QED BY <1>1, <1>2, <1>3 DEF n, removal, write

LEMMA GitRewrites ==
  ASSUME NEW p \in Diff
  PROVE  LET P == GitPlan(p)
         IN  \A i \in DOMAIN P :
               P[i].path # "none" /\ P[i].text = NoFile /\ ~P[i].tidy =>
                 \E j \in DOMAIN P : j > i /\ P[j].path = P[i].path /\ P[j].text # NoFile
<1> DEFINE n == Len(p.sections)
           P == GitPlan(p)
<1> DEFINE secs == p.sections
<1>1. /\ n \in Nat /\ DOMAIN P = 1 .. n + n /\ DOMAIN secs = 1 .. n
      /\ \A i \in 1 .. n :
           /\ P[i] = [path |-> secs[i].old, text |-> NoFile, tidy |-> secs[i].old # secs[i].new]
           /\ P[n + i] = [path |-> secs[i].new, text |-> secs[i].post, tidy |-> FALSE]
  BY GitPlans
<1>2. \A i \in DOMAIN secs : secs[i].post # NoFile
  BY SectionOf, Marks
<1> HIDE DEF n, P, secs
<1>3. /\ n \in Nat /\ DOMAIN P = 1 .. n + n
      /\ \A i \in 1 .. n :
           /\ P[i].path = secs[i].old /\ (~P[i].tidy => secs[i].old = secs[i].new)
           /\ P[n + i].path = secs[i].new /\ P[n + i].text # NoFile
  <2> SUFFICES ASSUME NEW i \in 1 .. n
               PROVE  /\ P[i].path = secs[i].old /\ (~P[i].tidy => secs[i].old = secs[i].new)
                      /\ P[n + i].path = secs[i].new /\ P[n + i].text # NoFile
    BY <1>1
  <2>1. /\ P[i] = [path |-> secs[i].old, text |-> NoFile, tidy |-> secs[i].old # secs[i].new]
        /\ P[n + i] = [path |-> secs[i].new, text |-> secs[i].post, tidy |-> FALSE]
        /\ secs[i].post # NoFile
    BY <1>1, <1>2
  <2>2. P[i].path = secs[i].old /\ P[n + i].path = secs[i].new /\ P[n + i].text # NoFile
    BY <2>1
  <2>3. ASSUME secs[i].old # secs[i].new PROVE P[i].tidy
    <3>1. P[i] = [path |-> secs[i].old, text |-> NoFile, tidy |-> TRUE]
      BY <2>1, <2>3, Zenon
    <3>2. QED BY <3>1
  <2>4. QED BY <2>2, <2>3
<1> SUFFICES ASSUME NEW i \in DOMAIN P, P[i].text = NoFile, ~P[i].tidy
             PROVE  \E j \in DOMAIN P : j > i /\ P[j].path = P[i].path /\ P[j].text # NoFile
  BY DEF P
<1>4. i \in 1 .. n
  <2>1. ASSUME i \notin 1 .. n PROVE FALSE
    <3>1. i - n \in 1 .. n /\ i = n + (i - n)
      BY <1>3, <2>1
    <3>2. QED BY <1>3, <3>1
  <2>2. QED BY <2>1
<1>5. n + i \in DOMAIN P /\ n + i > i
  BY <1>3, <1>4
<1>6. P[n + i].path = P[i].path /\ P[n + i].text # NoFile
  BY <1>3, <1>4
<1>7. QED BY <1>5, <1>6

(* What a write leaves of the plan, as facts about the plan that was.       *)
LEMMA PlanSuffix ==
  ASSUME Known, WriteFile
  PROVE  \E k \in DOMAIN plan :
           /\ plan[k].path \in Paths /\ plan[k] \in Write /\ CanMake(backend, tree, plan[k])
           /\ tree' = Make(tree, plan[k])
           /\ \A j \in DOMAIN plan : j < k => plan[j].path = "none"
           /\ \A j \in DOMAIN plan : j > k => j - k \in DOMAIN plan' /\ plan'[j - k] = plan[j]
           /\ \A i \in DOMAIN plan' : k + i \in DOMAIN plan /\ plan'[i] = plan[k + i]
           /\ DOMAIN plan \subseteq Nat /\ DOMAIN plan' \subseteq Nat \ {0}
<1>1. PICK k \in DOMAIN plan :
        /\ plan[k].path # "none" /\ CanMake(backend, tree, plan[k]) /\ Skips(k - 1)
        /\ tree' = Make(tree, plan[k]) /\ plan' = SubSeq(plan, k + 1, Len(plan))
  BY DEF WriteFile
<1>2. plan \in Seq(Write) /\ plan[k] \in Write /\ plan[k].path \in Paths
  <2>1. plan \in Seq(Write)
    BY DEF Known, TypeOK
  <2>2. plan[k] \in Write
    BY <2>1
  <2>3. QED BY <1>1, <2>1, <2>2 DEF Write, MaybePaths
<1>3. k \in Nat \ {0} /\ k <= Len(plan) /\ Len(plan) \in Nat /\ DOMAIN plan = 1 .. Len(plan)
  BY <1>2
<1>4. \A j \in DOMAIN plan : j < k => plan[j].path = "none"
  BY <1>1, <1>3 DEF Skips
<1>5. /\ DOMAIN plan' = 1 .. Len(plan) - k
      /\ \A i \in 1 .. Len(plan) - k : plan'[i] = plan[k + i]
  <2> DEFINE m == k + 1
             n == Len(plan)
  <2>1. m \in Nat \ {0} /\ n \in Nat /\ \A i \in m .. n : plan[i] \in Write
    BY <1>2, <1>3
  <2>2. plan' = SubSeq(plan, m, n)
    BY <1>1
  <2> HIDE DEF m, n
  <2>3. /\ SubSeq(plan, m, n) \in Seq(Write)
        /\ Len(SubSeq(plan, m, n)) = IF m <= n THEN n - m + 1 ELSE 0
        /\ \A i \in 1 .. n - m + 1 : SubSeq(plan, m, n)[i] = plan[m + i - 1]
    BY <2>1, SubSeqProperties
  <2>4. Len(plan') = Len(plan) - k /\ DOMAIN plan' = 1 .. Len(plan')
    BY <1>3, <2>2, <2>3 DEF m, n
  <2>5. \A i \in 1 .. Len(plan) - k : plan'[i] = plan[k + i]
    BY <1>3, <2>2, <2>3 DEF m, n
  <2>6. QED BY <2>4, <2>5
<1> HIDE DEF Known
<1>6. \A j \in DOMAIN plan : j > k => j - k \in DOMAIN plan' /\ plan'[j - k] = plan[j]
  BY <1>3, <1>5
<1>7. \A i \in DOMAIN plan' : k + i \in DOMAIN plan /\ plan'[i] = plan[k + i]
  BY <1>3, <1>5
<1>8. DOMAIN plan \subseteq Nat /\ DOMAIN plan' \subseteq Nat \ {0}
  BY <1>3, <1>5
<1>9. plan[k].path \in Paths /\ plan[k] \in Write /\ CanMake(backend, tree, plan[k])
  BY <1>1, <1>2
<1>10. tree' = Make(tree, plan[k])
  BY <1>1
<1>11. QED BY <1>4, <1>6, <1>7, <1>8, <1>9, <1>10, Zenon

LEMMA WritingRewrites ==
  ASSUME Known, Rewritten, WriteFile, backend = "git"
  PROVE  Rewritten'
<1>1. PICK k \in DOMAIN plan :
        /\ \A j \in DOMAIN plan : j > k => j - k \in DOMAIN plan' /\ plan'[j - k] = plan[j]
        /\ \A i \in DOMAIN plan' : k + i \in DOMAIN plan /\ plan'[i] = plan[k + i]
        /\ DOMAIN plan \subseteq Nat /\ DOMAIN plan' \subseteq Nat \ {0}
  BY PlanSuffix
<1> SUFFICES ASSUME NEW i \in DOMAIN plan', plan'[i].path # "none", plan'[i].text = NoFile,
                    ~plan'[i].tidy
             PROVE  \E j \in DOMAIN plan' :
                      j > i /\ plan'[j].path = plan'[i].path /\ plan'[j].text # NoFile
  BY DEF Rewritten
<1>2. pc = "write"
  BY DEF WriteFile
<1>3. PICK j \in DOMAIN plan :
        j > k + i /\ plan[j].path = plan[k + i].path /\ plan[j].text # NoFile
  BY <1>1, <1>2 DEF Rewritten
<1>4. j - k \in DOMAIN plan' /\ plan'[j - k] = plan[j] /\ j - k > i
  BY <1>1, <1>3
<1>5. QED BY <1>1, <1>3, <1>4

LEMMA WritingRefills ==
  ASSUME Known, Rewritten, Refilled, WriteFile, backend = "git", NoEmptyDir(entry)
  PROVE  Refilled'
<1>1. PICK k \in DOMAIN plan :
        /\ plan[k].path \in Paths /\ plan[k] \in Write /\ CanMake(backend, tree, plan[k])
        /\ tree' = Make(tree, plan[k])
        /\ \A j \in DOMAIN plan : j < k => plan[j].path = "none"
        /\ \A j \in DOMAIN plan : j > k => j - k \in DOMAIN plan' /\ plan'[j - k] = plan[j]
        /\ DOMAIN plan \subseteq Nat
  BY PlanSuffix
<1>2. pc = "write" /\ IsTree(tree) /\ DOMAIN Parent \subseteq Paths /\ "none" \notin Paths
  BY PathsAssumption DEF WriteFile, Known, TypeOK
<1> DEFINE w == plan[k]
           p == w.path
<1> SUFFICES ASSUME NEW q \in Paths, IsEmptyDir(tree', q)
             PROVE  \E j \in DOMAIN plan :
                      j > k /\ plan[j].path \in Children(q) /\ plan[j].text # NoFile
  <2>1. \A j \in DOMAIN plan : j > k => j - k \in DOMAIN plan' /\ plan'[j - k] = plan[j]
    BY <1>1
  <2>2. QED BY <2>1 DEF Refilled, Children
<1>3. CASE w.text # NoFile
  <2>1. tree' = Put(tree, p, w.text) /\ w.text \in Texts
    BY <1>1, <1>3 DEF Make, Write
  <2>2. q # p /\ ~(p \in DOMAIN Parent /\ q = Parent[p])
    BY <1>1, <2>1, Marks DEF Put, IsEmptyDir, Children
  <2>3. tree[q] = Dir
    BY <2>1, <2>2 DEF Put, IsEmptyDir
  <2>4. \A c \in Children(q) : c # p /\ tree[c] = NoFile
    <3> SUFFICES ASSUME NEW c \in DOMAIN Parent, Parent[c] = q PROVE c # p /\ tree[c] = NoFile
      BY DEF Children
    <3>1. c \in Paths /\ tree'[c] = NoFile
      BY <1>2 DEF IsEmptyDir, Children
    <3>2. c # p
      BY <2>2
    <3>3. QED BY <2>1, <3>1, <3>2, Marks DEF Put
  <2>5. IsEmptyDir(tree, q)
    BY <2>3, <2>4 DEF IsEmptyDir
  <2>6. PICK i \in DOMAIN plan : plan[i].path \in Children(q) /\ plan[i].text # NoFile
    BY <1>2, <2>5 DEF Refilled
  <2>7. i > k
    BY <1>1, <1>2, <2>4, <2>6 DEF Children
  <2>8. QED BY <2>6, <2>7
<1>4. CASE w.text = NoFile
  <2>1. tree[p] # Dir
    BY <1>1, <1>4 DEF CanMake
  <2> DEFINE d == Drop(tree, p)
  <2>2. /\ \A c \in Paths : d[c] = IF c = p THEN NoFile ELSE tree[c]
        /\ w.tidy => tree' = DropAndTidy(tree, p)
        /\ ~w.tidy => tree' = d
    BY <1>1, <1>2, <1>4 DEF Make, Drop, IsTree
  <2> HIDE DEF d
  <2>3. d[q] = Dir /\ \A c \in Children(q) : d[c] = NoFile
    <3>1. CASE ~w.tidy
      BY <2>2, <3>1 DEF IsEmptyDir
    <3>2. CASE w.tidy
      <4>1. tree' = [r \in Paths |-> IF p \in DOMAIN Parent /\ r = Parent[p] /\ IsEmptyDir(d, r)
                                     THEN NoFile ELSE d[r]]
        BY <2>2, <3>2 DEF DropAndTidy, d
      <4>2. d[q] = Dir /\ ~(p \in DOMAIN Parent /\ q = Parent[p] /\ IsEmptyDir(d, q))
        BY <4>1, Marks DEF IsEmptyDir
      <4>3. \A c \in Children(q) : d[c] = NoFile
        <5> SUFFICES ASSUME NEW c \in DOMAIN Parent, Parent[c] = q PROVE d[c] = NoFile
          BY DEF Children
        <5>1. c \in Paths /\ tree'[c] = NoFile
          BY <1>2 DEF IsEmptyDir, Children
        <5>2. c # Parent[p] \/ p \notin DOMAIN Parent
          BY PathsAssumption
        <5>3. QED BY <4>1, <5>1, <5>2
      <4>4. QED BY <4>2, <4>3
    <3>3. QED BY <3>1, <3>2
  <2>4. q # p /\ tree[q] = Dir
    BY <2>1, <2>2, <2>3, Marks
  <2>5. CASE \E i \in DOMAIN plan : plan[i].path \in Children(q) /\ plan[i].text # NoFile
    <3>1. PICK i \in DOMAIN plan : plan[i].path \in Children(q) /\ plan[i].text # NoFile
      BY <2>5
    <3>2. plan[i].path # "none" /\ i # k
      BY <1>2, <1>4, <3>1 DEF Children
    <3>3. i > k
      BY <1>1, <3>2
    <3>4. QED BY <3>1, <3>3
  <2>6. CASE ~IsEmptyDir(tree, q)
    <3>1. p \in Children(q)
      <4>1. PICK c \in Children(q) : tree[c] # NoFile
        BY <2>4, <2>6 DEF IsEmptyDir
      <4>2. c \in Paths
        BY <1>2 DEF Children
      <4>3. QED BY <2>2, <2>3, <4>1, <4>2
    <3>2. ~w.tidy
      <4>1. ASSUME w.tidy PROVE FALSE
        <5>1. p \in DOMAIN Parent /\ q = Parent[p] /\ IsEmptyDir(d, q)
          BY <2>3, <3>1 DEF Children, IsEmptyDir
        <5>2. tree'[q] = NoFile
          BY <2>2, <4>1, <5>1 DEF DropAndTidy, d
        <5>3. QED BY <5>2, Marks DEF IsEmptyDir
      <4>2. QED BY <4>1
    <3>3. PICK j \in DOMAIN plan : j > k /\ plan[j].path = p /\ plan[j].text # NoFile
      BY <1>1, <1>2, <1>4, <3>2 DEF Rewritten
    <3>4. QED BY <3>1, <3>3
  <2>7. QED BY <1>2, <2>5, <2>6 DEF Refilled
<1>5. QED BY <1>3, <1>4

LEMMA PlanStep ==
  Known /\ Rewritten /\ Refilled /\ [Next]_vars => (Rewritten /\ Refilled)'
<1> SUFFICES ASSUME Known, Rewritten, Refilled, [Next]_vars PROVE (Rewritten /\ Refilled)'
  OBVIOUS
<1>1. CASE UNCHANGED vars
  BY <1>1 DEF Rewritten, Refilled, vars, call
<1>2. CASE StartBackend
  <2>1. /\ backend' = backend /\ entry' = entry /\ tree' = entry /\ patch \in Diff
        /\ backend = "git" => plan' = GitPlan(patch)
    BY <1>2 DEF StartBackend, BackendPlan, Known, TypeOK, InStep, Diff
  <2>2. Rewritten'
    BY <2>1, GitRewrites DEF Rewritten
  <2>3. Refilled'
    BY <2>1 DEF Refilled, NoEmptyDir
  <2>4. QED BY <2>2, <2>3
<1>3. CASE WriteFile
  <2>1. backend' = backend /\ entry' = entry
    BY <1>3 DEF WriteFile
  <2>2. Rewritten'
    BY <1>3, <2>1, WritingRewrites DEF Rewritten
  <2>3. CASE backend = "git" /\ NoEmptyDir(entry)
    BY <1>3, <2>2, <2>3, WritingRefills
  <2>4. CASE ~(backend = "git" /\ NoEmptyDir(entry))
    <3>1. (NoEmptyDir(entry))' <=> NoEmptyDir(entry)
      BY <2>1 DEF NoEmptyDir, IsEmptyDir, Children
    <3>2. QED BY <2>1, <2>2, <2>4, <3>1 DEF Refilled
  <2>5. QED BY <2>2, <2>3, <2>4
<1>4. ASSUME Next, ~StartBackend, ~WriteFile PROVE pc' # "write"
  BY <1>4 DEF Next, TakeSnapshot, BackendFails, Applied, Restored, RestoreGivesUp, Return,
       Revert, RestoreFile, Forget, Elsewhere, call
<1>5. QED BY <1>1, <1>2, <1>3, <1>4 DEF Rewritten, Refilled

(* The trees that the patches in force have been applied to, oldest first,  *)
(* can all be got back: each snapshot undoes one patch, file by file, and   *)
(* where nothing but files has been lost, directory by directory too.       *)
Undoes(s, b, a) ==
  /\ s.files = [q \in DOMAIN s.files |-> File(b, q)]
  /\ \A q \in Paths \ DOMAIN s.files : File(a, q) = File(b, q)

UndoesDirs(by, s, b, a) ==
  /\ s.dirs = DirsOf(b)
  /\ \A q \in DOMAIN Parent : a[q] = Dir => b[q] = Dir
  /\ by = "python" => \A q \in Paths : b[q] = Dir => a[q] = Dir

Exact(by, first) == by = "python" \/ NoEmptyDir(first)

PastFiles(H, stack, first, now) ==
  LET n == Len(stack)
  IN  /\ \A j \in 0 .. n : IsTree(H[j])
      /\ FilesOf(H[0]) = FilesOf(first) /\ FilesOf(H[n]) = FilesOf(now)
      /\ \A j \in 1 .. n : Undoes(stack[j], H[j - 1], H[j])

PastDirs(H, by, stack, first, now) ==
  LET n == Len(stack)
  IN  /\ H[0] = first /\ H[n] = now
      /\ \A j \in 1 .. n : UndoesDirs(by, stack[j], H[j - 1], H[j])
      /\ by = "git" => \A j \in 0 .. n : NoEmptyDir(H[j])

Past(by, stack, first, now) ==
  \E H \in [0 .. Len(stack) -> [Paths -> Entries]] :
    /\ PastFiles(H, stack, first, now)
    /\ Exact(by, first) => PastDirs(H, by, stack, first, now)

HasPast == elsewhere = 0 /\ ~spoiled => Past(backend, InForce, original, entry)

LEMMA SameFile ==
  ASSUME NEW t, NEW u, FilesOf(t) = FilesOf(u), NEW q \in Paths
  PROVE  File(t, q) = File(u, q)
<1>1. FilesOf(t)[q] = FilesOf(u)[q]
  OBVIOUS
<1>2. QED BY <1>1 DEF FilesOf, File

(* Restoring every file brings the directories back as well: pruning takes  *)
(* away those that are new, and a file brings the one above it.             *)
LEMMA WholeTreeBack ==
  ASSUME NEW b, IsTree(b), NEW t, IsTree(t), \A q \in Paths : File(t, q) = File(b, q),
         snap.dirs = DirsOf(b),
         \A q \in DOMAIN Parent : t[q] = Dir => b[q] = Dir,
         NoEmptyDir(b) \/ \A q \in Paths : b[q] = Dir => t[q] = Dir
  PROVE  Prune(t) = b
<1>1. DOMAIN Parent \subseteq Paths /\ b \in [Paths -> Entries] /\ t \in [Paths -> Entries]
  BY PathsAssumption DEF IsTree
<1>2. \A q \in Paths : /\ t[q] \in Texts \/ t[q] = NoFile \/ t[q] = Dir
                       /\ b[q] \in Texts \/ b[q] = NoFile \/ b[q] = Dir
  BY <1>1 DEF Entries
<1>3. \A q \in Paths : t[q] \in Texts \/ b[q] \in Texts => t[q] = b[q]
  BY Marks DEF File
<1>4. ASSUME NEW q \in Paths, b[q] = Dir PROVE t[q] = Dir
  <2>1. CASE NoEmptyDir(b)
    <3>1. PICK c \in DOMAIN Parent : Parent[c] = q /\ b[c] # NoFile
      BY <1>4, <2>1 DEF NoEmptyDir, IsEmptyDir, Children
    <3>2. c \in Paths /\ b[c] # Dir
      <4>1. c \in Paths /\ ~IsEmptyDir(b, c)
        BY <1>1, <2>1, <3>1 DEF NoEmptyDir
      <4>2. Children(c) = {}
        BY <3>1, PathsAssumption DEF Children
      <4>3. QED BY <4>1, <4>2 DEF IsEmptyDir
    <3>3. t[c] # NoFile
      BY <1>2, <1>3, <3>1, <3>2, Marks
    <3>4. QED BY <3>1, <3>3 DEF IsTree
  <2>2. QED BY <1>4, <2>1
<1>5. ASSUME NEW q \in Paths, t[q] = Dir, ~IsEmptyDir(t, q) PROVE b[q] = Dir
  <2>1. PICK c \in DOMAIN Parent : Parent[c] = q /\ t[c] # NoFile
    BY <1>5 DEF IsEmptyDir, Children
  <2>2. b[c] # NoFile
    <3>1. c \in Paths
      BY <1>1, <2>1
    <3>2. CASE t[c] = Dir
      BY <2>1, <3>2, Marks
    <3>3. CASE t[c] # Dir
      BY <1>2, <1>3, <2>1, <3>1, <3>3, Marks
    <3>4. QED BY <3>2, <3>3
  <2>3. QED BY <2>1, <2>2 DEF IsTree
<1>6. ASSUME NEW q \in Paths PROVE Prune(t)[q] = b[q]
  <2>1. Prune(t)[q] = IF IsEmptyDir(t, q) /\ q \notin DirsOf(b) THEN NoFile ELSE t[q]
    BY DEF Prune
  <2>2. q \in DirsOf(b) <=> b[q] = Dir
    BY DEF DirsOf
  <2>3. IsEmptyDir(t, q) => t[q] = Dir
    BY DEF IsEmptyDir
  <2>4. CASE b[q] = Dir
    BY <1>4, <2>1, <2>2, <2>4
  <2>5. CASE b[q] \in Texts
    BY <1>3, <2>1, <2>3, <2>5, Marks
  <2>6. CASE b[q] = NoFile
    <3>1. CASE t[q] = Dir
      BY <1>5, <2>1, <2>2, <2>6, <3>1, Marks
    <3>2. CASE t[q] # Dir
      BY <1>2, <1>3, <2>1, <2>3, <2>6, <3>2, Marks
    <3>3. QED BY <3>1, <3>2
  <2>7. QED BY <1>2, <2>4, <2>5, <2>6
<1>7. Prune(t) \in [Paths -> Entries]
  BY PruneFile DEF IsTree
<1>8. QED BY <1>1, <1>6, <1>7

(* A patch that lands adds its tree to the past, ...                        *)
LEMMA PushPast ==
  ASSUME NEW by, NEW stack \in Seq(Snap), NEW s \in Snap, NEW first,
         NEW now, IsTree(now), NEW t, IsTree(t), Past(by, stack, first, now),
         Undoes(s, now, t), UndoesDirs(by, s, now, t),
         by = "git" /\ NoEmptyDir(now) => NoEmptyDir(t)
  PROVE  Past(by, Append(stack, s), first, t)
<1>1. PICK H \in [0 .. Len(stack) -> [Paths -> Entries]] :
        /\ PastFiles(H, stack, first, now)
        /\ Exact(by, first) => PastDirs(H, by, stack, first, now)
  BY DEF Past
<1> DEFINE n == Len(stack)
           more == Append(stack, s)
           G == [j \in 0 .. n + 1 |-> IF j = n + 1 THEN t ELSE H[j]]
<1>2. /\ n \in Nat /\ Len(more) = n + 1
      /\ more[n + 1] = s /\ \A j \in 1 .. n : more[j] = stack[j]
  OBVIOUS
<1> HIDE DEF n, more
<1>3. /\ G \in [0 .. n + 1 -> [Paths -> Entries]]
      /\ \A j \in 0 .. n : G[j] = H[j]
      /\ G[n + 1] = t
  <2>1. H \in [0 .. n -> [Paths -> Entries]] /\ t \in [Paths -> Entries]
    BY <1>1 DEF IsTree, n
  <2>2. QED BY <1>2, <2>1
<1> HIDE DEF G
<1>4. /\ \A j \in 0 .. n : IsTree(H[j])
      /\ FilesOf(H[0]) = FilesOf(first) /\ FilesOf(H[n]) = FilesOf(now)
      /\ \A j \in 1 .. n : Undoes(stack[j], H[j - 1], H[j])
  BY <1>1 DEF PastFiles, n
<1>5. ASSUME NEW j \in 1 .. n + 1
      PROVE  \/ more[j] = s /\ G[j - 1] = H[n] /\ G[j] = t
             \/ /\ j \in 1 .. n /\ j - 1 \in 0 .. n
                /\ more[j] = stack[j] /\ G[j - 1] = H[j - 1] /\ G[j] = H[j]
  <2>1. CASE j = n + 1
    BY <1>2, <1>3, <2>1
  <2>2. CASE j # n + 1
    <3>1. j \in 1 .. n /\ j - 1 \in 0 .. n /\ j \in 0 .. n
      BY <1>2, <2>2
    <3>2. QED BY <1>2, <1>3, <3>1
  <2>3. QED BY <2>1, <2>2
<1>6. ASSUME NEW j \in 0 .. n + 1 PROVE G[j] = t \/ (j \in 0 .. n /\ G[j] = H[j])
  BY <1>2, <1>3
<1>7. PastFiles(G, more, first, t)
  <2>1. Undoes(s, H[n], t)
    <3>1. \A q \in Paths : File(H[n], q) = File(now, q)
      BY <1>4, SameFile
    <3>2. DOMAIN s.files \subseteq Paths
      BY SnapShape
    <3>3. QED BY <3>1, <3>2 DEF Undoes
  <2>2. \A j \in 1 .. n + 1 : Undoes(more[j], G[j - 1], G[j])
    BY <1>4, <1>5, <2>1
  <2>3. \A j \in 0 .. n + 1 : IsTree(G[j])
    BY <1>4, <1>6
  <2>4. FilesOf(G[0]) = FilesOf(first) /\ FilesOf(G[n + 1]) = FilesOf(t)
    <3>1. 0 \in 0 .. n
      BY <1>2
    <3>2. QED BY <1>3, <1>4, <3>1
  <2>5. QED BY <1>2, <2>2, <2>3, <2>4 DEF PastFiles
<1>8. ASSUME Exact(by, first) PROVE PastDirs(G, by, more, first, t)
  <2>1. /\ H[0] = first /\ H[n] = now
        /\ \A j \in 1 .. n : UndoesDirs(by, stack[j], H[j - 1], H[j])
        /\ by = "git" => \A j \in 0 .. n : NoEmptyDir(H[j])
    BY <1>1, <1>8 DEF PastDirs, n
  <2>2. 0 \in 0 .. n /\ n \in 0 .. n
    BY <1>2
  <2>3. \A j \in 1 .. n + 1 : UndoesDirs(by, more[j], G[j - 1], G[j])
    BY <1>5, <2>1
  <2>4. by = "git" => \A j \in 0 .. n + 1 : NoEmptyDir(G[j])
    BY <1>6, <2>1, <2>2
  <2>5. G[0] = first /\ G[n + 1] = t
    BY <1>3, <2>1, <2>2
  <2>6. QED BY <1>2, <2>3, <2>4, <2>5 DEF PastDirs
<1>9. QED BY <1>2, <1>3, <1>7, <1>8 DEF Past, more

(* ... and one that is taken back leaves the past without it.               *)
LEMMA PopPast ==
  ASSUME NEW by, NEW stack \in Seq(Snap), NEW s \in Snap, NEW first,
         NEW now, NEW t, IsTree(t), Past(by, Append(stack, s), first, now),
         \A q \in Paths : File(t, q) = IF q \in DOMAIN s.files THEN s.files[q] ELSE File(now, q),
         \A b : /\ IsTree(b) /\ Undoes(s, b, now) /\ UndoesDirs(by, s, b, now)
                /\ by = "git" => NoEmptyDir(b)
                => t = b
  PROVE  Past(by, stack, first, t)
<1> DEFINE n == Len(stack)
           more == Append(stack, s)
<1>1. /\ n \in Nat /\ Len(more) = n + 1
      /\ more[n + 1] = s /\ \A j \in 1 .. n : more[j] = stack[j]
  OBVIOUS
<1> HIDE DEF n, more
<1>2. PICK H \in [0 .. n + 1 -> [Paths -> Entries]] :
        /\ PastFiles(H, more, first, now)
        /\ Exact(by, first) => PastDirs(H, by, more, first, now)
  BY <1>1 DEF Past, more
<1> DEFINE G == [j \in 0 .. n |-> H[j]]
<1>3. G \in [0 .. n -> [Paths -> Entries]] /\ \A j \in 0 .. n : G[j] = H[j]
  BY <1>1
<1> HIDE DEF G
<1>4. /\ \A j \in 0 .. n + 1 : IsTree(H[j])
      /\ FilesOf(H[0]) = FilesOf(first) /\ FilesOf(H[n + 1]) = FilesOf(now)
      /\ \A j \in 1 .. n + 1 : Undoes(more[j], H[j - 1], H[j])
  BY <1>1, <1>2 DEF PastFiles
<1>5. /\ 0 \in 0 .. n /\ n \in 0 .. n /\ 0 .. n \subseteq 0 .. n + 1
      /\ n + 1 \in 1 .. n + 1 /\ (n + 1) - 1 = n
      /\ \A j \in 1 .. n : j \in 1 .. n + 1 /\ j \in 0 .. n /\ j - 1 \in 0 .. n
  BY <1>1
<1>6. Undoes(s, H[n], H[n + 1]) /\ IsTree(H[n])
  BY <1>1, <1>4, <1>5
<1>7. \A q \in Paths : File(t, q) = File(H[n], q)
  <2> SUFFICES ASSUME NEW q \in Paths PROVE File(t, q) = File(H[n], q)
    OBVIOUS
  <2>1. File(H[n + 1], q) = File(now, q)
    BY <1>4, SameFile
  <2>2. CASE q \in DOMAIN s.files
    BY <1>6, <2>2 DEF Undoes
  <2>3. CASE q \notin DOMAIN s.files
    BY <1>6, <2>1, <2>3 DEF Undoes
  <2>4. QED BY <2>2, <2>3
<1>8. PastFiles(G, stack, first, t)
  <2>1. FilesOf(G[n]) = FilesOf(t)
    BY <1>3, <1>5, <1>7, SameFiles
  <2>2. \A j \in 1 .. n : Undoes(stack[j], G[j - 1], G[j])
    BY <1>1, <1>3, <1>4, <1>5
  <2>3. \A j \in 0 .. n : IsTree(G[j])
    BY <1>3, <1>4, <1>5
  <2>4. FilesOf(G[0]) = FilesOf(first)
    BY <1>3, <1>4, <1>5
  <2>5. QED BY <2>1, <2>2, <2>3, <2>4 DEF PastFiles, n
<1>9. ASSUME Exact(by, first) PROVE PastDirs(G, by, stack, first, t)
  <2>1. /\ H[0] = first /\ H[n + 1] = now
        /\ \A j \in 1 .. n + 1 : UndoesDirs(by, more[j], H[j - 1], H[j])
        /\ by = "git" => \A j \in 0 .. n + 1 : NoEmptyDir(H[j])
    BY <1>1, <1>2, <1>9 DEF PastDirs
  <2>2. UndoesDirs(by, s, H[n], now) /\ (by = "git" => NoEmptyDir(H[n]))
    BY <1>1, <1>5, <2>1
  <2>3. t = H[n]
    BY <1>6, <2>1, <2>2
  <2>4. \A j \in 1 .. n : UndoesDirs(by, stack[j], G[j - 1], G[j])
    BY <1>1, <1>3, <1>5, <2>1
  <2>5. by = "git" => \A j \in 0 .. n : NoEmptyDir(G[j])
    BY <1>3, <1>5, <2>1
  <2>6. G[0] = first /\ G[n] = t
    BY <1>3, <1>5, <2>1, <2>3
  <2>7. QED BY <2>4, <2>5, <2>6 DEF PastDirs, n
<1>10. QED BY <1>3, <1>8, <1>9 DEF Past, n

(* A tree with no patch in force is its own past.                           *)
LEMMA NoPast ==
  ASSUME NEW by, NEW t, IsTree(t)
  PROVE  Past(by, <<>>, t, t)
<1> DEFINE H == [j \in 0 .. 0 |-> t]
<1>1. H \in [0 .. Len(<<>>) -> [Paths -> Entries]]
  BY DEF IsTree
<1>2. H[0] = t /\ Len(<<>>) = 0 /\ \A j \in 0 .. 0 : j = 0
  OBVIOUS
<1> HIDE DEF H
<1>3. PastFiles(H, <<>>, t, t)
  BY <1>2 DEF PastFiles
<1>4. ASSUME Exact(by, t) PROVE PastDirs(H, by, <<>>, t, t)
  BY <1>2, <1>4 DEF PastDirs, Exact
<1>5. QED BY <1>1, <1>3, <1>4 DEF Past

LEMMA AppliedPast ==
  ASSUME Known, Kept, Refilled, Past(backend, InForce, original, entry), Applied
  PROVE  (Past(backend, InForce, original, entry))'
<1>1. /\ snapshots \in Seq(Snap) /\ snap \in Snap /\ pc = "write"
      /\ IsTree(tree) /\ IsTree(entry) /\ entry' = tree
      /\ InForce = snapshots /\ InForce' = Append(snapshots, snap)
      /\ original' = original /\ backend' = backend /\ Written
  BY DEF Known, TypeOK, Applied, Return, InForce
<1>2. /\ snap.files = Before /\ snap.dirs = DirsOf(entry)
      /\ \A p \in Paths \ DOMAIN snap.files : File(tree, p) = File(entry, p)
      /\ \A p \in DOMAIN Parent : tree[p] = Dir => entry[p] = Dir
  BY <1>1 DEF Known, InStep
<1>3. Undoes(snap, entry, tree)
  BY <1>2 DEF Undoes, Before
<1>4. UndoesDirs(backend, snap, entry, tree)
  BY <1>2 DEF UndoesDirs, Kept
<1>5. backend = "git" /\ NoEmptyDir(entry) => NoEmptyDir(tree)
  <2> SUFFICES ASSUME backend = "git", NoEmptyDir(entry), NEW q \in Paths, IsEmptyDir(tree, q)
               PROVE  FALSE
    BY DEF NoEmptyDir
  <2>1. PICK i \in DOMAIN plan : plan[i].path \in Children(q)
    BY <1>1 DEF Refilled
  <2>2. plan[i].path \in Paths
    BY <2>1, PathsAssumption DEF Children
  <2>3. plan \in Seq(Write)
    BY DEF Known, TypeOK
  <2>4. plan[i].path = "none"
    BY <1>1, <2>1, <2>3 DEF Written, Skips
  <2>5. QED BY <2>2, <2>4, PathsAssumption
<1>6. Past(backend, Append(snapshots, snap), original, tree)
  BY <1>1, <1>3, <1>4, <1>5, PushPast
<1>7. QED BY <1>1, <1>6

LEMMA RestoredPast ==
  ASSUME Known, Kept, Past(backend, InForce, original, entry), Restored
  PROVE  (Past(backend, InForce, original, entry))'
<1>1. /\ snapshots \in Seq(Snap) /\ snap \in Snap /\ IsTree(tree) /\ IsTree(entry)
      /\ entry' = Prune(tree) /\ IsTree(Prune(tree)) /\ todo = {} /\ InForce' = snapshots
      /\ original' = original /\ backend' = backend /\ backend \in {"git", "python"}
      /\ DOMAIN snap.files \subseteq Paths
  BY BackendsAssumption, PruneFile, SnapShape
  DEF Known, TypeOK, Restored, Return, InForce
<1>2. \A q \in Paths : File(tree, q) = IF q \in DOMAIN snap.files THEN snap.files[q]
                                      ELSE File(entry, q)
  BY <1>1 DEF Known, InStep, Restored
<1>3. ASSUME NEW b, IsTree(b), snap.dirs = DirsOf(b), \A q \in Paths : File(tree, q) = File(b, q),
             \A q \in DOMAIN Parent : tree[q] = Dir => b[q] = Dir,
             NoEmptyDir(b) \/ \A q \in Paths : b[q] = Dir => tree[q] = Dir
      PROVE  Prune(tree) = b
  BY <1>1, <1>3, WholeTreeBack
<1>4. CASE pc = "revert"
  <2>1. /\ InForce = Append(snapshots, snap)
        /\ \A q \in Paths : entry[q] = Dir => tree[q] = Dir
        /\ \A q \in DOMAIN Parent : tree[q] = Dir => entry[q] = Dir
    BY <1>4 DEF InForce, Kept
  <2>2. \A q \in Paths : File(Prune(tree), q) =
          IF q \in DOMAIN snap.files THEN snap.files[q] ELSE File(entry, q)
    BY <1>1, <1>2, PruneFile
  <2>3. ASSUME NEW b, IsTree(b), Undoes(snap, b, entry), UndoesDirs(backend, snap, b, entry),
               backend = "git" => NoEmptyDir(b)
        PROVE  Prune(tree) = b
    <3>1. \A q \in Paths : File(tree, q) = File(b, q)
      BY <1>2, <2>3 DEF Undoes
    <3>2. /\ snap.dirs = DirsOf(b)
          /\ \A q \in DOMAIN Parent : tree[q] = Dir => b[q] = Dir
      BY <2>1, <2>3 DEF UndoesDirs
    <3>3. NoEmptyDir(b) \/ \A q \in Paths : b[q] = Dir => tree[q] = Dir
      BY <1>1, <2>1, <2>3 DEF UndoesDirs
    <3>4. QED BY <1>3, <2>3, <3>1, <3>2, <3>3
  <2>4. Past(backend, snapshots, original, Prune(tree))
    <3>1. Past(backend, Append(snapshots, snap), original, entry)
      BY <2>1
    <3>2. QED BY <1>1, <2>2, <2>3, <3>1, PopPast
  <2>5. QED BY <1>1, <2>4
<1>5. CASE pc = "undo"
  <2>1. /\ InForce = snapshots /\ snap.files = Before /\ snap.dirs = DirsOf(entry)
        /\ \A p \in DOMAIN Parent : tree[p] = Dir => entry[p] = Dir
    BY <1>5 DEF InForce, Known, InStep
  <2>2. \A q \in Paths : File(tree, q) = File(entry, q)
    BY <1>2, <2>1 DEF Before
  <2>3. ASSUME Exact(backend, original) PROVE Prune(tree) = entry
    <3>1. backend = "git" => NoEmptyDir(entry)
      <4>1. PICK H \in [0 .. Len(InForce) -> [Paths -> Entries]] :
              PastDirs(H, backend, InForce, original, entry)
        BY <2>3 DEF Past
      <4>2. Len(InForce) \in 0 .. Len(InForce)
        BY <1>1, <2>1
      <4>3. QED BY <4>1, <4>2 DEF PastDirs
    <3>2. backend = "python" => \A q \in Paths : entry[q] = Dir => tree[q] = Dir
      BY DEF Kept
    <3>3. QED BY <1>1, <1>3, <2>1, <2>2, <3>1, <3>2
  <2>4. FilesOf(Prune(tree)) = FilesOf(entry)
    BY <1>1, <2>2, PruneFile, SameFiles
  <2>5. Past(backend, snapshots, original, Prune(tree))
    <3>1. PICK H \in [0 .. Len(InForce) -> [Paths -> Entries]] :
            /\ PastFiles(H, InForce, original, entry)
            /\ Exact(backend, original) => PastDirs(H, backend, InForce, original, entry)
      BY DEF Past
    <3>2. PastFiles(H, snapshots, original, Prune(tree))
      BY <2>1, <2>4, <3>1 DEF PastFiles
    <3>3. Exact(backend, original) => PastDirs(H, backend, snapshots, original, Prune(tree))
      BY <2>1, <2>3, <3>1
    <3>4. QED BY <2>1, <3>1, <3>2, <3>3 DEF Past
  <2>6. QED BY <1>1, <2>5
<1>6. QED BY <1>4, <1>5 DEF Restored

LEMMA PastStep ==
  Known /\ Kept /\ Refilled /\ HasPast /\ [Next]_vars => HasPast'
<1> SUFFICES ASSUME Known, Kept, Refilled, HasPast, [Next]_vars, elsewhere' = 0, ~spoiled'
             PROVE  (Past(backend, InForce, original, entry))'
  BY DEF HasPast
<1>1. ASSUME elsewhere = 0, ~spoiled PROVE Past(backend, InForce, original, entry)
  BY <1>1 DEF HasPast
<1>2. ASSUME Past(backend, InForce, original, entry), InForce' = InForce, entry' = entry,
             original' = original, backend' = backend
      PROVE  (Past(backend, InForce, original, entry))'
  BY <1>2
<1>3. CASE UNCHANGED vars
  <2>1. /\ InForce' = InForce /\ entry' = entry /\ original' = original
        /\ backend' = backend /\ elsewhere' = elsewhere /\ spoiled' = spoiled
    BY <1>3 DEF vars, call, InForce
  <2>2. QED BY <1>1, <1>2, <2>1
<1>4. CASE \E p \in Patches : TakeSnapshot(p)
  <2>1. /\ InForce' = InForce /\ entry' = entry /\ original' = original
        /\ backend' = backend /\ elsewhere' = elsewhere /\ spoiled' = spoiled
    BY <1>4 DEF TakeSnapshot, InForce
  <2>2. QED BY <1>1, <1>2, <2>1
<1>5. CASE StartBackend \/ WriteFile \/ BackendFails \/ RestoreFile
  <2>1. /\ InForce' = InForce /\ entry' = entry /\ original' = original
        /\ backend' = backend /\ elsewhere' = elsewhere /\ spoiled' = spoiled
    BY <1>5 DEF StartBackend, WriteFile, BackendFails, RestoreFile, InForce
  <2>2. QED BY <1>1, <1>2, <2>1
<1>6. CASE Revert
  <2>1. Append(Front(snapshots), Last(snapshots)) = snapshots
    BY <1>6, LastFront DEF Known, TypeOK, Revert
  <2>2. /\ InForce' = InForce /\ entry' = entry /\ original' = original
        /\ backend' = backend /\ elsewhere' = elsewhere /\ spoiled' = spoiled
    BY <1>6, <2>1 DEF Revert, InForce
  <2>3. QED BY <1>1, <1>2, <2>2
<1>7. CASE Applied
  <2>1. elsewhere' = elsewhere /\ spoiled' = spoiled
    BY <1>7 DEF Applied
  <2>2. QED BY <1>1, <1>7, <2>1, AppliedPast
<1>8. CASE Restored
  <2>1. elsewhere' = elsewhere /\ spoiled' = spoiled
    BY <1>8 DEF Restored
  <2>2. QED BY <1>1, <1>8, <2>1, RestoredPast
<1>9. CASE RestoreGivesUp
  BY <1>9 DEF RestoreGivesUp
<1>10. CASE Forget
  <2>1. InForce' = <<>> /\ original' = entry /\ entry' = entry /\ IsTree(entry)
    BY <1>10 DEF Forget, InForce, Known, TypeOK, InStep
  <2>2. QED BY <2>1, NoPast
<1>11. CASE \E p \in Paths, text \in Texts \cup {NoFile} : Elsewhere(p, text)
  BY <1>11 DEF Elsewhere, Known, TypeOK
<1>12. QED
  BY <1>3, <1>4, <1>5, <1>6, <1>7, <1>8, <1>9, <1>10, <1>11 DEF Next

LEMMA InitPast == Init => Kept /\ Rewritten /\ Refilled /\ HasPast
<1> SUFFICES ASSUME Init PROVE Kept /\ Rewritten /\ Refilled /\ HasPast
  OBVIOUS
<1>1. InForce = <<>> /\ entry = original /\ tree = entry /\ pc = "ready" /\ plan = <<>>
  BY DEF Init, InForce
<1>2. IsTree(original)
  BY TreesAssumption DEF Init
<1>3. HasPast
  BY <1>1, <1>2, NoPast DEF HasPast
<1>4. QED BY <1>1, <1>3 DEF Kept, Rewritten, Refilled

(* The attempt loop of fix.py can trust what it reads: whatever was tried,  *)
(* refused, applied and taken back, in whatever number of attempts and by   *)
(* whichever backend, the next attempt finds the files it was told of, and  *)
(* the directories too where git has had no empty one to lose.              *)
THEOREM EveryAttemptStartsOver == Spec => []StartsOver
<1>1. Spec => [](Known /\ Kept /\ Rewritten /\ Refilled /\ HasPast)
  BY InitKnows, StepKnows, InitPast, KeptStep, PlanStep, PastStep, PTL DEF Spec
<1>2. Known /\ HasPast => StartsOver
  <2> SUFFICES ASSUME Known, HasPast, pc = "ready", snapshots = <<>>, elsewhere = 0, ~spoiled
               PROVE  /\ FilesOf(tree) = FilesOf(original)
                      /\ backend = "python" \/ NoEmptyDir(original) => tree = original
    BY DEF StartsOver
  <2>1. InForce = <<>> /\ Len(<<>>) = 0 /\ tree = entry
    BY DEF InForce, Known, InStep
  <2>2. PICK H \in [0 .. Len(InForce) -> [Paths -> Entries]] :
          /\ PastFiles(H, InForce, original, entry)
          /\ Exact(backend, original) => PastDirs(H, backend, InForce, original, entry)
    BY DEF HasPast, Past
  <2>3. FilesOf(H[0]) = FilesOf(original) /\ FilesOf(H[0]) = FilesOf(entry)
    BY <2>1, <2>2 DEF PastFiles
  <2>4. ASSUME Exact(backend, original) PROVE H[0] = original /\ H[0] = entry
    BY <2>1, <2>2, <2>4 DEF PastDirs
  <2>5. QED BY <2>1, <2>3, <2>4 DEF Exact
<1>3. QED BY <1>1, <1>2, PTL

-----------------------------------------------------------------------------
(* Applying in full.  The last write of the plan to a file is what the diff *)
(* wants there, or there is none left and the file says so.                 *)
PlansLast(P, q, x) ==
  \E i \in DOMAIN P :
    /\ P[i].path = q /\ P[i].text = x
    /\ \A j \in DOMAIN P : j > i => P[j].path # q

WillHold(t, P, q, x) ==
  PlansLast(P, q, x) \/ (File(t, q) = x /\ \A j \in DOMAIN P : P[j].path # q)

(* What is left under the old name of a file that is deleted or renamed.    *)
Left(b, t, s) == IF b = "git" \/ s.new = "none" THEN NoFile ELSE File(t, s.old)

Comes(t, P, s, left) ==
  /\ s.new # "none" => WillHold(t, P, s.new, s.post)
  /\ s.old \notin {"none", s.new} => WillHold(t, P, s.old, left)

OnItsWay ==
  pc = "write" /\ OneSectionPerFile =>
    \A i \in DOMAIN patch.sections :
      Comes(tree, plan, patch.sections[i], Left(backend, entry, patch.sections[i]))

LEMMA WritingHolds ==
  ASSUME Known, WriteFile, NEW q \in Paths, NEW x, WillHold(tree, plan, q, x)
  PROVE  WillHold(tree', plan', q, x)
<1>1. PICK k \in DOMAIN plan :
        /\ plan[k].path \in Paths /\ plan[k] \in Write /\ CanMake(backend, tree, plan[k])
        /\ tree' = Make(tree, plan[k])
        /\ \A j \in DOMAIN plan : j < k => plan[j].path = "none"
        /\ \A j \in DOMAIN plan : j > k => j - k \in DOMAIN plan' /\ plan'[j - k] = plan[j]
        /\ \A i \in DOMAIN plan' : k + i \in DOMAIN plan /\ plan'[i] = plan[k + i]
        /\ DOMAIN plan \subseteq Nat /\ DOMAIN plan' \subseteq Nat \ {0}
  BY PlanSuffix
<1>2. IsTree(tree) /\ q # "none"
  BY PathsAssumption DEF Known, TypeOK
<1>3. \A c \in Paths : File(tree', c) = IF c = plan[k].path THEN plan[k].text ELSE File(tree, c)
  BY <1>1, <1>2, MakeFile
<1>4. CASE \E i \in DOMAIN plan : /\ plan[i].path = q /\ plan[i].text = x
                                  /\ \A j \in DOMAIN plan : j > i => plan[j].path # q
  <2>1. PICK i \in DOMAIN plan : /\ plan[i].path = q /\ plan[i].text = x
                                 /\ \A j \in DOMAIN plan : j > i => plan[j].path # q
    BY <1>4
  <2>2. i >= k
    BY <1>1, <1>2, <2>1
  <2>3. CASE i = k
    <3>1. File(tree', q) = x
      BY <1>3, <2>1, <2>3
    <3>2. \A j \in DOMAIN plan' : plan'[j].path # q
      BY <1>1, <2>1, <2>3
    <3>3. QED BY <3>1, <3>2 DEF WillHold
  <2>4. CASE i > k
    <3>1. i - k \in DOMAIN plan' /\ plan'[i - k] = plan[i]
      BY <1>1, <2>4
    <3>2. \A j \in DOMAIN plan' : j > i - k => plan'[j].path # q
      BY <1>1, <2>1, <2>4
    <3>3. QED BY <2>1, <3>1, <3>2 DEF WillHold, PlansLast
  <2>5. QED BY <1>1, <2>2, <2>3, <2>4
<1>5. CASE File(tree, q) = x /\ \A j \in DOMAIN plan : plan[j].path # q
  <2>1. File(tree', q) = x
    BY <1>1, <1>3, <1>5
  <2>2. \A j \in DOMAIN plan' : plan'[j].path # q
    BY <1>1, <1>5
  <2>3. QED BY <2>1, <2>2 DEF WillHold
<1>6. QED BY <1>4, <1>5 DEF WillHold, PlansLast

(* Both backends plan every section of a diff that names each file once.    *)
Disjoint(p) ==
  \A i, j \in DOMAIN p.sections : i # j =>
    {p.sections[i].old, p.sections[i].new}
      \cap {p.sections[j].old, p.sections[j].new} \subseteq {"none"}

LEMMA GitPlansAll ==
  ASSUME NEW p \in Diff, Disjoint(p), NEW i \in DOMAIN p.sections
  PROVE  LET s == p.sections[i]
         IN  /\ s.new # "none" => PlansLast(GitPlan(p), s.new, s.post)
             /\ s.old \notin {"none", s.new} => PlansLast(GitPlan(p), s.old, NoFile)
<1> DEFINE n == Len(p.sections)
           P == GitPlan(p)
           secs == p.sections
<1>1. /\ n \in Nat /\ DOMAIN P = 1 .. n + n /\ DOMAIN secs = 1 .. n
      /\ \A j \in 1 .. n :
           /\ P[j] = [path |-> secs[j].old, text |-> NoFile, tidy |-> secs[j].old # secs[j].new]
           /\ P[n + j] = [path |-> secs[j].new, text |-> secs[j].post, tidy |-> FALSE]
  BY GitPlans
<1>2. \A j \in DOMAIN secs : j # i =>
        {secs[i].old, secs[i].new} \cap {secs[j].old, secs[j].new} \subseteq {"none"}
  BY DEF Disjoint
<1>3. secs[i].old # "none" \/ secs[i].new # "none"
  BY SectionOf DEF Section
<1> HIDE DEF n, P, secs
<1>4. \A j \in 1 .. n : /\ P[j].path = secs[j].old /\ P[j].text = NoFile
                        /\ P[n + j].path = secs[j].new /\ P[n + j].text = secs[j].post
  <2> SUFFICES ASSUME NEW j \in 1 .. n
               PROVE  /\ P[j].path = secs[j].old /\ P[j].text = NoFile
                      /\ P[n + j].path = secs[j].new /\ P[n + j].text = secs[j].post
    OBVIOUS
  <2>1. /\ P[j] = [path |-> secs[j].old, text |-> NoFile, tidy |-> secs[j].old # secs[j].new]
        /\ P[n + j] = [path |-> secs[j].new, text |-> secs[j].post, tidy |-> FALSE]
    BY <1>1
  <2>2. QED BY <2>1
<1>5. ASSUME NEW j \in DOMAIN P
      PROVE  \/ j \in 1 .. n
             \/ \E m \in 1 .. n : j = n + m
  <2>1. CASE j <= n
    BY <1>1, <2>1
  <2>2. CASE j > n
    <3>1. j - n \in 1 .. n /\ j = n + (j - n)
      BY <1>1, <2>2
    <3>2. QED BY <3>1
  <2>3. QED BY <1>1, <2>1, <2>2
<1>6. i \in 1 .. n /\ i \in DOMAIN P /\ n + i \in DOMAIN P
  BY <1>1 DEF secs
<1>7. ASSUME secs[i].old \notin {"none", secs[i].new} PROVE PlansLast(P, secs[i].old, NoFile)
  <2>1. ASSUME NEW j \in DOMAIN P, j > i PROVE P[j].path # secs[i].old
    <3>1. CASE j \in 1 .. n
      <4>1. P[j].path = secs[j].old /\ j # i
        BY <1>1, <1>4, <1>6, <2>1, <3>1
      <4>2. QED BY <1>1, <1>2, <1>3, <1>7, <3>1, <4>1
    <3>2. CASE \E m \in 1 .. n : j = n + m
      <4>1. PICK m \in 1 .. n : j = n + m
        BY <3>2
      <4>2. P[j].path = secs[m].new
        BY <1>4, <4>1
      <4>3. QED BY <1>1, <1>2, <1>3, <1>7, <4>1, <4>2
    <3>3. QED BY <1>5, <3>1, <3>2
  <2>2. QED BY <1>4, <1>6, <2>1 DEF PlansLast
<1>8. ASSUME secs[i].new # "none" PROVE PlansLast(P, secs[i].new, secs[i].post)
  <2>1. ASSUME NEW j \in DOMAIN P, j > n + i PROVE P[j].path # secs[i].new
    <3>1. j \notin 1 .. n
      BY <1>1, <1>6, <2>1
    <3>2. PICK m \in 1 .. n : j = n + m
      BY <1>5, <3>1
    <3>3. P[j].path = secs[m].new /\ m # i
      BY <1>1, <1>4, <1>6, <2>1, <3>2
    <3>4. QED BY <1>1, <1>2, <1>8, <3>2, <3>3
  <2>2. QED BY <1>4, <1>6, <2>1 DEF PlansLast
<1>9. QED BY <1>7, <1>8 DEF P, secs

LEMMA PythonPlansAll ==
  ASSUME NEW p \in Diff, Disjoint(p), NEW i \in DOMAIN p.sections
  PROVE  LET s == p.sections[i]
         IN  /\ s.new # "none" => PlansLast(PythonPlan(p), s.new, s.post)
             /\ s.new = "none" => PlansLast(PythonPlan(p), s.old, NoFile)
             /\ s.new # "none" /\ s.old \notin {"none", s.new} =>
                  \A j \in DOMAIN PythonPlan(p) : PythonPlan(p)[j].path # s.old
<1> DEFINE P == PythonPlan(p)
           secs == p.sections
<1>1. /\ DOMAIN P = DOMAIN secs
      /\ \A j \in DOMAIN secs :
           /\ P[j].path = Target(secs[j])
           /\ P[j].text = IF secs[j].new = "none" THEN NoFile ELSE secs[j].post
  BY DEF PythonPlan
<1>2. \A j \in DOMAIN secs : j # i =>
        {secs[i].old, secs[i].new} \cap {secs[j].old, secs[j].new} \subseteq {"none"}
  BY DEF Disjoint
<1>3. secs[i].old # "none" \/ secs[i].new # "none"
  BY SectionOf DEF Section
<1>4. DOMAIN secs \subseteq Nat
  BY DEF Diff
<1> HIDE DEF P
<1>5. ASSUME NEW j \in DOMAIN secs, j > i PROVE P[j].path # Target(secs[i])
  <2>1. j # i
    BY <1>4, <1>5
  <2>2. /\ Target(secs[i]) \in {secs[i].old, secs[i].new} \ {"none"}
        /\ Target(secs[j]) \in {secs[j].old, secs[j].new}
    BY <1>3 DEF Target
  <2>3. Target(secs[j]) # Target(secs[i])
    <3> HIDE DEF secs
    <3> QED BY <1>2, <1>5, <2>1, <2>2
  <2>4. QED BY <1>1, <1>5, <2>3
<1>6. PlansLast(P, Target(secs[i]), IF secs[i].new = "none" THEN NoFile ELSE secs[i].post)
  BY <1>1, <1>5 DEF PlansLast
<1>7. ASSUME secs[i].new # "none", secs[i].old \notin {"none", secs[i].new}, NEW j \in DOMAIN secs
      PROVE  P[j].path # secs[i].old
  <2>1. Target(secs[j]) \in {secs[j].old, secs[j].new} /\ Target(secs[i]) = secs[i].new
    BY <1>7 DEF Target
  <2>2. Target(secs[j]) # secs[i].old
    <3> HIDE DEF secs
    <3>1. CASE j = i
      BY <1>7, <2>1, <3>1
    <3>2. CASE j # i
      BY <1>2, <1>7, <2>1, <3>2
    <3> QED BY <3>1, <3>2
  <2>3. QED BY <1>1, <2>2
<1>8. QED BY <1>1, <1>6, <1>7 DEF Target, P

LEMMA OnItsWayStep == Known /\ OnItsWay /\ [Next]_vars => OnItsWay'
<1> SUFFICES ASSUME Known, OnItsWay, [Next]_vars PROVE OnItsWay'
  OBVIOUS
<1>1. CASE UNCHANGED vars
  BY <1>1 DEF OnItsWay, OneSectionPerFile, vars, call
<1>2. CASE StartBackend
  <2>1. /\ patch' = patch /\ tree' = tree /\ patch \in Diff /\ backend \in {"git", "python"}
        /\ plan' = IF backend = "git" THEN GitPlan(patch) ELSE PythonPlan(patch)
        /\ backend' = backend /\ entry' = entry /\ tree = entry
    BY <1>2, BackendsAssumption DEF StartBackend, BackendPlan, Known, InStep, TypeOK, Diff
  <2> SUFFICES ASSUME Disjoint(patch), NEW i \in DOMAIN patch.sections
               PROVE  Comes(tree', plan', patch.sections[i], Left(backend, entry, patch.sections[i]))
    BY <2>1 DEF OnItsWay, OneSectionPerFile, Disjoint
  <2>2. CASE backend = "git"
    <3>1. /\ patch.sections[i].new # "none" =>
               PlansLast(plan', patch.sections[i].new, patch.sections[i].post)
          /\ patch.sections[i].old \notin {"none", patch.sections[i].new} =>
               PlansLast(plan', patch.sections[i].old, NoFile)
      BY <2>1, <2>2, GitPlansAll
    <3>2. QED BY <2>2, <3>1 DEF Comes, Left, WillHold
  <2>3. CASE backend = "python"
    <3>1. /\ plan' = PythonPlan(patch)
          /\ patch.sections[i].new # "none" =>
               PlansLast(plan', patch.sections[i].new, patch.sections[i].post)
          /\ patch.sections[i].new = "none" => PlansLast(plan', patch.sections[i].old, NoFile)
          /\ patch.sections[i].new # "none"
               /\ patch.sections[i].old \notin {"none", patch.sections[i].new} =>
               \A j \in DOMAIN plan' : plan'[j].path # patch.sections[i].old
      BY <2>1, <2>3, PythonPlansAll
    <3>2. QED BY <2>1, <2>3, <3>1 DEF Comes, Left, WillHold
  <2>4. QED BY <2>1, <2>2, <2>3
<1>3. CASE WriteFile
  <2>1. /\ pc = "write" /\ patch' = patch /\ patch \in Diff
        /\ backend' = backend /\ entry' = entry
    BY <1>3 DEF WriteFile, Known, TypeOK, Diff
  <2>2. CASE ~OneSectionPerFile
    BY <2>1, <2>2 DEF OnItsWay, OneSectionPerFile
  <2>3. CASE OneSectionPerFile
    <3> SUFFICES ASSUME NEW i \in DOMAIN patch.sections
                 PROVE  Comes(tree', plan', patch.sections[i],
                              Left(backend, entry, patch.sections[i]))
      BY <2>1 DEF OnItsWay
    <3>1. Comes(tree, plan, patch.sections[i], Left(backend, entry, patch.sections[i]))
      BY <2>1, <2>3 DEF OnItsWay
    <3>2. /\ patch.sections[i].new # "none" => patch.sections[i].new \in Paths
          /\ patch.sections[i].old # "none" => patch.sections[i].old \in Paths
      <4>1. patch.sections[i] \in Section
        BY <2>1, SectionOf
      <4>2. QED BY <4>1 DEF Section, MaybePaths
    <3>3. QED BY <1>3, <3>1, <3>2, WritingHolds DEF Comes
  <2>4. QED BY <2>2, <2>3
<1>4. ASSUME Next, ~StartBackend, ~WriteFile PROVE pc' # "write"
  BY <1>4 DEF Next, TakeSnapshot, BackendFails, Applied, Restored, RestoreGivesUp, Return,
       Revert, RestoreFile, Forget, Elsewhere, call
<1>5. QED BY <1>1, <1>2, <1>3, <1>4 DEF OnItsWay

(* A patch that is reported as applied is there: whichever backend wrote    *)
(* it, however many files it names, each of them once, holds what the diff  *)
(* says; what it deletes is gone, and what it renames is gone from its old  *)
(* name after git, and still there after the fallback.                      *)
THEOREM AppliesInFull == Spec => []AppliedInFull
<1>1. Init => OnItsWay
  BY DEF Init, OnItsWay
<1>2. Known /\ OnItsWay => AppliedInFull
  <2> SUFFICES ASSUME Known, OnItsWay, pc = "write", Written, OneSectionPerFile,
                      NEW i \in DOMAIN patch.sections
               PROVE  LET s == patch.sections[i]
                      IN  /\ s.new # "none" => tree[s.new] = s.post
                          /\ s.old \notin {"none", s.new} =>
                               FilesOf(tree)[s.old] =
                                 IF backend = "git" \/ s.new = "none" THEN NoFile
                                 ELSE FilesOf(entry)[s.old]
    BY DEF AppliedInFull, ToSet
  <2> DEFINE s == patch.sections[i]
  <2>1. s \in Section /\ s.post \in Texts
    BY SectionOf DEF Known, TypeOK, Diff
  <2>2. /\ s.new # "none" => s.new \in Paths
        /\ s.old # "none" => s.old \in Paths
    BY <2>1 DEF Section, MaybePaths
  <2>3. \A j \in DOMAIN plan : plan[j].path = "none"
    <3>1. plan \in Seq(Write)
      BY DEF Known, TypeOK
    <3>2. QED BY <3>1 DEF Written, Skips
  <2>4. Comes(tree, plan, s, Left(backend, entry, s))
    BY DEF OnItsWay
  <2> HIDE DEF s
  <2>5. ASSUME NEW q \in Paths, NEW x, WillHold(tree, plan, q, x) PROVE File(tree, q) = x
    BY <2>3, <2>5, PathsAssumption DEF WillHold, PlansLast
  <2>6. /\ s.new # "none" => File(tree, s.new) = s.post
        /\ s.old \notin {"none", s.new} => File(tree, s.old) = Left(backend, entry, s)
    BY <2>2, <2>4, <2>5 DEF Comes
  <2>7. s.new # "none" => tree[s.new] = s.post
    BY <2>1, <2>6, Marks DEF File
  <2>8. s.old \notin {"none", s.new} =>
          FilesOf(tree)[s.old] = IF backend = "git" \/ s.new = "none" THEN NoFile
                                 ELSE FilesOf(entry)[s.old]
    BY <2>2, <2>6 DEF File, Left, FilesOf
  <2>9. QED BY <2>7, <2>8 DEF s
<1>3. QED BY <1>1, <1>2, InitKnows, StepKnows, OnItsWayStep, PTL DEF Spec

=============================================================================
