----------------------------- MODULE MCPatcher ------------------------------
(* A top-level file, a path that can be a file or a directory, and a path   *)
(* below it.  Diffs of one or two sections, on one path or on two.          *)
EXTENDS Patcher

ThreePaths == {"c", "d", "dx"}
Below == [p \in {"dx"} |-> "d"]
FewTexts == {"t0", "t1", "empty"}

Change(old, new, pre, post) == [old |-> old, new |-> new, pre |-> pre, post |-> post]
Edits == {Change(p, p, "t0", "t1") : p \in {"c", "dx"}}
Creates == {Change("none", p, "empty", "t1") : p \in ThreePaths}
Deletes == {Change(p, "none", "t0", "empty") : p \in {"c", "dx"}}
Renames == {Change("c", "dx", "t0", "t1")}
Sections == Edits \cup Creates \cup Deletes \cup Renames

Diffs ==
  {[sections |-> ss, headed |-> TRUE] :
     ss \in {<<>>} \cup {<<s>> : s \in Sections} \cup {<<s, z>> : s, z \in Sections}}

(* An edit of each of two files, with and without `diff --git` lines.       *)
TwoFileEdits ==
  {[sections |-> <<Change("c", "c", "t0", "t1"), Change("dx", "dx", "t0", "t1")>>,
    headed |-> h] : h \in BOOLEAN}

(* The directory with its file, empty, and not there.                       *)
ThreeTrees ==
  {("c" :> "t0" @@ "d" :> Dir @@ "dx" :> "t0"),
   ("c" :> "t0" @@ "d" :> Dir @@ "dx" :> NoFile),
   ("c" :> "t0" @@ "d" :> NoFile @@ "dx" :> NoFile)}
=============================================================================
