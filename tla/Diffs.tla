-------------------------------- MODULE Diffs -------------------------------
(***************************************************************************)
(* How the patcher reads a unified diff and finds where its hunks go       *)
(* (sandbox/patcher.py).  A text is a sequence of lines.  A line of a diff *)
(* is its first character and the rest, because that is all the parser     *)
(* looks at: what is removed may itself look like a header.                *)
(***************************************************************************)
EXTENDS Integers, Sequences, SequencesExt, FiniteSetsExt

Nowhere == -1

-----------------------------------------------------------------------------
(* Hunks.  lines: what follows the "@@" header, marks included.             *)

Part(lines, marks) ==
  FoldLeft(LAMBDA block, line : IF line.mark \in marks THEN Append(block, line.rest) ELSE block,
           <<>>, lines)
OldBlock(hunk) == Part(hunk.lines, {" ", "-"})
NewBlock(hunk) == Part(hunk.lines, {" ", "+"})

Sits(block, lines, i) ==      \* at a Python index, from 0
  /\ 0 <= i /\ i <= Len(lines) - Len(block)
  /\ SubSeq(lines, i + 1, i + Len(block)) = block

Places(block, lines) == {i \in 0 .. Len(lines) - Len(block) : Sits(block, lines, i)}

LocateFromTop(lines, block, hint) ==   \* mutant: the line number is not looked at
  IF Places(block, lines) = {} THEN Nowhere ELSE Min(Places(block, lines))

Locate(lines, block, hint) ==
  CASE block = <<>> -> Max({0, Min({hint, Len(lines)})})
    [] block # <<>> /\ Sits(block, lines, hint) -> hint
    [] OTHER -> IF Places(block, lines) = {} THEN Nowhere ELSE Min(Places(block, lines))

Replaced(lines, i, n, block) ==
  SubSeq(lines, 1, i) \o block \o SubSeq(lines, i + n + 1, Len(lines))

Refused == [out |-> <<>>, offset |-> 0, ok |-> FALSE]

ApplyHunk(state, hunk) ==
  LET old == OldBlock(hunk)
      new == NewBlock(hunk)
      start == Locate(state.out, old, hunk.start - 1 + state.offset)
  IN  IF ~state.ok \/ start = Nowhere THEN Refused
      ELSE [out |-> Replaced(state.out, start, Len(old), new),
            offset |-> state.offset + Len(new) - Len(old), ok |-> TRUE]

ApplyHunks(lines, hunks) ==
  FoldLeft(ApplyHunk, [out |-> lines, offset |-> 0, ok |-> TRUE], hunks)

-----------------------------------------------------------------------------
(* Reading a diff, line by line.                                            *)

Begins(raw, mark, start) == raw.mark = mark /\ raw.rest # <<>> /\ Head(raw.rest) = start
IsGit(raw) == Begins(raw, "d", "iff --git ")
IsOld(raw) == Begins(raw, "-", "-- ")
IsNew(raw) == Begins(raw, "+", "++ ")
IsAt(raw) == Begins(raw, "@", "@")
NamesAll(raw, n) == Len(raw.rest) = 1 + n      \* all that such a header has to name

NoPath == "/dev/null"

(* A parser in the middle of a diff: files read so far; inside: a hunk is  *)
(* open; seen: its old and new lines so far.                                *)
Start == [files |-> <<>>, inside |-> FALSE, seen |-> <<0, 0>>, error |-> FALSE]
Unnamed == [old |-> NoPath, new |-> NoPath, hunks |-> <<>>]

HasFile(state) == state.files # <<>>
Current(state) == Last(state.files)
SetCurrent(state, file) == [state.files EXCEPT ![Len(state.files)] = file]
Outside(state, files) == [state EXCEPT !.files = files, !.inside = FALSE]
Bad(state) == [state EXCEPT !.error = TRUE]

WantsUntilHeader(state, raw) ==   \* mutant: a hunk ends where a header seems to start
  state.inside /\ ~IsGit(raw) /\ ~IsOld(raw) /\ ~IsNew(raw) /\ ~IsAt(raw)

Wants(state, raw) ==              \* the counts of the header are not reached
  /\ state.inside
  /\ LET hunk == Last(Current(state).hunks)
     IN  state.seen[1] < hunk.old \/ state.seen[2] < hunk.new

TakeLine(state, line) ==          \* into the open hunk, which counts it
  LET file == Current(state)
      n == Len(file.hunks)
  IN  [state EXCEPT
         !.seen = <<@[1] + (IF line.mark \in {" ", "-"} THEN 1 ELSE 0),
                    @[2] + (IF line.mark \in {" ", "+"} THEN 1 ELSE 0)>>,
         !.files = SetCurrent(state, [file EXCEPT !.hunks[n].lines = Append(@, line)])]

Body(state, raw) ==
  LET mark == IF raw.mark = "" THEN " " ELSE raw.mark     \* git's empty context line
  IN  CASE mark = "\\" -> state
        [] mark \in {" ", "-", "+"} -> TakeLine(state, [mark |-> mark, rest |-> raw.rest])
        [] OTHER -> Bad(state)

StartFile(state, raw) ==
  IF ~NamesAll(raw, 2) THEN Bad(state)
  ELSE Outside(state, Append(state.files, [Unnamed EXCEPT !.old = raw.rest[2], !.new = raw.rest[3]]))

NameOld(state, raw) ==
  IF ~HasFile(state) \/ Current(state).hunks # <<>>
  THEN Outside(state, Append(state.files, [Unnamed EXCEPT !.old = raw.rest[2]]))
  ELSE Outside(state, SetCurrent(state, [Current(state) EXCEPT !.old = raw.rest[2]]))

NameNew(state, raw) ==
  IF ~HasFile(state) THEN Bad(state)
  ELSE Outside(state, SetCurrent(state, [Current(state) EXCEPT !.new = raw.rest[2]]))

OpenHunk(state, raw) ==
  LET hunk == [start |-> raw.rest[2], old |-> raw.rest[3], new |-> raw.rest[4], lines |-> <<>>]
  IN  IF ~NamesAll(raw, 3) \/ ~HasFile(state) THEN Bad(state)
      ELSE [state EXCEPT !.inside = TRUE, !.seen = <<0, 0>>,
              !.files = SetCurrent(state, [Current(state) EXCEPT !.hunks = Append(@, hunk)])]

Header(state, raw) ==
  CASE IsGit(raw) -> StartFile(state, raw)
    [] IsOld(raw) -> NameOld(state, raw)
    [] IsNew(raw) -> NameNew(state, raw)
    [] IsAt(raw) -> OpenHunk(state, raw)
    [] OTHER -> Outside(state, state.files)       \* index, mode, prose

ReadLine(state, raw) ==
  CASE state.error -> state
    [] ~state.error /\ Wants(state, raw) -> Body(state, raw)
    [] OTHER -> Header(state, raw)

ParseDiff(raws) ==
  LET read == FoldLeft(ReadLine, Start, raws)
      complete ==
        /\ read.files # <<>>
        /\ \A i \in DOMAIN read.files :
             LET file == read.files[i]
             IN  /\ {file.old, file.new} # {NoPath}
                 /\ file.hunks # <<>>
                 /\ \A j \in DOMAIN file.hunks : file.hunks[j].lines # <<>>
  IN  IF read.error \/ ~complete THEN [Start EXCEPT !.error = TRUE] ELSE read
=============================================================================
