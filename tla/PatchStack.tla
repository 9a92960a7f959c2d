----------------------------- MODULE PatchStack -----------------------------
(***************************************************************************)
(* What applying and reverting promise (the head of patcher.py): a patch   *)
(* lands whole or not at all, and reverting takes back the last one that   *)
(* landed, file by file, whatever has been done to other files since.      *)
(* Patcher, which writes and restores one file at a time, is shown to      *)
(* implement it.                                                           *)
(***************************************************************************)
EXTENDS Naturals, Sequences

CONSTANTS Paths, Contents    \* contents include "no such file"

VARIABLES
  files,   \* what each path holds
  stack,   \* for each patch in force, what its files held before it
  spoiled  \* has the disk failed while something was taken back?

vars == <<files, stack, spoiled>>

Init == files \in [Paths -> Contents] /\ stack = <<>> /\ spoiled = FALSE

Land(S) ==
  /\ stack' = Append(stack, [p \in S |-> files[p]])
  /\ files' \in [Paths -> Contents]
  /\ \A p \in Paths \ S : files'[p] = files[p]
  /\ UNCHANGED spoiled

TakeBack ==
  /\ stack # <<>>
  /\ LET before == stack[Len(stack)]
     IN  files' = [p \in Paths |-> IF p \in DOMAIN before THEN before[p] ELSE files[p]]
  /\ stack' = SubSeq(stack, 1, Len(stack) - 1)
  /\ UNCHANGED spoiled

(* Somebody else changes one file: a generated test is written, a test      *)
(* leaves something behind.                                                 *)
Elsewhere(p, content) ==
  files' = [files EXCEPT ![p] = content] /\ UNCHANGED <<stack, spoiled>>

Settle == stack' = <<>> /\ UNCHANGED <<files, spoiled>>

(* Restoring is best effort: once it has failed, the files say what they    *)
(* say.                                                                     *)
Spoil ==
  /\ spoiled' = TRUE
  /\ files' \in [Paths -> Contents]
  /\ \/ stack' = stack
     \/ stack # <<>> /\ stack' = SubSeq(stack, 1, Len(stack) - 1)

Next ==
  \/ Spoil
  \/ \E S \in (SUBSET Paths) \ {{}} : Land(S)
  \/ TakeBack \/ Settle
  \/ \E p \in Paths, content \in Contents : Elsewhere(p, content)

Spec == Init /\ [][Next]_vars
=============================================================================
