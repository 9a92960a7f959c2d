---------------------------- MODULE RunContract -----------------------------
(***************************************************************************)
(* What one run promises its reader, whatever happens inside it (README,   *)
(* section 6, and the Verdict enumeration of contracts.py): a bug is first *)
(* reproduced, a patch is verified only against a reproduction, nothing is *)
(* ever un-proved, and the verdict a run ends with says exactly what the   *)
(* evidence supports.  RunGraph is shown to implement it.                  *)
(***************************************************************************)
VARIABLES
  evidence,   \* the best that has been shown so far
  outcome,    \* "running", the verdict the run returned with, or "raised"
  shipped     \* does the returned record offer a patch as accepted?

vars == <<evidence, outcome, shipped>>

Evidence == {"none", "reproduced", "verified"}
Outcomes == {"running", "raised", "needs_clarification", "not_reproduced",
             "reproduced_not_fixed", "reproduced_and_fixed", "aborted_budget"}

TypeOK == evidence \in Evidence /\ outcome \in Outcomes /\ shipped \in BOOLEAN

Init == evidence = "none" /\ outcome = "running" /\ shipped = FALSE

Reproduce ==
  /\ outcome = "running" /\ evidence = "none"
  /\ evidence' = "reproduced"
  /\ UNCHANGED <<outcome, shipped>>

Verify ==
  /\ outcome = "running" /\ evidence = "reproduced"
  /\ evidence' = "verified"
  /\ UNCHANGED <<outcome, shipped>>

(* The verdicts each state of the evidence supports.  A run that ran out of *)
(* budget may stop on any of them, and ships at most what it verified.      *)
Supports(verdict) ==
  CASE verdict = "reproduced_and_fixed" -> evidence = "verified"
    [] verdict = "reproduced_not_fixed" -> evidence = "reproduced"
    [] verdict \in {"not_reproduced", "needs_clarification"} -> evidence = "none"
    [] OTHER -> TRUE

Finish(verdict) ==
  /\ outcome = "running" /\ Supports(verdict)
  /\ outcome' = verdict
  /\ shipped' \in BOOLEAN
  /\ shipped' => evidence = "verified"
  /\ verdict = "reproduced_and_fixed" => shipped'
  /\ UNCHANGED evidence

Raise ==
  /\ outcome = "running"
  /\ outcome' = "raised"
  /\ UNCHANGED <<evidence, shipped>>

Next ==
  \/ Reproduce \/ Verify \/ Raise
  \/ \E verdict \in Outcomes \ {"running", "raised"} : Finish(verdict)

Spec == Init /\ [][Next]_vars
=============================================================================
