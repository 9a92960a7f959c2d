-------------------------- MODULE RunVerdictProofs --------------------------
(***************************************************************************)
(* What a run's verdict is worth: the attempts behind it, the gate in      *)
(* front of it, the contract the whole run implements, and the tree that   *)
(* a verdict is about.                                                     *)
(***************************************************************************)
EXTENDS RunGraphProofs

-----------------------------------------------------------------------------
(* The attempts. *)

(* Where each attempt came from and what the edges have promised about it.  *)
Trail ==
  /\ step = "run_repro" => node = "repro"
  /\ step \in {"run_target", "run_suite"} => node = "fix"
  /\ Len(reproAttempts) = reproCount + (IF node = "repro" /\ step = "leave" THEN 1 ELSE 0)
  /\ Len(fixAttempts) = fixCount + (IF node = "fix" /\ step = "leave" THEN 1 ELSE 0)
  /\ node \in {"intake", "clarify", "localise"} => ~AnyReproduced(reproAttempts)
  /\ node \notin {"fix", "report"} => ~AnyAccepted(fixAttempts)
  /\ node = "repro" /\ step \in Underway \ {"leave"} => ~AnyReproduced(reproAttempts)
  /\ node = "fix" /\ step \in Underway \ {"leave"} => ~AnyAccepted(fixAttempts)
  /\ node = "fix" \/ AnyAccepted(fixAttempts) => AnyReproduced(reproAttempts)

(* fix.py: an attempt is accepted on both of its runs, and only then.       *)
AllEarned(attempts) ==
  \A i \in DOMAIN attempts : attempts[i].accepted => attempts[i].target /\ attempts[i].suite

(* One more attempt is one more chance, and changes no earlier one.         *)
LEMMA AppendRepro ==
  ASSUME NEW s \in Seq(ReproAttempt), NEW a \in ReproAttempt
  PROVE  /\ Len(Append(s, a)) = Len(s) + 1
         /\ AnyReproduced(Append(s, a)) <=> AnyReproduced(s) \/ a.reproduced
<1>1. DOMAIN s = 1 .. Len(s) /\ DOMAIN Append(s, a) = 1 .. Len(s) + 1 /\ Len(s) \in Nat
  OBVIOUS
<1>2. Append(s, a)[Len(s) + 1] = a /\ \A i \in 1 .. Len(s) : Append(s, a)[i] = s[i]
  OBVIOUS
<1>3. QED BY <1>1, <1>2 DEF AnyReproduced

LEMMA AppendFix ==
  ASSUME NEW s \in Seq(FixAttempt), NEW a \in FixAttempt
  PROVE  /\ Len(Append(s, a)) = Len(s) + 1
         /\ AnyAccepted(Append(s, a)) <=> AnyAccepted(s) \/ a.accepted
         /\ AllEarned(s) /\ (a.accepted => a.target /\ a.suite) => AllEarned(Append(s, a))
<1>1. DOMAIN s = 1 .. Len(s) /\ DOMAIN Append(s, a) = 1 .. Len(s) + 1 /\ Len(s) \in Nat
  OBVIOUS
<1>2. Append(s, a)[Len(s) + 1] = a /\ \A i \in 1 .. Len(s) : Append(s, a)[i] = s[i]
  OBVIOUS
<1>3. QED BY <1>1, <1>2 DEF AnyAccepted, AllEarned

LEMMA EmptyTrail == ~AnyReproduced(<<>>) /\ ~AnyAccepted(<<>>) /\ AllEarned(<<>>)
BY DEF AnyReproduced, AnyAccepted, AllEarned

(* What spending an attempt does, whichever way it was spent.               *)
ReproSpent ==
  /\ step' = "leave" /\ node = "repro" /\ step \in Underway \ {"leave"}
  /\ Len(reproAttempts') = Len(reproAttempts) + 1
  /\ UNCHANGED <<node, reproCount, fixCount, fixAttempts, verdict, handover, usage, failure, record>>

FixSpent ==
  /\ step' = "leave" /\ node = "fix" /\ step \in Underway \ {"leave"}
  /\ Len(fixAttempts') = Len(fixAttempts) + 1
  /\ AllEarned(fixAttempts) => AllEarned(fixAttempts')
  /\ UNCHANGED <<node, reproCount, fixCount, reproAttempts, verdict, handover, usage, failure, record>>

LEMMA ReproIsSpent ==
  Typed /\ Trail /\ (NoUsableTest \/ RefuseTest \/ RefuseRun \/ JudgeTest) => ReproSpent
<1> SUFFICES ASSUME Typed, Trail, NoUsableTest \/ RefuseTest \/ RefuseRun \/ JudgeTest
             PROVE  ReproSpent
  OBVIOUS
<1>1. PICK t \in Tests \cup {None}, b \in BOOLEAN : SpendRepro(t, b)
  BY DEF NoUsableTest, RefuseTest, RefuseRun, JudgeTest, IsReproduction, Typed, TypeOK
<1>2. node = "repro" /\ step \in {"reply", "run_repro"}
  BY DEF NoUsableTest, RefuseTest, RefuseRun, JudgeTest, Trail
<1>3. [test |-> IF b THEN t ELSE None, reproduced |-> b] \in ReproAttempt
  BY DEF ReproAttempt
<1>4. reproAttempts \in Seq(ReproAttempt)
  BY DEF Typed, TypeOK
<1>5. Len(reproAttempts') = Len(reproAttempts) + 1
  BY <1>1, <1>3, <1>4, AppendRepro DEF SpendRepro
<1>6. QED BY <1>1, <1>2, <1>5 DEF ReproSpent, SpendRepro, Underway, Inside, outside

LEMMA FixIsSpent ==
  Typed /\ Trail /\ (NoUsablePatch \/ RefusePatch \/ RefuseTarget \/ RunSuite) => FixSpent
<1> SUFFICES ASSUME Typed, Trail, NoUsablePatch \/ RefusePatch \/ RefuseTarget \/ RunSuite
             PROVE  FixSpent
  OBVIOUS
<1>1. PICK p \in Patches \cup {None}, t \in BOOLEAN, s \in BOOLEAN, a \in BOOLEAN :
        SpendFix(p, t, s, a) /\ (a => t /\ s)
  <2>1. CASE NoUsablePatch \/ RefusePatch \/ RefuseTarget
    BY <2>1 DEF NoUsablePatch, RefusePatch, RefuseTarget, Typed, TypeOK
  <2>2. CASE RunSuite
    BY <2>2, SuiteType DEF RunSuite, Accepts, Typed, TypeOK
  <2>3. QED BY <2>1, <2>2
<1>2. node = "fix" /\ step \in {"reply", "run_target", "run_suite"}
  BY DEF NoUsablePatch, RefusePatch, RefuseTarget, RunSuite, Trail
<1> DEFINE attempt == [patch |-> IF a THEN p ELSE None, target |-> t, suite |-> s, accepted |-> a]
<1>3. attempt \in FixAttempt /\ (attempt.accepted => attempt.target /\ attempt.suite)
  BY <1>1 DEF FixAttempt
<1>4. fixAttempts \in Seq(FixAttempt)
  BY DEF Typed, TypeOK
<1>5. fixAttempts' = Append(fixAttempts, attempt)
  BY <1>1 DEF SpendFix
<1> HIDE DEF attempt
<1>6. Len(fixAttempts') = Len(fixAttempts) + 1 /\ (AllEarned(fixAttempts) => AllEarned(fixAttempts'))
  BY <1>3, <1>4, <1>5, AppendFix
<1>7. QED BY <1>1, <1>2, <1>6 DEF FixSpent, SpendFix, Underway, Inside, outside

LEMMA TrailInvariant == Spec => [](Trail /\ AllEarned(fixAttempts))
<1> USE CapsAssumption
    DEF graphState, meter, locals, tree, outside, Trail, Underway, Inside
<1>1. Init => Trail /\ AllEarned(fixAttempts)
  BY EmptyTrail DEF Init
<1>2. Typed /\ Trail /\ AllEarned(fixAttempts) /\ [Next]_vars
        => (Trail /\ AllEarned(fixAttempts))'
  <2> SUFFICES ASSUME Typed, Trail, AllEarned(fixAttempts), [Next]_vars
               PROVE  (Trail /\ AllEarned(fixAttempts))'
    OBVIOUS
  <2> USE DEF Typed, TypeOK
  <2>1. CASE NoUsableTest \/ RefuseTest \/ RefuseRun \/ JudgeTest
    BY <2>1, ReproIsSpent DEF ReproSpent
  <2>2. CASE NoUsablePatch \/ RefusePatch \/ RefuseTarget \/ RunSuite
    BY <2>2, FixIsSpent DEF FixSpent
  <2>3. CASE OpenWorkspace
    BY <2>3 DEF OpenWorkspace, Raise
  <2>4. CASE PrepareEnvironment
    BY <2>4 DEF PrepareEnvironment, Raise
  <2>5. CASE RefuseNode
    BY <2>5 DEF RefuseNode
  <2>6. CASE StartNode
    BY <2>6 DEF StartNode
  <2>7. CASE RefuseCall
    BY <2>7 DEF RefuseCall, Raise
  <2>8. CASE CallRaises
    BY <2>8 DEF CallRaises, Raise
  <2>9. CASE FirstRoundTrip
    BY <2>9 DEF FirstRoundTrip
  <2>10. CASE CassetteMissing
    BY <2>10 DEF CassetteMissing
  <2>11. CASE RepairRoundTrip
    BY <2>11 DEF RepairRoundTrip
  <2>12. CASE LetFailureOut
    BY <2>12 DEF LetFailureOut, Raise
  <2>13. CASE Intake
    BY <2>13 DEF Intake
  <2>14. CASE Clarify
    BY <2>14 DEF Clarify
  <2>15. CASE Localise
    BY <2>15 DEF Localise
  <2>16. CASE WriteTest
    BY <2>16 DEF WriteTest
  <2>17. CASE ApplyPatch
    BY <2>17 DEF ApplyPatch
  <2>18. CASE RunTarget
    BY <2>18 DEF RunTarget
  <2>19. CASE Report
    BY <2>19 DEF Report
  <2>20. CASE SandboxRaises
    BY <2>20 DEF SandboxRaises, Raise
  <2>21. CASE LeaveNode
    BY <2>21 DEF LeaveNode
  <2>22. CASE Route
    BY SuccessorOf, <2>22 DEF Route, Nodes, RouteAfterIntake, RouteAfterRepro, RouteAfterFix
  <2>23. CASE Close
    BY <2>23 DEF Close
  <2>24. CASE Gate
    BY <2>24 DEF Gate
  <2>25. CASE UNCHANGED vars
    BY <2>25 DEF vars
  <2>26. QED
    BY <2>1, <2>2, <2>3, <2>4, <2>5, <2>6, <2>7, <2>8, <2>9, <2>10, <2>11, <2>12, <2>13, <2>14, <2>15, <2>16, <2>17, <2>18, <2>19, <2>20, <2>21, <2>22, <2>23, <2>24, <2>25 DEF Next
<1>3. QED BY <1>1, <1>2, TypedInvariant, PTL DEF Spec

-----------------------------------------------------------------------------
(* The verdict. *)

EvidenceVerdict ==
  IF AnyAccepted(fixAttempts) THEN "reproduced_and_fixed"
  ELSE IF AnyReproduced(reproAttempts) THEN "reproduced_not_fixed" ELSE "not_reproduced"

Concluded == step \in {"leave", "route", "close", "gate", "returned"} /\ failure = None

(* GraphState.verdict is "aborted_budget" exactly when a cap is reached; any *)
(* other verdict was written by the last node of its path, from evidence    *)
(* that did not change since.                                               *)
Ruling ==
  /\ verdict = "aborted_budget" <=> Exhausted(usage)
  /\ \/ verdict \in {None, "aborted_budget"}
     \/ node = "clarify" /\ verdict = "needs_clarification"
     \/ node = "report" /\ Concluded /\ verdict = EvidenceVerdict
  /\ handover # None => node = "report" /\ Concluded /\ handover = EvidenceVerdict
  /\ failure # None => step \in {"close", "raised"}
  /\ step = "close" /\ failure = None => node \in {"clarify", "report"}
  /\ step \in {"gate", "returned"} => node \in {"clarify", "report"}
  /\ node \in {"clarify", "report"} /\ Concluded => verdict # None
  /\ step # "returned" => record = NoRecord
  /\ step = "returned" => record = EnforceInvariants(Assembled)

LEMMA InsideIsWithinBudget ==
  Typed /\ Metering /\ step \in Inside => ~Exhausted(usage)
BY CapsAssumption DEF Typed, TypeOK, TokenUsage, Metering, Exhausted

LEMMA EvidenceUnchanged ==
  UNCHANGED <<reproAttempts, fixAttempts>> => EvidenceVerdict' = EvidenceVerdict
BY DEF EvidenceVerdict

LEMMA OnlyTheLastNodesEnd ==
  node \in Nodes => (Successor = "END" <=> node \in {"clarify", "report"})
<1>1. /\ RouteAfterIntake # "END" /\ RouteAfterRepro # "END" /\ RouteAfterFix # "END"
  BY DEF RouteAfterIntake, RouteAfterRepro, RouteAfterFix
<1>2. QED BY <1>1, SuccessorOf DEF Nodes

LEMMA RulingInvariant == Spec => []Ruling
<1>1. Init => Ruling
  BY CapsAssumption DEF Init, NoUsage, Exhausted, Ruling, Concluded, None
<1>2. Typed /\ Metering /\ Trail /\ Ruling /\ [Next]_vars => Ruling'
  <2> SUFFICES ASSUME Typed, Metering, Trail, Ruling, [Next]_vars
               PROVE  Ruling'
    OBVIOUS
  <2> USE DEF graphState, meter, locals, tree, outside, Ruling, Concluded, Inside, None
  <2>1. CASE NoUsableTest \/ RefuseTest \/ RefuseRun \/ JudgeTest
    BY <2>1, ReproIsSpent DEF ReproSpent, Underway
  <2>2. CASE NoUsablePatch \/ RefusePatch \/ RefuseTarget \/ RunSuite
    BY <2>2, FixIsSpent DEF FixSpent, Underway
  <2>3. CASE OpenWorkspace
    BY <2>3 DEF OpenWorkspace, Raise
  <2>4. CASE PrepareEnvironment
    BY <2>4 DEF PrepareEnvironment, Raise
  <2>5. CASE RefuseNode
    BY <2>5 DEF RefuseNode
  <2>6. CASE StartNode
    BY <2>6 DEF StartNode
  <2>7. CASE RefuseCall
    BY <2>7 DEF RefuseCall, Raise
  <2>8. CASE CallRaises
    BY <2>8 DEF CallRaises, Raise
  <2>9. CASE FirstRoundTrip
    BY <2>9 DEF FirstRoundTrip
  <2>10. CASE CassetteMissing
    BY <2>10 DEF CassetteMissing
  <2>11. CASE RepairRoundTrip
    BY <2>11 DEF RepairRoundTrip
  <2>12. CASE LetFailureOut
    BY <2>12 DEF LetFailureOut, Raise
  <2>13. CASE Intake
    BY <2>13 DEF Intake
  <2>14. CASE Clarify
    BY <2>14, InsideIsWithinBudget DEF Clarify
  <2>15. CASE Localise
    BY <2>15 DEF Localise
  <2>16. CASE WriteTest
    BY <2>16 DEF WriteTest
  <2>17. CASE ApplyPatch
    BY <2>17 DEF ApplyPatch
  <2>18. CASE RunTarget
    BY <2>18 DEF RunTarget
  <2>19. CASE Report
    <3>1. step \in Inside /\ node = "report" /\ step' = "leave"
          /\ UNCHANGED <<node, usage, reproAttempts, fixAttempts, failure, record>>
      BY <2>19 DEF Report
    <3>2. ~Exhausted(usage) /\ VerdictFor = EvidenceVerdict
      BY <3>1, InsideIsWithinBudget DEF VerdictFor, EvidenceVerdict, Trail
    <3>3. verdict' = EvidenceVerdict' /\ handover' \in {EvidenceVerdict', None}
      BY <2>19, <3>1, <3>2, EvidenceUnchanged DEF Report
    <3>4. EvidenceVerdict' \notin {None, "aborted_budget"}
      BY DEF EvidenceVerdict
    <3>5. QED BY <3>1, <3>2, <3>3, <3>4
  <2>20. CASE SandboxRaises
    BY <2>20 DEF SandboxRaises, Raise
  <2>21. CASE LeaveNode
    BY <2>21, InsideIsWithinBudget, EvidenceUnchanged DEF LeaveNode
  <2>22. CASE Route
    BY <2>22, OnlyTheLastNodesEnd, EvidenceUnchanged DEF Route, Typed, TypeOK
  <2>23. CASE Close
    BY <2>23, EvidenceUnchanged DEF Close
  <2>24. CASE Gate
    <3>1. Assembled' = Assembled
      BY <2>24 DEF Gate, Assembled
    <3>2. QED BY <2>24, <3>1, EvidenceUnchanged DEF Gate
  <2>25. CASE UNCHANGED vars
    BY <2>25 DEF vars, Assembled, EvidenceVerdict
  <2>26. QED
    BY <2>1, <2>2, <2>3, <2>4, <2>5, <2>6, <2>7, <2>8, <2>9, <2>10, <2>11, <2>12, <2>13, <2>14, <2>15, <2>16, <2>17, <2>18, <2>19, <2>20, <2>21, <2>22, <2>23, <2>24, <2>25 DEF Next
<1>3. QED BY <1>1, <1>2, TypedInvariant, MeteringInvariant, TrailInvariant, PTL DEF Spec

(* What the gate sees, money apart, is always sound: every other clause of  *)
(* check_invariants already holds of the record it is handed.               *)
LEMMA GateActsOnMoneyOnly ==
  Typed /\ Trail /\ AllEarned(fixAttempts) /\ Ruling /\ step \in {"gate", "returned"}
    => (Sound(Assembled) <=> usage.usd <= MaxUsd)
<1> SUFFICES ASSUME Typed, Trail, AllEarned(fixAttempts), Ruling, step \in {"gate", "returned"}
             PROVE  Sound(Assembled) <=> usage.usd <= MaxUsd
  OBVIOUS
<1>1. /\ Assembled.repro = reproAttempts /\ Assembled.fix = fixAttempts
      /\ Assembled.usage = usage
      /\ Assembled.verdict = IF verdict = None THEN "not_reproduced" ELSE verdict
  BY DEF Assembled
<1>2. Len(reproAttempts) <= MaxRepro /\ Len(fixAttempts) <= MaxFix
  BY CapsAssumption DEF Trail, Typed, TypeOK
<1>3. AnyAccepted(fixAttempts) => AnyReproduced(reproAttempts)
  BY DEF Trail
<1>4. Assembled.verdict = "reproduced_and_fixed" => AnyAccepted(fixAttempts)
  BY <1>1 DEF Ruling, EvidenceVerdict, None
<1>5. \A i \in DOMAIN fixAttempts :
        fixAttempts[i].accepted => fixAttempts[i].target /\ fixAttempts[i].suite
  BY DEF AllEarned
<1>6. QED BY <1>1, <1>2, <1>3, <1>4, <1>5 DEF Sound

(* The last gate only ever acts on money: "aborted_budget" is only said of  *)
(* a run whose usage reached a cap.                                         *)
THEOREM AbortsAreAboutBudget == Spec => []AbortedOnlyOnBudget
<1>1. Typed /\ Trail /\ AllEarned(fixAttempts) /\ Ruling => AbortedOnlyOnBudget
  <2> SUFFICES ASSUME Typed, Trail, AllEarned(fixAttempts), Ruling,
                      step = "returned", record.verdict = "aborted_budget"
               PROVE  Exhausted(record.usage)
    BY DEF AbortedOnlyOnBudget, Returned
  <2>1. record = EnforceInvariants(Assembled)
    BY DEF Ruling
  <2>2. record.usage = usage
    BY <2>1 DEF EnforceInvariants, Assembled
  <2>3. CASE Sound(Assembled)
    <3>1. verdict = "aborted_budget"
      BY <2>1, <2>3 DEF EnforceInvariants, Assembled, None
    <3>2. QED BY <2>2, <3>1 DEF Ruling
  <2>4. CASE ~Sound(Assembled)
    <3>1. usage.usd > MaxUsd
      BY <2>4, GateActsOnMoneyOnly, CapsAssumption DEF Typed, TypeOK, TokenUsage
    <3>2. QED BY <2>2, <3>1 DEF Exhausted
  <2>5. QED BY <2>3, <2>4
<1>2. QED BY <1>1, TypedInvariant, TrailInvariant, RulingInvariant, PTL

(* A run over MAX_RUN_USD ships nothing: its record is the withheld one.    *)
THEOREM OverspentRunsShipNothing == Spec => []OverspentShipsNothing
<1>1. Typed /\ Trail /\ AllEarned(fixAttempts) /\ Ruling => OverspentShipsNothing
  <2> SUFFICES ASSUME Typed, Trail, AllEarned(fixAttempts), Ruling,
                      step = "returned", record.usage.usd > MaxUsd
               PROVE  /\ record.verdict = "aborted_budget" /\ record.handover = None
                      /\ \A i \in DOMAIN record.fix :
                           ~record.fix[i].accepted /\ record.fix[i].patch = Withheld
    BY DEF OverspentShipsNothing, Returned
  <2>1. record = EnforceInvariants(Assembled) /\ Assembled.usage = usage
        /\ Assembled.fix = fixAttempts
    BY DEF Ruling, Assembled
  <2>2. usage.usd > MaxUsd
    BY <2>1 DEF EnforceInvariants
  <2>3. ~Sound(Assembled)
    BY <2>2, GateActsOnMoneyOnly, CapsAssumption DEF Typed, TypeOK, TokenUsage
  <2>4. record.verdict = "aborted_budget" /\ record.handover = None
        /\ record.fix = [i \in DOMAIN fixAttempts |->
             [fixAttempts[i] EXCEPT !.patch = Withheld, !.accepted = FALSE]]
    BY <2>1, <2>3 DEF EnforceInvariants, Assembled
  <2>5. ASSUME NEW i \in DOMAIN fixAttempts
        PROVE  /\ ~[fixAttempts[i] EXCEPT !.patch = Withheld, !.accepted = FALSE].accepted
               /\ [fixAttempts[i] EXCEPT !.patch = Withheld, !.accepted = FALSE].patch = Withheld
    <3>1. fixAttempts[i] \in FixAttempt
      BY SeqDef DEF Typed, TypeOK
    <3>2. QED BY <3>1 DEF FixAttempt
  <2>6. QED BY <2>4, <2>5
<1>2. QED BY <1>1, TypedInvariant, TrailInvariant, RulingInvariant, PTL

(* Letters speak of the record's verdict, provided that the call cap is out *)
(* of reach, which contracts.py's own numbers make it (18 calls against     *)
(* 40): a report that spends the last call would otherwise be relabelled    *)
(* and keep its letters.                                                    *)
THEOREM LettersAreHonest ==
  ASSUME 2 * (3 + MaxRepro + MaxFix) < MaxCalls
  PROVE  Spec => []HandoverHonest
<1>1. Typed /\ Trail /\ AllEarned(fixAttempts) /\ Ruling /\ CallCeiling => HandoverHonest
  <2> SUFFICES ASSUME Typed, Trail, AllEarned(fixAttempts), Ruling, CallCeiling,
                      step = "returned", record.handover # None
               PROVE  record.handover = record.verdict
    BY DEF HandoverHonest, Returned
  <2>1. record = EnforceInvariants(Assembled)
    BY DEF Ruling
  <2>2. Sound(Assembled)
    BY <2>1 DEF EnforceInvariants, Assembled
  <2>3. record = Assembled /\ handover # None
    BY <2>1, <2>2 DEF EnforceInvariants, Assembled
  <2>4. ~Exhausted(usage)
    <3>1. usage.usd <= MaxUsd
      BY <2>2, GateActsOnMoneyOnly
    <3>2. usage.calls < MaxCalls
      BY CapsAssumption DEF CallCeiling, Typed, TypeOK, TokenUsage
    <3>3. QED BY <3>1, <3>2, CapsAssumption DEF Exhausted, Typed, TypeOK, TokenUsage
  <2>5. verdict = handover
    BY <2>3, <2>4 DEF Ruling
  <2>6. QED BY <2>3, <2>5 DEF Assembled
<1>2. QED
  BY <1>1, TypedInvariant, TrailInvariant, RulingInvariant, CallsHaveACeiling, PTL

-----------------------------------------------------------------------------
(* The contract.  Evidence moves when a reproduction or an accepted patch   *)
(* is appended, the outcome when the run returns or raises; every other     *)
(* step of the run is a stutter of RunContract.                             *)

Evidence ==
  IF AnyAccepted(fixAttempts) THEN "verified"
  ELSE IF AnyReproduced(reproAttempts) THEN "reproduced" ELSE "none"
Outcome ==
  IF step = "returned" THEN record.verdict ELSE IF step = "raised" THEN "raised" ELSE "running"
Shipped == AnyAccepted(record.fix)

LEMMA NothingShippedYet == Ruling /\ step # "returned" => ~Shipped
BY EmptyTrail DEF Ruling, NoRecord, Shipped

LEMMA SpendingRepro ==
  Trail /\ ReproSpent => Evidence = "none" /\ Evidence' \in {"none", "reproduced"}
BY DEF Trail, ReproSpent, Evidence

LEMMA SpendingFix ==
  Trail /\ FixSpent => Evidence = "reproduced" /\ Evidence' \in {"reproduced", "verified"}
BY DEF Trail, FixSpent, Evidence

LEMMA Waiting ==
  /\ UNCHANGED <<reproAttempts, fixAttempts, record>>
  /\ step \notin {"returned", "raised"} /\ step' \notin {"returned", "raised"}
  => UNCHANGED <<Evidence, Outcome, Shipped>>
BY DEF Evidence, Outcome, Shipped

LEMMA Gaining ==
  ASSUME Trail, ReproSpent \/ FixSpent
  PROVE  \/ UNCHANGED <<Evidence, Outcome, Shipped>>
         \/ Contract!Reproduce \/ Contract!Verify
<1>1. step \notin {"returned", "raised"} /\ step' = "leave"
  BY DEF ReproSpent, FixSpent, Underway, Inside
<1>2. Outcome = "running" /\ Outcome' = "running"
  BY <1>1 DEF Outcome
<1>3. Shipped' = Shipped
  BY DEF ReproSpent, FixSpent, Shipped
<1>4. \/ Evidence' = Evidence
      \/ Evidence = "none" /\ Evidence' = "reproduced"
      \/ Evidence = "reproduced" /\ Evidence' = "verified"
  BY SpendingRepro, SpendingFix
<1>5. QED
  BY <1>2, <1>3, <1>4 DEF Contract!Reproduce, Contract!Verify, Evidence, Outcome, Shipped

(* The record the gate lets through claims exactly what the evidence shows. *)
LEMMA Finishing ==
  ASSUME Typed, Trail, AllEarned(fixAttempts), Ruling, Ruling', Gate
  PROVE  \E v \in Contract!Outcomes \ {"running", "raised"} : Contract!Finish(v)
<1>1. /\ step = "gate" /\ step' = "returned" /\ record' = EnforceInvariants(Assembled)
      /\ UNCHANGED <<reproAttempts, fixAttempts>>
  BY DEF Gate, graphState
<1>2. Outcome = "running" /\ Outcome' = record'.verdict /\ Evidence' = Evidence
  BY <1>1 DEF Outcome, Evidence
<1>3. ~Shipped
  BY <1>1, NothingShippedYet
<1>4. verdict \in Verdicts
  BY <1>1 DEF Ruling, Concluded, Typed, TypeOK
<1>5. Assembled.verdict = verdict /\ Assembled.fix = fixAttempts
  BY <1>4 DEF Assembled, Verdicts, None
<1>6. CASE Sound(Assembled)
  <2>1. record' = Assembled
    BY <1>1, <1>6 DEF EnforceInvariants
  <2>2. record'.verdict = verdict /\ (Shipped' <=> AnyAccepted(fixAttempts))
    BY <1>5, <2>1 DEF Shipped
  <2>3. \/ verdict = "aborted_budget"
        \/ verdict = "needs_clarification" /\ Evidence = "none"
        \/ verdict = EvidenceVerdict
    BY <1>1, <1>4 DEF Ruling, Verdicts, None, Trail, Evidence
  <2>4. Contract!Supports(verdict)
    BY <2>3 DEF Contract!Supports, Evidence, EvidenceVerdict
  <2>5. Shipped' \in BOOLEAN /\ (Shipped' => Evidence = "verified")
        /\ (verdict = "reproduced_and_fixed" => Shipped')
    BY <2>2, <2>3 DEF Evidence, EvidenceVerdict, Shipped, AnyAccepted
  <2>6. Contract!Finish(verdict)
    BY <1>2, <2>2, <2>4, <2>5 DEF Contract!Finish, Evidence, Outcome, Shipped
  <2>7. QED BY <1>4, <2>6 DEF Verdicts, Contract!Outcomes
<1>7. CASE ~Sound(Assembled)
  <2>1. record'.verdict = "aborted_budget"
        /\ record'.fix = [i \in DOMAIN fixAttempts |->
             [fixAttempts[i] EXCEPT !.patch = Withheld, !.accepted = FALSE]]
    BY <1>1, <1>5, <1>7 DEF EnforceInvariants, Assembled
  <2>2. ~Shipped'
    <3>1. ASSUME NEW i \in DOMAIN fixAttempts
          PROVE  ~[fixAttempts[i] EXCEPT !.patch = Withheld, !.accepted = FALSE].accepted
      <4>1. fixAttempts[i] \in FixAttempt
        BY SeqDef DEF Typed, TypeOK
      <4>2. QED BY <4>1 DEF FixAttempt
    <3>2. QED BY <2>1, <3>1 DEF Shipped, AnyAccepted
  <2>3. Contract!Supports("aborted_budget")
    BY DEF Contract!Supports
  <2>4. UNCHANGED <<Evidence, Shipped>> /\ Shipped' \in BOOLEAN
        /\ Outcome = "running" /\ Outcome' = "aborted_budget"
    BY <1>2, <1>3, <2>1, <2>2 DEF Shipped, AnyAccepted
  <2>5. Contract!Finish("aborted_budget")
    BY <2>2, <2>3, <2>4 DEF Contract!Finish, Evidence, Outcome, Shipped
  <2>6. QED BY <2>5 DEF Contract!Outcomes
<1>8. QED BY <1>6, <1>7

(* The detailed run implements its contract: nothing is claimed before it   *)
(* is shown, nothing shown is lost, and the returned verdict is the one the *)
(* evidence supports.                                                       *)
THEOREM RunImplementsContract == Spec => ImplementsContract
<1>1. Init => Contract!Init
  BY EmptyTrail DEF Init, NoRecord, Contract!Init
<1>2. Typed /\ Trail /\ AllEarned(fixAttempts) /\ Ruling /\ Ruling' /\ [Next]_vars
        => [Contract!Next]_Contract!vars
  <2> SUFFICES ASSUME Typed, Trail, AllEarned(fixAttempts), Ruling, Ruling', [Next]_vars
               PROVE  \/ UNCHANGED <<Evidence, Outcome, Shipped>>
                      \/ Contract!Reproduce \/ Contract!Verify \/ Contract!Raise
                      \/ \E v \in Contract!Outcomes \ {"running", "raised"} : Contract!Finish(v)
    BY DEF Contract!Next, Contract!vars, Evidence, Outcome, Shipped
  <2> USE DEF graphState, meter, locals, tree, outside
  <2>1. CASE NoUsableTest \/ RefuseTest \/ RefuseRun \/ JudgeTest
    BY <2>1, ReproIsSpent, Gaining
  <2>2. CASE NoUsablePatch \/ RefusePatch \/ RefuseTarget \/ RunSuite
    BY <2>2, FixIsSpent, Gaining
  <2>3. CASE Gate
    BY <2>3, Finishing
  <2>4. CASE Close
    <3>1. CASE failure = None
      BY <2>4, <3>1, Waiting DEF Close
    <3>2. CASE failure # None
      BY <2>4, <3>2 DEF Close, Contract!Raise, Evidence, Outcome, Shipped
    <3>3. QED BY <3>1, <3>2
  <2>5. CASE OpenWorkspace
    BY <2>5, Waiting DEF OpenWorkspace, Raise
  <2>6. CASE PrepareEnvironment
    BY <2>6, Waiting DEF PrepareEnvironment, Raise
  <2>7. CASE RefuseNode
    BY <2>7, Waiting DEF RefuseNode
  <2>8. CASE StartNode
    BY <2>8, Waiting DEF StartNode
  <2>9. CASE RefuseCall
    BY <2>9, Waiting DEF RefuseCall, Raise
  <2>10. CASE CallRaises
    BY <2>10, Waiting DEF CallRaises, Raise
  <2>11. CASE FirstRoundTrip
    BY <2>11, Waiting DEF FirstRoundTrip
  <2>12. CASE CassetteMissing
    BY <2>12, Waiting DEF CassetteMissing
  <2>13. CASE RepairRoundTrip
    BY <2>13, Waiting DEF RepairRoundTrip
  <2>14. CASE LetFailureOut
    BY <2>14, Waiting DEF LetFailureOut, Raise
  <2>15. CASE Intake
    BY <2>15, Waiting DEF Intake
  <2>16. CASE Clarify
    BY <2>16, Waiting DEF Clarify
  <2>17. CASE Localise
    BY <2>17, Waiting DEF Localise
  <2>18. CASE WriteTest
    BY <2>18, Waiting DEF WriteTest
  <2>19. CASE ApplyPatch
    BY <2>19, Waiting DEF ApplyPatch
  <2>20. CASE RunTarget
    BY <2>20, Waiting DEF RunTarget
  <2>21. CASE Report
    BY <2>21, Waiting DEF Report
  <2>22. CASE SandboxRaises
    BY <2>22, Waiting DEF SandboxRaises, Raise
  <2>23. CASE LeaveNode
    BY <2>23, Waiting DEF LeaveNode
  <2>24. CASE Route
    BY <2>24, Waiting DEF Route
  <2>25. CASE UNCHANGED vars
    BY <2>25 DEF vars, Evidence, Outcome, Shipped
  <2>26. QED
    BY <2>1, <2>2, <2>3, <2>4, <2>5, <2>6, <2>7, <2>8, <2>9, <2>10, <2>11, <2>12,
       <2>13, <2>14, <2>15, <2>16, <2>17, <2>18, <2>19, <2>20, <2>21, <2>22, <2>23,
       <2>24, <2>25
    DEF Next
<1>3. QED
  BY <1>1, <1>2, TypedInvariant, TrailInvariant, RulingInvariant, PTL
  DEF Spec, ImplementsContract, Contract!Spec

-----------------------------------------------------------------------------
(* What is on the tree while a run tests on it: which generated test, which *)
(* patch, and what a record that says "fixed" is worth because of it.  All  *)
(* of it holds as long as no OSError is swallowed while a patch or a test   *)
(* is taken back, and is false otherwise.                                   *)
Testing == {"run_repro", "run_target", "run_suite"}

(* The accepted patch is alone on the tree, and both checks hold of it.     *)
Verified ==
  /\ \E i \in DOMAIN fixAttempts :
       fixAttempts[i].accepted /\ applied = <<fixAttempts[i].patch>>
  /\ OutcomeOf(TargetTest) = "green"
  /\ SuiteHealthy

(* Tests whose names the runner takes.                                      *)
Runnable(tests) == tests \ {"unrunnable"}

(* Between two attempts the tree holds the test that reproduced, if one     *)
(* has, and the patch that was accepted, if one was, and nothing else but   *)
(* tests that could not be run.                                             *)
OnTree ==
  failure = None =>
    /\ Runnable(written) = IF step = "run_repro" THEN Runnable({test})
                           ELSE IF AnyReproduced(reproAttempts) THEN {TargetTest} ELSE {}
    /\ IF AnyAccepted(fixAttempts) THEN Verified
       ELSE applied = IF step \in {"run_target", "run_suite"} THEN <<patch>> ELSE <<>>
    /\ step = "run_suite" /\ target => OutcomeOf(TargetTest) = "green"

-----------------------------------------------------------------------------
(* Operators of the tree. *)

LEMMA OneAttempt ==
  \A p \in Patches : SubSeq(<<p>>, 1, Len(<<p>>) - 1) = <<>>
OBVIOUS

(* Without a swallowed OSError, taking back takes back.                     *)
LEMMA TakenBack ==
  ASSUME DiskFaults = FALSE
  PROVE  /\ patch \in Patches /\ applied = <<patch>> => Unpatched = {<<>>}
         /\ \A t : Runnable(written) = Runnable({t}) =>
              \A left \in RemoveTest(t) : Runnable(left) = {}
<1>1. ASSUME patch \in Patches, applied = <<patch>> PROVE Unpatched = {<<>>}
  <2>1. SubSeq(applied, 1, Len(applied) - 1) = <<>>
    BY <1>1, OneAttempt
  <2>2. QED BY <2>1 DEF Unpatched
<1>2. ASSUME NEW t, Runnable(written) = Runnable({t}), NEW left \in RemoveTest(t)
      PROVE  Runnable(left) = {}
  BY <1>2 DEF RemoveTest, Runnable
<1>3. QED BY <1>1, <1>2

(* The target is the newest reproduction.                                   *)
LEMMA TargetOfAppend ==
  ASSUME NEW a \in ReproAttempt, reproAttempts \in Seq(ReproAttempt),
         reproAttempts' = Append(reproAttempts, a), a.reproduced, ~AnyReproduced(reproAttempts)
  PROVE  TargetTest' = a.test
<1> DEFINE n == Len(reproAttempts) + 1
<1>1. /\ DOMAIN reproAttempts = 1 .. Len(reproAttempts) /\ Len(reproAttempts) \in Nat
      /\ DOMAIN reproAttempts' = 1 .. n /\ reproAttempts'[n] = a
      /\ \A i \in 1 .. Len(reproAttempts) : reproAttempts'[i] = reproAttempts[i]
  OBVIOUS
<1>2. \A i \in 1 .. Len(reproAttempts) : ~reproAttempts'[i].reproduced
  BY <1>1 DEF AnyReproduced
<1>3. /\ n \in DOMAIN reproAttempts' /\ reproAttempts'[n].reproduced
      /\ \A j \in DOMAIN reproAttempts' : reproAttempts'[j].reproduced => j = n /\ j <= n
  BY <1>1, <1>2
<1>4. (CHOOSE i \in DOMAIN reproAttempts' :
         /\ reproAttempts'[i].reproduced
         /\ \A j \in DOMAIN reproAttempts' : reproAttempts'[j].reproduced => j <= i) = n
  BY <1>3
<1>5. QED BY <1>1, <1>4 DEF TargetTest

LEMMA SameFindings ==
  ASSUME UNCHANGED <<reproAttempts, applied, written, baseline>>
  PROVE  /\ TargetTest' = TargetTest /\ OutcomeOf(TargetTest)' = OutcomeOf(TargetTest)
         /\ SuiteHealthy' = SuiteHealthy
BY DEF TargetTest, OutcomeOf, SuiteHealthy, CodeFixed, Regressed, TestEdited

(* Most steps neither test nor touch what was tested.                       *)
LEMMA Untouched ==
  ASSUME OnTree, step \notin Testing, step' \notin Testing,
         failure' = None => failure = None,
         UNCHANGED <<reproAttempts, fixAttempts, applied, written, baseline>>
  PROVE  OnTree'
BY SameFindings DEF OnTree, Verified, Testing

-----------------------------------------------------------------------------
LEMMA ReproOnTree ==
  ASSUME DiskFaults = FALSE, Typed, Trail, Ruling, OnTree,
         NoUsableTest \/ RefuseTest \/ RefuseRun \/ JudgeTest
  PROVE  OnTree'
<1>1. ReproSpent /\ failure = None /\ ~AnyReproduced(reproAttempts)
  BY ReproIsSpent DEF NoUsableTest, RefuseTest, RefuseRun, JudgeTest, Trail, Ruling, Underway, Inside
<1>2. ~AnyAccepted(fixAttempts) /\ reproAttempts \in Seq(ReproAttempt)
  BY <1>1 DEF Trail, Typed, TypeOK
<1>3. UNCHANGED <<fixAttempts, applied, baseline>> /\ step' = "leave" /\ applied = <<>>
  BY <1>1, <1>2 DEF NoUsableTest, RefuseTest, RefuseRun, JudgeTest, SpendRepro, OnTree, outside
<1>4. CASE NoUsableTest \/ RefuseTest \/ RefuseRun
  <2> DEFINE a == [test |-> None, reproduced |-> FALSE]
  <2>1. a \in ReproAttempt /\ ~a.reproduced
    BY DEF ReproAttempt
  <2>2. /\ reproAttempts' = Append(reproAttempts, a) /\ written' = written
        /\ Runnable(written) = {}
    BY <1>1, <1>4 DEF NoUsableTest, RefuseTest, RefuseRun, SpendRepro, OnTree, Runnable
  <2> HIDE DEF a
  <2>3. ~AnyReproduced(reproAttempts')
    BY <1>1, <1>2, <2>1, <2>2, AppendRepro
  <2>4. QED BY <1>2, <1>3, <2>2, <2>3 DEF OnTree
<1>5. CASE JudgeTest
  <2>1. PICK outcome \in RunTest(test) :
          /\ SpendRepro(test, IsReproduction(outcome))
          /\ written' \in IF IsReproduction(outcome) THEN {written} ELSE RemoveTest(test)
    BY <1>5 DEF JudgeTest
  <2> DEFINE red == IsReproduction(outcome)
             a == [test |-> IF red THEN test ELSE None, reproduced |-> red]
  <2>2. red \in BOOLEAN /\ test \in Tests \cup {None}
    BY DEF IsReproduction, Typed, TypeOK
  <2>3. a \in ReproAttempt /\ a.reproduced = red /\ (red => a.test = test)
    BY <2>2 DEF ReproAttempt
  <2>4. reproAttempts' = Append(reproAttempts, a)
    BY <2>1 DEF SpendRepro
  <2>5. Runnable(written) = Runnable({test}) /\ Runnable({test}) = {test}
    BY <1>1, <1>5 DEF OnTree, JudgeTest, Runnable
  <2>6. Runnable(written') = IF red THEN {test} ELSE {}
    BY <2>1, <2>5, TakenBack
  <2> HIDE DEF a, red
  <2>7. AnyReproduced(reproAttempts') <=> red
    BY <1>1, <1>2, <2>3, <2>4, AppendRepro
  <2>8. red => TargetTest' = test
    BY <1>1, <1>2, <2>3, <2>4, TargetOfAppend
  <2>9. QED BY <1>2, <1>3, <2>6, <2>7, <2>8 DEF OnTree
<1>6. QED BY <1>4, <1>5

LEMMA FixOnTree ==
  ASSUME DiskFaults = FALSE, Typed, Trail, Ruling, OnTree,
         NoUsablePatch \/ RefusePatch \/ RefuseTarget \/ RunSuite
  PROVE  OnTree'
<1>1. FixSpent /\ failure = None
  BY FixIsSpent DEF NoUsablePatch, RefusePatch, RefuseTarget, RunSuite, Ruling
<1>2. ~AnyAccepted(fixAttempts) /\ AnyReproduced(reproAttempts) /\ fixAttempts \in Seq(FixAttempt)
  BY <1>1 DEF FixSpent, Trail, Typed, TypeOK
<1>3. /\ UNCHANGED <<reproAttempts, written, baseline>> /\ step' = "leave"
      /\ Runnable(written) = {TargetTest} /\ TargetTest' = TargetTest
  BY <1>1, <1>2
     DEF FixSpent, NoUsablePatch, RefusePatch, RefuseTarget, RunSuite, SpendFix, OnTree,
         outside, TargetTest
<1>4. PICK p \in Patches \cup {None}, t \in BOOLEAN, s \in BOOLEAN, a \in BOOLEAN :
        /\ SpendFix(p, t, s, a)
        /\ ~a => applied' = <<>>
        /\ a => /\ p \in Patches /\ applied = <<p>> /\ applied' = applied
                /\ OutcomeOf(TargetTest) = "green" /\ SuiteHealthy
  <2>1. CASE NoUsablePatch \/ RefusePatch
    BY <1>1, <1>2, <2>1 DEF NoUsablePatch, RefusePatch, OnTree
  <2>2. ASSUME step \in {"run_target", "run_suite"}
        PROVE  patch \in Patches /\ applied = <<patch>> /\ Unpatched = {<<>>}
    <3>1. applied = <<patch>> /\ applied \in Seq(Patches)
      BY <1>1, <1>2, <2>2 DEF OnTree, Typed, TypeOK
    <3>2. patch \in Patches
      <4>1. Len(applied) = 1 /\ applied[1] = patch
        BY <3>1
      <4>2. QED BY <3>1, <4>1
    <3>3. QED BY <3>1, <3>2, TakenBack
  <2>3. CASE RefuseTarget
    BY <2>2, <2>3 DEF RefuseTarget
  <2>4. CASE RunSuite
    <3>1. PICK suite \in {SuiteHealthy, FALSE} :
            /\ SpendFix(patch, target, suite, Accepts(target, suite))
            /\ applied' \in IF target /\ suite THEN {applied} ELSE Unpatched
      BY <2>4 DEF RunSuite
    <3>2. suite \in BOOLEAN /\ target \in BOOLEAN /\ (suite => SuiteHealthy)
      <4>1. suite \in BOOLEAN
        BY <3>1, SuiteType
      <4>2. suite => SuiteHealthy
        BY <3>1, Zenon
      <4>3. QED BY <4>1, <4>2 DEF Typed, TypeOK
    <3>3. patch \in Patches /\ applied = <<patch>> /\ Unpatched = {<<>>}
      BY <2>2, <2>4 DEF RunSuite
    <3>4. target => OutcomeOf(TargetTest) = "green"
      BY <1>1, <2>4 DEF RunSuite, OnTree
    <3>5. Accepts(target, suite) = (target /\ suite)
      BY DEF Accepts
    <3>6. ~(target /\ suite) => applied' = <<>>
      BY <3>1, <3>3
    <3>7. target /\ suite => applied' = applied
      BY <3>1
    <3>8. QED BY <3>1, <3>2, <3>3, <3>4, <3>5, <3>6, <3>7
  <2>5. QED BY <2>1, <2>3, <2>4
<1> DEFINE attempt == [patch |-> IF a THEN p ELSE None, target |-> t, suite |-> s, accepted |-> a]
<1>5. attempt \in FixAttempt /\ attempt.accepted = a /\ (a => attempt.patch = p)
  BY DEF FixAttempt
<1>6. fixAttempts' = Append(fixAttempts, attempt)
  BY <1>4 DEF SpendFix
<1> HIDE DEF attempt
<1>7. AnyAccepted(fixAttempts') <=> a
  BY <1>2, <1>5, <1>6, AppendFix
<1>8. CASE ~a
  BY <1>2, <1>3, <1>4, <1>7, <1>8 DEF OnTree
<1>9. CASE a
  <2>1. UNCHANGED <<applied, written, baseline, reproAttempts>>
    BY <1>3, <1>4, <1>9
  <2>2. OutcomeOf(TargetTest)' = "green" /\ SuiteHealthy'
    BY <1>4, <1>9, <2>1, SameFindings
  <2>3. Len(fixAttempts) + 1 \in DOMAIN fixAttempts'
        /\ fixAttempts'[Len(fixAttempts) + 1] = attempt
    BY <1>2, <1>5, <1>6
  <2>4. Verified'
    BY <1>4, <1>5, <1>9, <2>1, <2>2, <2>3 DEF Verified
  <2>5. QED BY <1>2, <1>3, <1>7, <1>9, <2>4 DEF OnTree
<1>10. QED BY <1>8, <1>9

-----------------------------------------------------------------------------
LEMMA OnTreeStep ==
  ASSUME DiskFaults = FALSE
  PROVE  Typed /\ Trail /\ Ruling /\ OnTree /\ [Next]_vars => OnTree'
<1> SUFFICES ASSUME Typed, Trail, Ruling, OnTree, [Next]_vars PROVE OnTree'
  OBVIOUS
<1>1. CASE NoUsableTest \/ RefuseTest \/ RefuseRun \/ JudgeTest
  BY <1>1, ReproOnTree
<1>2. CASE NoUsablePatch \/ RefusePatch \/ RefuseTarget \/ RunSuite
  BY <1>2, FixOnTree
<1>3. CASE WriteTest
  <2>1. PICK t \in Tests : test' = t /\ written' = written \cup {t}
    BY <1>3 DEF WriteTest
  <2>2. failure = None /\ ~AnyReproduced(reproAttempts) /\ ~AnyAccepted(fixAttempts)
    BY <1>3 DEF WriteTest, Ruling, Trail, Underway, Inside
  <2>3. Runnable(written) = {} /\ applied = <<>>
    BY <1>3, <2>2 DEF WriteTest, OnTree
  <2>4. /\ step' = "run_repro" /\ applied' = <<>> /\ Runnable(written') = Runnable({test'})
        /\ UNCHANGED <<reproAttempts, fixAttempts>>
    BY <1>3, <2>1, <2>3 DEF WriteTest, graphState, Runnable
  <2>5. QED BY <2>2, <2>4 DEF OnTree
<1>4. CASE ApplyPatch
  <2>1. PICK p \in Patches : patch' = p /\ applied' = Append(applied, p)
    BY <1>4 DEF ApplyPatch
  <2>2. /\ failure = None /\ AnyReproduced(reproAttempts) /\ ~AnyAccepted(fixAttempts)
        /\ step \notin Testing
    BY <1>4 DEF ApplyPatch, Ruling, Trail, Underway, Inside, Testing
  <2>3. Runnable(written) = {TargetTest} /\ applied = <<>>
    BY <2>2 DEF OnTree, Testing
  <2>4. Append(<<>>, p) = <<p>>
    OBVIOUS
  <2>5. /\ step' = "run_target" /\ written' = written
        /\ UNCHANGED <<reproAttempts, fixAttempts>>
    BY <1>4 DEF ApplyPatch, graphState
  <2>6. TargetTest' = TargetTest
    BY <2>5 DEF TargetTest
  <2>7. applied' = <<patch'>>
    BY <2>1, <2>3, <2>4
  <2>8. QED BY <2>2, <2>3, <2>5, <2>6, <2>7 DEF OnTree
<1>5. CASE RunTarget
  <2>1. PICK outcome \in RunTest(TargetTest) : target' = (outcome = "green")
    BY <1>5 DEF RunTarget
  <2>2. /\ step = "run_target" /\ step' = "run_suite" /\ patch' = patch /\ failure' = failure
        /\ UNCHANGED <<reproAttempts, fixAttempts, applied, written, baseline>>
    BY <1>5 DEF RunTarget, graphState, tree, outside
  <2>3. failure = None /\ ~AnyAccepted(fixAttempts)
    BY <2>2 DEF Ruling, Trail, Underway, Inside
  <2>4. target' => OutcomeOf(TargetTest) = "green"
    BY <2>1 DEF RunTest
  <2>5. QED BY <2>2, <2>3, <2>4, SameFindings DEF OnTree
<1>6. CASE RefuseCall \/ CallRaises \/ LetFailureOut \/ SandboxRaises
  <2>1. failure' # None
    BY <1>6 DEF RefuseCall, CallRaises, LetFailureOut, SandboxRaises, Raise, None
  <2>2. QED BY <2>1 DEF OnTree
<1>7. CASE OpenWorkspace \/ PrepareEnvironment
  <2>1. /\ step \notin Testing /\ step' \notin Testing
        /\ UNCHANGED <<reproAttempts, fixAttempts, applied, written, baseline>>
    BY <1>7 DEF OpenWorkspace, PrepareEnvironment, Raise, graphState, tree, Testing
  <2>2. failure = None
    BY <1>7 DEF OpenWorkspace, PrepareEnvironment, Ruling
  <2>3. QED BY <2>1, <2>2, Untouched
<1>8. CASE RefuseNode \/ StartNode \/ FirstRoundTrip \/ CassetteMissing \/ RepairRoundTrip
  <2>1. /\ step \notin Testing /\ step' \notin Testing /\ failure' = failure
        /\ UNCHANGED <<reproAttempts, fixAttempts, applied, written, baseline>>
    BY <1>8 DEF RefuseNode, StartNode, FirstRoundTrip, CassetteMissing, RepairRoundTrip,
                graphState, tree, outside, Testing
  <2>2. QED BY <2>1, Untouched
<1>9. CASE Intake \/ Clarify \/ Localise \/ Report
  <2>1. /\ step \notin Testing /\ step' \notin Testing /\ failure' = failure
        /\ UNCHANGED <<reproAttempts, fixAttempts, applied, written, baseline>>
    BY <1>9 DEF Intake, Clarify, Localise, Report, graphState, tree, outside, Testing
  <2>2. QED BY <2>1, Untouched
<1>10. CASE LeaveNode \/ Route \/ Close \/ Gate
  <2>1. /\ step \notin Testing /\ step' \notin Testing /\ failure' = failure
        /\ UNCHANGED <<reproAttempts, fixAttempts, applied, written, baseline>>
    BY <1>10 DEF LeaveNode, Route, Close, Gate, graphState, tree, outside, Testing
  <2>2. QED BY <2>1, Untouched
<1>11. CASE UNCHANGED vars
  <2>1. UNCHANGED <<step, failure, test, patch, target, reproAttempts, fixAttempts, applied,
                    written, baseline>>
    BY <1>11 DEF vars, graphState, locals, tree, outside
  <2>2. QED BY <2>1, SameFindings DEF OnTree, Verified
<1>12. QED
  BY <1>1, <1>2, <1>3, <1>4, <1>5, <1>6, <1>7, <1>8, <1>9, <1>10, <1>11 DEF Next

LEMMA OnTreeInvariant ==
  ASSUME DiskFaults = FALSE
  PROVE  Spec => [](Typed /\ Trail /\ AllEarned(fixAttempts) /\ Ruling /\ OnTree)
<1>1. Init => OnTree
  BY EmptyTrail DEF Init, OnTree, Runnable, None
<1>2. Typed /\ Trail /\ Ruling /\ OnTree /\ [Next]_vars => OnTree'
  BY OnTreeStep
<1>3. QED
  BY <1>1, <1>2, TypedInvariant, TrailInvariant, RulingInvariant, PTL DEF Spec

(* "Fixed" is about the tree as it stands: the accepted patch alone is on   *)
(* it, and the reproduction and the whole suite are green there, for every  *)
(* bound, price and cap, when nothing that was to be taken back stayed on.  *)
THEOREM FixedIsVerified ==
  ASSUME DiskFaults = FALSE
  PROVE  Spec => []FixedMeansVerified
<1>1. Typed /\ Trail /\ AllEarned(fixAttempts) /\ Ruling /\ OnTree => FixedMeansVerified
  <2> SUFFICES ASSUME Typed, Trail, AllEarned(fixAttempts), Ruling, OnTree,
                      step = "returned", record.verdict = "reproduced_and_fixed"
               PROVE  /\ \E i \in DOMAIN record.fix :
                           record.fix[i].accepted /\ applied = <<record.fix[i].patch>>
                      /\ OutcomeOf(TargetTest) = "green"
                      /\ SuiteHealthy
    BY DEF FixedMeansVerified, Returned
  <2>1. record = EnforceInvariants(Assembled) /\ failure = None
    BY DEF Ruling
  <2>2. record = Assembled
    BY <2>1 DEF EnforceInvariants, Assembled
  <2>3. verdict = "reproduced_and_fixed" /\ record.fix = fixAttempts
    BY <2>2 DEF Assembled, None
  <2>4. AnyAccepted(fixAttempts)
    BY <2>3 DEF Ruling, EvidenceVerdict, None
  <2>5. Verified
    BY <2>1, <2>4 DEF OnTree
  <2>6. QED BY <2>3, <2>5 DEF Verified
<1>2. QED BY <1>1, OnTreeInvariant, PTL

(* No generated test but the target is on the tree when a patch is judged,  *)
(* or one that was refused after it was written: no other can veto a        *)
(* correct patch, whatever the model wrote before it.                       *)
THEOREM GoodPatchesPass ==
  ASSUME DiskFaults = FALSE
  PROVE  Spec => []GoodPatchNotVetoed
<1>1. Typed /\ Trail /\ Ruling /\ OnTree => GoodPatchNotVetoed
  <2> SUFFICES ASSUME Typed, Trail, Ruling, OnTree,
                      step = "run_suite", patch = "right", target, baseline
               PROVE  /\ ~Regressed
                      /\ \A t \in written : OutcomeOf(t) # "green" => t = "unrunnable"
    BY DEF GoodPatchNotVetoed
  <2>1. /\ failure = None /\ AnyReproduced(reproAttempts) /\ ~AnyAccepted(fixAttempts)
    BY DEF Ruling, Trail, Underway, Inside
  <2>2. /\ Runnable(written) = {TargetTest} /\ applied = <<"right">>
        /\ OutcomeOf(TargetTest) = "green"
    BY <2>1 DEF OnTree
  <2>3. ~Regressed
    BY <2>2 DEF Regressed
  <2>4. QED BY <2>2, <2>3 DEF Runnable
<1>2. QED BY <1>1, OnTreeInvariant, PTL

-----------------------------------------------------------------------------
(* The finally clause of run() is on every way to an end, and nothing opens *)
(* the workspace again behind it.                                           *)
ClosedBehind == step \in {"gate", "returned", "raised"} => workspace # "open"

(* However a run ends, raised exceptions and spent budgets included, its    *)
(* copy of the repository is gone.                                          *)
THEOREM NothingLeaks == Spec => []NoLeakedWorkspace
<1>1. Init => ClosedBehind
  BY DEF Init, ClosedBehind
<1>2. ClosedBehind /\ [Next]_vars => ClosedBehind'
  <2> SUFFICES ASSUME ClosedBehind, [Next]_vars, step' \in {"gate", "returned", "raised"}
               PROVE  workspace' # "open"
    BY DEF ClosedBehind
  <2> USE DEF outside
  <2>1. CASE UNCHANGED vars
    BY <2>1 DEF vars, ClosedBehind
  <2>2. CASE Close
    BY <2>2 DEF Close
  <2>3. CASE Gate
    BY <2>3 DEF Gate, ClosedBehind
  <2>4. ASSUME Next, ~Close, ~Gate PROVE FALSE
    <3>1. CASE OpenWorkspace \/ PrepareEnvironment \/ RefuseNode \/ StartNode
      BY <3>1 DEF OpenWorkspace, PrepareEnvironment, RefuseNode, StartNode, Raise
    <3>2. CASE RefuseCall \/ CallRaises \/ FirstRoundTrip \/ CassetteMissing \/ RepairRoundTrip
      BY <3>2 DEF RefuseCall, CallRaises, FirstRoundTrip, CassetteMissing, RepairRoundTrip, Raise
    <3>3. CASE LetFailureOut \/ Intake \/ Clarify \/ Localise \/ Report \/ SandboxRaises
      BY <3>3 DEF LetFailureOut, Intake, Clarify, Localise, Report, SandboxRaises, Raise
    <3>4. CASE NoUsableTest \/ RefuseTest \/ WriteTest \/ RefuseRun \/ JudgeTest
      BY <3>4 DEF NoUsableTest, RefuseTest, WriteTest, RefuseRun, JudgeTest, SpendRepro
    <3>5. CASE NoUsablePatch \/ RefusePatch \/ ApplyPatch \/ RunTarget \/ RefuseTarget \/ RunSuite
      BY <3>5 DEF NoUsablePatch, RefusePatch, ApplyPatch, RunTarget, RefuseTarget, RunSuite, SpendFix
    <3>6. CASE LeaveNode \/ Route
      BY <3>6 DEF LeaveNode, Route
    <3>7. QED BY <2>4, <3>1, <3>2, <3>3, <3>4, <3>5, <3>6 DEF Next
  <2>5. QED BY <2>1, <2>2, <2>3, <2>4
<1>3. ClosedBehind => NoLeakedWorkspace
  BY DEF ClosedBehind, NoLeakedWorkspace, Over, Returned
<1>4. QED BY <1>1, <1>2, <1>3, PTL DEF Spec
=============================================================================
