--------------------------- MODULE RunGraphProofs ---------------------------
(***************************************************************************)
(* What holds of every run, whatever the caps, prices and estimates of     *)
(* RunGraph are.  Each section names the part of the inductive invariant   *)
(* it needs and proves it on top of the sections before it.                *)
(***************************************************************************)
EXTENDS RunGraph, SequenceTheorems, TLAPS

-----------------------------------------------------------------------------
(* Types and counters. *)

Inside == {"first", "repair", "reply", "run_repro", "run_target", "run_suite", "leave"}
Underway == Inside \cup {"open", "environment", "enter"}

(* A node that increments a counter on its way out was only entered while   *)
(* that counter was below its cap; the loops start from zero.               *)
Counters ==
  /\ node = "clarify" /\ step \in Underway => clarifyRounds < MaxClarify
  /\ node = "repro" /\ step \in Underway => reproCount < MaxRepro
  /\ node = "fix" /\ step \in Underway => fixCount < MaxFix
  /\ node \in {"intake", "localise"} => reproCount = 0
  /\ node \in {"intake", "localise", "repro"} => fixCount = 0

Typed == TypeOK /\ Counters

(* Taking the newest snapshot back leaves a sequence of patches.            *)
LEMMA FrontType ==
  ASSUME NEW S, NEW s \in Seq(S)
  PROVE  SubSeq(s, 1, Len(s) - 1) \in Seq(S)
<1>1. CASE s = <<>>
  BY <1>1
<1>2. CASE s # <<>>
  BY <1>2, SubSeqProperties
<1>3. QED BY <1>1, <1>2

LEMMA UnpatchedType == applied \in Seq(Patches) => Unpatched \subseteq Seq(Patches)
<1> SUFFICES ASSUME applied \in Seq(Patches)
             PROVE  Unpatched \subseteq Seq(Patches)
  OBVIOUS
<1>1. SubSeq(applied, 1, Len(applied) - 1) \in Seq(Patches)
  BY FrontType
<1>2. QED BY <1>1 DEF Unpatched

(* Where each node leads; clarify and report lead out of the graph.         *)
LEMMA SuccessorOf ==
  /\ node = "intake" => Successor = RouteAfterIntake
  /\ node = "localise" => Successor = "repro"
  /\ node = "repro" => Successor = RouteAfterRepro
  /\ node = "fix" => Successor = RouteAfterFix
  /\ node \in {"clarify", "report"} => Successor = "END"
  BY DEF Successor

LEMMA SuiteType ==
  ASSUME NEW suite \in {SuiteHealthy, FALSE}
  PROVE  suite \in BOOLEAN
  BY DEF SuiteHealthy

(* The gate rewrites the attempts of an unsound record one by one: they     *)
(* stay attempts, with the patch withheld and nothing accepted.             *)
LEMMA WithheldType ==
  ASSUME NEW s \in Seq(FixAttempt)
  PROVE  [i \in DOMAIN s |-> [s[i] EXCEPT !.patch = Withheld, !.accepted = FALSE]]
           \in Seq(FixAttempt)
<1> DEFINE w == [i \in DOMAIN s |-> [s[i] EXCEPT !.patch = Withheld, !.accepted = FALSE]]
<1>1. Len(s) \in Nat /\ DOMAIN s = 1 .. Len(s) /\ \A i \in DOMAIN s : s[i] \in FixAttempt
  BY SeqDef
<1>2. ASSUME NEW i \in DOMAIN s
      PROVE  [s[i] EXCEPT !.patch = Withheld, !.accepted = FALSE] \in FixAttempt
  <2>1. s[i] \in FixAttempt
    BY <1>1
  <2>2. QED BY <2>1 DEF FixAttempt, Withheld
<1>3. w \in [1 .. Len(s) -> FixAttempt]
  BY <1>1, <1>2
<1>4. w \in Seq(FixAttempt)
  BY <1>1, <1>3, SeqDef
<1>5. QED BY <1>4

LEMMA EnforcedType ==
  ASSUME NEW r \in RunRecord
  PROVE  EnforceInvariants(r) \in RunRecord
<1>1. CASE Sound(r)
  BY <1>1 DEF EnforceInvariants
<1>2. CASE ~Sound(r)
  <2>1. r.fix \in Seq(FixAttempt)
    BY DEF RunRecord
  <2>2. [i \in DOMAIN r.fix |-> [r.fix[i] EXCEPT !.patch = Withheld, !.accepted = FALSE]]
          \in Seq(FixAttempt)
    BY <2>1, WithheldType
  <2>3. QED BY <1>2, <2>2 DEF EnforceInvariants, RunRecord, Verdicts, None
<1>3. QED BY <1>1, <1>2

LEMMA TypedInvariant == Spec => []Typed
<1> USE CapsAssumption, CostAssumption
    DEF TokenUsage, None, Withheld, graphState, meter, locals, tree, outside
<1>1. Init => Typed
  <2>1. NoRecord \in RunRecord
    BY EmptySeq DEF NoRecord, RunRecord, NoUsage
  <2>2. <<>> \in Seq(ReproAttempt) /\ <<>> \in Seq(FixAttempt) /\ <<>> \in Seq(Patches)
    BY EmptySeq
  <2>3. Init => Counters
    BY DEF Init, Counters, Underway, Inside
  <2>4. Init => /\ reproAttempts \in Seq(ReproAttempt) /\ fixAttempts \in Seq(FixAttempt)
                /\ applied \in Seq(Patches) /\ record \in RunRecord
    BY <2>1, <2>2 DEF Init
  <2>5. Init => /\ usage \in TokenUsage /\ delta \in TokenUsage /\ billedUsd \in Nat
                /\ clarifyRounds \in 0 .. MaxClarify /\ reproCount \in 0 .. MaxRepro
                /\ fixCount \in 0 .. MaxFix /\ pending \in Nat
    BY DEF Init, NoUsage
  <2>6. Init => TypeOK
    BY <2>4, <2>5 DEF Init, TypeOK, Nodes, Steps, Verdicts
  <2>7. QED BY <2>3, <2>6 DEF Typed
<1>2. Typed /\ [Next]_vars => Typed'
  <2> SUFFICES ASSUME Typed, [Next]_vars
               PROVE  Typed'
    OBVIOUS
  <2> USE DEF Typed, TypeOK, Counters, Nodes, Steps, Inside, Underway, Verdicts
  <2>1. CASE OpenWorkspace
    BY <2>1 DEF OpenWorkspace, Raise
  <2>2. CASE PrepareEnvironment
    BY <2>2 DEF PrepareEnvironment, Raise
  <2>3. CASE RefuseNode
    BY <2>3 DEF RefuseNode
  <2>4. CASE StartNode
    BY <2>4 DEF StartNode, NoUsage
  <2>5. CASE RefuseCall
    BY <2>5 DEF RefuseCall, Raise, Merge, OneCall
  <2>6. CASE CallRaises
    BY <2>6 DEF CallRaises, Raise, Merge, OneCall
  <2>7. CASE FirstRoundTrip
    BY <2>7 DEF FirstRoundTrip, Merge, OneCall
  <2>8. CASE CassetteMissing
    BY <2>8 DEF CassetteMissing, Merge, OneCall
  <2>9. CASE RepairRoundTrip
    BY <2>9 DEF RepairRoundTrip, Merge, OneCall
  <2>10. CASE LetFailureOut
    BY <2>10 DEF LetFailureOut, Raise
  <2>11. CASE Intake
    BY <2>11 DEF Intake
  <2>12. CASE Clarify
    BY <2>12 DEF Clarify
  <2>13. CASE Localise
    BY <2>13 DEF Localise
  <2>14. CASE NoUsableTest
    BY <2>14 DEF NoUsableTest, SpendRepro, ReproAttempt
  <2>15. CASE RefuseTest
    BY <2>15 DEF RefuseTest, SpendRepro, ReproAttempt
  <2>16. CASE WriteTest
    BY <2>16 DEF WriteTest
  <2>17. CASE RefuseRun \/ JudgeTest
    <3>1. CASE RefuseRun
      BY <3>1 DEF RefuseRun, SpendRepro, ReproAttempt
    <3>2. CASE JudgeTest
      BY <3>2 DEF JudgeTest, SpendRepro, ReproAttempt, IsReproduction, RemoveTest
    <3>3. QED BY <2>17, <3>1, <3>2
  <2>18. CASE NoUsablePatch
    BY <2>18 DEF NoUsablePatch, SpendFix, FixAttempt
  <2>19. CASE RefusePatch
    BY <2>19 DEF RefusePatch, SpendFix, FixAttempt
  <2>20. CASE ApplyPatch
    BY <2>20 DEF ApplyPatch
  <2>21. CASE RunTarget
    BY <2>21 DEF RunTarget
  <2>22. CASE RefuseTarget
    <3>1. applied' \in Seq(Patches)
      BY UnpatchedType, <2>22 DEF RefuseTarget
    <3>2. fixAttempts' \in Seq(FixAttempt)
      BY <2>22 DEF RefuseTarget, SpendFix, FixAttempt
    <3>3. QED BY <2>22, <3>1, <3>2 DEF RefuseTarget, SpendFix
  <2>23. CASE RunSuite
    <3>1. /\ applied' \in Seq(Patches) /\ fixAttempts' \in Seq(FixAttempt)
          /\ step' = "leave"
          /\ UNCHANGED <<node, facts, clarifyRounds, reproCount, fixCount, reproAttempts,
                         verdict, handover, usage, meter, test, written, outside>>
      <4>1. PICK suite \in {SuiteHealthy, FALSE} :
              /\ SpendFix(patch, target, suite, Accepts(target, suite))
              /\ applied' \in IF target /\ suite THEN {applied} ELSE Unpatched
        BY <2>23 DEF RunSuite
      <4>2. suite \in BOOLEAN /\ Accepts(target, suite) \in BOOLEAN
        BY SuiteType, <4>1 DEF Accepts
      <4>3. applied' \in Seq(Patches)
        BY UnpatchedType, <4>1
      <4>4. fixAttempts' \in Seq(FixAttempt)
        BY <4>1, <4>2 DEF SpendFix, FixAttempt
      <4>5. QED BY <4>1, <4>3, <4>4 DEF SpendFix
    <3>2. step = "run_suite" /\ patch' = None /\ target' = FALSE
      BY <2>23 DEF RunSuite
    <3>3. Counters'
      BY <3>1, <3>2
    <3>4. (test \in Tests \cup {None} /\ patch \in Patches \cup {None} /\ target \in BOOLEAN)'
      BY <3>1, <3>2
    <3>5. (baseline \in BOOLEAN /\ usage \in TokenUsage /\ delta \in TokenUsage)'
      BY <3>1
    <3>6. QED BY <3>1, <3>2, <3>3, <3>4, <3>5
  <2>24. CASE Report
    BY <2>24 DEF Report, VerdictFor
  <2>25. CASE SandboxRaises
    BY <2>25 DEF SandboxRaises, Raise
  <2>26. CASE LeaveNode
    BY <2>26 DEF LeaveNode, Merge, NoUsage
  <2>27. CASE Route
    <3>1. CASE node \in {"intake", "localise"}
      BY <2>27, <3>1, SuccessorOf DEF Route, RouteAfterIntake
    <3>2. CASE node \in {"repro", "fix"}
      BY <2>27, <3>2, SuccessorOf DEF Route, RouteAfterRepro, RouteAfterFix
    <3>3. CASE node \in {"clarify", "report"}
      BY <2>27, <3>3, SuccessorOf DEF Route
    <3>4. QED BY <3>1, <3>2, <3>3
  <2>28. CASE Close
    BY <2>28 DEF Close
  <2>29. CASE Gate
    BY EnforcedType, <2>29 DEF Gate, Assembled, RunRecord
  <2>30. CASE UNCHANGED vars
    BY <2>30 DEF vars
  <2>31. QED
    BY <2>1, <2>2, <2>3, <2>4, <2>5, <2>6, <2>7, <2>8, <2>9, <2>10, <2>11, <2>12, <2>13, <2>14, <2>15, <2>16, <2>17, <2>18, <2>19, <2>20, <2>21, <2>22, <2>23, <2>24, <2>25, <2>26, <2>27, <2>28, <2>29, <2>30 DEF Next
<1>3. QED BY <1>1, <1>2, PTL DEF Spec

(* Every variable keeps its type and every loop counter stays within the    *)
(* cap contracts.py sets for it.                                            *)
THEOREM TypeCorrect == Spec => []TypeOK
BY TypedInvariant, PTL DEF Typed

-----------------------------------------------------------------------------
(* Money: the provider's bill. *)

(* A live client's guard never lets the provider be paid more than the cap: *)
(* the pre-flight estimate is at least what the call turns out to cost.     *)
THEOREM BillNeverPassesCap == Spec => []BillWithinCap
<1> USE CapsAssumption, CostAssumption
    DEF graphState, meter, locals, tree, outside, BillWithinCap, Typed, TypeOK
<1>1. Init => BillWithinCap
  BY DEF Init
<1>2. Typed /\ BillWithinCap /\ [Next]_vars => BillWithinCap'
  <2> SUFFICES ASSUME Typed, BillWithinCap, [Next]_vars
               PROVE  BillWithinCap'
    OBVIOUS
  <2>1. CASE FirstRoundTrip
    BY <2>1, EstimateAssumption DEF FirstRoundTrip, GuardRefuses
  <2>2. CASE RepairRoundTrip
    BY <2>2, EstimateAssumption DEF RepairRoundTrip, GuardRefuses
  <2>3. CASE UNCHANGED <<billedUsd, client>>
    BY <2>3
  <2>4. QED
    BY <2>1, <2>2, <2>3
    DEF Next, vars, OpenWorkspace, PrepareEnvironment, RefuseNode, StartNode, RefuseCall,
        CallRaises, CassetteMissing, LetFailureOut, Intake, Clarify, Localise, NoUsableTest,
        RefuseTest, WriteTest, RefuseRun, JudgeTest, SpendRepro, NoUsablePatch, RefusePatch, ApplyPatch,
        RunTarget, RefuseTarget, RunSuite, SpendFix, Report, SandboxRaises, LeaveNode, Route,
        Close, Gate
<1>3. QED BY <1>1, <1>2, TypedInvariant, PTL DEF Spec

-----------------------------------------------------------------------------
(* Money: the graph's own meter. *)

Answered == Inside \ {"first", "repair"}

(* What the meter of the node under way can hold, and that the node was     *)
(* only started below both caps.                                            *)
Metering ==
  /\ delta.calls <= 2 /\ delta.usd <= 2 * Estimate /\ pending <= Estimate
  /\ step \in {"first", "repair"} => delta = NoUsage
  /\ step \in Answered => delta.calls >= 1
  /\ step \in Inside => usage.calls < MaxCalls /\ usage.usd <= MaxUsd

LEMMA MeteringInvariant == Spec => []Metering
<1> USE CapsAssumption, CostAssumption, EstimateAssumption
    DEF TokenUsage, NoUsage, graphState, meter, locals, tree, outside,
        Typed, TypeOK, Metering, Inside, Answered
<1>1. Init => Metering
  BY DEF Init
<1>2. Typed /\ Metering /\ [Next]_vars => Metering'
  <2> SUFFICES ASSUME Typed, Metering, [Next]_vars
               PROVE  Metering'
    OBVIOUS
  <2>1. CASE OpenWorkspace
    BY <2>1 DEF OpenWorkspace, Raise
  <2>2. CASE PrepareEnvironment
    BY <2>2 DEF PrepareEnvironment, Raise
  <2>3. CASE RefuseNode
    BY <2>3 DEF RefuseNode
  <2>4. CASE StartNode
    BY <2>4 DEF StartNode, Exhausted
  <2>5. CASE RefuseCall
    BY <2>5 DEF RefuseCall, Raise, Merge, OneCall
  <2>6. CASE CallRaises
    BY <2>6 DEF CallRaises, Raise, Merge, OneCall
  <2>7. CASE FirstRoundTrip
    <3>1. PICK cost \in CallCosts :
            \/ delta' = Merge(delta, OneCall(cost)) /\ step' = "reply" /\ UNCHANGED pending
            \/ delta' = Merge(delta, OneCall(0)) /\ step' = "reply" /\ UNCHANGED pending
            \/ pending' = cost /\ step' = "repair" /\ UNCHANGED delta
      BY <2>7 DEF FirstRoundTrip
    <3>2. cost \in Nat /\ cost <= Estimate
      OBVIOUS
    <3>3. step = "first" /\ delta = NoUsage /\ UNCHANGED usage
      BY <2>7 DEF FirstRoundTrip
    <3>4. QED BY <3>1, <3>2, <3>3 DEF Merge, OneCall
  <2>8. CASE CassetteMissing
    <3>1. delta' = [calls |-> 1, usd |-> 0]
      BY <2>8 DEF CassetteMissing, Merge, OneCall
    <3>2. QED BY <2>8, <3>1 DEF CassetteMissing
  <2>9. CASE RepairRoundTrip
    BY <2>9 DEF RepairRoundTrip, Merge, OneCall
  <2>10. CASE LetFailureOut
    BY <2>10 DEF LetFailureOut, Raise
  <2>11. CASE Intake
    BY <2>11 DEF Intake
  <2>12. CASE Clarify
    BY <2>12 DEF Clarify
  <2>13. CASE Localise
    BY <2>13 DEF Localise
  <2>14. CASE NoUsableTest
    BY <2>14 DEF NoUsableTest, SpendRepro
  <2>15. CASE RefuseTest
    BY <2>15 DEF RefuseTest, SpendRepro
  <2>16. CASE WriteTest
    BY <2>16 DEF WriteTest
  <2>17. CASE RefuseRun \/ JudgeTest
    BY <2>17 DEF RefuseRun, JudgeTest, SpendRepro
  <2>18. CASE NoUsablePatch
    BY <2>18 DEF NoUsablePatch, SpendFix
  <2>19. CASE RefusePatch
    BY <2>19 DEF RefusePatch, SpendFix
  <2>20. CASE ApplyPatch
    BY <2>20 DEF ApplyPatch
  <2>21. CASE RunTarget
    BY <2>21 DEF RunTarget
  <2>22. CASE RefuseTarget
    BY <2>22 DEF RefuseTarget, SpendFix
  <2>23. CASE RunSuite
    BY <2>23 DEF RunSuite, SpendFix
  <2>24. CASE Report
    BY <2>24 DEF Report
  <2>25. CASE SandboxRaises
    BY <2>25 DEF SandboxRaises, Raise
  <2>26. CASE LeaveNode
    BY <2>26 DEF LeaveNode, Merge
  <2>27. CASE Route
    BY SuccessorOf, <2>27 DEF Route
  <2>28. CASE Close
    BY <2>28 DEF Close
  <2>29. CASE Gate
    BY <2>29 DEF Gate
  <2>30. CASE UNCHANGED vars
    BY <2>30 DEF vars
  <2>31. QED
    BY <2>1, <2>2, <2>3, <2>4, <2>5, <2>6, <2>7, <2>8, <2>9, <2>10, <2>11, <2>12, <2>13, <2>14, <2>15, <2>16, <2>17, <2>18, <2>19, <2>20, <2>21, <2>22, <2>23, <2>24, <2>25, <2>26, <2>27, <2>28, <2>29, <2>30 DEF Next
<1>3. QED BY <1>1, <1>2, TypedInvariant, PTL DEF Spec

(* The graph's counters and its usage only change when a node is left.      *)
LEMMA UsageOnlyGrowsAtTheExit ==
  [Next]_vars => LeaveNode \/ UNCHANGED <<usage, clarifyRounds, reproCount, fixCount>>
BY DEF Next, vars, graphState, meter, locals, tree, outside,
       OpenWorkspace, PrepareEnvironment, RefuseNode, StartNode, RefuseCall, CallRaises,
       FirstRoundTrip, CassetteMissing, RepairRoundTrip, LetFailureOut, Intake, Clarify,
       Localise, NoUsableTest, RefuseTest, WriteTest, RefuseRun, JudgeTest, SpendRepro, NoUsablePatch,
       RefusePatch, ApplyPatch, RunTarget, RefuseTarget, RunSuite, SpendFix, Report,
       SandboxRaises, Route, Close, Gate

(* A node is only started below the caps, and can add two calls and two     *)
(* prices at most.                                                          *)
THEOREM OvershootIsBounded == Spec => []OvershootBounded
<1> USE CapsAssumption, CostAssumption
    DEF TokenUsage, NoUsage, graphState, meter, locals, tree, outside,
        Typed, TypeOK, OvershootBounded
<1>1. Init => OvershootBounded
  BY DEF Init
<1>2. Typed /\ Metering /\ OvershootBounded /\ [Next]_vars => OvershootBounded'
  <2> SUFFICES ASSUME Typed, Metering, OvershootBounded, [Next]_vars
               PROVE  OvershootBounded'
    OBVIOUS
  <2>1. CASE LeaveNode
    BY <2>1 DEF LeaveNode, Merge, Metering, Inside
  <2>2. CASE UNCHANGED usage
    BY <2>2
  <2>3. QED
    BY <2>1, <2>2, UsageOnlyGrowsAtTheExit
<1>3. QED BY <1>1, <1>2, TypedInvariant, MeteringInvariant, PTL DEF Spec

(* A spent attempt was paid for: the node that incremented the counter had  *)
(* charged its call, usable reply or not.                                   *)
THEOREM RetriesAreCharged == Spec => NoFreeRetry
<1>1. Typed /\ Metering /\ [Next]_vars =>
        [reproCount' + fixCount' > reproCount + fixCount => usage'.calls > usage.calls]_vars
  <2> SUFFICES ASSUME Typed, Metering, [Next]_vars,
                      reproCount' + fixCount' > reproCount + fixCount
               PROVE  usage'.calls > usage.calls
    OBVIOUS
  <2>1. CASE LeaveNode
    BY <2>1 DEF LeaveNode, Merge, Metering, Answered, Inside, Typed, TypeOK, TokenUsage
  <2>2. CASE UNCHANGED <<usage, reproCount, fixCount>>
    BY <2>2 DEF Typed, TypeOK
  <2>3. QED
    BY <2>1, <2>2, UsageOnlyGrowsAtTheExit
<1>2. QED BY <1>1, TypedInvariant, MeteringInvariant, PTL DEF Spec, NoFreeRetry

(* How many nodes outside the two loops the run can have left behind it.    *)
OuterNodesLeft ==
  (IF node = "intake" THEN 0 ELSE IF node \in {"clarify", "localise"} THEN 1 ELSE 2)
  + (IF node \notin {"repro", "fix"} /\ step \notin Underway THEN 1 ELSE 0)

CallsPaidFor == usage.calls <= 2 * (OuterNodesLeft + reproCount + fixCount)

(* build.py's own arithmetic: two round trips per node, three nodes outside *)
(* the loops, and the loops' caps, bound the calls of any run.              *)
THEOREM CallsHaveACeiling == Spec => []CallCeiling
<1> USE CapsAssumption, CostAssumption
    DEF TokenUsage, NoUsage, graphState, meter, locals, tree, outside,
        Typed, TypeOK, CallsPaidFor, OuterNodesLeft, Underway, Inside
<1>1. Init => CallsPaidFor
  BY DEF Init
<1>2. Typed /\ Metering /\ CallsPaidFor /\ [Next]_vars => CallsPaidFor'
  <2> SUFFICES ASSUME Typed, Metering, CallsPaidFor, [Next]_vars
               PROVE  CallsPaidFor'
    OBVIOUS
  <2>1. CASE OpenWorkspace
    BY <2>1 DEF OpenWorkspace, Raise
  <2>2. CASE PrepareEnvironment
    BY <2>2 DEF PrepareEnvironment, Raise
  <2>3. CASE RefuseNode
    BY <2>3 DEF RefuseNode
  <2>4. CASE StartNode
    BY <2>4 DEF StartNode
  <2>5. CASE RefuseCall
    BY <2>5 DEF RefuseCall, Raise
  <2>6. CASE CallRaises
    BY <2>6 DEF CallRaises, Raise
  <2>7. CASE FirstRoundTrip
    BY <2>7 DEF FirstRoundTrip
  <2>8. CASE CassetteMissing
    BY <2>8 DEF CassetteMissing
  <2>9. CASE RepairRoundTrip
    BY <2>9 DEF RepairRoundTrip
  <2>10. CASE LetFailureOut
    BY <2>10 DEF LetFailureOut, Raise
  <2>11. CASE Intake
    BY <2>11 DEF Intake
  <2>12. CASE Clarify
    BY <2>12 DEF Clarify
  <2>13. CASE Localise
    BY <2>13 DEF Localise
  <2>14. CASE NoUsableTest
    BY <2>14 DEF NoUsableTest, SpendRepro
  <2>15. CASE RefuseTest
    BY <2>15 DEF RefuseTest, SpendRepro
  <2>16. CASE WriteTest
    BY <2>16 DEF WriteTest
  <2>17. CASE RefuseRun \/ JudgeTest
    BY <2>17 DEF RefuseRun, JudgeTest, SpendRepro
  <2>18. CASE NoUsablePatch
    BY <2>18 DEF NoUsablePatch, SpendFix
  <2>19. CASE RefusePatch
    BY <2>19 DEF RefusePatch, SpendFix
  <2>20. CASE ApplyPatch
    BY <2>20 DEF ApplyPatch
  <2>21. CASE RunTarget
    BY <2>21 DEF RunTarget
  <2>22. CASE RefuseTarget
    BY <2>22 DEF RefuseTarget, SpendFix
  <2>23. CASE RunSuite
    BY <2>23 DEF RunSuite, SpendFix
  <2>24. CASE Report
    BY <2>24 DEF Report
  <2>25. CASE SandboxRaises
    BY <2>25 DEF SandboxRaises, Raise
  <2>26. CASE LeaveNode
    BY <2>26 DEF LeaveNode, Merge, Metering
  <2>27. CASE Route
    BY SuccessorOf, <2>27 DEF Route, Nodes, RouteAfterIntake, RouteAfterRepro, RouteAfterFix
  <2>28. CASE Close
    BY <2>28 DEF Close
  <2>29. CASE Gate
    BY <2>29 DEF Gate
  <2>30. CASE UNCHANGED vars
    BY <2>30 DEF vars
  <2>31. QED
    BY <2>1, <2>2, <2>3, <2>4, <2>5, <2>6, <2>7, <2>8, <2>9, <2>10, <2>11, <2>12, <2>13, <2>14, <2>15, <2>16, <2>17, <2>18, <2>19, <2>20, <2>21, <2>22, <2>23, <2>24, <2>25, <2>26, <2>27, <2>28, <2>29, <2>30 DEF Next
<1>3. Typed /\ CallsPaidFor => CallCeiling
  BY DEF CallCeiling
<1>4. QED BY <1>1, <1>2, <1>3, TypedInvariant, MeteringInvariant, PTL DEF Spec
=============================================================================
