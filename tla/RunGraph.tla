------------------------------ MODULE RunGraph ------------------------------
(***************************************************************************)
(* One run of the agent, from run() down to the sandbox calls its nodes    *)
(* make: graph/build.py (guard, meter, routers, entry point, last gate),   *)
(* agents/*.py (the six node bodies), graph/sandbox_seam.py (the tree a    *)
(* node may touch) and llm/structured.py (one call, at most one repair).   *)
(*                                                                         *)
(* The run is sequential; what is nondeterministic is everything it does   *)
(* not control: what the model replies and costs, what pytest finds, which *)
(* disk operation fails.  Money is counted in whole units of a micro-      *)
(* dollar, the precision TokenUsage.merge rounds to.                       *)
(***************************************************************************)
EXTENDS Integers, Sequences

CONSTANTS
  MaxClarify, MaxRepro, MaxFix,  \* the loop bounds of contracts.py
  MaxCalls, MaxUsd,              \* the two budget caps of contracts.py
  CallCosts,                     \* what one provider round trip may cost
  Estimate,                      \* the pre-flight estimate of one round trip
  DiskFaults                     \* TRUE: swallowed OSErrors can happen too

ASSUME CapsAssumption ==
  /\ MaxClarify \in Nat
  /\ MaxRepro \in Nat \ {0}
  /\ MaxFix \in Nat \ {0}
  /\ MaxCalls \in Nat \ {0}
  /\ MaxUsd \in Nat
ASSUME CostAssumption ==
  /\ CallCosts \subseteq Nat
  /\ Estimate \in Nat
(* budget.py: "The estimate can only be too high".                         *)
ASSUME EstimateAssumption == \A cost \in CallCosts : cost <= Estimate
ASSUME FlagAssumption == DiskFaults \in BOOLEAN

VARIABLES
  node, step,            \* where the run is: a node, and a step inside its guard
  facts,                 \* GraphState.facts, by what the intake router reads off it
  clarifyRounds, reproCount, fixCount,     \* the counters the graph owns
  reproAttempts, fixAttempts,              \* GraphState's two attempt lists
  verdict, handover,     \* GraphState.verdict; the verdict the letters speak of
  usage,                 \* GraphState.usage: what the budget checks read
  delta,                 \* _MeteredLLM._delta: this node's spending so far
  pending,               \* cost of a first reply that is being repaired
  billedUsd,             \* what the provider was really paid (BudgetGuard.usage.usd)
  reply,                 \* how the node's structured() call came back
  test, patch, target,   \* a node's locals: the artefact and its first check
  written, applied,      \* the tree: generated tests in it, patches on it
  client,                \* "live": a provider behind a BudgetGuard; "unguarded": any
                         \* other LLMClient run() accepts, FakeLLM's recordings first
  baseline,              \* is the project's own suite green before any patch?
  workspace,             \* the disposable copy of the repository
  failure,               \* why run() is raising, if it is
  record                 \* what run() returns

graphState == <<facts, clarifyRounds, reproCount, fixCount, reproAttempts,
                fixAttempts, verdict, handover, usage>>
meter == <<delta, pending, billedUsd, reply>>
locals == <<test, patch, target>>
tree == <<written, applied>>
outside == <<client, baseline, workspace, failure, record>>
vars == <<node, step, graphState, meter, locals, tree, outside>>

-----------------------------------------------------------------------------
(* Data. *)

Nodes == {"intake", "clarify", "localise", "repro", "fix", "report"}
Steps == {"open", "environment", "enter", "first", "repair", "reply", "run_repro",
          "run_target", "run_suite", "leave", "route", "close", "gate",
          "returned", "raised"}
Verdicts == {"needs_clarification", "not_reproduced", "reproduced_not_fixed",
             "reproduced_and_fixed", "aborted_budget"}
None == "none"

(* What a generated test file is.  "mistaken" fails an assertion of its own *)
(* making whatever the code does.  "unrunnable" has a name that may be      *)
(* written but not run: unsafe_test_path takes "tests/..::x_test.py" for a  *)
(* file of tests/, the runner cuts it at "::" and refuses what is left, and *)
(* the suite collects it and fails to import it.                            *)
Tests == {"witness", "mistaken", "bystander", "selfbroken", "uncollectable", "unrunnable"}
(* What a proposed diff is.  "escaping" applies and then makes the target's *)
(* path resolve outside the workspace; "test_edit" rewrites the repro test. *)
Patches == {"right", "noop", "regressing", "test_edit", "escaping"}
Withheld == "withheld"

TokenUsage == [calls : Nat, usd : Nat]
Merge(u, v) == [calls |-> u.calls + v.calls, usd |-> u.usd + v.usd]
NoUsage == [calls |-> 0, usd |-> 0]
OneCall(cost) == [calls |-> 1, usd |-> cost]

(* An attempt keeps its artefact only where the run reads it again: the     *)
(* test that reproduced, the patch that was accepted.                      *)
ReproAttempt == [test : Tests \cup {None}, reproduced : BOOLEAN]
FixAttempt == [patch : Patches \cup {None, Withheld}, target : BOOLEAN,
               suite : BOOLEAN, accepted : BOOLEAN]

AnyReproduced(attempts) == \E i \in DOMAIN attempts : attempts[i].reproduced
AnyAccepted(attempts) == \E i \in DOMAIN attempts : attempts[i].accepted

RunRecord == [verdict : Verdicts \cup {None}, handover : Verdicts \cup {None}, usage : TokenUsage,
              repro : Seq(ReproAttempt), fix : Seq(FixAttempt)]
NoRecord == [verdict |-> None, handover |-> None, usage |-> NoUsage,
             repro |-> <<>>, fix |-> <<>>]

-----------------------------------------------------------------------------
(* The tree, and what pytest reports on it. *)

CodeFixed == \E i \in DOMAIN applied : applied[i] \in {"right", "regressing"}
Regressed == \E i \in DOMAIN applied : applied[i] = "regressing"
TestEdited == \E i \in DOMAIN applied : applied[i] = "test_edit"
Escaping == \E i \in DOMAIN applied : applied[i] = "escaping"

OutcomeOf(t) ==  \* what the test would report, given the time to finish
  CASE t = "witness"       -> IF CodeFixed \/ TestEdited THEN "green" ELSE "red"
    [] t = "mistaken"      -> IF TestEdited THEN "green" ELSE "red"
    [] t = "bystander"     -> "green"
    [] t = "selfbroken"    -> "broken"
    [] t \in {"uncollectable", "unrunnable"} -> "error"

RunTest(t) == {OutcomeOf(t), "timeout"}
SuiteHealthy == baseline /\ ~Regressed /\ \A t \in written : OutcomeOf(t) = "green"
IsReproduction(outcome) == outcome = "red"

-----------------------------------------------------------------------------
(* Budget and routers. *)

ExhaustedAtTwiceTheCap(u) == u.calls >= MaxCalls \/ u.usd > 2 * MaxUsd + 1  \* mutant
Exhausted(u) == u.calls >= MaxCalls \/ u.usd > MaxUsd

RouteAfterIntake ==
  IF \/ Exhausted(usage)
     \/ clarifyRounds >= MaxClarify
     \/ facts = "clear"
  THEN "localise" ELSE "clarify"

RouteAfterReproOffByOne ==  \* mutant
  IF Exhausted(usage) THEN "report"
  ELSE IF AnyReproduced(reproAttempts) THEN "fix"
  ELSE IF reproCount <= MaxRepro THEN "repro" ELSE "report"

RouteAfterReproUnbudgeted ==  \* mutant
  IF AnyReproduced(reproAttempts) THEN "fix"
  ELSE IF reproCount < MaxRepro THEN "repro" ELSE "report"

RouteAfterRepro ==
  IF Exhausted(usage) THEN "report"
  ELSE IF AnyReproduced(reproAttempts) THEN "fix"
  ELSE IF reproCount < MaxRepro THEN "repro" ELSE "report"

RouteAfterFixUncounted ==  \* mutant
  IF Exhausted(usage) \/ AnyAccepted(fixAttempts) THEN "report" ELSE "fix"

RouteAfterFix ==
  IF Exhausted(usage) \/ AnyAccepted(fixAttempts) THEN "report"
  ELSE IF fixCount < MaxFix THEN "fix" ELSE "report"

VerdictForAnyRun ==  \* mutant
  IF verdict = "aborted_budget" THEN "aborted_budget"
  ELSE IF AnyAccepted(fixAttempts) THEN "reproduced_and_fixed" ELSE "reproduced_not_fixed"

VerdictFor ==
  IF verdict = "aborted_budget" THEN "aborted_budget"
  ELSE IF AnyReproduced(reproAttempts)
       THEN IF AnyAccepted(fixAttempts) THEN "reproduced_and_fixed"
                                        ELSE "reproduced_not_fixed"
       ELSE "not_reproduced"

-----------------------------------------------------------------------------
(* run(): the workspace and its environment, before START. *)

Init ==
  /\ node = "intake" /\ step = "open"
  /\ facts = None
  /\ clarifyRounds = 0 /\ reproCount = 0 /\ fixCount = 0
  /\ reproAttempts = <<>> /\ fixAttempts = <<>>
  /\ verdict = None /\ handover = None
  /\ usage = NoUsage /\ delta = NoUsage /\ billedUsd = 0
  /\ pending = 0 /\ reply = None
  /\ test = None /\ patch = None /\ target = FALSE
  /\ written = {} /\ applied = <<>>
  /\ client \in {"live", "unguarded"} /\ baseline \in BOOLEAN
  /\ workspace = "absent" /\ failure = None /\ record = NoRecord

(* An exception leaves the graph: run()'s finally is next. *)
Raise(cause) == failure' = cause /\ step' = "close"

OpenWorkspace ==
  /\ step = "open"
  /\ \/ workspace' = "open" /\ step' = "environment" /\ UNCHANGED failure
     \/ Raise("disk") /\ UNCHANGED workspace   \* Workspace.__init__ cleaned up
  /\ UNCHANGED <<node, graphState, meter, locals, tree, client, baseline, record>>

PrepareEnvironment ==
  /\ step = "environment"
  /\ \/ step' = "enter" /\ UNCHANGED failure
     \/ Raise("disk")
  /\ UNCHANGED <<node, graphState, meter, locals, tree, client, baseline, workspace, record>>

-----------------------------------------------------------------------------
(* _guarded, on the way in. *)

RefuseNode ==
  /\ step = "enter" /\ Exhausted(usage)
  /\ verdict' = "aborted_budget"
  /\ step' = "route"
  /\ UNCHANGED <<node, facts, clarifyRounds, reproCount, fixCount, reproAttempts,
                 fixAttempts, handover, usage, meter, locals, tree, outside>>

StartNode ==
  /\ step = "enter" /\ ~Exhausted(usage)
  /\ delta' = NoUsage
  /\ step' = "first"
  /\ UNCHANGED <<node, graphState, pending, billedUsd, reply, locals, tree, outside>>

-----------------------------------------------------------------------------
(* One structured() call: a first round trip and at most one repair.       *)
(* The meter sees the sum of both when the call returns, and a single      *)
(* free call when it raises.                                               *)

GuardChecksAfter == client = "live" /\ billedUsd > MaxUsd  \* mutant
GuardRefuses == client = "live" /\ billedUsd + Estimate > MaxUsd

RefuseCall ==
  /\ step \in {"first", "repair"}
  /\ GuardRefuses
  /\ Raise("budget")
  /\ pending' = 0 /\ delta' = Merge(delta, OneCall(0))
  /\ UNCHANGED <<node, graphState, billedUsd, reply, locals, tree, client, baseline, workspace, record>>

(* The transport gives up: throttled out, credentials, network. *)
CallRaises ==
  /\ step \in {"first", "repair"}
  /\ ~GuardRefuses
  /\ Raise("transport")
  /\ pending' = 0 /\ delta' = Merge(delta, OneCall(0))
  /\ UNCHANGED <<node, graphState, billedUsd, reply, locals, tree, client, baseline, workspace, record>>

FirstRoundTrip ==
  /\ step = "first" /\ ~GuardRefuses
  /\ \E cost \in CallCosts :
       /\ billedUsd' = billedUsd + cost
       /\ \/ /\ delta' = Merge(delta, OneCall(cost))        \* it validates
             /\ reply' = "usable" /\ step' = "reply" /\ UNCHANGED pending
          \/ /\ delta' = Merge(delta, OneCall(0))           \* it was truncated
             /\ reply' = "unusable" /\ step' = "reply" /\ UNCHANGED pending
          \/ /\ pending' = cost /\ step' = "repair"         \* it is off schema
             /\ UNCHANGED <<delta, reply>>
  /\ UNCHANGED <<node, graphState, locals, tree, outside>>

CassetteUncharged ==  \* mutant: a call that raised is not counted
  /\ step = "first" /\ client = "unguarded"
  /\ reply' = "unusable" /\ step' = "reply"
  /\ UNCHANGED <<node, graphState, delta, pending, billedUsd, locals, tree, outside>>

(* FakeLLM has no usable recording for this prompt: SchemaValidationError.  *)
CassetteMissing ==
  /\ step = "first" /\ client = "unguarded"
  /\ delta' = Merge(delta, OneCall(0))
  /\ reply' = "unusable" /\ step' = "reply"
  /\ UNCHANGED <<node, graphState, pending, billedUsd, locals, tree, outside>>

RepairRoundTrip ==
  /\ step = "repair" /\ ~GuardRefuses
  /\ \E cost \in CallCosts :
       /\ billedUsd' = billedUsd + cost
       /\ \/ /\ delta' = Merge(delta, Merge(OneCall(pending), OneCall(cost)))
             /\ reply' = "usable"
          \/ /\ delta' = Merge(delta, OneCall(0))
             /\ reply' = "unusable"
  /\ pending' = 0 /\ step' = "reply"
  /\ UNCHANGED <<node, graphState, locals, tree, outside>>

-----------------------------------------------------------------------------
(* The node bodies, once the model has answered. *)

(* intake, clarify and localise let a model failure out of the graph. *)
LetFailureOut ==
  /\ step = "reply" /\ reply = "unusable"
  /\ node \in {"intake", "clarify", "localise"}
  /\ Raise("model")
  /\ UNCHANGED <<node, graphState, meter, locals, tree, client, baseline, workspace, record>>

Intake ==
  /\ node = "intake" /\ step = "reply" /\ reply = "usable"
  /\ facts' \in {"thin", "clear"}
  /\ step' = "leave"
  /\ UNCHANGED <<node, clarifyRounds, reproCount, fixCount, reproAttempts, fixAttempts,
                 verdict, handover, usage, meter, locals, tree, outside>>

Clarify ==
  /\ node = "clarify" /\ step = "reply" /\ reply = "usable"
  /\ verdict' = "needs_clarification"
  /\ step' = "leave"
  /\ UNCHANGED <<node, facts, clarifyRounds, reproCount, fixCount, reproAttempts,
                 fixAttempts, handover, usage, meter, locals, tree, outside>>

Localise ==
  /\ node = "localise" /\ step = "reply" /\ reply = "usable"
  /\ step' = "leave"
  /\ UNCHANGED <<node, graphState, meter, locals, tree, outside>>

(* Every way a repro attempt is spent ends here. *)
SpendRepro(t, reproduced) ==
  /\ reproAttempts' = Append(reproAttempts, [test |-> IF reproduced THEN t ELSE None,
                                             reproduced |-> reproduced])
  /\ step' = "leave"
  /\ UNCHANGED <<node, facts, clarifyRounds, reproCount, fixCount, fixAttempts, verdict,
                 handover, usage, meter, applied, outside>>

NoUsableTest ==
  /\ node = "repro" /\ step = "reply" /\ reply = "unusable"
  /\ SpendRepro(None, FALSE)
  /\ UNCHANGED <<locals, written>>

RefuseTest ==  \* before it is written
  /\ node = "repro" /\ step = "reply" /\ reply = "usable"
  /\ SpendRepro(None, FALSE)
  /\ UNCHANGED <<locals, written>>

WriteTest ==
  /\ node = "repro" /\ step = "reply" /\ reply = "usable"
  /\ \E t \in Tests : test' = t /\ written' = written \cup {t}
  /\ step' = "run_repro"
  /\ UNCHANGED <<node, graphState, meter, patch, target, applied, outside>>

(* The generated tests left in tests/ once one that did not reproduce has  *)
(* been removed; remove_test swallows an OSError and leaves the file.      *)
KeepTest(t) == {written}  \* mutant
RemoveTest(t) == {written \ {t}} \cup (IF DiskFaults THEN {written} ELSE {})

(* run_test raises the same ValueError as write_test would have, and the    *)
(* attempt is spent as a refusal: what was written stays.                   *)
RefuseRun ==
  /\ step = "run_repro" /\ test = "unrunnable"
  /\ SpendRepro(None, FALSE)
  /\ test' = None /\ UNCHANGED <<patch, target, written>>

JudgeTest ==
  /\ step = "run_repro" /\ test # "unrunnable"
  /\ \E outcome \in RunTest(test) :
       /\ SpendRepro(test, IsReproduction(outcome))
       /\ written' \in IF IsReproduction(outcome) THEN {written} ELSE RemoveTest(test)
  /\ test' = None /\ UNCHANGED <<patch, target>>

(* Every way a fix attempt is spent ends here. *)
SpendFix(p, targetGreen, suiteGreen, accepted) ==
  /\ fixAttempts' = Append(fixAttempts, [patch |-> IF accepted THEN p ELSE None,
                                         target |-> targetGreen, suite |-> suiteGreen,
                                         accepted |-> accepted])
  /\ step' = "leave"
  /\ UNCHANGED <<node, facts, clarifyRounds, reproCount, fixCount, reproAttempts, verdict,
                 handover, usage, meter, test, written, outside>>

NoUsablePatch ==
  /\ node = "fix" /\ step = "reply" /\ reply = "unusable"
  /\ SpendFix(None, FALSE, FALSE, FALSE)
  /\ UNCHANGED <<patch, target, applied>>

RefusePatch ==  \* apply_patch says no and leaves the tree alone
  /\ node = "fix" /\ step = "reply" /\ reply = "usable"
  /\ SpendFix(None, FALSE, FALSE, FALSE)
  /\ UNCHANGED <<patch, target, applied>>

ApplyPatch ==
  /\ node = "fix" /\ step = "reply" /\ reply = "usable"
  /\ \E p \in Patches : patch' = p /\ applied' = Append(applied, p)
  /\ step' = "run_target"
  /\ UNCHANGED <<node, graphState, meter, test, target, written, outside>>

(* The last reproduced attempt's test: the file the patch must turn green. *)
TargetTest ==
  LET i == CHOOSE i \in DOMAIN reproAttempts :
             /\ reproAttempts[i].reproduced
             /\ \A j \in DOMAIN reproAttempts : reproAttempts[j].reproduced => j <= i
  IN reproAttempts[i].test

(* Revert pops the newest snapshot; a restore that hits an OSError is      *)
(* logged and leaves the patch (or part of it) on the tree.                *)
StillPatched == {applied}  \* mutant
Unpatched == {SubSeq(applied, 1, Len(applied) - 1)}
             \cup (IF DiskFaults THEN {applied} ELSE {})

RunTarget ==
  /\ step = "run_target" /\ ~Escaping
  /\ \E outcome \in RunTest(TargetTest) : target' = (outcome = "green")
  /\ step' = "run_suite"
  /\ UNCHANGED <<node, graphState, meter, test, patch, tree, outside>>

RefuseTarget ==  \* the sandbox raises ValueError with the patch applied
  /\ step = "run_target" /\ Escaping
  /\ SpendFix(patch, FALSE, FALSE, FALSE)
  /\ applied' \in Unpatched
  /\ patch' = None /\ UNCHANGED target

AcceptsOnTarget(targetGreen, suiteGreen) == targetGreen  \* mutant
Accepts(targetGreen, suiteGreen) == targetGreen /\ suiteGreen

RunSuite ==
  /\ step = "run_suite"
  /\ \E suite \in {SuiteHealthy, FALSE} :   \* FALSE: it can always time out
       /\ SpendFix(patch, target, suite, Accepts(target, suite))
       /\ applied' \in IF target /\ suite THEN {applied} ELSE Unpatched
  /\ patch' = None /\ target' = FALSE

Report ==
  /\ node = "report" /\ step = "reply"
  /\ verdict' = VerdictFor
  /\ handover' = IF reply = "usable" THEN VerdictFor ELSE None
  /\ step' = "leave"
  /\ UNCHANGED <<node, facts, clarifyRounds, reproCount, fixCount, reproAttempts,
                 fixAttempts, usage, meter, locals, tree, outside>>

(* Any call that touches the disk or starts a process can raise OSError,   *)
(* whatever the docstrings above it say; no node catches it.               *)
SandboxRaises ==
  /\ \/ step \in {"run_repro", "run_target", "run_suite"}
     \/ step = "first" /\ node = "localise"
     \/ step = "reply" /\ reply = "usable" /\ node = "repro"
  /\ Raise("disk")
  /\ UNCHANGED <<node, graphState, meter, locals, tree, client, baseline, workspace, record>>

-----------------------------------------------------------------------------
(* _guarded, on the way out, and the edges of the graph. *)

LeaveNode ==
  /\ step = "leave"
  /\ usage' = Merge(usage, delta)
  /\ clarifyRounds' = clarifyRounds + (IF node = "clarify" THEN 1 ELSE 0)
  /\ reproCount' = reproCount + (IF node = "repro" THEN 1 ELSE 0)
  /\ fixCount' = fixCount + (IF node = "fix" THEN 1 ELSE 0)
  /\ verdict' = IF Exhausted(usage') THEN "aborted_budget" ELSE verdict
  /\ delta' = NoUsage /\ reply' = None
  /\ step' = "route"
  /\ UNCHANGED <<node, facts, reproAttempts, fixAttempts, handover, pending, billedUsd,
                 locals, tree, outside>>

Successor ==
  CASE node = "intake"   -> RouteAfterIntake
    [] node = "localise" -> "repro"
    [] node = "repro"    -> RouteAfterRepro
    [] node = "fix"      -> RouteAfterFix
    [] OTHER             -> "END"

Route ==
  /\ step = "route"
  /\ IF Successor = "END"
     THEN step' = "close" /\ UNCHANGED node
     ELSE step' = "enter" /\ node' = Successor
  /\ UNCHANGED <<graphState, meter, locals, tree, outside>>

-----------------------------------------------------------------------------
(* run(): the finally clause, then the record and its last gate. *)

CloseAfterSuccess ==  \* mutant
  /\ step = "close"
  /\ workspace' = IF workspace = "open" /\ failure = None THEN "closed" ELSE workspace
  /\ step' = IF failure = None THEN "gate" ELSE "raised"
  /\ UNCHANGED <<node, graphState, meter, locals, tree, client, baseline, failure, record>>

Close ==
  /\ step = "close"
  /\ workspace' = IF workspace = "open" THEN "closed" ELSE workspace
  /\ step' = IF failure = None THEN "gate" ELSE "raised"
  /\ UNCHANGED <<node, graphState, meter, locals, tree, client, baseline, failure, record>>

Assembled ==
  [verdict |-> IF verdict = None THEN "not_reproduced" ELSE verdict,
   handover |-> handover, usage |-> usage,
   repro |-> reproAttempts, fix |-> fixAttempts]

(* RunRecord.check_invariants: is the list of violations empty? *)
Sound(r) ==
  /\ r.verdict = "reproduced_and_fixed" => AnyReproduced(r.repro) /\ AnyAccepted(r.fix)
  /\ AnyAccepted(r.fix) => AnyReproduced(r.repro)
  /\ \A i \in DOMAIN r.fix : r.fix[i].accepted => r.fix[i].target /\ r.fix[i].suite
  /\ Len(r.repro) <= MaxRepro /\ Len(r.fix) <= MaxFix
  /\ r.usage.usd <= MaxUsd

EnforceVerdictOnly(r) == IF Sound(r) THEN r ELSE [r EXCEPT !.verdict = "aborted_budget"]  \* mutant

EnforceInvariants(r) ==
  IF Sound(r) THEN r
  ELSE [r EXCEPT !.verdict = "aborted_budget", !.handover = None,
                 !.fix = [i \in DOMAIN r.fix |->
                            [r.fix[i] EXCEPT !.patch = Withheld, !.accepted = FALSE]]]

Gate ==
  /\ step = "gate"
  /\ record' = EnforceInvariants(Assembled)
  /\ step' = "returned"
  /\ UNCHANGED <<node, graphState, meter, locals, tree, client, baseline, workspace, failure>>

-----------------------------------------------------------------------------
Next ==
  \/ OpenWorkspace \/ PrepareEnvironment
  \/ RefuseNode \/ StartNode
  \/ RefuseCall \/ CallRaises \/ FirstRoundTrip \/ CassetteMissing \/ RepairRoundTrip
  \/ LetFailureOut \/ Intake \/ Clarify \/ Localise
  \/ NoUsableTest \/ RefuseTest \/ WriteTest \/ RefuseRun \/ JudgeTest
  \/ NoUsablePatch \/ RefusePatch \/ ApplyPatch \/ RunTarget \/ RefuseTarget \/ RunSuite
  \/ Report \/ SandboxRaises
  \/ LeaveNode \/ Route \/ Close \/ Gate

(* One thread executes the run, every provider call and every pytest run   *)
(* has a timeout: the run itself never just stops.                         *)
Spec == Init /\ [][Next]_vars /\ WF_vars(Next)

-----------------------------------------------------------------------------
(* Properties. *)

(* Every variable has its type, and no counter ever passes the cap that     *)
(* contracts.py sets for its loop, whatever the nodes return.               *)
TypeOK ==
  /\ node \in Nodes /\ step \in Steps
  /\ facts \in {None, "thin", "clear"}
  /\ clarifyRounds \in 0 .. MaxClarify
  /\ reproCount \in 0 .. MaxRepro /\ fixCount \in 0 .. MaxFix
  /\ reproAttempts \in Seq(ReproAttempt) /\ fixAttempts \in Seq(FixAttempt)
  /\ verdict \in Verdicts \cup {None} /\ handover \in Verdicts \cup {None}
  /\ usage \in TokenUsage /\ delta \in TokenUsage /\ billedUsd \in Nat
  /\ pending \in Nat /\ reply \in {None, "usable", "unusable"}
  /\ test \in Tests \cup {None} /\ patch \in Patches \cup {None} /\ target \in BOOLEAN
  /\ written \in SUBSET Tests /\ applied \in Seq(Patches)
  /\ client \in {"live", "unguarded"} /\ baseline \in BOOLEAN
  /\ workspace \in {"absent", "open", "closed"}
  /\ failure \in {None, "disk", "budget", "transport", "model"}
  /\ record \in RunRecord

Returned == step = "returned"
Over == step \in {"returned", "raised"}

(* A record that says "fixed" is about the tree as it stands: the accepted  *)
(* patch is the only thing on it, the reproduction is green there and so is *)
(* the whole suite.  A rejected patch that was not taken back, or a check   *)
(* made before the patch, would break this.                                 *)
FixedMeansVerified ==
  Returned /\ record.verdict = "reproduced_and_fixed" =>
    /\ \E i \in DOMAIN record.fix :
         record.fix[i].accepted /\ applied = <<record.fix[i].patch>>
    /\ OutcomeOf(TargetTest) = "green"
    /\ SuiteHealthy

(* repro_agent.py, "a leftover red test there would veto every fix": where  *)
(* the project's own suite is green and the target is green under a correct *)
(* patch, nothing can reject it but a timeout, or a test that the runner    *)
(* refused after it was written.  That one does stay, and does reject it.   *)
GoodPatchNotVetoed ==
  step = "run_suite" /\ patch = "right" /\ target /\ baseline =>
    /\ ~Regressed
    /\ {t \in written : OutcomeOf(t) # "green"} \subseteq {"unrunnable"}

(* A run that cost more than MAX_RUN_USD ships no patch, claims no fix and  *)
(* carries no letters, even when the patch was verified before the overrun  *)
(* was noticed.                                                             *)
OverspentShipsNothing ==
  Returned /\ record.usage.usd > MaxUsd =>
    /\ record.verdict = "aborted_budget" /\ record.handover = None
    /\ \A i \in DOMAIN record.fix :
         ~record.fix[i].accepted /\ record.fix[i].patch = Withheld

(* The last gate never has to act on anything but money: "aborted_budget"   *)
(* is only ever said of a run whose graph-owned usage reached a cap.        *)
AbortedOnlyOnBudget ==
  Returned /\ record.verdict = "aborted_budget" => Exhausted(record.usage)

(* Letters, if there are any, speak of the verdict the record carries: a    *)
(* client_reply never promises a fix the verdict does not support.          *)
HandoverHonest ==
  Returned /\ record.handover # None => record.handover = record.verdict

(* The graph checks its caps between nodes only, so one node may overshoot  *)
(* them: by one call and two prices, and never by more.                     *)
OvershootBounded ==
  /\ usage.calls <= MaxCalls + 1
  /\ usage.usd <= MaxUsd + 2 * Estimate

(* Every attempt a loop spends has cost the run at least one counted call,  *)
(* failed model calls included: there is no free retry.                     *)
NoFreeRetry ==
  [][reproCount' + fixCount' > reproCount + fixCount => usage'.calls > usage.calls]_vars

(* The ceiling the header of build.py works out: two round trips for every  *)
(* node call, and at most three nodes outside the two loops.                *)
CallCeiling == usage.calls <= 2 * (3 + MaxRepro + MaxFix)

(* With a live client's guard, the provider is never paid more than         *)
(* MAX_RUN_USD for one run, counting the calls whose dollars the graph's    *)
(* own meter loses.                                                         *)
BillWithinCap == client = "live" => billedUsd <= MaxUsd

(* However the run ends, its copy of the client's repository is gone.       *)
NoLeakedWorkspace == Over => workspace # "open"

(* Every run ends: with a record, or by raising.                            *)
Termination == <>Over

(* docs/ARCHITECTURE.md: a run that hits MAX_RUN_USD "aborts with           *)
(* Verdict.ABORTED_BUDGET".                                                 *)
BudgetStopIsRecorded == step = "raised" => failure # "budget"

(* The run implements RunContract: evidence only ever grows, one step at a  *)
(* time and in order, and the verdict that is returned is the one it        *)
(* supports.                                                                *)
Contract == INSTANCE RunContract WITH
  evidence <- IF AnyAccepted(fixAttempts) THEN "verified"
              ELSE IF AnyReproduced(reproAttempts) THEN "reproduced" ELSE "none",
  outcome  <- IF step = "returned" THEN record.verdict
              ELSE IF step = "raised" THEN "raised" ELSE "running",
  shipped  <- AnyAccepted(record.fix)
ImplementsContract == Contract!Spec
=============================================================================
