---------------------------- MODULE RunnerProofs ----------------------------
(***************************************************************************)
(* What holds of one pytest run for any number of processes and any amount *)
(* of output.  That run_pytest returns is liveness and stays with TLC.     *)
(***************************************************************************)
EXTENDS Runner, SequenceTheorems, TLAPS

-----------------------------------------------------------------------------
LEMMA ParseType == ASSUME NEW lines PROVE ParseSummary(lines) \in Counts
BY DEF ParseSummary, CountsOf, Counts

(* Which grace period _drain is in: the second timeout is the last.         *)
Graces ==
  /\ pc \in {"start", "communicate"} => graces = 0
  /\ pc = "drain" => graces < 2

Typed == TypeOK /\ Graces

LEMMA TypeStep == Typed /\ [Next]_vars => Typed'
<1> SUFFICES ASSUME Typed, [Next]_vars PROVE Typed'
  OBVIOUS
<1> USE ProcessAssumption DEF Typed, TypeOK, Graces, Processes, harness, world, vars
<1>1. CASE UNCHANGED vars
  BY <1>1
<1>2. CASE Harness
  <2>1. CASE RefuseTarget \/ SpawnFails
    BY <2>1 DEF RefuseTarget, SpawnFails
  <2>2. CASE Spawn
    BY <2>2 DEF Spawn
  <2>3. CASE Read
    BY <2>3 DEF Read, Collecting
  <2>4. CASE Completes
    <3>1. [timedOut |-> FALSE, exit |-> exit, counts |-> ParseSummary(collected),
           kept |-> TRUE, output |-> collected] \in ExecutionResult
      BY ParseType DEF ExecutionResult
    <3>2. QED BY <2>4, <3>1 DEF Completes, Return
  <2>5. CASE TimesOut
    BY <2>5 DEF TimesOut
  <2>6. \A kept \in BOOLEAN : TimedOut(kept) \in ExecutionResult
    BY DEF TimedOut, ExecutionResult, Counts
  <2>7. CASE KillGroup
    <3>1. result' \in ExecutionResult
      BY <2>6, <2>7 DEF KillGroup, Return
    <3>2. proc' \in [Processes -> {"unborn", "running", "doomed", "gone"}]
      BY <2>7 DEF KillGroup
    <3>3. graces = 2 \/ graces < 2
      OBVIOUS
    <3>4. (graces = 2 /\ pc' = "returned") \/ (graces < 2 /\ pc' = "drain")
      BY <2>7, <3>3 DEF KillGroup, Return
    <3>5. QED BY <2>7, <3>1, <3>2, <3>4 DEF KillGroup
  <2>8. CASE Drained \/ DrainFails
    BY <2>6, <2>8 DEF Drained, DrainFails, Return
  <2>9. CASE GraceOver
    BY <2>9 DEF GraceOver
  <2>10. QED
    BY <1>2, <2>1, <2>2, <2>3, <2>4, <2>5, <2>7, <2>8, <2>9 DEF Harness
<1>3. ASSUME NEW line \in Line, Write(line)
      PROVE  written' \in Seq(Line) /\ pipe' \in Seq(Line)
  BY <1>3 DEF Write
<1>4. CASE Summarise
  <2>1. PICK says \in Summaries :
          /\ Write([real |-> TRUE, stream |-> "stdout", says |-> says])
          /\ reported' = says
    BY <1>4 DEF Summarise
  <2>2. [real |-> TRUE, stream |-> "stdout", says |-> says] \in Line
    BY DEF Line
  <2>3. QED BY <1>3, <1>4, <2>1, <2>2 DEF Summarise
<1>5. ASSUME NEW p \in Processes, Say(p) PROVE Typed'
  <2>1. PICK stream \in {"stdout", "stderr"}, says \in {"passed", "failed", "chatter"} :
          Write([real |-> FALSE, stream |-> stream, says |-> says])
    BY <1>5 DEF Say
  <2>2. [real |-> FALSE, stream |-> stream, says |-> says] \in Line
    BY DEF Line, Summaries
  <2>3. QED BY <1>3, <1>5, <2>1, <2>2 DEF Say
<1>6. ASSUME NEW p \in Processes, Setsid(p) \/ Exit(p) \/ Die(p) PROVE Typed'
  BY <1>6 DEF Setsid, Exit, Die
<1>7. ASSUME NEW p \in Processes, NEW q \in Others, Fork(p, q) PROVE Typed'
  BY <1>7 DEF Fork
<1>8. QED BY <1>1, <1>2, <1>4, <1>5, <1>6, <1>7 DEF Next, Tested

(* Every line is a line, every process is in a state, and at most two       *)
(* grace periods pass.                                                      *)
THEOREM TypeCorrect == Spec => []TypeOK
<1>1. Init => Typed
  BY DEF Init, Typed, Graces, TypeOK, NoResult, ExecutionResult, Counts, Processes
<1>2. Typed => TypeOK
  BY DEF Typed
<1>3. QED BY <1>1, <1>2, TypeStep, PTL DEF Spec

-----------------------------------------------------------------------------
(* From the first SIGKILL on, whoever runs has left the group, and so do    *)
(* its children.                                                            *)
Killed ==
  pc = "drain" \/ (pc = "kill" /\ graces > 0) \/ (Returned /\ result.timedOut) =>
    \A p \in Processes : InGroup(p) => proc[p] # "running"

LEMMA KilledStep == Typed /\ Killed /\ [Next]_vars => Killed'
<1> SUFFICES ASSUME Typed, Killed, [Next]_vars PROVE Killed'
  OBVIOUS
<1> USE ProcessAssumption
    DEF Typed, TypeOK, Graces, Killed, Returned, InGroup, Processes, harness, world, vars
<1>1. CASE UNCHANGED vars
  BY <1>1
<1>2. CASE Harness
  <2>1. CASE RefuseTarget \/ SpawnFails \/ Spawn \/ TimesOut
    BY <2>1 DEF RefuseTarget, SpawnFails, Spawn, TimesOut
  <2>2. CASE Read \/ GraceOver
    BY <2>2 DEF Read, Collecting, GraceOver
  <2>3. CASE Completes
    BY <2>3 DEF Completes, Return
  <2>4. CASE KillGroup
    BY <2>4 DEF KillGroup, Return
  <2>5. CASE Drained \/ DrainFails
    BY <2>5 DEF Drained, DrainFails, Return
  <2>6. QED BY <1>2, <2>1, <2>2, <2>3, <2>4, <2>5 DEF Harness
<1>3. CASE Summarise
  BY <1>3 DEF Summarise
<1>4. ASSUME NEW p \in Processes, Say(p) \/ Setsid(p) \/ Exit(p) \/ Die(p) PROVE Killed'
  BY <1>4 DEF Say, Setsid, Exit, Die
<1>5. ASSUME NEW p \in Processes, NEW q \in Others, Fork(p, q) PROVE Killed'
  BY <1>5 DEF Fork
<1>6. QED BY <1>1, <1>2, <1>3, <1>4, <1>5 DEF Next, Tested

(* A call that says it timed out has left nothing of pytest's group running, *)
(* for any number of processes, whenever and by whomever they were started.  *)
THEOREM KillIsComplete == Spec => []TimeoutKillsGroup
<1>1. Init => Typed /\ Killed
  BY DEF Init, Typed, Graces, TypeOK, NoResult, ExecutionResult, Counts, Processes,
         Killed, Returned
<1>2. Killed => TimeoutKillsGroup
  BY DEF Killed, TimeoutKillsGroup, InGroup
<1>3. QED BY <1>1, <1>2, TypeStep, KilledStep, PTL DEF Spec

-----------------------------------------------------------------------------
(* What Popen has read and what is in the pipes is what was written, and    *)
(* when a result with its output is returned nobody is left to write.       *)
Collected ==
  /\ collected \o pipe = written
  /\ pc = "start" => proc[Pytest] = "unborn"
  /\ Returned /\ result.kept =>
       result.output = written /\ holders = {} /\ proc[Pytest] = "gone"
  /\ Returned /\ ~result.timedOut =>
       /\ result.kept
       /\ result.exit = exit
       /\ result.counts = ParseSummary(result.output)

LEMMA ConcatAppend ==
  ASSUME NEW s \in Seq(Line), NEW t \in Seq(Line), NEW e \in Line
  PROVE  s \o Append(t, e) = Append(s \o t, e)
<1>1. <<e>> \in Seq(Line) /\ s \o t \in Seq(Line)
  OBVIOUS
<1>2. Append(t, e) = t \o <<e>> /\ Append(s \o t, e) = (s \o t) \o <<e>>
  BY <1>1, AppendIsConcat
<1>3. (s \o t) \o <<e>> = s \o (t \o <<e>>)
  BY <1>1, ConcatAssociative
<1>4. QED BY <1>2, <1>3

LEMMA CollectedStep == Typed /\ Collected /\ [Next]_vars => Collected'
<1> SUFFICES ASSUME Typed, Collected, [Next]_vars PROVE Collected'
  OBVIOUS
<1>a. collected \in Seq(Line) /\ pipe \in Seq(Line)
  BY DEF Typed, TypeOK
<1>b. \A line \in Line : collected \o Append(pipe, line) = Append(collected \o pipe, line)
  BY <1>a, ConcatAppend, Zenon
<1> USE ProcessAssumption
    DEF Typed, TypeOK, Collected, Returned, Processes, harness, world, vars
<1>1. CASE UNCHANGED vars
  BY <1>1
<1>2. CASE Harness
  <2>1. CASE RefuseTarget \/ SpawnFails \/ Spawn
    BY <2>1 DEF RefuseTarget, SpawnFails, Spawn
  <2>2. CASE Read
    <3>1. (collected \o pipe) \o <<>> = collected \o pipe
      OBVIOUS
    <3>2. QED BY <2>2, <3>1 DEF Read, Collecting
  <2>3. CASE TimesOut \/ GraceOver
    BY <2>3 DEF TimesOut, GraceOver
  <2>4. pipe = <<>> => collected = written
    OBVIOUS
  <2>5. CASE Completes
    BY <2>4, <2>5 DEF Completes, AtEnd, Return
  <2>6. CASE KillGroup
    BY <2>6 DEF KillGroup, Return, TimedOut
  <2>7. CASE Drained
    BY <2>4, <2>7 DEF Drained, AtEnd, Return, TimedOut
  <2>8. CASE DrainFails
    BY <2>8 DEF DrainFails, Return, TimedOut
  <2>9. QED
    BY <1>2, <2>1, <2>2, <2>3, <2>5, <2>6, <2>7, <2>8 DEF Harness
<1>3. ASSUME NEW line \in Line, Write(line) PROVE collected \o pipe' = written'
  BY <1>3, <1>b DEF Write
<1>4. CASE Summarise
  <2>1. PICK says \in Summaries :
          /\ Write([real |-> TRUE, stream |-> "stdout", says |-> says])
          /\ reported' = says
    BY <1>4 DEF Summarise
  <2>2. [real |-> TRUE, stream |-> "stdout", says |-> says] \in Line
    BY DEF Line
  <2>3. QED BY <1>3, <1>4, <2>1, <2>2 DEF Summarise
<1>5. ASSUME NEW p \in Processes, Say(p) PROVE Collected'
  <2>1. PICK stream \in {"stdout", "stderr"}, says \in {"passed", "failed", "chatter"} :
          Write([real |-> FALSE, stream |-> stream, says |-> says])
    BY <1>5 DEF Say
  <2>2. [real |-> FALSE, stream |-> stream, says |-> says] \in Line
    BY DEF Line, Summaries
  <2>3. collected \o pipe' = written'
    BY <1>3, <2>1, <2>2
  <2>4. QED BY <1>5, <2>3 DEF Say
<1>6. ASSUME NEW p \in Processes, Setsid(p) \/ Exit(p) \/ Die(p) PROVE Collected'
  BY <1>6 DEF Setsid, Exit, Die
<1>7. ASSUME NEW p \in Processes, NEW q \in Others, Fork(p, q) PROVE Collected'
  BY <1>7 DEF Fork
<1>8. QED BY <1>1, <1>2, <1>4, <1>5, <1>6, <1>7 DEF Next, Tested

LEMMA CollectedAlways == Spec => [](Typed /\ Collected)
<1>1. Init => Typed /\ Collected
  BY DEF Init, Typed, Graces, TypeOK, NoResult, ExecutionResult, Counts, Processes,
         Collected, Returned
<1>2. QED BY <1>1, TypeStep, CollectedStep, PTL DEF Spec

(* No line is lost, doubled or out of place in a result that has its output, *)
(* on whichever call of communicate() it was read.                           *)
THEOREM OutputIsComplete == Spec => []OutputKept
<1>1. Collected => OutputKept
  BY DEF Collected, OutputKept
<1>2. QED BY <1>1, CollectedAlways, PTL

-----------------------------------------------------------------------------
(* Pytest's own line is on stdout, and there is at most one.                *)
OwnLine ==
  \A i \in DOMAIN written :
    written[i].real =>
      /\ written[i].stream = "stdout" /\ written[i].says = reported
      /\ reported \in Summaries

LEMMA OwnLineStep == Typed /\ OwnLine /\ [Next]_vars => OwnLine'
<1> SUFFICES ASSUME Typed, OwnLine, [Next]_vars PROVE OwnLine'
  OBVIOUS
<1> USE DEF Typed, TypeOK, OwnLine, harness, world, vars
<1>1. CASE UNCHANGED vars
  BY <1>1
<1>2. CASE Harness
  BY <1>2 DEF Harness, RefuseTarget, SpawnFails, Spawn, Read, Completes, TimesOut,
              KillGroup, Drained, DrainFails, GraceOver
<1>3. ASSUME NEW line, Write(line), NEW i \in DOMAIN written'
      PROVE  \/ i \in DOMAIN written /\ written'[i] = written[i]
             \/ written'[i] = line
  BY <1>3 DEF Write
<1>4. CASE Summarise
  <2>1. PICK says \in Summaries :
          /\ Write([real |-> TRUE, stream |-> "stdout", says |-> says])
          /\ reported' = says
    BY <1>4 DEF Summarise
  <2>2. \A i \in DOMAIN written : ~written[i].real
    BY <1>4 DEF Summarise, Summaries, None
  <2>3. QED BY <1>3, <2>1, <2>2
<1>5. ASSUME NEW p \in Processes, Say(p) PROVE OwnLine'
  <2>1. PICK stream \in {"stdout", "stderr"}, says \in {"passed", "failed", "chatter"} :
          Write([real |-> FALSE, stream |-> stream, says |-> says])
    BY <1>5 DEF Say
  <2>2. reported' = reported
    BY <1>5 DEF Say
  <2>3. QED BY <1>3, <2>1, <2>2
<1>6. ASSUME NEW p \in Processes, Setsid(p) \/ Exit(p) \/ Die(p) PROVE OwnLine'
  BY <1>6 DEF Setsid, Exit, Die
<1>7. ASSUME NEW p \in Processes, NEW q \in Others, Fork(p, q) PROVE OwnLine'
  BY <1>7 DEF Fork
<1>8. QED BY <1>1, <1>2, <1>4, <1>5, <1>6, <1>7 DEF Next, Tested

LEMMA OwnLineAlways == Spec => [](Typed /\ OwnLine)
<1>1. Init => Typed /\ OwnLine
  BY DEF Init, Typed, Graces, TypeOK, NoResult, ExecutionResult, Counts, Processes, OwnLine
<1>2. QED BY <1>1, TypeStep, OwnLineStep, PTL DEF Spec

(* When pytest's line is the last on stdout that looks like one, it is the  *)
(* one that is found.                                                       *)
LEMMA LastIsFound ==
  ASSUME Typed, OwnLine, LastOnStdout
  PROVE  ParseSummary(written) = CountsOf(reported) /\ reported \in Summaries
<1> DEFINE found == SummariesOn("stdout", written)
<1>1. PICK i \in DOMAIN written :
        /\ written[i].real
        /\ \A j \in i + 1 .. Len(written) :
             written[j].stream = "stdout" => ~LooksLikeSummary(written[j])
  BY DEF LastOnStdout
<1>2. written[i].stream = "stdout" /\ written[i].says = reported /\ reported \in Summaries
  BY <1>1 DEF OwnLine
<1>3. i \in found
  BY <1>2 DEF SummariesOn, LooksLikeSummary, Summaries
<1>4. \A j \in found : j \in DOMAIN written /\ j <= i
  BY <1>1 DEF SummariesOn, Typed, TypeOK
<1>5. \A j \in found : (\A k \in found : k <= j) => j = i
  BY <1>3, <1>4 DEF Typed, TypeOK
<1>6. LastOf(found) = i
  BY <1>3, <1>4, <1>5 DEF LastOf
<1>7. FindSummary("stdout", written) = reported /\ reported # None
  BY <1>2, <1>3, <1>6 DEF FindSummary, Summaries, None
<1>8. QED BY <1>2, <1>7 DEF ParseSummary

(* The counts are pytest's own, whatever tests print before its last line.  *)
THEOREM CountsArePytests == Spec => []SummaryIsPytests
<1>1. Typed /\ Collected /\ OwnLine => SummaryIsPytests
  BY LastIsFound DEF SummaryIsPytests, Collected
<1>2. QED BY <1>1, CollectedAlways, OwnLineAlways, PTL

(* No green result hides a failure that pytest reported, unless the exit    *)
(* code and the last summary on stdout are both somebody else's.            *)
THEOREM GreenIsNoFailure == Spec => []GreenIsEarned
<1>1. Typed /\ Collected /\ OwnLine => GreenIsEarned
  <2> SUFFICES ASSUME Typed, Collected, OwnLine, Returned, Green(result),
                      LastOnStdout \/ ExitIsPytests
               PROVE  reported \notin {"failed", "error"}
    BY DEF GreenIsEarned
  <2>1. exit = 0 /\ result.counts = ParseSummary(written) /\ result.counts \notin {"failed", "error"}
    BY DEF Collected, Green
  <2>2. CASE LastOnStdout
    BY <2>1, <2>2, LastIsFound DEF CountsOf
  <2>3. CASE ExitIsPytests
    BY <2>1, <2>3 DEF ExitIsPytests
  <2>4. QED BY <2>2, <2>3
<1>2. QED BY <1>1, CollectedAlways, OwnLineAlways, PTL
=============================================================================
