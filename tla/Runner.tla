------------------------------- MODULE Runner -------------------------------
(***************************************************************************)
(* One call of run_pytest (sandbox/runner.py): the harness that starts     *)
(* pytest in a session of its own, collects what comes out of its pipes,   *)
(* kills its process group when the time is up and reads the summary; and  *)
(* what pytest, the tests and the processes they start may do meanwhile.   *)
(*                                                                         *)
(* A process "gone" has closed its descriptors; pytest stays a zombie      *)
(* until communicate() reaps it, so its process group keeps its number.    *)
(***************************************************************************)
EXTENDS Integers, Sequences

CONSTANTS
  Pytest,        \* the child that the harness starts
  Others,        \* processes that tests may start
  MaxLines       \* bound: lines of output that matter

ASSUME ProcessAssumption == Pytest \notin Others
ASSUME LinesAssumption == MaxLines \in Nat

VARIABLES
  pc,            \* the harness, inside run_pytest
  graces,        \* _drain: grace periods that are over
  proc,          \* what each process is
  left,          \* processes that have left pytest's group (setsid)
  holders,       \* who holds a write end of the two pipes
  written,       \* history: every line, in order
  pipe,          \* lines the harness has not read yet
  collected,     \* lines Popen has read, over all calls of communicate()
  reported,      \* the summary pytest has printed
  exit,          \* pytest's exit code, 0 or not
  result         \* the ExecutionResult

harness == <<pc, graces, collected, result>>
world == <<proc, left, holders, written, reported, exit>>
vars == <<harness, world, pipe>>

-----------------------------------------------------------------------------
Processes == Others \cup {Pytest}
None == "none"
Summaries == {"passed", "failed", "error", "empty"}
(* "real": pytest's own last line; otherwise what a test, an atexit hook or *)
(* a process in the background prints, which may look just like one.        *)
Line == [real : BOOLEAN, stream : {"stdout", "stderr"}, says : Summaries \cup {"chatter"}]
Counts == {"zero", "passed", "failed", "error"}
ExecutionResult ==
  [timedOut : BOOLEAN, exit : Int, counts : Counts, kept : BOOLEAN, output : Seq(Line)]
NoResult == [timedOut |-> FALSE, exit |-> -1, counts |-> "zero", kept |-> FALSE, output |-> <<>>]

Init ==
  /\ pc = "start" /\ graces = 0
  /\ proc = [p \in Processes |-> "unborn"] /\ left = {} /\ holders = {}
  /\ written = <<>> /\ pipe = <<>> /\ collected = <<>>
  /\ reported = None /\ exit = -1
  /\ result = NoResult

-----------------------------------------------------------------------------
(* Reading the summary. *)

LooksLikeSummary(line) == line.says # "chatter"

SummariesOn(stream, lines) ==
  {i \in DOMAIN lines : lines[i].stream = stream /\ LooksLikeSummary(lines[i])}

FirstOf(S) == CHOOSE i \in S : \A j \in S : i <= j   \* mutant
LastOf(S) == CHOOSE i \in S : \A j \in S : j <= i

FindSummary(stream, lines) ==   \* the LAST line that looks like one
  LET found == SummariesOn(stream, lines)
  IN  IF found = {} THEN None ELSE lines[LastOf(found)].says

CountsOf(summary) ==   \* zero, and what the line states
  IF summary \in {"passed", "failed", "error"} THEN summary ELSE "zero"

ParseSummary(lines) ==
  CountsOf(IF FindSummary("stdout", lines) # None THEN FindSummary("stdout", lines)
           ELSE FindSummary("stderr", lines))

(* What the callers make of a result: ExecutionResult.green.                *)
GreenByCounts(r) == ~r.timedOut /\ r.counts \notin {"failed", "error"}   \* mutant
Green(r) == r.exit = 0 /\ ~r.timedOut /\ r.counts \notin {"failed", "error"}

-----------------------------------------------------------------------------
(* The harness. *)

RefuseTarget ==        \* a path outside the workspace, or a flag
  /\ pc = "start" /\ pc' = "raised"
  /\ UNCHANGED <<graces, collected, result, world, pipe>>

SpawnFails ==          \* Popen raises OSError: no interpreter, no descriptors
  /\ pc = "start" /\ pc' = "raised"
  /\ UNCHANGED <<graces, collected, result, world, pipe>>

Spawn ==
  /\ pc = "start" /\ pc' = "communicate"
  /\ proc' = [proc EXCEPT ![Pytest] = "running"] /\ holders' = {Pytest}
  /\ UNCHANGED <<graces, collected, result, left, written, reported, exit, pipe>>

Return(r) == pc' = "returned" /\ result' = r

Collecting == pc \in {"communicate", "drain"}

Read ==                \* select() finds output on a pipe
  /\ Collecting /\ pipe # <<>>
  /\ collected' = collected \o pipe /\ pipe' = <<>>
  /\ UNCHANGED <<pc, graces, result, world>>

AtEnd == pipe = <<>> /\ holders = {} /\ proc[Pytest] = "gone"

Completes ==           \* end of file on both pipes, and pytest is reaped
  /\ pc = "communicate" /\ AtEnd
  /\ Return([timedOut |-> FALSE, exit |-> exit, counts |-> ParseSummary(collected),
             kept |-> TRUE, output |-> collected])
  /\ UNCHANGED <<graces, collected, world, pipe>>

TimesOutAfresh ==      \* mutant: what was read before the timeout is dropped
  /\ pc = "communicate" /\ pc' = "kill" /\ collected' = <<>>
  /\ UNCHANGED <<graces, result, world, pipe>>

TimesOut ==            \* at any moment of the wait, the last one included
  /\ pc = "communicate" /\ pc' = "kill"
  /\ UNCHANGED <<graces, collected, result, world, pipe>>

TimedOut(kept) ==      \* no counts: "Counts are not available"
  [timedOut |-> TRUE, exit |-> -1, counts |-> "zero", kept |-> kept,
   output |-> IF kept THEN collected ELSE <<>>]

KillChild(p) == p = Pytest   \* mutant: proc.kill()
InGroup(p) == p \notin left

KillGroup ==           \* SIGKILL to the group, then _drain or its end
  /\ pc = "kill"
  /\ proc' = [p \in Processes |->
                IF proc[p] = "running" /\ InGroup(p) THEN "doomed" ELSE proc[p]]
  /\ IF graces = 2 THEN Return(TimedOut(FALSE)) ELSE pc' = "drain" /\ UNCHANGED result
  /\ UNCHANGED <<graces, collected, left, holders, written, reported, exit, pipe>>

Drained ==
  /\ pc = "drain" /\ AtEnd
  /\ Return(TimedOut(TRUE))
  /\ UNCHANGED <<graces, collected, world, pipe>>

DrainFails ==          \* communicate() raises something else
  /\ pc = "drain"
  /\ Return(TimedOut(FALSE))
  /\ UNCHANGED <<graces, collected, world, pipe>>

GraceEndless ==        \* mutant: communicate() without a timeout
  /\ pc = "drain" /\ FALSE
  /\ UNCHANGED vars

GraceOver ==           \* somebody still holds a pipe: kill again, wait again
  /\ pc = "drain" /\ pc' = "kill"
  /\ graces' = graces + 1
  /\ UNCHANGED <<collected, result, world, pipe>>

Harness ==
  \/ RefuseTarget \/ SpawnFails \/ Spawn \/ Read \/ Completes
  \/ TimesOut \/ KillGroup \/ Drained \/ DrainFails \/ GraceOver

-----------------------------------------------------------------------------
(* Pytest, the tests, and what they start. *)

Write(line) ==
  /\ Len(written) < MaxLines
  /\ written' = Append(written, line) /\ pipe' = Append(pipe, line)

Say(p) ==            \* past pytest's capture: at exit, from a child, with -s
  /\ proc[p] = "running" /\ p \in holders
  /\ \E stream \in {"stdout", "stderr"}, says \in {"passed", "failed", "chatter"} :
       Write([real |-> FALSE, stream |-> stream, says |-> says])
  /\ UNCHANGED <<harness, proc, left, holders, reported, exit>>

Summarise ==           \* pytest's last line; the interpreter still has to end
  /\ proc[Pytest] = "running" /\ reported = None
  /\ \E says \in Summaries :
       /\ Write([real |-> TRUE, stream |-> "stdout", says |-> says])
       /\ reported' = says
  /\ UNCHANGED <<harness, proc, left, holders, exit>>

Fork(p, q) ==          \* the child may have been given the pipes, or not
  /\ proc[p] = "running" /\ proc[q] = "unborn" /\ q # Pytest
  /\ proc' = [proc EXCEPT ![q] = "running"]
  /\ left' = IF p \in left THEN left \cup {q} ELSE left
  /\ \/ UNCHANGED holders
     \/ p \in holders /\ holders' = holders \cup {q}
  /\ UNCHANGED <<harness, written, reported, exit, pipe>>

Setsid(p) ==           \* a session of its own: start_new_session, a daemon
  /\ proc[p] = "running" /\ p # Pytest
  /\ left' = left \cup {p}
  /\ UNCHANGED <<harness, proc, holders, written, reported, exit, pipe>>

Exit(p) ==             \* an os._exit or a crash can change pytest's exit code
  /\ proc[p] = "running"
  /\ proc' = [proc EXCEPT ![p] = "gone"] /\ holders' = holders \ {p}
  /\ IF p = Pytest THEN exit' \in {0, 1} ELSE UNCHANGED exit
  /\ UNCHANGED <<harness, left, written, reported, pipe>>

Die(p) ==              \* SIGKILL arrives, and the descriptors are closed
  /\ proc[p] = "doomed"
  /\ proc' = [proc EXCEPT ![p] = "gone"] /\ holders' = holders \ {p}
  /\ UNCHANGED <<harness, left, written, reported, exit, pipe>>

Tested == \E p \in Processes :
  \/ Say(p) \/ Setsid(p) \/ Exit(p) \/ Die(p)
  \/ \E q \in Others : Fork(p, q)

Next == Harness \/ Summarise \/ Tested

(* The harness thread runs and its clocks tick; the kernel delivers a       *)
(* SIGKILL.  Nothing is assumed of the code under test: it may hang.        *)
Fairness ==
  /\ WF_vars(Spawn) /\ WF_vars(TimesOut) /\ WF_vars(KillGroup) /\ WF_vars(GraceOver)
  /\ \A p \in Processes : WF_vars(Die(p))

Spec == Init /\ [][Next]_vars /\ Fairness

-----------------------------------------------------------------------------
(* Properties. *)

TypeOK ==
  /\ pc \in {"start", "communicate", "kill", "drain", "returned", "raised"}
  /\ graces \in 0 .. 2
  /\ proc \in [Processes -> {"unborn", "running", "doomed", "gone"}]
  /\ left \subseteq Others /\ holders \subseteq Processes
  /\ written \in Seq(Line) /\ pipe \in Seq(Line) /\ collected \in Seq(Line)
  /\ reported \in Summaries \cup {None} /\ exit \in {-1, 0, 1}
  /\ result \in ExecutionResult

Returned == pc = "returned"

(* "The whole process group was killed": once a call has said that it timed *)
(* out, no process that stayed in pytest's group runs any code of the tests *)
(* any more, however many had been started, by whom, and when.              *)
TimeoutKillsGroup ==
  Returned /\ result.timedOut =>
    \A p \in Processes : p \notin left => proc[p] # "running"

(* A result whose output was collected holds every line that anyone wrote   *)
(* into the pipes, in order: those read before the timeout, those read      *)
(* after the kill, and none is written once it has been returned.           *)
OutputKept == Returned /\ result.kept => result.output = written

(* The counts are pytest's own, although tests print lines that look like a *)
(* summary all the time, as long as nobody prints one to stdout after it.   *)
LastOnStdout ==
  \E i \in DOMAIN written :
    /\ written[i].real
    /\ \A j \in i + 1 .. Len(written) :
         written[j].stream = "stdout" => ~LooksLikeSummary(written[j])
SummaryIsPytests ==
  Returned /\ ~result.timedOut /\ LastOnStdout => result.counts = CountsOf(reported)

(* Failures that pytest reported make no green result, although tests can    *)
(* print a summary of their own after it or end the process with an exit code *)
(* of their own: the two have to lie together.                              *)
ExitIsPytests == (exit = 0) <=> (reported = "passed")
GreenIsEarned ==
  Returned /\ Green(result) /\ (LastOnStdout \/ ExitIsPytests) =>
    reported \notin {"failed", "error"}

(* "This function returns, always", whatever hangs and whoever holds the    *)
(* pipes.                                                                   *)
AlwaysReturns == <>(pc \in {"returned", "raised"})
=============================================================================
