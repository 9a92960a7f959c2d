# Repro: a verification project

Repro (`src/src/repro`) takes a client's vague bug report and a repository, writes
a test that fails because of the bug, runs it, writes a patch, verifies the patch
twice and reports. Its product is a promise: *no patch without a reproduction, no
"fixed" without two green checks, no run without a bound*. These modules model the
parts of the code that keep that promise, TLC checks them on small instances, and
TLAPS proves the main results for every value of the constants.

    tlc -workers 2 -config MCRunGraph_caps.cfg MCRunGraph.tla
    tlapm RunGraphProofs.tla

`PROJECT.json` lists components, runs, mutants (for each property, a plausible bug
that TLC must find with it), the source lines of every definition, findings,
hazards and theorems.

## 1. The system

| component | state it keeps | operations | behaves badly when |
|---|---|---|---|
| **graph** (`graph/build.py`) | `GraphState`: facts, three counters, two attempt lists, verdict, letters, usage; the meter's delta; the workspace | `_guarded` around each node, routers, `run()`, `enforce_invariants` | the budget runs out inside a node, after the evidence was judged; anything raises |
| **nodes** (`agents/*.py`) | locals only | intake, clarify, localise, repro, fix, report | the model fails, the sandbox refuses or raises, a test or patch is left on the tree |
| **structured calls** (`llm/structured.py`, `fake.py`) | – | one call, at most one repair | truncation, off-schema replies, missing recordings; dollars lost with the exception |
| **budget guards** (`llm/budget.py`, `bedrock.py`, `anthropic_api.py`) | per run: usage; per process: usage and a latch | `check`, send, throttle retries, `add` | concurrent runs between check and add |
| **sandbox** (`sandbox_seam.py`, `workspace.py`, `patcher.py`) | a copy of the repository, generated tests, a stack of snapshots | write/remove test, apply, revert, open, close | disk faults, writes that fail half-way |
| **test runner** (`sandbox/runner.py`) | one child process, its group, two pipes | start, collect, time out, kill, drain, read the summary | tests fork, leave the group, hold the pipes, print summaries of their own |
| **fetching** (`sandbox/github.py`, `deps.py`) | a clone cache, virtualenvs by run id | fetch, refresh, install | two runs with one cache entry or one run id; a crash during a clone |
| **HTTP API** (`api/main.py`) | `RUNS`, per run: events, record, error, finished, subscribers | create, play, publish, fail, subscribe, stream, get | worker thread vs event loop, late and returning watchers, failing fixtures |
| **retrieval** (`retrieval/index.py`, `localiser.py`) | – | search, rank, hypotheses | pure: ties, rounding, the order of a listing |
| **front ends** (`cli.py`, `agentcore/`, `web/`, `eval/`) | – | call `run()` or the API | – |

They interact by calls, except at two places: all live clients of a process share
one `SessionBudgetGuard` (threads and a lock), and a run in a worker thread sends
its events to the event loop with `call_soon_threadsafe` (queue), where watchers
are coroutines. The LLM, pytest and git are outside: what they answer is chosen
nondeterministically from what the code distinguishes.

## 2. Modules

| module | models | composed of |
|---|---|---|
| `RunContract` | the abstract promise of one run: evidence `none -> reproduced -> verified`, a verdict it supports | |
| `RunGraph` | one run from `run()` to the sandbox calls of its nodes | instantiates `RunContract` |
| `RunGraphProofs` | types, metering, bounds: theorems | extends `RunGraph` |
| `RunVerdictProofs` | what the record says, refinement, what is on the tree while a run tests: theorems | extends `RunGraphProofs` |
| `SessionBudget` | `_converse` and the two guards, several runs | |
| `SessionBudgetProofs` | types, the run's cap, the latch: theorems | extends `SessionBudget` |
| `RunStream` | one run behind the API: worker, loop, play, watchers | |
| `RunStreamProofs` | types, order and completeness of a stream: theorems | extends `RunStream` |
| `PatchStack` | the abstract promise of apply and revert: whole or not at all, newest first | |
| `Patcher` | `patcher.py` file by file, both backends | instantiates `PatchStack` |
| `PatcherProofs` | types, refusals, refinement: theorems | extends `Patcher` |
| `Runner` | one `run_pytest`: the harness, pytest, what its tests start, two pipes | |
| `RunnerProofs` | the kill, the output, the counts: theorems | extends `Runner` |
| `Provisioning` | clone cache, workspace copy, virtualenv: several callers, deaths and retries | |
| `ProvisioningProofs` | the cache entry, the virtualenv: theorems | extends `Provisioning` |
| `Diffs` | the diff parser and the search for a hunk's place, as functions of lines | |
| `Retrieval` | the order of the hits and of the hypotheses, as functions of scores | |
| `Algorithms` | small questions put to both, and what the answers should be | extends `Diffs`, `Retrieval` |
| `AlgorithmsProofs` | where hunks land, how diffs are read, what a search finds, for any size: theorems | extends `Algorithms` |
| `MCRunGraph`, `MCSessionBudget`, `MCPatcher`, `MCProvisioning` | values of the constants for TLC | |

**RunGraph.** `node` and `step` say where the run is: `open`, `environment`
(`run()`'s try clause), `enter` and `leave` (`_guarded`), `first`, `repair`, `reply`
(`structured()` and what a node does with its answer), `run_repro`, `run_target`,
`run_suite` (pytest), `route`, `close`, `gate`, `returned`, `raised`. `usage` is what
the graph's meter knows and `billedUsd` what the provider was paid; they differ
because a call that raises loses its dollars (`_charge_for_a_failed_call`). A test is
one of the kinds `is_reproduction` and the suite tell apart (`Tests`), a patch one of
the kinds the two checks tell apart (`Patches`), and the tree is the set of generated
tests on it and the stack of patches on it. An attempt keeps its artefact only when
the run reads it again. Each action is one handler or the stretch of one between two
calls that can fail; the disjuncts of an action are the ways the call can end.

**SessionBudget.** `pc` walks through `_converse`: read the latch (no lock), read the
usage (all that the lock covers in `check`), decide, the run's own check, send,
throttled retries without a second check, and the two `add`s. `billed` and `late` are
history: what the provider has charged, and sends after the latch was set.

**RunStream.** `ready` is the loop's callback queue, filled by the worker thread;
`events`, `record`, `error`, `finished`, `subscribers` are `RunStream`'s fields. Code
between two awaits is one action. The completion of the `to_thread` future is one more
callback in `ready`, behind the run's events. `got` is what a watcher was sent during
its present visit.

**Patcher.** `tree` maps paths to a text, a directory or nothing; `snapshots` is
`_SNAPSHOTS` of one workspace. A call walks through `check` (snapshot taken, backend
not yet started), `write` (`plan`: writes still to make) and `undo`, a revert through
`revert` (`todo`: names still to restore, which are taken in the order the diff mentions
them); any write or restore may fail. A diff is its sections, one for each `---`/`+++`
pair, and a section turns one text into another: the lines of hunks are `Diffs`' part.
`GitAccepts` and `GitPlan` are git as `_git_apply` calls it: all of a diff is checked
first, what is replaced is removed before anything is written, an empty directory gives
way to a file, and under `--recount` the headers of the next file are read as lines of
the hunk unless a `diff --git` line stands between. `PythonAccepts` and `PythonPlan` are
the fallback. `entry`, `original` and `spoiled` are history.

**Provisioning.** A caller is a run (fetch, copy, prepare, test, close) or a browse
request (fetch only). `cache` is one entry of the clone cache: its `.git`, `FETCH_HEAD`,
`index.lock` and what each file holds, a version number. `git reset`, `git clone`,
`rmtree` and `copytree` go file by file. `venv` is what is at
`<workspace_root>/<run_id>/venv` and whose copy is installed in it, told apart by run and
start, so a retry with an old run id is not the run that died. Two runs may have one id, at one
time too, and then share that directory: `Equip` is the step where the one clears it under the other. `alone`,
`since` and `faulted` are history of a fetch, `littered` of a virtualenv nobody will remove,
`sole` of one that no live twin has been in since its run cleared it.

**Runner.** `pc` is where `run_pytest` is: `communicate`, `kill` (the timeout is over, the
signal not yet sent), `drain` with its two `graces`. `proc` and `left` say what each process
is and whether it has left pytest's group; `doomed` is a process that SIGKILL has been sent
to. `holders` has the write ends of the pipes, `pipe` what is written and not yet read. A
line is pytest's own (`real`) or a test's, and may look like a summary either way.
`written` and `reported` are history.

**Diffs, Retrieval.** A line of a diff is its first character and the rest: the prefix that
tells a header, and what the header names; a header that does not name all it has to is an
error. A score is a number, `Resolution` what `round(score, 4)` does not tell
apart, a path its place in the alphabet.

## 3. Runs

| run | question | size | result |
|---|---|---|---|
| `caps` | real loop bounds, free calls, no swallowed disk faults: do the loops end where they should, is a fix about the tree as it stands, is the contract implemented? | 289 k states | holds |
| `money` | prices 1-2, cap 5, guarded and unguarded clients, disk faults: what may a run say and ship once the money is gone, how far can it overshoot, does it end? | 210 k | holds |
| `stream` | two watchers, two visits each, all kinds of run | 66 k | holds |
| `session` | two runs, three calls each, estimates 1-2, cap 4 | 304 k | holds |
| `patcher` | sequences of diffs on three trees, both backends, failing anywhere, restores included | 2.6 M | holds |
| `provision` | two runs with one run id, one browse request; three starts, two at a time, two pushes, one fault | 3.7 M | holds |
| `runner` | pytest and two processes its tests start, two lines of output, a timeout at any moment | 474 k | holds |
| `algorithms` | all diffs of two hunks, all hunk bodies of two lines, whole diffs and diffs cut short, all repositories of three files | 1.6 M | holds |
| `budget_stop` | "aborts with `Verdict.ABORTED_BUDGET`" (ARCHITECTURE.md) | | violated |
| `stream_verdict` | the record is there once the verdict is out | | violated |
| `patcher_atomic` | "Never leaves the workspace half-patched" | | violated |
| `provision_torn` | a workspace is "a throwaway copy of the target repo" | | violated |

What the passing runs show:

- `FixedMeansVerified`: a record that says *fixed* is about the tree as it is: exactly
  the accepted patch is on it, the reproduction and the suite are green there.
- `GoodPatchNotVetoed`: where the project's own tests are green, nothing the agent left behind
  can reject a correct patch, but for one kind of test that the property names (below).
- `ImplementsContract`: nothing is ever un-proved, and the verdict is the one the
  evidence supports, through budget stops and the last gate.
- `OverspentShipsNothing`, `AbortedOnlyOnBudget`, `HandoverHonest`: money may change the
  verdict after the evidence was judged, and then patch, letters and verdict change
  together; nothing else ever makes the last gate act.
- `OvershootBounded`, `CallCeiling`, `BillWithinCap`, `NoFreeRetry`: budgets are checked
  between nodes only; the overshoot is one call and two prices, the bill of a guarded
  client is exact, and no way to fail is free.
- `NoLeakedWorkspace`, `Termination`: on every way out, raised exceptions included.
- `WholeStory`, `NothingAfterTheEnd`, `EndIsExplained`, `ReadersReleased`:
  whenever a watcher connects it sees all events in order, the end comes last, with a
  reason, with one answer to GET, and every reader is let go.
- `OvershootBounded` (session), `OwnCapHeld`, `NothingLost`, `LatchJustified`,
  `AtMostOneMore`: races past the session check cost at most one estimate for every
  other run; no bill is lost; the latch is earned, and ends each run after at most the
  one call it had already been allowed.
- `RefusedLeavesNoTrace`, `AppliedInFull`, `StartsOver`, `ImplementsStack`: however far
  a backend had got when it failed, and whatever was applied, reverted or written by
  tests in between, patches land whole and come off newest first, up to the first restore
  that fails; when all are off, every file is as before the first, and so is every directory
  unless git had an empty one to lose.
- `WorksOnOneVersion`, `NothingStaysWedged`: what deaths, timeouts and other callers have
  left in the cache is never handed out, and never keeps a repository from being fetched,
  as long as one caller at a time fetches.
- `OwnCodeTested`, `RunLeavesNothing`: a run tests its own copy of the code, after a death and
  a retry with the same id too, unless a live run with its id has been in the virtualenv since
  (`sole`; below); and on each fall-back of `prepare`, and however runs of one id overlap,
  what they were given is removed by the time the last of them has ended.
- `TimeoutKillsGroup`, `OutputKept`, `AlwaysReturns`: whoever forks, hangs or holds a pipe,
  the call comes back; after a timeout nothing that stayed in the group runs any more, and
  what was collected before and after the kill is the whole output, in order.
- `SummaryIsPytests`, `GreenIsEarned`: a test's own "1 passed" before the end does not count;
  a failure that pytest reported turns green only if the tests print a summary after it *and*
  change the exit code.
- `HunksLandRight`: with right line numbers each hunk that has old lines lands where it
  belongs whatever the text, the shift by earlier hunks included; with wrong ones too, if its
  old lines stand in the file once. One of added lines alone lands one line early unless it is
  for the top, and disturbs no other. `DiffReadsBack`: no removed or added line is taken for a
  header, and a diff that breaks off in a header is refused.
  `HitsAreTheBest`: the hits are the best of what could be read, each with a best unit of its
  file, and the order in which a directory is listed has no part in them.

What the violated ones show, in short (quotes and lines in `PROJECT.json`):

1. With a guarded client the money ends by an exception out of `BudgetGuard.check`. No
   node and no guard catches it: `run()` raises and the audit trail is lost. The
   documented `ABORTED_BUDGET` record is only reached without a guard, or on calls.
2. A real run's verdict closes the stream before `publish()` has set the record.
3. `_restore` stops at the first name it cannot restore. A diff that creates a file where a
   directory stands passes `git apply --check`, fails while it is written, and leaves the
   client's files that git had already removed off the tree.
4. Fetches of one repository are not locked against each other. The second of two first
   fetches has its clone refused, and removes the first one's; with real threads and a
   local repository all of them fail, or one is handed a directory that is being removed,
   and its run works on what `copytree` still finds.

Facts met on the way that the models have as steps, and that no run of their own is about:

- Only the prompt keeps a diff from rewriting the reproduction test (`Patches` has such a
  patch, and it is accepted).
- `MockRun.play` reads its fixture outside its `try`: an unreadable one lets its watchers
  wait for ever (`FixtureUnreadable`).
- A virtualenv whose creation fails half-way is held by nobody and stays (`CreateFails`).
- A test can be refused after it was written. `unsafe_test_path` takes `tests/..::x_test.py` for a
  file in `tests/`, `write_test` writes it, and `run_test` cuts the name at `::` and raises the
  ValueError of a path that may not be written (runner.py:223). `_write_and_run` catches both
  alike (repro_agent.py:142-147), a refused test is not removed (:83), and the suite collects it
  and vetoes every later patch. `RefuseRun` is that step; `GoodPatchNotVetoed` leaves such a test
  out by name and says that nothing else has this effect.
- Two live runs with one run id (`--run-id` of the command line, `scripts/record_cassettes.py`, a
  retried AgentCore invocation; the API's own ids are new ones) share a virtualenv (build.py:425):
  the tests of one import the other's copy, or find no interpreter, although build.py:451 says that
  runs share nothing but the LLM client, and :406-409 that none can delete the other's tree. The
  run has such twins; `OwnCodeTested` is about the runs that no live twin has disturbed, and is
  violated without that condition. A retry after a death, which finds the old virtualenv, is safe.
- The backends disagree. Without `diff --git` lines git refuses a diff of two files that the
  fallback accepts; they differ on two sections for one file, on deleting a file that holds
  more than the diff says, and on hunk headers with a wrong count (git recounts; the fallback
  drops the surplus lines without a word). A rename is done by git and only half by the
  fallback, which writes the new name, leaves the old file and says applied (patcher.py:296-328;
  `AppliedInFull` says what becomes of the old name with each). A pure insertion (`@@ -k,0`) lands
  one line early in the fallback: `k` is the line it comes after, and `_locate` takes it for the
  line to be replaced (patcher.py:337, 354-355; `Early`).
- An empty directory that git replaces by a file does not come back: `_restore` unlinks the
  file and makes no directory for a name that held none (patcher.py:231-233, against "exactly
  as the snapshot found it" at :225). One tree of `patcher` has an empty directory,
  and `StartsOver` says what can become of it: a clone has none, but a test that cleans up
  after itself, or a zip, can leave one.
- A hunk with a wrong line number can land on repeated context, or in the new lines of an
  earlier hunk (against the comment at patcher.py:349-352).
- A run that ends by itself kills nobody: processes that closed the pipes live on. One that
  left the group survives the kill of a timeout. One that only holds a pipe turns a suite that
  had finished into `timed_out`.
- A line that looks like a failed summary, printed after pytest's, makes `is_reproduction`
  true of a green test, because the exit code is not looked at there (runner.py:269,
  _common.py:188). `os._exit(0)` before any summary is green with zero counts.
- An OSError of Popen leaves `run_pytest`, although runner.py:69-73 names ValueError as the
  only thing raised; RunGraph has it as a fault of the sandbox.

**Bounds.** The loop bounds in `caps` are the real ones. `money` needs two
reproductions and one fix for the budget to run out in each node with attempts of each
kind behind it; costs 1-2 against 5 give *below*, *exactly at* and *above* the cap and
a bill that differs from the meter. `MAX_TOTAL_LLM_CALLS` is 40 and `CallCeiling` shows
that it cannot be reached with the real loop bounds (at most 18 calls), so the runs
leave it at 40; the call part of `OvershootBounded` is proved for every value instead.
In `stream`, two watchers are independent of each other (they share only the run), a
second visit is what reconnecting adds, and one progress event is enough to order
against. In `session`, two runs make every race between a check and an add; cap 4
against estimates 1-2 lets the last calls fit exactly, by one too much, or not at all.
In `patcher`, one path is below another, which can be a file or a directory, and one is
not: that is what a write or a restore can meet. Two sections are enough for each order of
two files, two patches in force for a stack, one write of others to come between. In
`provision`, two files make a checkout that can be torn, three versions give one that is
old, one that is new and one over the size limit. Both runs have one id, so that a start is a retry, a
twin, or a first run, and two of three starts may be under way at one time (`MaxLive`): any two
runs, or a run and a browse request, meet at the entry, or at the virtualenv, and the third start
is the retry after the two that met. One fault is enough for debris, because refused resets and
oversized checkouts give more without a fault. In `runner`,
pytest and two more are a child and a grandchild, one of which stays in the group and one
leaves it; two lines are pytest's summary and one before or after it. In `algorithms`, two
hunks shift each other, two letters make context that repeats or does not, two lines in a
hunk put a removed line that reads like a header next to any other (an ending without
a bare line or an end-of-file mark is enough for a diff cut short); three files with a
`MaxFiles` of two leave one out, and scores 0-3 with a resolution of two give ties, ties by
rounding only, and hits rounded to nothing. What is proved holds for all sizes.

**Fairness.** `RunGraph` has `WF_vars(Next)`: one thread executes a run, every provider
call and every pytest run has a timeout, so the run itself never just stops. `RunStream`
has weak fairness for the coroutine `play`, for the worker (the run ends, by
`Termination`), for the loop's next callback, and for sending to a connected reader; none
for subscribing or disconnecting, which nobody owes anyone. `Runner` has weak fairness for
what the harness does on its own clock (the start, the timeouts of `communicate` and of the
two graces, the kill) and for the delivery of a SIGKILL; none for pytest or anything it starts,
which may hang for ever. The other modules are safety only. Deadlock is checked for `Patcher`,
where the next call can always come, and not elsewhere: every run ends.

**Assumptions on the constants.** A round trip costs at most its estimate
(`EstimateAssumption`, budget.py:18 "the estimate can only be too high", on which
`BillWithinCap`, `OwnCapHeld` and the session's `OvershootBounded` rest: the code computes it from
the length of the prompt at 3.5 characters a token, budget.py:82, and a denser prompt would cost
more than that); loop and call
caps are positive, as in contracts.py. `LettersAreHonest` also assumes that the call cap
is above the call ceiling, which contracts.py satisfies: if calls could run out in the
report node, the letters would be for another verdict than the record. A repository has
finitely many files, and paths and scores are numbers (`RepositoryAssumption`).

## 4. Proofs

`RunGraphProofs`: `TypeCorrect` needs more than `TypeOK`: a counter stays below its cap
because the node it counts is only entered below it, so the inductive invariant is
`Typed == TypeOK /\ Counters`, where `Counters` says how many attempts the current node
still leaves. `Metering` adds that the guard's bill has the pending first reply in it,
what a delta can hold at each step, and that a node was entered below the caps; from it
come `BillNeverPassesCap`, `OvershootIsBounded` and `RetriesAreCharged` (an action
property: a delta at `leave` holds at least one call). `CallsPaidFor` counts two calls
for each node still ahead, with `OuterNodesLeft` for the nodes outside the loops, and
gives `CallsHaveACeiling`.

`RunVerdictProofs`: `Trail` relates the attempt lists to the counters and to each other
(no fix attempt before a reproduction, accepted only with both checks green, nothing
after an accepted one), `Ruling` says which verdict the state may hold at which step.
Together they imply that `Sound` can only fail on money, which is
`AbortsAreAboutBudget`; `OverspentRunsShipNothing` and `LettersAreHonest` follow at the
gate. `RunImplementsContract` maps the initial state and every step: an attempt that
reproduces is `Reproduce`, an accepted one `Verify`, the gate `Finish`, a close with a
failure `Raise`, everything else a stutter.

`SessionBudgetProofs` holds for any number of runs, any caps and any estimates. Its
strengthenings say what a thread's private reading is still worth when it is used:
`InFlight` (a run in a round trip has not had its last call), `Cleared` (a call being
sent fits the run's own cap, which only its own thread adds to: `OwnCapIsExact`),
`Snapshot` (the reading `check` decides on is at most the usage: `LatchIsEarned`) and
`LastCall` (a run that has sent after the latch cannot get past the next reading of it:
`LatchStopsEveryRun`).

Two more are about sums over all runs. A sum over a set is recursive, so the proofs count
instead: what the runs have in a pile each is a set of coins, a pair for each unit of each
run's pile (`Coins`), and `Total` is its cardinality. Adding to one pile is a disjoint union,
for which the library has the facts. `Ledger` says that what all runs have been billed is
`sessionUsd` and what is owed, a bill that has been sent for and not been added; from it comes
`NothingIsLost`. `PromiseBounded` says that usage and what is promised, one estimate for each
run that has been let past the check and has not added, pass the cap by at most one estimate
for each run but one: the run that is let past last read a usage that fits. From it comes
`OvershootIsBounded`.

In the same module, `FixedIsVerified` and `GoodPatchesPass` assume `DiskFaults = FALSE`, and
without that are false. `OnTree` says what is on the tree at each step: between attempts the
test that reproduced and the patch that was accepted and nothing else, within an attempt its
own artefact as well; `Verified` that an accepted patch is alone there and both checks are
green. Every way out of an attempt has to take its artefact back for `OnTree` to be kept.
`NothingLeaks` needs no such assumption: `ClosedBehind` says that the finally clause is on
every way to an end.

`RunStreamProofs` holds for any number of watchers and visits. `Phases` says where the
coroutine, the worker and the loop's queue can be at once: the sentinel is only published
when the worker is over and its last callback has run, which is `NothingFollowsTheEnd`.
`StreamsAreWhole` is one lemma, `EmitKeepsStory`, applied to each action that publishes, and
one case for taking an item from a queue. `Told` and `Explained` say what the events and a
closed stream have in them at the end; that nothing stands behind the sentinel in a queue is
`DoneIsLast`.

`RunnerProofs` holds for any number of processes and lines. `Graces` counts the timeouts of
`_drain`; `Killed` says that from the kill on nothing in the group runs, which no later fork
can undo because whatever forks is in the group and doomed, or has left it; `Collected` that
what was read and what is in the pipes is what was written, and who can still write; `OwnLine`
that pytest's own line says what pytest reported. `GreenIsNoFailure` follows from the two.

`ProvisioningProofs` holds for any callers, files, versions, deaths and timeouts. `Solo`: one
who has been alone since its fetch began is the only one that writes to the entry. `CacheKnown`
then says what it knows of the entry at each of its steps (for a reset that is under way: which
files have the new version already), and `CopiesAreWhole` and `DebrisIsCleared` are read off.
`AllEquipped` says whose a virtualenv is at each step of `prepare` as long as its run is `sole`,
and `Accounted` that one that stands has a run of its id to answer for it, one that holds it or
has littered. Nothing is assumed of the ids: runs may share one, all of them or none.

`PatcherProofs` holds for any trees two levels deep, any diffs and any writes of others.
`InStep` says what a call knows at each step: outside the files of its snapshot nothing has
changed, what has been restored is as the snapshot has it, and no directory has come
into being below another. That a backend writes to no file that the diff does not name
(`PlanNames`) makes it inductive. `BackAsItWas` is a call that took everything back, which
is `RefusalsLeaveNoTrace` and, for the stack, a stutter; in `ImplementsTheStack` a call that
succeeds is `Land` of its snapshot's files, a revert that is through is `TakeBack`, a restore
that gives up is `Spoil`, `Forget` is `Settle`, and all other steps are none of the stack's.

`EveryAttemptStartsOver` is about the tree before the first of the patches in force, which no
variable holds. `HasPast` says that there is a sequence of past trees: the first is the
original, the last the tree now, and each differs from the next only in the files of its
snapshot, which has what the earlier one held. `PushPast` and `PopPast` are a patch that lands
and one that is taken back. Inside a call `Kept`, `Rewritten` and `Refilled` say where the
tree may differ from the one the call began with, directories included: one that git has
removed because it was emptied, or let give way to a file, is above a file that the snapshot
restores (`WholeTreeBack`), unless it was empty before. `AppliesInFull` comes from `OnItsWay`:
what the diff wants of each file is on the tree already, or the last of the writes still to
come to that file.

`AlgorithmsProofs` is about functions of data: what a fold computes for any number of hunks or
lines. The library's induction theorem takes an operator and cannot be used, but the
least-number principle takes a set (`WFMin` for `<` on the naturals), and induction for sets
follows (`Induction`). A fold is a recursive function on sets of indices, of which it has to be
shown first that it exists (`FoldExists`); then `FoldMakes` says that it goes through the items
in order. No lemma can take the operator that is folded, so `Work` names what the model
folds (`ApplyHunk`, `ReadLine`, `Offer`, ...) and the lemmas are about `Work`. `OneHunk` is one
hunk: old lines between what stands before and after them (`Around`) are found and swapped if
the line number in the *original* text is right, or if they stand nowhere else, and the offset
is then what the length has changed by (`Reached`). `HunksLand` is that for a whole list, with
no bound on anything, and `HunksLandWhereMeant` reads off what the run checks, for any letters:
a hunk without old lines is for the place one line further up, or for the top (`Putting`), and
what it makes there (`Early`) is what the next hunk is for.

`DiffsReadBack` is that parsing is the inverse of writing. `Reads` says what some lines do to a
parser that expects a header (`HasRead`), and lines after lines do the one after the other
(`ReadsInTurn`), so a diff is taken apart into files, hunks and headers. Within a hunk the
parser is `Midway`: `TakesLine` needs that before the last line one of the header's counts is
not reached, whatever the line looks like, and `Counting` that they are reached together when
the last one is in. A header that is cut short makes a parser that expects a header bad for good
(`DiffsCutShort`). `DiffsAreReadBack` reads off what the run checks.

`SearchFindsTheBest` rests on what `sorted()` gives. `InOrder` chooses a permutation, so it has
to be shown that there is one: `InARow` puts the indices in a row by counting how many come
before each, which is one-to-one and so onto. An entry of an ordered list then stands at the
place that the number of entries before it says (`PlacedAt`), which is how `Chosen` and `Place`
are defined without any sorting. `ChosenAreRead`, `BestOfFile` and `Matched` are the three
stages of the search: what is read, the best unit of a file, one match per file that fits.
`HypothesesNameTheHits` is two passes of the same loop (`Offered`: while there is room nothing
offered is missing), the first of which fills no more places than the second, as a list
without doubles is no longer than one that has all its names (`NotLonger`). `BestAreFound`
reads off what the run checks, for any repository and any scores.

The inductive invariants were checked by TLC on the instances of the runs before they were
proved. Only model-checked is liveness (`Termination`, `ReadersReleased`, `AlwaysReturns`),
which is out of the prover's reach: every safety property that a run checks is a theorem.

## 5. What is left out

- Text: prompts, payloads, diffs, event labels. JSON validation by pydantic.
- `REPRO_KEEP_WORKSPACE`: "closed" means `close()` was called; the removal itself is
  best effort. A changing `REPRO_SESSION_BUDGET_USD`.
- In `Patcher`, directories that others emptied. In `Diffs`, path stripping and quoting, line
  endings and encodings. In `Provisioning`, which requirement files install, and an entry per
  branch: two refs of a repository have two entries and never meet. A death takes its git
  along; a git that outlives its parent is a caller that has not died yet.
- In `Runner`, the command line and environment of pytest, and `_tail`, which cuts the output
  (its own length can be off by one when the count of what was cut gains a digit); also the second
half of `_kill_group` (runner.py:169-174), which kills pytest alone where there are no process
groups, or after it has ended by itself: `_spawn` starts a session of its own for it.
- In `Retrieval`, the tokeniser, the BM25 formula and the walk over the files: arithmetic on
  floats and I/O, for which scores and listings stand.
- Nothing in the program calls `forget()`; only its tests do. `Forget` is what it would do.
- `FixedMeansVerified` and `GoodPatchNotVetoed` are checked with `DiskFaults = FALSE`. With
  a swallowed `OSError` in `_restore` or `remove_test` both fail, as the code accepts
  ("restoring is best-effort by design").
- `RecordingLLM` (a recording tool), cancellation of `play` at shutdown, `clarify` being
  resumed (nothing in the repository resumes a run), a fixture without a verdict event.
- Settings and clients (constants of a process), preview and facts (reading files for the
  browser), the fake sandbox (a test double), CLI, AgentCore, evaluation and scripts (one call
  of `run()` and formatting), the web UI (the server's side of its stream is `RunStream`), the
  vendored AWS CLI. None has state that two steps of it share.

## 6. Plan

1. *Done*: the run, its contract and its bounds; the session's budget; the stream; the
   patcher and its stack; the test runner; fetching and environments; diffs and retrieval.
2. *Done*: proofs of every safety property whose statement the prover can reach, the two
   refinements (run to contract, patcher to stack) among them.
3. *Done*: `provision` with two runs of one id and a browse request, two callers at a time.
