---------------------------- MODULE SessionBudget ---------------------------
(***************************************************************************)
(* The two money guards of llm/budget.py under concurrent runs: every live *)
(* client owns a BudgetGuard and all of them share the process's one       *)
(* SessionBudgetGuard.  A round trip (_converse of bedrock.py and          *)
(* anthropic_api.py) checks both, sends, retries when throttled, and books *)
(* the bill on both.  Runs are threads: only what a lock covers is one     *)
(* step.  Money is in whole units.                                         *)
(***************************************************************************)
EXTENDS Integers, FiniteSets

CONSTANTS
  Runs,        \* threads inside run(), each with its own client
  Cap,         \* REPRO_SESSION_BUDGET_USD
  RunCap,      \* MAX_RUN_USD
  Estimates,   \* pre-flight estimates of a call
  MaxTries,    \* max_throttle_tries
  MaxCalls     \* bound: round trips of one run

ASSUME RunsAssumption == IsFiniteSet(Runs) /\ Runs # {}
ASSUME MoneyAssumption == Cap \in Nat /\ RunCap \in Nat /\ Estimates \subseteq Nat
ASSUME CountsAssumption == MaxTries \in Nat \ {0} /\ MaxCalls \in Nat

VARIABLES
  pc,            \* where each thread is in _converse
  estimate,      \* the call it asks for
  spent,         \* check()'s local: the session's usage as it read it
  tries,         \* throttled attempts so far
  cost,          \* the bill of a reply not yet booked everywhere
  calls,         \* round trips done
  runUsd,        \* its own guard's usage
  sessionUsd,    \* the session guard's usage
  tripped,       \* the latch
  billed,        \* what the provider has charged the process
  late           \* round trips sent since the latch was set

locals == <<estimate, spent, tries, cost, calls>>
vars == <<pc, locals, runUsd, sessionUsd, tripped, billed, late>>

-----------------------------------------------------------------------------
Stopped == {"refused", "failed", "over"}
Points == {"idle", "latch", "read", "decide", "own", "send", "book_own",
           "book_session"} \cup Stopped

TypeOK ==
  /\ pc \in [Runs -> Points]
  /\ estimate \in [Runs -> Nat] /\ spent \in [Runs -> Nat]
  /\ tries \in [Runs -> 0 .. MaxTries] /\ cost \in [Runs -> Nat]
  /\ calls \in [Runs -> 0 .. MaxCalls] /\ runUsd \in [Runs -> Nat]
  /\ sessionUsd \in Nat /\ tripped \in BOOLEAN /\ billed \in Nat
  /\ late \in [Runs -> Nat]

Zero == [r \in Runs |-> 0]

Init ==
  /\ pc = [r \in Runs |-> "idle"]
  /\ estimate = Zero /\ spent = Zero /\ tries = Zero /\ cost = Zero /\ calls = Zero
  /\ runUsd = Zero /\ sessionUsd = 0 /\ tripped = FALSE
  /\ billed = 0 /\ late = Zero

Goto(r, point) == pc' = [pc EXCEPT ![r] = point]

-----------------------------------------------------------------------------
(* The run's business between two round trips. *)

Ask(r) ==
  /\ pc[r] = "idle" /\ calls[r] < MaxCalls
  /\ \E e \in Estimates : estimate' = [estimate EXCEPT ![r] = e]
  /\ Goto(r, "latch")
  /\ UNCHANGED <<spent, tries, cost, calls, runUsd, sessionUsd, tripped, billed, late>>

Finish(r) ==
  /\ pc[r] = "idle"
  /\ Goto(r, "over")
  /\ UNCHANGED <<locals, runUsd, sessionUsd, tripped, billed, late>>

-----------------------------------------------------------------------------
(* SessionBudgetGuard.check, then BudgetGuard.check. *)

IgnoreLatch(r) ==  \* mutant
  /\ pc[r] = "latch"
  /\ Goto(r, "read")
  /\ UNCHANGED <<locals, runUsd, sessionUsd, tripped, billed, late>>

ReadLatch(r) ==   \* read without the lock
  /\ pc[r] = "latch"
  /\ Goto(r, IF tripped THEN "refused" ELSE "read")
  /\ UNCHANGED <<locals, runUsd, sessionUsd, tripped, billed, late>>

ReadSpent(r) ==   \* the only part of check() the lock covers
  /\ pc[r] = "read"
  /\ spent' = [spent EXCEPT ![r] = sessionUsd]
  /\ Goto(r, "decide")
  /\ UNCHANGED <<estimate, tries, cost, calls, runUsd, sessionUsd, tripped, billed, late>>

FitsAfterwards(s, e, cap) == s <= cap  \* mutant: the cap is checked without the estimate
FitsTwice(s, e, cap) == s + 2 * e <= cap  \* mutant: the estimate is counted twice
Fits(s, e, cap) == s + e <= cap

Decide(r) ==
  /\ pc[r] = "decide"
  /\ IF Fits(spent[r], estimate[r], Cap)
     THEN Goto(r, "own") /\ UNCHANGED tripped
     ELSE Goto(r, "refused") /\ tripped' = TRUE
  /\ UNCHANGED <<locals, runUsd, sessionUsd, billed, late>>

SkipOwn(r) ==  \* mutant: the session check stands in for the run's own
  /\ pc[r] = "own"
  /\ Goto(r, "send") /\ tries' = [tries EXCEPT ![r] = 0]
  /\ UNCHANGED <<estimate, spent, cost, calls, runUsd, sessionUsd, tripped, billed, late>>

CheckOwn(r) ==    \* nobody else uses this guard
  /\ pc[r] = "own"
  /\ IF Fits(runUsd[r], estimate[r], RunCap)
     THEN Goto(r, "send") /\ tries' = [tries EXCEPT ![r] = 0]
     ELSE Goto(r, "refused") /\ UNCHANGED tries
  /\ UNCHANGED <<estimate, spent, cost, calls, runUsd, sessionUsd, tripped, billed, late>>

-----------------------------------------------------------------------------
(* The provider.  A throttled attempt is retried without a second check.    *)

ThrottledForever(r) ==  \* mutant: the attempts are not counted against their bound
  /\ pc[r] = "send"
  /\ tries' = [tries EXCEPT ![r] = @ + 1]
  /\ UNCHANGED <<pc, estimate, spent, cost, calls, runUsd, sessionUsd, tripped, billed, late>>

Throttled(r) ==
  /\ pc[r] = "send" /\ tries[r] + 1 < MaxTries
  /\ tries' = [tries EXCEPT ![r] = @ + 1]
  /\ UNCHANGED <<pc, estimate, spent, cost, calls, runUsd, sessionUsd, tripped, billed, late>>

GiveUp(r) ==      \* the last throttled attempt, or any other client error
  /\ pc[r] = "send"
  /\ Goto(r, "failed")
  /\ UNCHANGED <<locals, runUsd, sessionUsd, tripped, billed, late>>

Reply(r) ==
  /\ pc[r] = "send"
  /\ \E c \in 0 .. estimate[r] :
       cost' = [cost EXCEPT ![r] = c] /\ billed' = billed + c
  /\ late' = IF tripped THEN [late EXCEPT ![r] = @ + 1] ELSE late
  /\ Goto(r, "book_own")
  /\ UNCHANGED <<estimate, spent, tries, calls, runUsd, sessionUsd, tripped>>

-----------------------------------------------------------------------------
(* add() on each guard, the merge under its lock. *)

BookOwn(r) ==
  /\ pc[r] = "book_own"
  /\ runUsd' = [runUsd EXCEPT ![r] = @ + cost[r]]
  /\ Goto(r, "book_session")
  /\ UNCHANGED <<locals, sessionUsd, tripped, billed, late>>

BookUnlocked(r) ==  \* mutant: the merge starts from what check() had read
  /\ pc[r] = "book_session"
  /\ sessionUsd' = spent[r] + cost[r]
  /\ calls' = [calls EXCEPT ![r] = @ + 1]
  /\ Goto(r, "idle")
  /\ UNCHANGED <<estimate, spent, tries, cost, runUsd, tripped, billed, late>>

BookSession(r) ==
  /\ pc[r] = "book_session"
  /\ sessionUsd' = sessionUsd + cost[r]
  /\ calls' = [calls EXCEPT ![r] = @ + 1]
  /\ Goto(r, "idle")
  /\ UNCHANGED <<estimate, spent, tries, cost, runUsd, tripped, billed, late>>

Converse(r) ==
  \/ Ask(r) \/ Finish(r)
  \/ ReadLatch(r) \/ ReadSpent(r) \/ Decide(r) \/ CheckOwn(r)
  \/ Throttled(r) \/ GiveUp(r) \/ Reply(r)
  \/ BookOwn(r) \/ BookSession(r)

Next == \E r \in Runs : Converse(r)

Spec == Init /\ [][Next]_vars

-----------------------------------------------------------------------------
(* Properties. *)

Unbooked(r) == pc[r] \in {"book_own", "book_session"}
N == Cardinality(Runs)

(* The session cap is checked without reserving anything, so runs racing    *)
(* past the check may exceed it: by one estimate for every other run, and   *)
(* by no more however the threads interleave and however many calls each    *)
(* makes.                                                                   *)
OvershootBounded ==
  \A e \in Estimates : (\A f \in Estimates : f <= e) => billed <= Cap + (N - 1) * e

(* One run's own guard is exact: its bill stays within MAX_RUN_USD, the     *)
(* reply that is not booked yet included.                                   *)
OwnCapHeld ==
  \A r \in Runs : runUsd[r] + (IF pc[r] = "book_own" THEN cost[r] ELSE 0) <= RunCap

(* No spending is lost to a race: once every reply is booked, the session   *)
(* guard knows exactly what the provider has charged.                       *)
NothingLost == (\A r \in Runs : ~Unbooked(r)) => sessionUsd = billed

(* The latch, which no run of the process survives, is only ever set when   *)
(* some call really did not fit any more.                                   *)
LatchJustified == tripped => \E e \in Estimates : sessionUsd + e > Cap

(* After the latch is set a run sends at most the one call it had already   *)
(* been allowed.                                                            *)
AtMostOneMore == \A r \in Runs : late[r] <= 1
=============================================================================
