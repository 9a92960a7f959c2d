------------------------- MODULE SessionBudgetProofs ------------------------
(***************************************************************************)
(* What holds of the money guards for any number of runs, any caps and any *)
(* estimates.  What several runs owe or have been promised is a sum over    *)
(* them: it is the cardinality of a set of coins, so that every step is a   *)
(* fact about finite sets and no induction over the runs is needed.         *)
(***************************************************************************)
EXTENDS SessionBudget, FiniteSetTheorems, TLAPS

-----------------------------------------------------------------------------
(* A run in a round trip has not had its last one. *)
InFlight ==
  \A r \in Runs : pc[r] \notin {"idle"} \cup Stopped => calls[r] < MaxCalls

LEMMA TypeStep == TypeOK /\ InFlight /\ [Next]_vars => (TypeOK /\ InFlight)'
<1> SUFFICES ASSUME TypeOK, InFlight, [Next]_vars PROVE (TypeOK /\ InFlight)'
  OBVIOUS
<1> USE MoneyAssumption, CountsAssumption DEF TypeOK, InFlight, Points, Stopped
<1>1. CASE UNCHANGED vars
  BY <1>1 DEF vars, locals
<1>2. ASSUME NEW r \in Runs, Converse(r) PROVE (TypeOK /\ InFlight)'
  <2>1. CASE Ask(r)
    BY <2>1 DEF Ask, Goto
  <2>2. CASE Finish(r)
    BY <2>2 DEF Finish, Goto, locals
  <2>3. CASE ReadLatch(r)
    BY <2>3 DEF ReadLatch, Goto, locals
  <2>4. CASE ReadSpent(r)
    BY <2>4 DEF ReadSpent, Goto
  <2>5. CASE Decide(r)
    BY <2>5 DEF Decide, Goto, locals
  <2>6. CASE CheckOwn(r)
    BY <2>6 DEF CheckOwn, Goto
  <2>7. CASE Throttled(r)
    BY <2>7 DEF Throttled
  <2>8. CASE GiveUp(r)
    BY <2>8 DEF GiveUp, Goto, locals
  <2>9. CASE Reply(r)
    BY <2>9 DEF Reply, Goto
  <2>10. CASE BookOwn(r)
    BY <2>10 DEF BookOwn, Goto, locals
  <2>11. CASE BookSession(r)
    BY <2>11 DEF BookSession, Goto
  <2>12. QED
    BY <1>2, <2>1, <2>2, <2>3, <2>4, <2>5, <2>6, <2>7, <2>8, <2>9, <2>10, <2>11
    DEF Converse
<1>3. QED BY <1>1, <1>2 DEF Next

(* Every thread is at a point of _converse, every amount is one, and no     *)
(* call is retried beyond max_throttle_tries.                               *)
THEOREM TypeCorrect == Spec => []TypeOK
<1>1. Init => TypeOK
  <2>1. Zero \in [Runs -> Nat] /\ Zero \in [Runs -> 0..MaxTries]
                              /\ Zero \in [Runs -> 0..MaxCalls]
    BY CountsAssumption DEF Zero
  <2>2. [r \in Runs |-> "idle"] \in [Runs -> Points]
    BY DEF Points
  <2>3. 0 \in Nat
    OBVIOUS
  <2>4. QED BY <2>1, <2>2, <2>3, Zenon DEF Init, TypeOK
<1>2. Init => InFlight
  BY DEF Init, InFlight
<1>3. QED BY <1>1, <1>2, TypeStep, PTL DEF Spec

-----------------------------------------------------------------------------
(* A call that is being sent has been cleared, with its estimate, by the    *)
(* run's own guard, which nobody else adds to.                              *)
Cleared ==
  \A r \in Runs : pc[r] = "send" => runUsd[r] + estimate[r] <= RunCap

LEMMA OwnStep ==
  TypeOK /\ OwnCapHeld /\ Cleared /\ [Next]_vars => (OwnCapHeld /\ Cleared)'
<1> SUFFICES ASSUME TypeOK, OwnCapHeld, Cleared, [Next]_vars
             PROVE  (OwnCapHeld /\ Cleared)'
  OBVIOUS
<1> USE MoneyAssumption DEF TypeOK, OwnCapHeld, Cleared
<1>1. CASE UNCHANGED vars
  BY <1>1 DEF vars, locals
<1>2. ASSUME NEW r \in Runs, Converse(r) PROVE (OwnCapHeld /\ Cleared)'
  <2>1. CASE Ask(r)
    BY <2>1 DEF Ask, Goto
  <2>2. CASE Finish(r) \/ ReadLatch(r) \/ Decide(r) \/ GiveUp(r)
    BY <2>2 DEF Finish, ReadLatch, Decide, GiveUp, Goto, locals
  <2>3. CASE ReadSpent(r)
    BY <2>3 DEF ReadSpent, Goto
  <2>4. CASE CheckOwn(r)
    BY <2>4 DEF CheckOwn, Fits, Goto
  <2>5. CASE Throttled(r)
    BY <2>5 DEF Throttled
  <2>6. CASE Reply(r)
    BY <2>6 DEF Reply, Goto
  <2>7. CASE BookOwn(r)
    BY <2>7 DEF BookOwn, Goto, locals
  <2>8. CASE BookSession(r)
    BY <2>8 DEF BookSession, Goto
  <2>9. QED
    BY <1>2, <2>1, <2>2, <2>3, <2>4, <2>5, <2>6, <2>7, <2>8 DEF Converse
<1>3. QED BY <1>1, <1>2 DEF Next

(* One run's guard is exact, however the other runs interleave: the run     *)
(* never pays more than MAX_RUN_USD, an unbooked reply included.            *)
THEOREM OwnCapIsExact == Spec => []OwnCapHeld
<1>1. Init => OwnCapHeld /\ Cleared
  BY MoneyAssumption DEF Init, Zero, OwnCapHeld, Cleared
<1>2. QED BY <1>1, TypeCorrect, OwnStep, PTL DEF Spec

-----------------------------------------------------------------------------
(* What check() decides on was true of some earlier moment: the usage has   *)
(* only grown since, and the estimate is that of a real call.               *)
Snapshot ==
  \A r \in Runs :
    /\ pc[r] \in {"latch", "read", "decide"} => estimate[r] \in Estimates
    /\ pc[r] = "decide" => spent[r] <= sessionUsd

LEMMA LatchStep ==
  TypeOK /\ LatchJustified /\ Snapshot /\ [Next]_vars => (LatchJustified /\ Snapshot)'
<1> SUFFICES ASSUME TypeOK, LatchJustified, Snapshot, [Next]_vars
             PROVE  (LatchJustified /\ Snapshot)'
  OBVIOUS
<1> USE MoneyAssumption DEF TypeOK, LatchJustified, Snapshot
<1>1. CASE UNCHANGED vars
  BY <1>1 DEF vars, locals
<1>2. ASSUME NEW r \in Runs, Converse(r) PROVE (LatchJustified /\ Snapshot)'
  <2>1. CASE Ask(r)
    BY <2>1 DEF Ask, Goto
  <2>2. CASE Finish(r) \/ ReadLatch(r) \/ GiveUp(r) \/ BookOwn(r)
    BY <2>2 DEF Finish, ReadLatch, GiveUp, BookOwn, Goto, locals
  <2>3. CASE ReadSpent(r)
    BY <2>3 DEF ReadSpent, Goto
  <2>4. CASE Decide(r)
    BY <2>4 DEF Decide, Fits, Goto, locals
  <2>5. CASE CheckOwn(r) \/ Throttled(r) \/ Reply(r)
    BY <2>5 DEF CheckOwn, Throttled, Reply, Goto
  <2>6. CASE BookSession(r)
    BY <2>6 DEF BookSession, Goto
  <2>7. QED
    BY <1>2, <2>1, <2>2, <2>3, <2>4, <2>5, <2>6 DEF Converse
<1>3. QED BY <1>1, <1>2 DEF Next

(* The latch stops every run of the process for good, and is only set when  *)
(* a real call no longer fits, although it is decided on a stale reading.   *)
THEOREM LatchIsEarned == Spec => []LatchJustified
<1>1. Init => LatchJustified /\ Snapshot
  BY DEF Init, LatchJustified, Snapshot
<1>2. QED BY <1>1, TypeCorrect, LatchStep, PTL DEF Spec

-----------------------------------------------------------------------------
(* A run that has sent a call since the latch was set never gets beyond the *)
(* next reading of the latch.                                               *)
LastCall ==
  \A r \in Runs :
    late[r] = 1 => /\ tripped
                   /\ pc[r] \in {"book_own", "book_session", "idle", "latch"} \cup Stopped

LEMMA LateStep ==
  TypeOK /\ AtMostOneMore /\ LastCall /\ [Next]_vars => (AtMostOneMore /\ LastCall)'
<1> SUFFICES ASSUME TypeOK, AtMostOneMore, LastCall, [Next]_vars
             PROVE  (AtMostOneMore /\ LastCall)'
  OBVIOUS
<1> USE DEF TypeOK, AtMostOneMore, LastCall, Stopped
<1>1. CASE UNCHANGED vars
  BY <1>1 DEF vars, locals
<1>2. ASSUME NEW r \in Runs, Converse(r) PROVE (AtMostOneMore /\ LastCall)'
  <2>1. CASE Ask(r) \/ ReadSpent(r) \/ CheckOwn(r) \/ Throttled(r) \/ BookSession(r)
    BY <2>1 DEF Ask, ReadSpent, CheckOwn, Throttled, BookSession, Goto
  <2>2. CASE Finish(r) \/ ReadLatch(r) \/ Decide(r) \/ GiveUp(r) \/ BookOwn(r)
    BY <2>2 DEF Finish, ReadLatch, Decide, GiveUp, BookOwn, Goto, locals
  <2>3. CASE Reply(r)
    BY <2>3 DEF Reply, Goto
  <2>4. QED BY <1>2, <2>1, <2>2, <2>3 DEF Converse
<1>3. QED BY <1>1, <1>2 DEF Next

(* After the latch, each run sends at most the call it was already allowed, *)
(* however many runs there are.                                             *)
THEOREM LatchStopsEveryRun == Spec => []AtMostOneMore
<1>1. Init => AtMostOneMore /\ LastCall
  BY DEF Init, Zero, AtMostOneMore, LastCall
<1>2. QED BY <1>1, TypeCorrect, LateStep, PTL DEF Spec
-----------------------------------------------------------------------------
(* Sums over the runs.  The total of a weight is the number of its coins,   *)
(* so that what a step changes is a fact about finite sets.                 *)
Coins(w) == UNION {{r} \X (1 .. w[r]) : r \in Runs}
Total(w) == Cardinality(Coins(w))

(* What every thread still owes the session guard, and what the cap has     *)
(* been promised for: calls cleared and not sent, replies not booked.       *)
Granted(r) ==
  \/ pc[r] \in {"own", "send"}
  \/ pc[r] = "decide" /\ Fits(spent[r], estimate[r], Cap)

owed == [r \in Runs |-> IF Unbooked(r) THEN cost[r] ELSE 0]

promised ==
  [r \in Runs |-> IF Unbooked(r) THEN cost[r] ELSE IF Granted(r) THEN estimate[r] ELSE 0]

Asked ==
  \A r \in Runs :
    /\ pc[r] \notin {"idle"} \cup Stopped => estimate[r] \in Estimates
    /\ Unbooked(r) => cost[r] <= estimate[r]

Ledger == billed = sessionUsd + Total(owed)

PromiseBounded ==
  \A e \in Estimates :
    (\A f \in Estimates : f <= e) => sessionUsd + Total(promised) <= Cap + (N - 1) * e

(* The counting lemmas: a total is a number, ...                            *)
LEMMA TotalType ==
  ASSUME NEW w \in [Runs -> Nat]
  PROVE  IsFiniteSet(Coins(w)) /\ Total(w) \in Nat
<1> DEFINE pile == [r \in Runs |-> {r} \X (1 .. w[r])]
<1> DEFINE piles == {pile[r] : r \in Runs}
<1>1. pile \in Surjection(Runs, piles)
  BY DEF Surjection
<1>2. IsFiniteSet(piles)
  <2> HIDE DEF pile, piles
  <2> QED BY <1>1, RunsAssumption, FS_Surjection
<1>3. \A T \in piles : IsFiniteSet(T)
  <2> SUFFICES ASSUME NEW r \in Runs PROVE IsFiniteSet(pile[r])
    OBVIOUS
  <2>1. IsFiniteSet({r}) /\ IsFiniteSet(1 .. w[r])
    <3>1. w[r] \in Int
      OBVIOUS
    <3>2. IsFiniteSet(1 .. w[r])
      BY <3>1, FS_Interval
    <3> QED BY <3>2, FS_Singleton
  <2> QED BY <2>1, FS_Product
<1>4. UNION piles = Coins(w)
  BY DEF Coins
<1>5. IsFiniteSet(UNION piles)
  <2> HIDE DEF piles
  <2> QED BY <1>2, <1>3, FS_UNION
<1> QED BY <1>4, <1>5, FS_CardinalityType DEF Total

(* ... the coins of one run are as many as its weight, ...                  *)
LEMMA OnePile ==
  ASSUME NEW r, NEW n \in Nat
  PROVE  IsFiniteSet({r} \X (1 .. n)) /\ Cardinality({r} \X (1 .. n)) = n
<1> DEFINE one == {r}
           units == 1 .. n
<1>1. IsFiniteSet(one) /\ Cardinality(one) = 1
  BY FS_Singleton
<1>2. IsFiniteSet(units) /\ Cardinality(units) = n
  BY FS_Interval
<1>3. IsFiniteSet(one \X units) /\ Cardinality(one \X units) = Cardinality(one) * Cardinality(units)
  <2> HIDE DEF one, units
  <2> QED BY <1>1, <1>2, FS_Product
<1>4. Cardinality(one) * Cardinality(units) = n
  <2> HIDE DEF one, units
  <2> QED BY <1>1, <1>2
<1> QED BY <1>3, <1>4

(* ... a run apart from the others, ...                                     *)
LEMMA TotalSplit ==
  ASSUME NEW w \in [Runs -> Nat], NEW r \in Runs
  PROVE  LET rest == Coins([w EXCEPT ![r] = 0])
         IN  IsFiniteSet(rest) /\ Total(w) = w[r] + Cardinality(rest)
<1> DEFINE v == [w EXCEPT ![r] = 0]
           rest == Coins(v)
           mine == {r} \X (1 .. w[r])
<1>1. v \in [Runs -> Nat]
  OBVIOUS
<1>2. IsFiniteSet(rest) /\ Cardinality(rest) \in Nat
  <2> HIDE DEF v
  <2> QED BY <1>1, TotalType DEF Total
<1>3. IsFiniteSet(mine) /\ Cardinality(mine) = w[r]
  BY OnePile
<1>4. Coins(w) = mine \cup rest
  BY DEF Coins
<1>5. mine \cap rest = {}
  BY DEF Coins
<1>6. Cardinality(mine \cup rest)
        = Cardinality(mine) + Cardinality(rest) - Cardinality(mine \cap rest)
  <2> HIDE DEF mine, rest
  <2> QED BY <1>2, <1>3, FS_Union
<1>7. Cardinality({}) = 0
  BY FS_EmptySet
<1>8. Total(w) = w[r] + Cardinality(rest)
  <2>1. w[r] \in Nat
    OBVIOUS
  <2>2. Total(w) = Cardinality(mine \cup rest)
    BY <1>4, Zenon DEF Total
  <2>3. Cardinality(mine \cap rest) = 0
    BY <1>5, <1>7, Zenon
  <2> HIDE DEF mine, rest, v
  <2> QED BY <1>2, <1>3, <1>6, <2>1, <2>2, <2>3
<1> QED BY <1>2, <1>8 DEF rest

(* ... so that a total moves by what one run's weight moves, ...            *)
LEMMA TotalChange ==
  ASSUME NEW w \in [Runs -> Nat], NEW v \in [Runs -> Nat], NEW r \in Runs,
         \A s \in Runs \ {r} : v[s] = w[s]
  PROVE  Total(v) + w[r] = Total(w) + v[r]
<1>1. [v EXCEPT ![r] = 0] = [w EXCEPT ![r] = 0]
  OBVIOUS
<1>2. Total(v) = v[r] + Cardinality(Coins([v EXCEPT ![r] = 0]))
  BY TotalSplit
<1>3. Total(w) = w[r] + Cardinality(Coins([w EXCEPT ![r] = 0]))
  BY TotalSplit
<1>4. Cardinality(Coins([w EXCEPT ![r] = 0])) \in Nat
  BY TotalSplit, FS_CardinalityType
<1> QED BY <1>1, <1>2, <1>3, <1>4

(* ... a total grows with its weights, ...                                  *)
LEMMA TotalMonotone ==
  ASSUME NEW w \in [Runs -> Nat], NEW v \in [Runs -> Nat],
         \A s \in Runs : w[s] <= v[s]
  PROVE  Total(w) <= Total(v)
<1>1. Coins(w) \in SUBSET Coins(v)
  BY DEF Coins
<1>2. IsFiniteSet(Coins(v))
  BY TotalType
<1> QED BY <1>1, <1>2, FS_Subset DEF Total

(* ... and is bounded by the bound of the other runs' weights.              *)
LEMMA TotalBound ==
  ASSUME NEW w \in [Runs -> Nat], NEW r \in Runs, NEW e \in Nat,
         \A s \in Runs \ {r} : w[s] <= e
  PROVE  Total(w) <= w[r] + (N - 1) * e
<1> DEFINE rest == Coins([w EXCEPT ![r] = 0])
           room == (Runs \ {r}) \X (1 .. e)
<1>1. Total(w) = w[r] + Cardinality(rest)
  BY TotalSplit
<1>2. IsFiniteSet(Runs \ {r}) /\ Cardinality(Runs \ {r}) = N - 1
  BY RunsAssumption, FS_RemoveElement DEF N
<1>3. IsFiniteSet(1 .. e) /\ Cardinality(1 .. e) = e
  BY FS_Interval
<1>4. IsFiniteSet(room) /\ Cardinality(room) = (N - 1) * e
  BY <1>2, <1>3, FS_Product
<1>5. rest \in SUBSET room
  BY DEF Coins
<1>6. Cardinality(rest) <= Cardinality(room)
  <2> HIDE DEF rest, room
  <2> QED BY <1>4, <1>5, FS_Subset
<1>7. Cardinality(rest) \in Nat /\ Cardinality(room) \in Nat
  <2>1. IsFiniteSet(rest)
    BY TotalSplit
  <2> HIDE DEF rest, room
  <2> QED BY <2>1, <1>4, FS_CardinalityType
<1> HIDE DEF rest, room
<1> QED BY <1>1, <1>4, <1>6, <1>7

-----------------------------------------------------------------------------
(* Nothing is lost: what the provider has charged is what the session guard *)
(* knows, plus the replies that threads hold and have not booked.           *)
LEMMA OwedType == TypeOK => owed \in [Runs -> Nat]
BY DEF TypeOK, owed

LEMMA LedgerStep == TypeOK /\ TypeOK' /\ Ledger /\ [Next]_vars => Ledger'
<1> SUFFICES ASSUME TypeOK, TypeOK', Ledger, [Next]_vars PROVE Ledger'
  OBVIOUS
<1>1. owed \in [Runs -> Nat] /\ owed' \in [Runs -> Nat]
  BY DEF TypeOK, owed
<1>2. Total(owed) \in Nat /\ Total(owed') \in Nat
  BY <1>1, TotalType
<1>3. (Total(owed))' = Total(owed')
  BY DEF Total, Coins
<1>4. CASE owed' = owed /\ UNCHANGED <<billed, sessionUsd>>
  BY <1>3, <1>4 DEF Ledger
<1>5. CASE UNCHANGED vars
  BY <1>4, <1>5 DEF vars, locals, owed, Unbooked
<1>6. ASSUME NEW r \in Runs, Converse(r) PROVE Ledger'
  <2> USE DEF TypeOK, owed, Unbooked
  <2>1. CASE Ask(r) \/ ReadSpent(r) \/ CheckOwn(r) \/ Throttled(r)
    BY <2>1, <1>4 DEF Ask, ReadSpent, CheckOwn, Throttled, Goto
  <2>2. CASE Finish(r) \/ ReadLatch(r) \/ Decide(r) \/ GiveUp(r) \/ BookOwn(r)
    BY <2>2, <1>4 DEF Finish, ReadLatch, Decide, GiveUp, BookOwn, Goto, locals
  <2>3. CASE Reply(r) \/ BookSession(r)
    <3>1. \A s \in Runs \ {r} : owed'[s] = owed[s]
      BY <2>3 DEF Reply, BookSession, Goto
    <3>2. Total(owed') + owed[r] = Total(owed) + owed'[r]
      <4> HIDE DEF owed, TypeOK, Unbooked
      <4> QED BY <1>1, <3>1, TotalChange
    <3>3. billed' - owed'[r] - sessionUsd' = billed - owed[r] - sessionUsd
      BY <2>3 DEF Reply, BookSession, Goto
    <3>4. owed[r] \in Nat /\ owed'[r] \in Nat
      BY <1>1
    <3> HIDE DEF owed, Unbooked
    <3> QED BY <1>2, <1>3, <3>2, <3>3, <3>4 DEF Ledger
  <2>4. QED BY <1>6, <2>1, <2>2, <2>3 DEF Converse
<1>7. QED BY <1>5, <1>6 DEF Next

LEMMA NothingOwed ==
  ASSUME NEW w \in [Runs -> Nat], \A r \in Runs : w[r] = 0
  PROVE  Total(w) = 0
<1>1. Coins(w) = {}
  BY DEF Coins
<1> QED BY <1>1, FS_EmptySet DEF Total

LEMMA LedgerHolds == Spec => []Ledger
<1>1. Init => Ledger
  <2> SUFFICES ASSUME Init PROVE Ledger
    OBVIOUS
  <2>1. owed \in [Runs -> Nat] /\ \A r \in Runs : owed[r] = 0
    BY DEF Init, Zero, owed, Unbooked
  <2>2. Total(owed) = 0
    BY <2>1, NothingOwed
  <2> QED BY <2>2 DEF Init, Ledger
<1>2. QED BY <1>1, TypeCorrect, LedgerStep, PTL DEF Spec

(* No spending is lost to a race between the merges: when every reply is    *)
(* booked the session guard has the provider's figure, however many runs    *)
(* and round trips there were.                                              *)
THEOREM NothingIsLost == Spec => []NothingLost
<1>1. TypeOK /\ Ledger => NothingLost
  <2> SUFFICES ASSUME TypeOK, Ledger, \A r \in Runs : ~Unbooked(r)
               PROVE  sessionUsd = billed
    BY DEF NothingLost
  <2>1. owed \in [Runs -> Nat] /\ \A r \in Runs : owed[r] = 0
    BY DEF owed
  <2>2. Total(owed) = 0
    BY <2>1, NothingOwed
  <2> QED BY <2>2 DEF Ledger, TypeOK
<1>2. QED BY <1>1, TypeCorrect, LedgerHolds, PTL

-----------------------------------------------------------------------------
(* The overshoot.  The estimate of a call counts from the moment it is      *)
(* certain to pass the session check until it is booked, as its real cost   *)
(* once that is known; PromiseBounded says how far the promises can exceed  *)
(* the cap together with what is booked.                                    *)
LEMMA PromisedType == TypeOK => promised \in [Runs -> Nat]
BY DEF TypeOK, promised

LEMMA AskedStep == TypeOK /\ Asked /\ [Next]_vars => Asked'
<1> SUFFICES ASSUME TypeOK, Asked, [Next]_vars PROVE Asked'
  OBVIOUS
<1> USE MoneyAssumption DEF TypeOK, Asked, Stopped, Unbooked
<1>1. CASE UNCHANGED vars
  BY <1>1 DEF vars, locals
<1>2. ASSUME NEW r \in Runs, Converse(r) PROVE Asked'
  <2>1. CASE Ask(r) \/ ReadSpent(r) \/ CheckOwn(r) \/ Throttled(r) \/ BookSession(r)
    BY <2>1 DEF Ask, ReadSpent, CheckOwn, Throttled, BookSession, Goto
  <2>2. CASE Finish(r) \/ ReadLatch(r) \/ Decide(r) \/ GiveUp(r) \/ BookOwn(r)
    BY <2>2 DEF Finish, ReadLatch, Decide, GiveUp, BookOwn, Goto, locals
  <2>3. CASE Reply(r)
    BY <2>3 DEF Reply, Goto
  <2>4. QED BY <1>2, <2>1, <2>2, <2>3 DEF Converse
<1>3. QED BY <1>1, <1>2 DEF Next

LEMMA PromiseStep ==
  TypeOK /\ TypeOK' /\ Asked /\ PromiseBounded /\ [Next]_vars => PromiseBounded'
<1> SUFFICES ASSUME TypeOK, TypeOK', Asked, PromiseBounded, [Next]_vars,
                    NEW e \in Estimates, \A f \in Estimates : f <= e
             PROVE  sessionUsd' + Total(promised') <= Cap + (N - 1) * e
  BY DEF PromiseBounded, Total, Coins
<1> DEFINE bound == Cap + (N - 1) * e
<1>1. promised \in [Runs -> Nat] /\ promised' \in [Runs -> Nat]
  BY DEF TypeOK, promised
<1>2. Total(promised) \in Nat /\ Total(promised') \in Nat
  BY <1>1, TotalType
<1>3. sessionUsd + Total(promised) <= bound
  BY DEF PromiseBounded
<1>4. e \in Nat /\ Cap \in Nat /\ N \in Nat /\ bound \in Int
  <2>1. N \in Nat
    BY RunsAssumption, FS_CardinalityType DEF N
  <2>2. (N - 1) * e \in Int
    BY <2>1, MoneyAssumption
  <2> QED BY <2>1, <2>2, MoneyAssumption
<1> HIDE DEF bound
<1>5. CASE promised' = promised /\ sessionUsd' = sessionUsd
  BY <1>3, <1>5 DEF bound
<1>6. CASE UNCHANGED vars
  BY <1>5, <1>6 DEF vars, locals, promised, Unbooked, Granted
<1>7. ASSUME NEW r \in Runs, Converse(r)
      PROVE  sessionUsd' + Total(promised') <= bound
  <2> USE DEF TypeOK, promised, Unbooked, Granted
  <2>1. \A s \in Runs \ {r} : promised'[s] = promised[s]
    BY <1>7 DEF Converse, Ask, Finish, ReadLatch, ReadSpent, Decide, CheckOwn, Throttled,
                GiveUp, Reply, BookOwn, BookSession, Goto, locals
  <2>2. promised[r] \in Nat /\ promised'[r] \in Nat /\ sessionUsd \in Nat /\ sessionUsd' \in Nat
    BY <1>1
  <2>3. Total(promised') + promised[r] = Total(promised) + promised'[r]
    <3> HIDE DEF promised, TypeOK, Unbooked, Granted
    <3> QED BY <1>1, <2>1, TotalChange
  <2>4. CASE sessionUsd' + promised'[r] <= sessionUsd + promised[r]
    <3> HIDE DEF promised
    <3> QED BY <1>2, <1>3, <1>4, <2>2, <2>3, <2>4
  <2>5. CASE Ask(r) \/ Finish(r) \/ ReadLatch(r) \/ CheckOwn(r) \/ Throttled(r)
    <3>1. sessionUsd' = sessionUsd /\ promised'[r] <= promised[r]
      BY <2>5, <2>2 DEF Ask, Finish, ReadLatch, CheckOwn, Throttled, Goto, locals
    <3> QED BY <3>1, <2>2, <2>4
  <2>6. CASE Decide(r) \/ GiveUp(r) \/ BookOwn(r) \/ BookSession(r)
    <3>1. sessionUsd' + promised'[r] <= sessionUsd + promised[r]
      BY <2>6, <2>2 DEF Decide, GiveUp, BookOwn, BookSession, Goto, locals
    <3> QED BY <3>1, <2>4
  <2>7. CASE Reply(r)
    <3>1. sessionUsd' = sessionUsd /\ promised'[r] <= promised[r]
      BY <2>7, <2>2 DEF Reply, Goto
    <3> QED BY <3>1, <2>2, <2>4
  <2>8. CASE ReadSpent(r)
    <3>1. sessionUsd' = sessionUsd /\ promised[r] = 0
      BY <2>8 DEF ReadSpent
    <3>2. CASE promised'[r] = 0
      BY <3>1, <3>2, <2>2, <2>4
    <3>3. CASE promised'[r] # 0
      <4>1. sessionUsd' + promised'[r] <= Cap
        BY <3>3, <2>8, MoneyAssumption DEF ReadSpent, Goto, Fits
      <4>2. \A s \in Runs : promised[s] <= e
        BY <1>4, MoneyAssumption DEF Asked, Points, Stopped
      <4>3. \A s \in Runs \ {r} : promised'[s] <= e
        BY <2>1, <4>2
      <4>4. Total(promised') <= promised'[r] + (N - 1) * e
        <5> HIDE DEF promised
        <5> QED BY <1>1, <1>4, <4>3, TotalBound
      <4>5. (N - 1) * e \in Int
        BY <1>4
      <4> HIDE DEF promised
      <4> QED BY <1>2, <1>4, <2>2, <4>1, <4>4, <4>5 DEF bound
    <3>4. QED BY <3>2, <3>3
  <2>9. QED BY <1>7, <2>5, <2>6, <2>7, <2>8 DEF Converse
<1>8. QED BY <1>6, <1>7 DEF Next, bound

(* However many runs race past the check, the process is charged at most    *)
(* one estimate beyond the cap for every run but one.                       *)
THEOREM OvershootIsBounded == Spec => []OvershootBounded
<1>1. Init => Asked /\ PromiseBounded
  <2> SUFFICES ASSUME Init PROVE Asked /\ PromiseBounded
    OBVIOUS
  <2>1. promised \in [Runs -> Nat] /\ \A r \in Runs : promised[r] = 0
    BY DEF Init, promised, Unbooked, Granted
  <2>2. Total(promised) = 0
    BY <2>1, NothingOwed
  <2>3. N \in Nat /\ N - 1 \in Nat
    <3>1. N \in Nat /\ N # 0
      BY RunsAssumption, FS_CardinalityType, FS_EmptySet DEF N
    <3> QED BY <3>1
  <2>4. \A e \in Estimates : (N - 1) * e >= 0
    BY <2>3, MoneyAssumption
  <2>5. PromiseBounded
    BY <2>2, <2>4, <2>3, MoneyAssumption DEF Init, PromiseBounded
  <2>6. Asked
    BY DEF Init, Asked, Stopped, Unbooked
  <2> QED BY <2>5, <2>6
<1>2. TypeOK /\ Asked /\ Ledger /\ PromiseBounded => OvershootBounded
  <2> SUFFICES ASSUME TypeOK, Asked, Ledger, PromiseBounded,
                      NEW e \in Estimates, \A f \in Estimates : f <= e
               PROVE  billed <= Cap + (N - 1) * e
    BY DEF OvershootBounded
  <2>1. owed \in [Runs -> Nat] /\ promised \in [Runs -> Nat]
    BY OwedType, PromisedType
  <2>2. \A r \in Runs : owed[r] <= promised[r]
    BY DEF owed, promised, TypeOK
  <2>3. Total(owed) <= Total(promised) /\ Total(owed) \in Nat /\ Total(promised) \in Nat
    BY <2>1, <2>2, TotalMonotone, TotalType
  <2>4. sessionUsd + Total(promised) <= Cap + (N - 1) * e
    BY DEF PromiseBounded
  <2>5. Cap + (N - 1) * e \in Int
    <3>1. N \in Nat /\ e \in Nat /\ Cap \in Nat
      BY RunsAssumption, MoneyAssumption, FS_CardinalityType DEF N
    <3>2. (N - 1) * e \in Int
      BY <3>1
    <3> QED BY <3>1, <3>2
  <2> DEFINE bound == Cap + (N - 1) * e
  <2> HIDE DEF bound
  <2>6. sessionUsd + Total(promised) <= bound /\ bound \in Int
    BY <2>4, <2>5 DEF bound
  <2>7. billed <= bound
    BY <2>3, <2>6 DEF Ledger, TypeOK
  <2> QED BY <2>7 DEF bound
<1>3. QED
  BY <1>1, <1>2, TypeCorrect, AskedStep, PromiseStep, LedgerHolds, PTL DEF Spec

=============================================================================
