------------------------- MODULE ProvisioningProofs -------------------------
(***************************************************************************)
(* What holds of Provisioning for any number of callers, files, versions,  *)
(* deaths and timeouts.  Two things have to be said of every state: what a *)
(* caller that has the cache entry to itself knows of it at each of its    *)
(* steps, and whose a virtualenv is.                                       *)
(***************************************************************************)
EXTENDS Provisioning, TLAPS

Housed == {"copy", "prepare", "create", "project", "pytest", "testing"}

(* Who is alone is the only one that writes to the cache.                   *)
Solo == \A a, c \in Callers : alone[a] /\ c # a => pc[c] \notin Fetching

(* What a caller that is alone knows of the entry.                          *)
Recent(a) == since[a]..upstream
Filling(a) ==
  /\ cache.git = "ok" /\ want[a] \in Recent(a)
  /\ \A f \in Files \ todo[a] : cache.work[f] = want[a]
Emptying(a) ==
  /\ \A f \in Files \ todo[a] : cache.work[f] = 0
  /\ cache.git = "none" \/ "git" \in todo[a]
Filled(a) == \E v \in Recent(a) : cache.work = Whole(v)
Known(a) ==
  /\ since[a] \in 1..upstream
  /\ pc[a] = "reset" => cache.fetched \in Recent(a)
  /\ pc[a] \in {"writing", "populate"} => Filling(a)
  /\ pc[a] \in {"drop", "clear"} => Emptying(a)
  /\ pc[a] = "clone" => cache.git = "none"
  /\ pc[a] = "transfer" => cache.git # "none" /\ cache.work = Whole(0)
  /\ pc[a] \in {"size", "size_clone"} => Filled(a) /\ ~cache.locked
  /\ pc[a] = "got" => Filled(a)
  /\ a \in Runs /\ pc[a] = "copy" =>
       /\ todo[a] \subseteq Files /\ ws[a] \in Trees
       /\ \E v \in Recent(a) :
            cache.work = Whole(v) /\ \A f \in Files \ todo[a] : ws[a][f] = v
  /\ pc[a] = "failed" /\ ~faulted[a] =>
       cache = Absent \/ \E v \in TooBig : cache.work = Whole(v) /\ ~cache.locked
CacheKnown == \A a \in Callers : alone[a] => Known(a)

(* Where a run's tree is, and what it knows of its virtualenv while no other*)
(* run of its id has one to make or to use.                                 *)
Own(r) == venv[Id[r]].installed \in {<<>>, <<r, starts[r]>>}
Equipped(r) ==
  /\ pc[r] \in {"project", "pytest"} => held[r]
  /\ held[r] => pc[r] \in {"project", "pytest", "testing"}
  /\ pc[r] \notin Housed => ws[r] = NoTree
  /\ sole[r] => Equipping(r) /\ \A p \in SameId(r) : ~Equipping(p)
  /\ sole[r] /\ pc[r] = "create" => venv[Id[r]] = NoVenv
  /\ sole[r] /\ held[r] => venv[Id[r]].made /\ Own(r)
  /\ sole[r] /\ held[r] /\ pc[r] = "testing" => venv[Id[r]].pytest
AllEquipped == \A r \in Runs : Equipped(r)

(* Whoever shares an id, a virtualenv that stands has a run to answer for it*)
Accounted ==
  \A i \in Ids : venv[i] # NoVenv => \E r \in Runs : Id[r] = i /\ (held[r] \/ littered[r])

-----------------------------------------------------------------------------
LEMMA Shapes ==
  ASSUME TypeOK
  PROVE  /\ Absent \in Entry /\ NoVenv \in Venv
         /\ Pieces(cache) \subseteq Files \cup {"git"}
         /\ \A v \in Nat : Whole(v) \in Trees
         /\ \A r \in Runs : r \in Callers /\ Id[r] \in Ids
         /\ \A b \in Browsers : b \in Callers
  BY DEF TypeOK, Absent, Trees, Entry, Venv, Marks, Pieces, Present, Whole, NoVenv, Callers, Ids

LEMMA TypeStep == TypeOK /\ [Next]_vars => TypeOK'
<1> SUFFICES ASSUME TypeOK, [Next]_vars PROVE TypeOK'
  OBVIOUS
<1> USE Shapes DEF TypeOK
<1>1. CASE UNCHANGED vars
  BY <1>1 DEF vars, fetching, running, history
<1>2. CASE Push
  BY <1>2 DEF Push, fetching, running, history
<1>3. ASSUME NEW a \in Callers, FetchSteps(a) PROVE TypeOK'
  <2>1. CASE Begin(a)
    <3>1. alone' \in [Callers -> BOOLEAN]
      BY <2>1 DEF Begin
    <3>2. faulted' \in [Callers -> BOOLEAN]
      BY <2>1 DEF Begin
    <3>3. pc' \in [Callers -> Points] /\ starts' \in [Callers -> Nat] /\ since' \in [Callers -> Nat]
      <4>1. /\ pc' = [pc EXCEPT ![a] = IF cache.git = "none" THEN "clone" ELSE "fetch"]
            /\ starts' = [starts EXCEPT ![a] = @ + 1]
            /\ since' = [b \in Callers |-> IF alone'[b] THEN upstream ELSE 0]
        BY <2>1, Zenon DEF Begin, Goto
      <4>2. QED BY <4>1 DEF Points, Fetching
    <3>4. QED BY <2>1, <3>1, <3>2, <3>3 DEF Begin, fetching, running
  <2>2. CASE Fetch(a)
    BY <1>3, <2>2 DEF Fetch, At, Goto, fetching, running, history, Points, Fetching, Resting, Entry
  <2>3. CASE FetchFails(a)
    <3>1. faulted' \in [Callers -> BOOLEAN] /\ faults' \in Nat
      <4>1. CASE Fault(a)
        BY <4>1 DEF Fault
      <4>2. CASE UNCHANGED <<faults, faulted>>
        BY <4>2
      <4>3. QED BY <2>3, <4>1, <4>2 DEF FetchFails
    <3>2. QED BY <2>3, <3>1 DEF FetchFails, Remove, Goto, Handle, running, Points, Fetching
  <2>4. CASE Reset(a)
    <3>1. cache' \in Entry /\ cache'.git = "ok"
      BY <2>4 DEF Reset, CanReset, Entry
    <3>2. want' \in [Callers -> Nat]
      BY <2>4 DEF Reset, Entry
    <3>3. QED
      BY <2>4, <3>1, <3>2 DEF Reset, Goto, Handle, running, history, Points, Fetching
  <2>5. CASE ResetRefused(a)
    BY <1>3, <2>5 DEF ResetRefused, At, Remove, running, history, Goto, Handle, Points, Fetching, Resting
  <2>6. CASE Written(a)
    BY <1>3, <2>6 DEF Written, At, Leave, running, history, Goto, Handle, Points, Fetching, Resting, Entry
  <2>7. CASE GitDies(a)
    BY <1>3, <2>7 DEF GitDies, At, Remove, running, history, Goto, Handle, Points, Fetching, Resting
  <2>8. CASE SizeOfRefresh(a)
    BY <1>3, <2>8 DEF SizeOfRefresh, At, Goto, Remove, fetching, running, history, Handle, Points, Fetching, Resting
  <2>9. CASE SizeOfClone(a)
    BY <1>3, <2>9 DEF SizeOfClone, At, Goto, fetching, running, history, Points, Fetching, Resting
  <2>10. CASE Removed(a)
    BY <1>3, <2>10 DEF Removed, At, Goto, fetching, running, history, Points, Fetching, Resting
  <2>11. CASE Clone(a)
    BY <1>3, <2>11 DEF Clone, At, Goto, fetching, running, history, Points, Fetching, Resting, Entry
  <2>12. CASE CloneRefused(a)
    BY <1>3, <2>12 DEF CloneRefused, At, Remove, running, history, Goto, Handle, Points, Fetching, Resting
  <2>13. CASE Transfer(a)
    BY <1>3, <2>13 DEF Transfer, At, Goto, Handle, running, history, Points, Fetching, Resting, Entry
  <2>14. CASE TransferFails(a)
    BY <1>3, <2>14 DEF TransferFails, At, Remove, Fault, running, Goto, Handle, Points, Fetching, Resting
  <2>15. CASE GitTimesOut(a)
    BY <1>3, <2>15 DEF GitTimesOut, At, Leave, Remove, Fault, running, Goto, Handle, Points, Fetching, Resting
  <2>16. ASSUME NEW f \in Files, WriteOne(a, f) PROVE TypeOK'
    BY <1>3, <2>16 DEF WriteOne, At, Handle, running, history, Entry, Trees
  <2>17. ASSUME NEW piece \in Files \cup {"git"}, RemoveOne(a, piece) PROVE TypeOK'
    <3>1. cache' \in Entry /\ (cache'.git = "none" => ~cache'.locked /\ cache'.fetched = 0)
      <4>1. CASE piece # "git"
        <5>1. cache' = [cache EXCEPT !.work[piece] = 0] /\ piece \in Files
          BY <2>17, <4>1 DEF RemoveOne
        <5>2. QED BY <5>1 DEF Entry, Trees
      <4>2. CASE piece = "git" /\ cache.git = "ok"
        BY <2>17, <4>2 DEF RemoveOne, Entry
      <4>3. CASE piece = "git" /\ cache.git # "ok"
        BY <2>17, <4>3 DEF RemoveOne, Entry, Absent
      <4>4. QED BY <4>1, <4>2, <4>3
    <3>2. todo' \in [Callers -> SUBSET (Files \cup {"git"})]
      BY <2>17 DEF RemoveOne, Handle
    <3>3. QED BY <2>17, <3>1, <3>2 DEF RemoveOne, running, history
  <2>18. QED
    BY <1>3, <2>1, <2>2, <2>3, <2>4, <2>5, <2>6, <2>7, <2>8, <2>9, <2>10, <2>11, <2>12, <2>13, <2>14, <2>15, <2>16, <2>17 DEF FetchSteps
<1>4. ASSUME NEW a \in Callers, Die(a) PROVE TypeOK'
  <2>1. faulted' \in [Callers -> BOOLEAN] /\ faults' \in Nat
    BY <1>4 DEF Die, Fault
  <2>2. cache' \in Entry /\ (cache'.git = "none" => ~cache'.locked /\ cache'.fetched = 0)
    BY <1>4 DEF Die, Entry
  <2>3. pc' \in [Callers -> Points] /\ want' \in [Callers -> Nat]
        /\ todo' \in [Callers -> SUBSET (Files \cup {"git"})]
    BY <1>4 DEF Die, Leave, Goto, Handle, Points, Resting
  <2>4. CASE a \in Runs
    <3>1. /\ held' \in [Runs -> BOOLEAN] /\ littered' \in [Runs -> BOOLEAN]
          /\ sole' \in [Runs -> BOOLEAN]
      BY <1>4, <2>4 DEF Die, At
    <3>2. venv' \in [Ids -> Venv]
      <4>1. CASE HalfMade(a)
        BY <2>4, <4>1 DEF HalfMade, Venv
      <4>2. CASE UNCHANGED venv
        BY <4>2
      <4>3. QED BY <1>4, <2>4, <4>1, <4>2 DEF Die
    <3>3. ws' \in [Runs -> Trees \cup {NoTree}]
      BY <1>4, <2>4 DEF Die
    <3>4. QED BY <1>4, <2>1, <2>2, <2>3, <3>1, <3>2, <3>3 DEF Die
  <2>5. CASE a \notin Runs
    BY <1>4, <2>1, <2>2, <2>3, <2>5 DEF Die, running
  <2>6. QED BY <2>4, <2>5
<1>5. ASSUME NEW r \in Runs, RunSteps(r) PROVE TypeOK'
  <2>1. CASE OpenWorkspace(r)
    <3>1. ws' \in [Runs -> Trees \cup {NoTree}]
      <4>1. [f \in Files |-> 0] \in Trees
        BY DEF Trees
      <4>2. ws' = ws \/ ws' = [ws EXCEPT ![r] = [f \in Files |-> 0]]
        BY <2>1 DEF OpenWorkspace
      <4>3. QED BY <4>1, <4>2
    <3>2. todo' \in [Callers -> SUBSET (Files \cup {"git"})]
      BY <2>1 DEF OpenWorkspace, Handle, Present
    <3>3. QED BY <2>1, <3>1, <3>2 DEF OpenWorkspace, Goto, history, Points, Resting
  <2>2. CASE CopyFails(r)
    BY <1>5, <2>2 DEF CopyFails, At, Goto, Handle, history, Points, Resting
  <2>3. CASE Copied(r)
    BY <1>5, <2>3 DEF Copied, At, Goto, fetching, running, Forget, Points, Resting
  <2>4. CASE UseHarness(r)
    BY <1>5, <2>4 DEF UseHarness, At, Goto, fetching, history, Points, Resting
  <2>5. CASE ClearVenv(r)
    BY <1>5, <2>5 DEF ClearVenv, Equip, At, Goto, fetching, history, Points, Resting, Venv
  <2>6. CASE CreateVenv(r)
    <3>1. venv' \in [Ids -> Venv]
      BY <2>6 DEF CreateVenv, Venv
    <3>2. QED BY <2>6, <3>1 DEF CreateVenv, Goto, fetching, history, Points
  <2>7. CASE CreateFails(r)
    <3>1. venv' \in [Ids -> Venv]
      <4>1. PICK m \in BOOLEAN : venv' = [venv EXCEPT ![Id[r]].made = @ \/ m]
        BY <2>7 DEF CreateFails, HalfMade
      <4>2. (venv[Id[r]].made \/ m) \in BOOLEAN
        OBVIOUS
      <4> HIDE DEF TypeOK
      <4>3. venv \in [Ids -> Venv]
        BY DEF TypeOK
      <4>4. QED BY <4>1, <4>2, <4>3 DEF Venv
    <3>2. QED BY <2>7, <3>1 DEF CreateFails, Goto, fetching, history, Points
  <2>8. CASE InstallProject(r)
    <3>1. <<r, starts[r]>> \in Marks
      BY DEF Marks
    <3>2. venv' \in [Ids -> Venv]
      <4> DEFINE new(m) == [venv EXCEPT ![Id[r]].installed = m]
      <4>1. \A m \in Marks : new(m) \in [Ids -> Venv]
        BY DEF Venv
      <4>2. venv' = new(<<r, starts[r]>>) \/ venv' = venv
        BY <2>8, Zenon DEF InstallProject
      <4> HIDE DEF new
      <4>3. QED BY <3>1, <4>1, <4>2
    <3>3. QED BY <2>8, <3>2 DEF InstallProject, Goto, fetching, history, Points
  <2>9. CASE InstallPytest(r)
    <3>1. venv' \in [Ids -> Venv]
      BY <2>9 DEF InstallPytest, Venv
    <3>2. QED BY <2>9, <3>1 DEF InstallPytest, Goto, fetching, history, Points
  <2>10. CASE PytestMissing(r)
    BY <1>5, <2>10 DEF PytestMissing, At, Goto, fetching, history, Points, Resting, Venv
  <2>11. CASE Close(r)
    BY <1>5, <2>11 DEF Close, At, Goto, fetching, history, Points, Resting, Venv
  <2>12. ASSUME NEW f \in Files, CopyOne(r, f) PROVE TypeOK'
    BY <1>5, <2>12 DEF CopyOne, At, Handle, history, Entry, Trees, NoTree
  <2>13. QED
    BY <1>5, <2>1, <2>2, <2>3, <2>4, <2>5, <2>6, <2>7, <2>8, <2>9, <2>10, <2>11, <2>12 DEF RunSteps
<1>6. ASSUME NEW b \in Browsers, Browsed(b) PROVE TypeOK'
  BY <1>6 DEF Browsed, Forget, At, Goto, fetching, running, Points, Resting
<1>7. QED
  BY <1>1, <1>2, <1>3, <1>4, <1>5, <1>6 DEF Next

-----------------------------------------------------------------------------
(* Nobody comes to fetch but by Begin, which ends everybody else's solitude.*)
LEMMA SoloStep == TypeOK /\ Solo /\ [Next]_vars => Solo'
<1> SUFFICES ASSUME TypeOK, Solo, [Next]_vars PROVE Solo'
  OBVIOUS
<1> DEFINE Calm == /\ \A c \in Callers : pc'[c] \in Fetching => pc[c] \in Fetching
                   /\ \A c \in Callers : alone'[c] => alone[c]
<1>0. Calm => Solo'
  BY DEF Solo
<1>1. CASE UNCHANGED vars
  <2>1. Calm
    BY <1>1 DEF vars, history
  <2>2. QED BY <1>0, <2>1
<1>2. CASE Push
  <2>1. Calm
    BY <1>2 DEF Push, history
  <2>2. QED BY <1>0, <2>1
<1>3. ASSUME NEW a \in Callers, Begin(a) PROVE Solo'
  <2>1. \A b, c \in Callers : alone'[b] /\ c # b => b = a /\ c # a /\ pc[c] \notin Fetching
    BY <1>3 DEF Begin, At
  <2>2. \A c \in Callers : c # a => pc'[c] = pc[c]
    BY <1>3, Zenon DEF Begin, Goto, TypeOK
  <2>3. QED BY <2>1, <2>2 DEF Solo
<1>4. ASSUME NEW a \in Callers, FetchSteps(a), ~Begin(a) PROVE Solo'
  <2>1. alone' = alone
    BY <1>4 DEF FetchSteps, Fetch, FetchFails, Reset, ResetRefused, Written, GitDies, SizeOfRefresh,
       SizeOfClone, Removed, Clone, CloneRefused, Transfer, TransferFails, GitTimesOut, WriteOne,
       RemoveOne, history
  <2>2. pc[a] \in Fetching /\ \E p \in Points : pc' = [pc EXCEPT ![a] = p]
    <3>1. CASE Fetch(a) \/ FetchFails(a) \/ Reset(a) \/ ResetRefused(a)
      BY <3>1 DEF Fetch, FetchFails, Reset, ResetRefused, At, Goto, Remove, Fetching, Points
    <3>2. CASE Written(a) \/ GitDies(a) \/ SizeOfRefresh(a) \/ SizeOfClone(a) \/ Removed(a)
      BY <3>2 DEF Written, GitDies, SizeOfRefresh, SizeOfClone, Removed, At, Goto, Leave, Remove,
         Fetching, Resting, Points
    <3>3. CASE Clone(a) \/ CloneRefused(a) \/ Transfer(a) \/ TransferFails(a) \/ GitTimesOut(a)
      BY <3>3 DEF Clone, CloneRefused, Transfer, TransferFails, GitTimesOut, At, Goto, Leave, Remove,
         Fetching, Resting, Points
    <3>4. ASSUME NEW f \in Files, WriteOne(a, f) PROVE pc[a] \in Fetching /\ pc' = pc
      BY <3>4 DEF WriteOne, At, Fetching
    <3>5. ASSUME NEW piece \in Files \cup {"git"}, RemoveOne(a, piece) PROVE pc[a] \in Fetching /\ pc' = pc
      BY <3>5 DEF RemoveOne, At, Fetching
    <3>6. pc = [pc EXCEPT ![a] = pc[a]] /\ pc[a] \in Points
      BY DEF TypeOK
    <3>7. QED BY <1>4, <3>1, <3>2, <3>3, <3>4, <3>5, <3>6 DEF FetchSteps
  <2>3. Calm
    BY <2>1, <2>2 DEF TypeOK
  <2>4. QED BY <1>0, <2>3
<1>5. ASSUME NEW a \in Callers, Die(a) PROVE Solo'
  <2>1. alone' = alone /\ pc' = [pc EXCEPT ![a] = "idle"]
    BY <1>5 DEF Die, Leave, Goto
  <2>2. Calm
    BY <2>1 DEF TypeOK, Fetching
  <2>3. QED BY <1>0, <2>2
<1>6. ASSUME NEW r \in Runs, RunSteps(r) PROVE Solo'
  <2>1. \A c \in Callers : alone'[c] => alone[c]
    <3>1. alone' = alone \/ alone' = [alone EXCEPT ![r] = FALSE]
      BY <1>6 DEF RunSteps, OpenWorkspace, CopyOne, CopyFails, Copied, Forget, UseHarness, ClearVenv,
         CreateVenv, CreateFails, InstallProject, InstallPytest, PytestMissing, Close, history
    <3>2. QED BY <3>1 DEF TypeOK
  <2>2. pc' = pc \/ \E p \in Points \ Fetching : pc' = [pc EXCEPT ![r] = p]
    BY <1>6 DEF RunSteps, OpenWorkspace, CopyOne, CopyFails, Copied, UseHarness, ClearVenv, Equip,
       CreateVenv, CreateFails, InstallProject, InstallPytest, PytestMissing, Close, Goto, Points, Fetching, Resting
  <2>3. Calm
    BY <2>1, <2>2, Shapes DEF TypeOK
  <2>4. QED BY <1>0, <2>3
<1>7. ASSUME NEW b \in Browsers, Browsed(b) PROVE Solo'
  <2>1. alone' = [alone EXCEPT ![b] = FALSE] /\ pc' = [pc EXCEPT ![b] = "done"]
    BY <1>7 DEF Browsed, Forget, Goto
  <2>2. Calm
    BY <2>1, Shapes DEF TypeOK, Fetching
  <2>3. QED BY <1>0, <2>2
<1>8. QED
  BY <1>1, <1>2, <1>3, <1>4, <1>5, <1>6, <1>7 DEF Next

-----------------------------------------------------------------------------
(* A step that leaves the entry and the caller alone takes nothing from what*)
(* the caller knows.                                                        *)
Untouched(a) ==
  /\ cache' = cache /\ upstream' \in Nat /\ upstream <= upstream'
  /\ pc'[a] = pc[a] /\ todo'[a] = todo[a] /\ want'[a] = want[a]
  /\ since'[a] = since[a] /\ faulted'[a] = faulted[a]
  /\ a \in Runs => ws'[a] = ws[a]

LEMMA UntouchedKnows ==
  ASSUME TypeOK, NEW a \in Callers, Known(a), Untouched(a)
  PROVE  Known(a)'
<1>1. since[a] \in Nat /\ upstream \in Nat
  BY DEF TypeOK
<1>2. Recent(a) \subseteq Recent(a)'
  BY <1>1 DEF Recent, Untouched
<1>3. Filling(a) => Filling(a)'
  BY <1>2 DEF Filling, Untouched
<1>4. Emptying(a) => Emptying(a)'
  BY DEF Emptying, Untouched
<1>5. Filled(a) => Filled(a)'
  BY <1>2 DEF Filled, Untouched
<1>6. since'[a] \in 1 .. upstream'
  BY <1>1 DEF Known, Untouched
<1>7. pc[a] = "reset" => cache'.fetched \in Recent(a)'
  BY <1>2 DEF Known, Untouched
<1>8. a \in Runs /\ pc[a] = "copy" =>
        /\ todo[a] \subseteq Files /\ ws'[a] \in Trees
        /\ \E v \in Recent(a)' :
             cache'.work = Whole(v) /\ \A f \in Files \ todo[a] : ws'[a][f] = v
  BY <1>2 DEF Known, Untouched
<1>9. QED
  BY <1>3, <1>4, <1>5, <1>6, <1>7, <1>8 DEF Known, Untouched

(* What the others can do meanwhile.                                        *)
LEMMA OthersStayAway ==
  ASSUME TypeOK, Solo, NEW a \in Callers, alone[a], alone'[a],
         \/ \E b \in Callers \ {a} : FetchSteps(b) \/ Die(b)
         \/ \E r \in Runs \ {a} : RunSteps(r)
         \/ \E b \in Browsers \ {a} : Browsed(b)
  PROVE  Untouched(a)
<1> USE Shapes DEF TypeOK
<1>1. ASSUME NEW b \in Callers \ {a}, FetchSteps(b) PROVE FALSE
  <2>1. pc[b] \notin Fetching
    BY DEF Solo
  <2>2. ~Begin(b)
    BY DEF Begin
  <2>3. ~(Fetch(b) \/ FetchFails(b) \/ Reset(b) \/ ResetRefused(b) \/ Written(b) \/ GitDies(b))
    BY <2>1 DEF Fetch, FetchFails, Reset, ResetRefused, Written, GitDies, At, Fetching
  <2>4. ~(SizeOfRefresh(b) \/ SizeOfClone(b) \/ Removed(b) \/ Clone(b) \/ CloneRefused(b))
    BY <2>1 DEF SizeOfRefresh, SizeOfClone, Removed, Clone, CloneRefused, At, Fetching
  <2>5. ~(Transfer(b) \/ TransferFails(b) \/ GitTimesOut(b))
    BY <2>1 DEF Transfer, TransferFails, GitTimesOut, At, Fetching
  <2>6. \A f \in Files : ~WriteOne(b, f)
    BY <2>1 DEF WriteOne, At, Fetching
  <2>7. \A piece \in Files \cup {"git"} : ~RemoveOne(b, piece)
    BY <2>1 DEF RemoveOne, At, Fetching
  <2>8. QED BY <1>1, <2>2, <2>3, <2>4, <2>5, <2>6, <2>7, Zenon DEF FetchSteps
<1>2. ASSUME NEW b \in Callers \ {a}, Die(b) PROVE Untouched(a)
  <2>1. cache' = cache
    BY <1>2 DEF Die, Solo, At, Fetching
  <2>2. /\ pc' = [pc EXCEPT ![b] = "idle"] /\ todo' = [todo EXCEPT ![b] = {}]
        /\ want' = [want EXCEPT ![b] = 0] /\ faulted' = [faulted EXCEPT ![b] = alone[b]]
        /\ upstream' = upstream /\ since' = since
    BY <1>2, Zenon DEF Die, Leave, Goto, Handle, Fault
  <2>3. ws' = ws \/ ws' = [ws EXCEPT ![b] = NoTree]
    BY <1>2 DEF Die, running
  <2>4. /\ pc'[a] = pc[a] /\ todo'[a] = todo[a] /\ want'[a] = want[a]
        /\ faulted'[a] = faulted[a]
    BY <2>2, Zenon
  <2>5. a \in Runs => ws'[a] = ws[a]
    BY <2>3
  <2>6. upstream' \in Nat /\ upstream <= upstream'
    BY <2>2
  <2>7. QED BY <2>1, <2>2, <2>4, <2>5, <2>6, Zenon DEF Untouched
<1>3. ASSUME NEW r \in Runs \ {a}, RunSteps(r) PROVE Untouched(a)
  <2>1. /\ cache' = cache /\ upstream' = upstream /\ want' = want
    BY <1>3 DEF RunSteps, OpenWorkspace, CopyOne, CopyFails, Copied, UseHarness, ClearVenv,
       CreateVenv, CreateFails, InstallProject, InstallPytest, PytestMissing, Close, fetching
  <2>2. pc'[a] = pc[a]
    BY <1>3 DEF RunSteps, OpenWorkspace, CopyOne, CopyFails, Copied, UseHarness, ClearVenv, Equip,
       CreateVenv, CreateFails, InstallProject, InstallPytest, PytestMissing, Close, Goto
  <2>3. todo'[a] = todo[a]
    BY <1>3 DEF RunSteps, OpenWorkspace, CopyOne, CopyFails, Copied, UseHarness, ClearVenv,
       CreateVenv, CreateFails, InstallProject, InstallPytest, PytestMissing, Close, Handle, fetching
  <2>4. since'[a] = since[a] /\ faulted'[a] = faulted[a]
    BY <1>3 DEF RunSteps, OpenWorkspace, CopyOne, CopyFails, Copied, UseHarness, ClearVenv,
       CreateVenv, CreateFails, InstallProject, InstallPytest, PytestMissing, Close, Forget, history
  <2>5. a \in Runs => ws'[a] = ws[a]
    BY <1>3 DEF RunSteps, OpenWorkspace, CopyOne, CopyFails, Copied, UseHarness, ClearVenv,
       CreateVenv, CreateFails, InstallProject, InstallPytest, PytestMissing, Close, running
  <2>6. QED BY <2>1, <2>2, <2>3, <2>4, <2>5 DEF Untouched
<1>4. ASSUME NEW b \in Browsers \ {a}, Browsed(b) PROVE Untouched(a)
  <2>1. /\ pc' = [pc EXCEPT ![b] = "done"] /\ since' = [since EXCEPT ![b] = 0]
        /\ faulted' = [faulted EXCEPT ![b] = FALSE]
        /\ upstream' = upstream /\ cache' = cache
        /\ todo' = todo /\ want' = want /\ ws' = ws
    BY <1>4 DEF Browsed, Goto, Forget, fetching, running
  <2>2. pc'[a] = pc[a] /\ since'[a] = since[a] /\ faulted'[a] = faulted[a]
    BY <2>1, Zenon
  <2>3. upstream' \in Nat /\ upstream <= upstream'
    BY <2>1
  <2>4. QED BY <2>1, <2>2, <2>3, Zenon DEF Untouched
<1>5. QED BY <1>1, <1>2, <1>3, <1>4

(* What its own steps teach it.                                             *)
LEMMA FetcherKnows ==
  ASSUME TypeOK, NEW a \in Callers, alone[a], Known(a), FetchSteps(a), ~Begin(a)
  PROVE  Known(a)'
<1> USE Shapes DEF TypeOK
<1>1. upstream' = upstream /\ since' = since /\ since[a] \in 1 .. upstream
  BY DEF FetchSteps, Fetch, FetchFails, Reset, ResetRefused, Written, GitDies, SizeOfRefresh,
     SizeOfClone, Removed, Clone, CloneRefused, Transfer, TransferFails, GitTimesOut, WriteOne,
     RemoveOne, history, Known
<1>2. Recent(a)' = Recent(a) /\ Recent(a) \subseteq Nat
  BY <1>1 DEF Recent
<1>3. ASSUME NEW p \in {"drop", "clear"}, Remove(a, p), cache' = cache
      PROVE  Known(a)'
  <2>1. pc'[a] = p /\ todo'[a] = Pieces(cache)
    BY <1>3 DEF Remove, Goto, Handle
  <2>2. Emptying(a)'
    BY <1>3, <2>1 DEF Emptying, Pieces, Present, Entry, Trees
  <2>3. QED BY <1>1, <2>1, <2>2 DEF Known
<1>4. CASE Fetch(a)
  <2>1. pc'[a] = "reset" /\ cache'.fetched = upstream
    BY <1>4 DEF Fetch, Goto, Entry
  <2>2. upstream \in Recent(a)'
    BY <1>1 DEF Recent
  <2>3. QED BY <1>1, <2>1, <2>2 DEF Known
<1>5. CASE FetchFails(a) \/ ResetRefused(a) \/ GitDies(a) \/ CloneRefused(a) \/ TransferFails(a)
  BY <1>3, <1>5 DEF FetchFails, ResetRefused, GitDies, CloneRefused, TransferFails
<1>6. CASE Reset(a)
  <2>1. /\ pc[a] = "reset" /\ pc'[a] = "writing" /\ todo'[a] = Files /\ want'[a] = cache.fetched
        /\ cache.git = "ok" /\ cache' = [cache EXCEPT !.locked = TRUE]
    BY <1>6 DEF Reset, CanReset, At, Goto, Handle
  <2>2. Filling(a)'
    BY <1>1, <1>2, <2>1 DEF Filling, Known, Entry
  <2>3. QED BY <1>1, <2>1, <2>2 DEF Known
<1>7. ASSUME NEW f \in Files, WriteOne(a, f) PROVE Known(a)'
  <2>1. /\ pc[a] \in {"writing", "populate"} /\ pc' = pc /\ want' = want
        /\ todo'[a] = todo[a] \ {f}
    BY <1>7 DEF WriteOne, At, Handle
  <2>2. cache' = [cache EXCEPT !.work[f] = want[a]]
    BY <1>7 DEF WriteOne
  <2>3. cache'.git = cache.git /\ cache'.work = [cache.work EXCEPT ![f] = want[a]]
    BY <2>2 DEF Entry
  <2>4. Filling(a)'
    BY <1>1, <1>2, <2>1, <2>3 DEF Filling, Known, Entry, Trees
  <2>5. QED BY <1>1, <2>1, <2>4 DEF Known
<1>8. CASE Written(a)
  <2>1. /\ pc[a] \in {"writing", "populate"} /\ pc'[a] \in {"size", "size_clone"} /\ todo[a] = {}
        /\ cache' = [cache EXCEPT !.locked = FALSE]
    BY <1>8 DEF Written, At, Leave, Goto
  <2>2. cache'.work = cache.work /\ ~cache'.locked /\ cache.work \in Trees
    BY <2>1 DEF Entry
  <2>3. cache.work = Whole(want[a]) /\ want[a] \in Recent(a)
    BY <2>1, <2>2 DEF Known, Filling, Whole, Trees
  <2>4. Filled(a)'
    BY <1>2, <2>2, <2>3 DEF Filled
  <2>5. QED BY <1>1, <2>1, <2>2, <2>4 DEF Known
<1>9. CASE SizeOfRefresh(a)
  <2>1. CASE Remove(a, "drop")
    BY <1>3, <1>9, <2>1 DEF SizeOfRefresh
  <2>2. CASE Goto(a, "got")
    <3>1. pc[a] = "size" /\ pc'[a] = "got" /\ cache' = cache
      BY <1>9, <2>2 DEF SizeOfRefresh, At, Goto
    <3>2. Filled(a)'
      BY <1>2, <3>1 DEF Known, Filled
    <3>3. QED BY <1>1, <3>1, <3>2 DEF Known
  <2>3. QED BY <1>9, <2>1, <2>2 DEF SizeOfRefresh
<1>10. CASE SizeOfClone(a)
  <2>1. /\ pc[a] = "size_clone" /\ cache' = cache
        /\ pc'[a] = IF Oversized THEN "failed" ELSE "got"
    BY <1>10 DEF SizeOfClone, At, Goto
  <2>2. PICK v \in Recent(a) : cache.work = Whole(v) /\ ~cache.locked
    BY <2>1 DEF Known, Filled
  <2>3. CASE Oversized
    <3>1. v \in TooBig
      BY <2>2, <2>3 DEF Oversized, Whole
    <3>2. QED BY <1>1, <2>1, <2>2, <2>3, <3>1 DEF Known
  <2>4. CASE ~Oversized
    <3>1. Filled(a)'
      BY <1>2, <2>1, <2>2 DEF Filled
    <3>2. QED BY <1>1, <2>1, <2>4, <3>1 DEF Known
  <2>5. QED BY <2>3, <2>4
<1>11. ASSUME NEW piece \in Files \cup {"git"}, RemoveOne(a, piece) PROVE Known(a)'
  <2>1. pc[a] \in {"drop", "clear"} /\ pc' = pc /\ piece \in todo[a]
    BY <1>11 DEF RemoveOne, At
  <2>2. CASE piece # "git"
    <3>1. cache' = [cache EXCEPT !.work[piece] = 0] /\ todo'[a] = todo[a] \ {piece} /\ piece \in Files
      BY <1>11, <2>2 DEF RemoveOne, Handle
    <3>2. cache'.git = cache.git /\ cache'.work = [cache.work EXCEPT ![piece] = 0]
      BY <3>1 DEF Entry
    <3>3. Emptying(a)'
      BY <2>1, <2>2, <3>1, <3>2 DEF Known, Emptying, Entry, Trees
    <3>4. QED BY <1>1, <2>1, <3>3 DEF Known
  <2>3. CASE piece = "git" /\ cache.git = "ok"
    <3>1. cache'.work = cache.work /\ todo' = todo
      BY <1>11, <2>3 DEF RemoveOne, Entry
    <3>2. Emptying(a)'
      BY <2>1, <2>3, <3>1 DEF Known, Emptying
    <3>3. QED BY <1>1, <2>1, <3>2 DEF Known
  <2>4. CASE piece = "git" /\ cache.git # "ok"
    <3>1. cache' = [Absent EXCEPT !.work = cache.work] /\ todo'[a] = todo[a] \ {piece}
      BY <1>11, <2>4 DEF RemoveOne, Handle
    <3>2. cache'.work = cache.work /\ cache'.git = "none"
      BY <3>1 DEF Absent
    <3>3. Emptying(a)'
      BY <2>1, <2>4, <3>1, <3>2, FilesAssumption DEF Known, Emptying
    <3>4. QED BY <1>1, <2>1, <3>3 DEF Known
  <2>5. QED BY <2>2, <2>3, <2>4
<1>12. CASE Removed(a)
  <2>1. /\ pc[a] \in {"drop", "clear"} /\ todo[a] = {} /\ cache' = cache
        /\ pc'[a] \in {"clone", "failed"}
    BY <1>12 DEF Removed, At, Goto
  <2>2. cache.git = "none" /\ \A f \in Files : cache.work[f] = 0
    BY <2>1 DEF Known, Emptying
  <2>3. cache = Absent
    BY <2>2 DEF Absent, Entry, Trees
  <2>4. QED BY <1>1, <2>1, <2>2, <2>3 DEF Known
<1>13. CASE Clone(a)
  <2>1. pc'[a] = "transfer" /\ cache' = [cache EXCEPT !.git = "broken"] /\ Pieces(cache) = {}
    BY <1>13 DEF Clone, Goto
  <2>2. cache'.git # "none" /\ cache'.work = Whole(0)
    BY <2>1 DEF Entry, Trees, Whole, Pieces, Present
  <2>3. QED BY <1>1, <2>1, <2>2 DEF Known
<1>14. CASE Transfer(a)
  <2>1. /\ pc'[a] = "populate" /\ todo'[a] = Files /\ want'[a] = upstream
        /\ cache' = [cache EXCEPT !.git = "ok", !.locked = TRUE]
    BY <1>14 DEF Transfer, Goto, Handle
  <2>2. Filling(a)'
    BY <1>1, <1>2, <2>1 DEF Filling, Recent, Entry
  <2>3. QED BY <1>1, <2>1, <2>2 DEF Known
<1>15. CASE GitTimesOut(a)
  <2>1. CASE Remove(a, "drop")
    BY <1>3, <1>15, <2>1 DEF GitTimesOut
  <2>2. CASE Leave(a, "failed")
    <3>1. pc'[a] = "failed" /\ faulted'[a]
      BY <1>15, <2>2 DEF GitTimesOut, Leave, Goto, Fault
    <3>2. QED BY <1>1, <3>1 DEF Known
  <2>3. QED BY <1>15, <2>1, <2>2 DEF GitTimesOut
<1>16. QED
  BY <1>4, <1>5, <1>6, <1>7, <1>8, <1>9, <1>10, <1>11, <1>12, <1>13, <1>14, <1>15 DEF FetchSteps

LEMMA CopierKnows ==
  ASSUME TypeOK, NEW r \in Runs, Known(r), RunSteps(r), alone'[r]
  PROVE  Known(r)'
<1> USE Shapes DEF TypeOK
<1>1. upstream' = upstream /\ since[r] \in 1 .. upstream /\ cache' = cache
  BY DEF RunSteps, OpenWorkspace, CopyOne, CopyFails, Copied, UseHarness, ClearVenv,
     CreateVenv, CreateFails, InstallProject, InstallPytest, PytestMissing, Close, Known
<1>2. ~Copied(r)
  BY DEF Copied, Forget
<1>3. since' = since
  BY <1>2 DEF RunSteps, OpenWorkspace, CopyOne, CopyFails, UseHarness, ClearVenv,
     CreateVenv, CreateFails, InstallProject, InstallPytest, PytestMissing, Close, history
<1>4. Recent(r)' = Recent(r) /\ Recent(r) \subseteq Nat \ {0}
  BY <1>1, <1>3 DEF Recent
<1>5. CASE OpenWorkspace(r)
  <2>1. PICK v \in Recent(r) : cache.work = Whole(v)
    BY <1>5 DEF OpenWorkspace, At, Known, Filled
  <2>2. CASE Pieces(cache) = {}
    <3>1. cache = Absent
      BY <2>2 DEF Pieces, Present, Absent, Entry, Trees
    <3>2. pc'[r] = "failed"
      BY <1>5, <2>2 DEF OpenWorkspace, Goto
    <3>3. QED BY <1>1, <1>3, <3>1, <3>2 DEF Known
  <2>3. CASE Pieces(cache) # {}
    <3>1. /\ pc'[r] = "copy" /\ todo'[r] = Present(cache)
          /\ ws'[r] = [f \in Files |-> 0] /\ [f \in Files |-> 0] \in Trees
      BY <1>5, <2>3 DEF OpenWorkspace, Goto, Handle, Trees
    <3>2. Present(cache) = Files
      BY <1>4, <2>1 DEF Present, Whole
    <3>3. \E w \in Recent(r)' : cache'.work = Whole(w) /\ \A f \in Files \ todo'[r] : ws'[r][f] = w
      BY <1>1, <1>4, <2>1, <3>1, <3>2
    <3>4. QED BY <1>1, <1>3, <3>1, <3>2, <3>3 DEF Known
  <2>4. QED BY <2>2, <2>3
<1>6. ASSUME NEW f \in Files, CopyOne(r, f) PROVE Known(r)'
  <2>1. /\ pc[r] = "copy" /\ pc' = pc /\ todo'[r] = todo[r] \ {f}
        /\ ws' = [ws EXCEPT ![r][f] = cache.work[f]] /\ f \in todo[r]
    BY <1>6 DEF CopyOne, At, Handle
  <2>2. PICK v \in Recent(r) :
          cache.work = Whole(v) /\ \A g \in Files \ todo[r] : ws[r][g] = v
    BY <2>1 DEF Known
  <2>3. ws[r] \in Trees /\ todo[r] \subseteq Files
    BY <2>1 DEF Known
  <2>4. ws'[r] = [ws[r] EXCEPT ![f] = v]
    BY <2>1, <2>2 DEF Whole
  <2>5. ws'[r] \in Trees /\ \A g \in Files \ todo'[r] : ws'[r][g] = v
    BY <1>4, <2>1, <2>2, <2>3, <2>4 DEF Trees
  <2>6. QED BY <1>1, <1>3, <1>4, <2>1, <2>2, <2>3, <2>5 DEF Known
<1>7. CASE CopyFails(r)
  <2>1. pc[r] = "copy" /\ \E f \in todo[r] : cache.work[f] = 0
    BY <1>7 DEF CopyFails, At
  <2>2. \E v \in Recent(r) : cache.work = Whole(v) /\ todo[r] \subseteq Files
    BY <2>1 DEF Known
  <2>3. QED BY <1>4, <2>1, <2>2 DEF Whole
<1>8. CASE UseHarness(r) \/ ClearVenv(r) \/ CreateVenv(r) \/ CreateFails(r) \/ InstallProject(r)
           \/ InstallPytest(r) \/ PytestMissing(r) \/ Close(r)
  <2>1. pc'[r] \in {"create", "project", "pytest", "testing", "done"}
    BY <1>8 DEF UseHarness, ClearVenv, Equip, CreateVenv, CreateFails, InstallProject,
       InstallPytest, PytestMissing, Close, Goto
  <2>2. QED BY <1>1, <1>3, <2>1 DEF Known
<1>9. QED
  BY <1>2, <1>5, <1>6, <1>7, <1>8 DEF RunSteps

LEMMA KnowledgeStep == TypeOK /\ TypeOK' /\ Solo /\ CacheKnown /\ [Next]_vars => CacheKnown'
<1> SUFFICES ASSUME TypeOK, TypeOK', Solo, CacheKnown, [Next]_vars,
                    NEW a \in Callers, alone'[a]
             PROVE  Known(a)'
  BY DEF CacheKnown
<1> USE Shapes
<1>1. ASSUME Begin(a) PROVE Known(a)'
  <2>1. /\ cache' = cache /\ pc'[a] = IF cache.git = "none" THEN "clone" ELSE "fetch"
        /\ upstream' = upstream
    BY <1>1, Zenon DEF Begin, Goto, TypeOK
  <2>4. since'[a] = upstream
    BY <1>1 DEF Begin
  <2>2. since'[a] \in 1 .. upstream'
    BY <2>1, <2>4 DEF TypeOK
  <2>3. QED BY <2>1, <2>2 DEF Known
<1>2. CASE ~Begin(a)
  <2>1. alone[a]
    <3>1. ASSUME NEW b \in Callers, Begin(b) PROVE FALSE
      BY <1>2, <3>1 DEF Begin
    <3>2. ASSUME UNCHANGED alone PROVE alone[a]
      BY <3>2
    <3>3. ASSUME NEW b \in Callers, alone' = [alone EXCEPT ![b] = FALSE] PROVE alone[a]
      BY <3>3 DEF TypeOK
    <3>4. CASE UNCHANGED vars \/ Push
      BY <3>2, <3>4 DEF vars, history, Push
    <3>5. ASSUME NEW b \in Callers, FetchSteps(b) PROVE alone[a]
      BY <3>1, <3>2, <3>5 DEF FetchSteps, Fetch, FetchFails, Reset, ResetRefused, Written, GitDies,
         SizeOfRefresh, SizeOfClone, Removed, Clone, CloneRefused, Transfer, TransferFails,
         GitTimesOut, WriteOne, RemoveOne, history
    <3>6. ASSUME NEW b \in Callers, Die(b) PROVE alone[a]
      BY <3>2, <3>6 DEF Die
    <3>7. ASSUME NEW r \in Runs, RunSteps(r) PROVE alone[a]
      BY <3>2, <3>3, <3>7 DEF RunSteps, OpenWorkspace, CopyOne, CopyFails, Copied, Forget, UseHarness,
         ClearVenv, CreateVenv, CreateFails, InstallProject, InstallPytest, PytestMissing, Close, history
    <3>8. ASSUME NEW b \in Browsers, Browsed(b) PROVE alone[a]
      BY <3>3, <3>8 DEF Browsed, Forget
    <3>9. QED BY <3>4, <3>5, <3>6, <3>7, <3>8 DEF Next
  <2>2. Known(a)
    BY <2>1 DEF CacheKnown
  <2>3. CASE Push
    <3>1. Untouched(a)
      BY <2>3 DEF Push, Untouched, fetching, running, history, TypeOK
    <3>2. QED BY <2>2, <3>1, UntouchedKnows
  <2>4. CASE UNCHANGED vars
    <3>1. Untouched(a)
      BY <2>4 DEF vars, Untouched, fetching, running, history, TypeOK
    <3>2. QED BY <2>2, <3>1, UntouchedKnows
  <2>5. CASE FetchSteps(a)
    BY <1>2, <2>1, <2>2, <2>5, FetcherKnows
  <2>6. CASE Die(a)
    <3>1. /\ pc'[a] = "idle" /\ upstream' = upstream /\ since' = since
      BY <2>6 DEF Die, Leave, Goto, TypeOK
    <3>2. QED BY <2>2, <3>1 DEF Known
  <2>7. CASE a \in Runs /\ RunSteps(a)
    BY <2>2, <2>7, CopierKnows
  <2>8. CASE a \in Browsers /\ Browsed(a)
    BY <2>8 DEF Browsed, Forget, TypeOK
  <2>9. CASE \/ \E b \in Callers \ {a} : FetchSteps(b) \/ Die(b)
             \/ \E r \in Runs \ {a} : RunSteps(r)
             \/ \E b \in Browsers \ {a} : Browsed(b)
    BY <2>1, <2>2, <2>9, OthersStayAway, UntouchedKnows
  <2>10. QED
    BY <2>3, <2>4, <2>5, <2>6, <2>7, <2>8, <2>9, Zenon DEF Next
<1>3. QED BY <1>1, <1>2

LEMMA InitTyped == Init => TypeOK
<1> SUFFICES ASSUME Init PROVE TypeOK
  OBVIOUS
<1>1. Absent \in Entry /\ NoVenv \in Venv
  BY DEF Absent, NoVenv, Entry, Venv, Marks, Trees
<1>2. QED BY <1>1 DEF Init, TypeOK, Absent, Points, Resting

LEMMA CacheInvariant == Spec => [](TypeOK /\ Solo /\ CacheKnown)
<1>1. Init => TypeOK /\ Solo /\ CacheKnown
  <2> SUFFICES ASSUME Init PROVE TypeOK /\ Solo /\ CacheKnown
    OBVIOUS
  <2>1. TypeOK
    BY InitTyped
  <2>2. \A a \in Callers : ~alone[a]
    BY DEF Init
  <2>3. QED BY <2>1, <2>2 DEF Solo, CacheKnown
<1>2. TypeOK /\ Solo /\ CacheKnown /\ [Next]_vars => (TypeOK /\ Solo /\ CacheKnown)'
  BY TypeStep, SoloStep, KnowledgeStep
<1>3. QED BY <1>1, <1>2, PTL DEF Spec

(* Every caller is at a step, the entry has a .git or not, and the trees    *)
(* and virtualenvs are what they are declared to be.                        *)
THEOREM TypeCorrect == Spec => []TypeOK
BY CacheInvariant, PTL

(* A run that has the cache to itself from its fetch to its copy works on   *)
(* one whole version of the repository, as new as GitHub's when it asked,   *)
(* whatever deaths, timeouts and other fetches went before: any number of   *)
(* callers, of files and of faults.                                         *)
THEOREM CopiesAreWhole == Spec => []WorksOnOneVersion
<1>1. TypeOK /\ CacheKnown => WorksOnOneVersion
  <2> SUFFICES ASSUME TypeOK, CacheKnown, NEW r \in Runs, alone[r], pc[r] = "copy", todo[r] = {}
               PROVE  \E v \in since[r]..upstream : ws[r] = Whole(v)
    BY DEF WorksOnOneVersion, At
  <2>1. r \in Callers
    BY DEF Callers
  <2>2. ws[r] \in Trees /\ \E v \in Recent(r) : \A f \in Files : ws[r][f] = v
    BY <2>1 DEF CacheKnown, Known
  <2>3. QED BY <2>2 DEF Recent, Trees, Whole
<1>2. QED BY <1>1, CacheInvariant, PTL

(* No debris keeps a repository from being fetched: a fetch that had the    *)
(* cache to itself and failed without a fault leaves an empty entry, or a   *)
(* whole checkout that is over the size limit.                              *)
THEOREM DebrisIsCleared == Spec => []NothingStaysWedged
<1>1. TypeOK /\ CacheKnown => NothingStaysWedged
  BY DEF NothingStaysWedged, CacheKnown, Known, At
<1>2. QED BY <1>1, CacheInvariant, PTL

-----------------------------------------------------------------------------
(* What a step of somebody else leaves a run: its place, its tree and, if it*)
(* still has its virtualenv to itself, the virtualenv.                      *)
Undisturbed(r) ==
  /\ pc'[r] = pc[r] /\ starts'[r] = starts[r] /\ ws'[r] = ws[r] /\ held'[r] = held[r]
  /\ sole'[r] => /\ sole[r] /\ venv'[Id[r]] = venv[Id[r]]
                 /\ \A p \in SameId(r) : ~Equipping(p)'

LEMMA UndisturbedStays ==
  ASSUME NEW r \in Runs, Equipped(r), Undisturbed(r)
  PROVE  Equipped(r)'
BY DEF Equipped, Undisturbed, Own, Equipping, At

(* A step that leaves every run's virtualenv and its place among those that *)
(* make one or use one.                                                     *)
Unequipping ==
  /\ ws' = ws /\ venv' = venv /\ held' = held /\ littered' = littered /\ sole' = sole
  /\ \A p \in Runs : pc'[p] = "create" <=> pc[p] = "create"

LEMMA UnequippingLeaves ==
  ASSUME TypeOK, NEW r \in Runs, Equipped(r), Unequipping,
         pc'[r] = pc[r], starts'[r] = starts[r]
  PROVE  Equipped(r)'
<1>1. \A p \in Runs : Equipping(p)' <=> Equipping(p)
  BY DEF Unequipping, Equipping, At
<1>2. SameId(r) \subseteq Runs
  BY DEF SameId
<1>3. Undisturbed(r)
  BY <1>1, <1>2 DEF Undisturbed, Unequipping, Equipped
<1>4. QED BY <1>3, UndisturbedStays

LEMMA FetchStepsDisturbNoOther ==
  ASSUME TypeOK, NEW a \in Callers, FetchSteps(a)
  PROVE  /\ Unequipping
         /\ \A r \in Runs \ {a} : pc'[r] = pc[r] /\ starts'[r] = starts[r]
         /\ a \in Runs => /\ pc[a] \in Fetching \cup Resting
                          /\ pc'[a] \in Fetching \cup {"got", "failed"}
<1>1. running' = running
  BY DEF FetchSteps, Begin, Fetch, FetchFails, Reset, ResetRefused, Written, GitDies, SizeOfRefresh,
     SizeOfClone, Removed, Clone, CloneRefused, Transfer, TransferFails, GitTimesOut, WriteOne,
     RemoveOne, running
<1>2. /\ pc[a] \in Fetching \cup Resting
      /\ \E p \in Fetching \cup {"got", "failed"} : pc' = [pc EXCEPT ![a] = p]
  <2>0. CASE Begin(a)
    <3>1. pc[a] \in Resting /\ pc' = [pc EXCEPT ![a] = IF cache.git = "none" THEN "clone" ELSE "fetch"]
      BY <2>0, Zenon DEF Begin, At, Goto
    <3>2. QED BY <3>1 DEF Fetching
  <2>1. CASE Fetch(a) \/ FetchFails(a) \/ Reset(a) \/ ResetRefused(a)
    BY <2>1 DEF Fetch, FetchFails, Reset, ResetRefused, At, Goto, Remove, Fetching
  <2>2. CASE Written(a) \/ GitDies(a) \/ SizeOfRefresh(a) \/ SizeOfClone(a) \/ Removed(a)
    BY <2>2 DEF Written, GitDies, SizeOfRefresh, SizeOfClone, Removed, At, Goto, Leave, Remove, Fetching
  <2>3. CASE Clone(a) \/ CloneRefused(a) \/ Transfer(a) \/ TransferFails(a) \/ GitTimesOut(a)
    BY <2>3 DEF Clone, CloneRefused, Transfer, TransferFails, GitTimesOut, At, Goto, Leave, Remove,
       Fetching
  <2>4. CASE (\E f \in Files : WriteOne(a, f))
             \/ \E piece \in Files \cup {"git"} : RemoveOne(a, piece)
    <3>1. pc[a] \in Fetching /\ pc' = pc
      BY <2>4 DEF WriteOne, RemoveOne, At, Fetching
    <3>2. pc = [pc EXCEPT ![a] = pc[a]]
      BY DEF TypeOK
    <3>3. QED BY <3>1, <3>2
  <2>5. QED BY <2>0, <2>1, <2>2, <2>3, <2>4, Zenon DEF FetchSteps
<1>3. starts' = starts \/ starts' = [starts EXCEPT ![a] = @ + 1]
  <2>1. CASE Begin(a)
    BY <2>1, Zenon DEF Begin
  <2>2. CASE ~Begin(a)
    BY <2>2 DEF FetchSteps, Fetch, FetchFails, Reset, ResetRefused, Written, GitDies, SizeOfRefresh,
       SizeOfClone, Removed, Clone, CloneRefused, Transfer, TransferFails, GitTimesOut, WriteOne,
       RemoveOne
  <2>3. QED BY <2>1, <2>2
<1>4. QED BY <1>1, <1>2, <1>3, Shapes DEF TypeOK, running, Unequipping, Fetching, Resting

(* The steps of a run, by what they do with a virtualenv.                   *)
Elsewhere(q) ==
  \/ OpenWorkspace(q) \/ CopyFails(q) \/ Copied(q) \/ UseHarness(q)
  \/ \E f \in Files : CopyOne(q, f)
WithVenv(q) ==
  \/ CreateVenv(q) \/ CreateFails(q) \/ InstallProject(q) \/ InstallPytest(q) \/ PytestMissing(q)

LEMMA RunStepsSorted ==
  ASSUME NEW q \in Runs, RunSteps(q)
  PROVE  Elsewhere(q) \/ ClearVenv(q) \/ WithVenv(q) \/ Close(q)
BY DEF RunSteps, Elsewhere, WithVenv

LEMMA ElsewhereLeaves ==
  ASSUME TypeOK, NEW q \in Runs, Elsewhere(q)
  PROVE  /\ venv' = venv /\ held' = held /\ littered' = littered /\ sole' = sole
         /\ pc[q] \in {"got", "copy", "prepare"}
         /\ pc'[q] \in {"failed", "copy", "prepare", "testing"}
<1>1. CASE OpenWorkspace(q) \/ CopyFails(q)
  BY <1>1, Shapes DEF OpenWorkspace, CopyFails, At, Goto, TypeOK
<1>2. CASE Copied(q) \/ UseHarness(q)
  BY <1>2, Shapes DEF Copied, UseHarness, At, Goto, running, TypeOK
<1>3. ASSUME NEW f \in Files, CopyOne(q, f)
      PROVE  /\ venv' = venv /\ held' = held /\ littered' = littered /\ sole' = sole
             /\ pc[q] = "copy" /\ pc' = pc
  BY <1>3 DEF CopyOne, At
<1>4. QED BY <1>1, <1>2, <1>3 DEF Elsewhere

LEMMA OwnRunStep ==
  ASSUME TypeOK, NEW r \in Runs, Equipped(r), RunSteps(r)
  PROVE  Equipped(r)'
<1> USE Shapes DEF TypeOK, Own, Housed
<1>0. starts' = starts
  BY DEF RunSteps, OpenWorkspace, CopyOne, CopyFails, Copied, UseHarness, ClearVenv,
     CreateVenv, CreateFails, InstallProject, InstallPytest, PytestMissing, Close
<1>1. \A p \in SameId(r) : pc'[p] = pc[p] /\ held'[p] = held[p]
  <2>1. /\ pc' = pc \/ \E x \in Points : pc' = [pc EXCEPT ![r] = x]
        /\ held' = held \/ \E x \in BOOLEAN : held' = [held EXCEPT ![r] = x]
    BY DEF RunSteps, OpenWorkspace, CopyOne, CopyFails, Copied, UseHarness, ClearVenv, Equip,
       CreateVenv, CreateFails, InstallProject, InstallPytest, PytestMissing, Close, Goto, running,
       Points, Resting
  <2>2. QED BY <2>1 DEF SameId
<1>2. (\A p \in SameId(r) : ~Equipping(p))' <=> \A p \in SameId(r) : ~Equipping(p)
  BY <1>1 DEF Equipping, At, SameId
<1>3. CASE Elsewhere(r)
  <2>1. pc[r] # "testing" /\ ~held[r] /\ ~sole[r] /\ pc'[r] # "create"
    BY <1>3, ElsewhereLeaves DEF Equipped, Equipping, At
  <2>2. pc'[r] \notin Housed => ws'[r] = NoTree
    <3>1. CASE OpenWorkspace(r)
      BY <3>1 DEF OpenWorkspace, Goto, Equipped, At
    <3>2. CASE CopyFails(r) \/ Copied(r) \/ UseHarness(r)
      BY <3>2 DEF CopyFails, Copied, UseHarness, Goto
    <3>3. ASSUME NEW f \in Files, CopyOne(r, f) PROVE pc'[r] \in Housed
      BY <3>3 DEF CopyOne, At
    <3>4. QED BY <1>3, <3>1, <3>2, <3>3 DEF Elsewhere
  <2>3. QED BY <1>3, <2>1, <2>2, ElsewhereLeaves DEF Equipped
<1>4. CASE ClearVenv(r)
  <2>1. /\ pc[r] = "prepare" /\ pc'[r] = "create" /\ held' = held /\ ws' = ws
        /\ venv'[Id[r]] = NoVenv
    BY <1>4 DEF ClearVenv, Equip, At, Goto
  <2>2. sole'[r] => \A p \in SameId(r) : ~Equipping(p)
    BY <1>4 DEF ClearVenv, Equip
  <2>3. QED BY <1>2, <2>1, <2>2 DEF Equipped, Equipping, At
<1>5. CASE CreateVenv(r)
  <2>1. /\ pc[r] = "create" /\ pc'[r] = "project" /\ held'[r] /\ ws' = ws /\ sole' = sole
        /\ venv'[Id[r]].made /\ venv'[Id[r]].installed = venv[Id[r]].installed
    BY <1>5 DEF CreateVenv, At, Goto, Venv
  <2>2. sole[r] => venv[Id[r]].installed = <<>>
    BY <2>1 DEF Equipped, NoVenv
  <2>3. QED BY <1>0, <1>2, <2>1, <2>2 DEF Equipped, Equipping
<1>6. CASE CreateFails(r)
  <2>1. /\ pc[r] = "create" /\ pc'[r] = "testing" /\ held' = held /\ ws' = ws /\ ~sole'[r]
    BY <1>6 DEF CreateFails, At, Goto
  <2>2. QED BY <2>1 DEF Equipped
<1>7. CASE InstallProject(r)
  <2>1. /\ pc[r] = "project" /\ pc'[r] = "pytest" /\ held' = held /\ ws' = ws /\ sole' = sole
    BY <1>7 DEF InstallProject, At, Goto
  <2>2. venv[Id[r]].made /\ Own(r) => venv'[Id[r]].made /\ Own(r)'
    <3>1. CASE venv' = venv
      BY <1>0, <3>1
    <3>2. CASE venv' = [venv EXCEPT ![Id[r]].installed = <<r, starts[r]>>]
      <4>1. /\ venv'[Id[r]].made = venv[Id[r]].made
            /\ venv'[Id[r]].installed = <<r, starts[r]>>
        BY <3>2 DEF Venv
      <4>2. QED BY <1>0, <4>1
    <3>3. QED BY <1>7, <3>1, <3>2 DEF InstallProject
  <2>3. QED BY <1>2, <2>1, <2>2 DEF Equipped, Equipping
<1>8. CASE InstallPytest(r)
  <2>1. /\ pc[r] = "pytest" /\ pc'[r] = "testing" /\ held' = held /\ ws' = ws /\ sole' = sole
        /\ venv'[Id[r]].made = venv[Id[r]].made /\ venv'[Id[r]].pytest
        /\ venv'[Id[r]].installed = venv[Id[r]].installed
    BY <1>8 DEF InstallPytest, At, Goto, Venv
  <2>2. QED BY <1>0, <1>2, <2>1 DEF Equipped, Equipping
<1>9. CASE PytestMissing(r)
  <2>1. pc'[r] = "testing" /\ ~held'[r] /\ ws' = ws /\ ~sole'[r]
    BY <1>9 DEF PytestMissing, At, Goto
  <2>2. QED BY <2>1 DEF Equipped
<1>10. CASE Close(r)
  <2>1. pc'[r] = "done" /\ ~held'[r] /\ ws'[r] = NoTree /\ ~sole'[r]
    BY <1>10 DEF Close, At, Goto
  <2>2. QED BY <2>1 DEF Equipped
<1>11. QED
  BY <1>3, <1>4, <1>5, <1>6, <1>7, <1>8, <1>9, <1>10, RunStepsSorted DEF WithVenv

(* A twin of a run that is alone in its virtualenv has nothing to do there. *)
LEMMA OthersGiveWay ==
  ASSUME TypeOK, AllEquipped, NEW r \in Runs, NEW q \in Runs \ {r}, RunSteps(q) \/ Die(q)
  PROVE  Undisturbed(r)
<1> USE Shapes DEF TypeOK
<1>1. /\ pc' = pc \/ \E x \in Points : pc' = [pc EXCEPT ![q] = x]
      /\ held' = held \/ \E x \in BOOLEAN : held' = [held EXCEPT ![q] = x]
      /\ starts' = starts
  <2>1. CASE RunSteps(q)
    BY <2>1 DEF RunSteps, OpenWorkspace, CopyOne, CopyFails, Copied, UseHarness, ClearVenv, Equip,
       CreateVenv, CreateFails, InstallProject, InstallPytest, PytestMissing, Close, Goto, running,
       Points, Resting
  <2>2. CASE Die(q)
    BY <2>2 DEF Die, Leave, Goto, Points, Resting
  <2>3. QED BY <2>1, <2>2
<1>2. ws'[r] = ws[r] /\ (sole'[r] => sole[r])
  <2>1. CASE RunSteps(q)
    BY <2>1 DEF RunSteps, OpenWorkspace, CopyOne, CopyFails, Copied, UseHarness, ClearVenv, Equip,
       CreateVenv, CreateFails, InstallProject, InstallPytest, PytestMissing, Close, running
  <2>2. CASE Die(q)
    BY <2>2 DEF Die
  <2>3. QED BY <2>1, <2>2
<1>3. \A p \in Runs \ {q} : pc'[p] = pc[p] /\ held'[p] = held[p]
  BY <1>1
<1>4. ASSUME sole'[r] PROVE venv'[Id[r]] = venv[Id[r]] /\ \A p \in SameId(r) : ~Equipping(p)'
  <2>0. \A p \in SameId(r) : ~Equipping(p)
    BY <1>2, <1>4 DEF AllEquipped, Equipped
  <2>1. \A p \in SameId(r) \ {q} : ~Equipping(p)'
    BY <1>3, <2>0 DEF Equipping, At, SameId
  <2>2. CASE q \notin SameId(r)
    <3>1. Id[q] # Id[r]
      BY <2>2 DEF SameId
    <3>2. venv' = venv \/ \E x : venv' = [venv EXCEPT ![Id[q]] = x]
      <4>1. CASE Elsewhere(q)
        BY <4>1, ElsewhereLeaves
      <4>2. CASE ClearVenv(q) \/ PytestMissing(q) \/ Close(q)
        BY <4>2 DEF ClearVenv, PytestMissing, Close
      <4>3. CASE CreateVenv(q) \/ CreateFails(q) \/ InstallPytest(q)
        BY <4>3 DEF CreateVenv, CreateFails, HalfMade, InstallPytest
      <4>4. CASE InstallProject(q)
        BY <4>4, Zenon DEF InstallProject
      <4>5. CASE Die(q)
        BY <4>5 DEF Die, HalfMade
      <4>6. QED BY <4>1, <4>2, <4>3, <4>4, <4>5, RunStepsSorted DEF WithVenv
    <3>3. QED BY <2>1, <2>2, <3>1, <3>2
  <2>3. CASE q \in SameId(r)
    <3>1. pc[q] # "create" /\ ~held[q] /\ pc[q] \notin {"project", "pytest"}
      BY <2>0, <2>3 DEF AllEquipped, Equipped, Equipping, At
    <3>2. ~ClearVenv(q)
      BY <1>4, <2>3 DEF ClearVenv, Equip, SameId
    <3>3. ~WithVenv(q)
      BY <3>1 DEF WithVenv, CreateVenv, CreateFails, InstallProject, InstallPytest, PytestMissing, At
    <3>4. CASE Elsewhere(q)
      <4>1. venv' = venv /\ ~Equipping(q)'
        BY <3>1, <3>4, ElsewhereLeaves DEF Equipping, At
      <4>2. QED BY <2>1, <4>1
    <3>5. CASE Close(q)
      <4>1. venv' = venv /\ pc'[q] = "done" /\ ~held'[q]
        BY <3>1, <3>5 DEF Close, Goto
      <4>2. QED BY <2>1, <4>1 DEF Equipping, At
    <3>6. CASE Die(q)
      <4>1. venv' = venv /\ pc'[q] = "idle" /\ ~held'[q]
        BY <3>1, <3>6 DEF Die, Leave, Goto, At
      <4>2. QED BY <2>1, <4>1 DEF Equipping, At
    <3>7. QED BY <3>2, <3>3, <3>4, <3>5, <3>6, RunStepsSorted
  <2>4. QED BY <2>2, <2>3
<1>5. QED BY <1>1, <1>2, <1>3, <1>4 DEF Undisturbed

LEMMA EquippedStep == TypeOK /\ AllEquipped /\ [Next]_vars => AllEquipped'
<1> SUFFICES ASSUME TypeOK, AllEquipped, [Next]_vars, NEW r \in Runs
             PROVE  Equipped(r)'
  BY DEF AllEquipped
<1> USE Shapes
<1>0. Equipped(r)
  BY DEF AllEquipped
<1>1. CASE UNCHANGED vars \/ Push
  BY <1>0, <1>1, UnequippingLeaves DEF vars, Push, running, Unequipping
<1>2. ASSUME NEW a \in Callers, FetchSteps(a) PROVE Equipped(r)'
  <2>1. CASE r # a
    BY <1>0, <1>2, <2>1, FetchStepsDisturbNoOther, UnequippingLeaves
  <2>2. CASE r = a
    <3>1. /\ ws' = ws /\ held' = held /\ sole' = sole
          /\ pc[r] \in Fetching \cup Resting /\ pc'[r] \in Fetching \cup {"got", "failed"}
      BY <1>2, <2>2, FetchStepsDisturbNoOther DEF Unequipping
    <3>2. ws[r] = NoTree /\ ~held[r] /\ ~sole[r]
      BY <1>0, <3>1 DEF Equipped, Housed, Fetching, Resting, Equipping, At
    <3>3. QED BY <3>1, <3>2 DEF Equipped, Fetching
  <2>3. QED BY <2>1, <2>2
<1>3. ASSUME NEW a \in Callers, Die(a) PROVE Equipped(r)'
  <2>1. CASE r = a
    <3>1. pc'[r] = "idle" /\ ws'[r] = NoTree /\ held'[r] = FALSE /\ sole'[r] = FALSE
      BY <1>3, <2>1 DEF Die, Leave, Goto, TypeOK
    <3>2. QED BY <3>1 DEF Equipped
  <2>2. CASE r # a /\ a \in Runs
    BY <1>0, <1>3, <2>2, OthersGiveWay, UndisturbedStays
  <2>3. CASE a \notin Runs
    <3>1. pc' = [pc EXCEPT ![a] = "idle"] /\ starts' = starts /\ running' = running
      BY <1>3, <2>3 DEF Die, Leave, Goto
    <3>2. \A p \in Runs : pc'[p] = pc[p]
      BY <2>3, <3>1 DEF TypeOK
    <3>3. QED BY <1>0, <3>1, <3>2, UnequippingLeaves DEF Unequipping, running
  <2>4. QED BY <2>1, <2>2, <2>3
<1>4. ASSUME NEW q \in Runs, RunSteps(q) PROVE Equipped(r)'
  BY <1>0, <1>4, OwnRunStep, OthersGiveWay, UndisturbedStays
<1>5. ASSUME NEW b \in Browsers, Browsed(b) PROVE Equipped(r)'
  <2>1. pc' = [pc EXCEPT ![b] = "done"] /\ starts' = starts /\ running' = running
    BY <1>5 DEF Browsed, Goto
  <2>2. \A p \in Runs : pc'[p] = pc[p]
    BY <2>1, CallersAssumption DEF TypeOK
  <2>3. QED BY <1>0, <2>1, <2>2, UnequippingLeaves DEF Unequipping, running
<1>6. QED
  BY <1>1, <1>2, <1>3, <1>4, <1>5 DEF Next

-----------------------------------------------------------------------------
(* Who makes or fills a virtualenv holds it, or is littered with it; only a *)
(* step that removes it gives it up.                                        *)
LEMMA AccountedStep == TypeOK /\ AllEquipped /\ Accounted /\ [Next]_vars => Accounted'
<1> SUFFICES ASSUME TypeOK, AllEquipped, Accounted, [Next]_vars,
                    NEW i \in Ids, venv'[i] # NoVenv
             PROVE  \E r \in Runs : Id[r] = i /\ (held'[r] \/ littered'[r])
  BY DEF Accounted
<1> USE Shapes DEF TypeOK
<1>1. CASE venv' = venv /\ held' = held /\ littered' = littered
  BY <1>1 DEF Accounted
<1>2. ASSUME NEW q \in Runs, Id[q] # i, venv'[i] = venv[i],
             \A r \in Runs \ {q} : held'[r] = held[r] /\ littered'[r] = littered[r]
      PROVE  \E r \in Runs : Id[r] = i /\ (held'[r] \/ littered'[r])
  BY <1>2 DEF Accounted
<1>3. ASSUME NEW q \in Runs, ClearVenv(q) \/ WithVenv(q) \/ Close(q) \/ Die(q)
      PROVE  \E r \in Runs : Id[r] = i /\ (held'[r] \/ littered'[r])
  <2>1. \A r \in Runs \ {q} : held'[r] = held[r] /\ littered'[r] = littered[r]
    BY <1>3 DEF ClearVenv, Equip, WithVenv, CreateVenv, CreateFails, InstallProject, InstallPytest,
       PytestMissing, Close, Die
  <2>2. CASE Id[q] # i
    <3>1. venv'[i] = venv[i]
      <4>1. CASE ClearVenv(q) \/ Close(q) \/ Die(q)
        BY <2>2, <4>1 DEF ClearVenv, Close, Die, HalfMade
      <4>2. CASE CreateVenv(q) \/ CreateFails(q) \/ InstallPytest(q) \/ PytestMissing(q)
        BY <2>2, <4>2 DEF CreateVenv, CreateFails, HalfMade, InstallPytest, PytestMissing
      <4>3. CASE InstallProject(q)
        BY <2>2, <4>3, Zenon DEF InstallProject
      <4>4. QED BY <1>3, <4>1, <4>2, <4>3 DEF WithVenv
    <3>2. QED BY <1>2, <2>1, <2>2, <3>1
  <2>3. CASE Id[q] = i
    <3>1. CASE ClearVenv(q) \/ PytestMissing(q)
      BY <2>3, <3>1 DEF ClearVenv, PytestMissing
    <3>2. CASE CreateVenv(q) \/ CreateFails(q)
      BY <2>3, <3>2 DEF CreateVenv, CreateFails
    <3>3. CASE InstallProject(q) \/ InstallPytest(q)
      BY <2>3, <3>3 DEF InstallProject, InstallPytest, At, AllEquipped, Equipped
    <3>4. CASE Close(q)
      <4>1. ~held[q] /\ venv' = venv /\ ~held'[q] /\ littered' = littered
        BY <2>3, <3>4 DEF Close
      <4>2. QED BY <2>1, <4>1 DEF Accounted
    <3>5. CASE Die(q)
      <4>1. littered'[q] = (littered[q] \/ held[q] \/ pc[q] = "create")
        BY <3>5 DEF Die, At
      <4>2. pc[q] # "create" => venv' = venv
        BY <3>5 DEF Die, At
      <4>3. CASE pc[q] = "create"
        BY <2>3, <4>1, <4>3
      <4>4. CASE pc[q] # "create"
        BY <2>1, <4>1, <4>2, <4>4 DEF Accounted
      <4>5. QED BY <4>3, <4>4
    <3>6. QED BY <1>3, <3>1, <3>2, <3>3, <3>4, <3>5 DEF WithVenv
  <2>4. QED BY <2>2, <2>3
<1>4. CASE UNCHANGED vars \/ Push
  BY <1>1, <1>4 DEF vars, Push, running
<1>5. ASSUME NEW a \in Callers, FetchSteps(a) PROVE venv' = venv /\ held' = held /\ littered' = littered
  BY <1>5, FetchStepsDisturbNoOther DEF Unequipping
<1>6. ASSUME NEW a \in Callers, Die(a), a \notin Runs PROVE venv' = venv /\ held' = held /\ littered' = littered
  BY <1>6 DEF Die, running
<1>7. ASSUME NEW q \in Runs, Elsewhere(q) PROVE venv' = venv /\ held' = held /\ littered' = littered
  BY <1>7, ElsewhereLeaves
<1>8. ASSUME NEW b \in Browsers, Browsed(b) PROVE venv' = venv /\ held' = held /\ littered' = littered
  BY <1>8 DEF Browsed, running
<1>9. QED
  BY <1>1, <1>3, <1>4, <1>5, <1>6, <1>7, <1>8, RunStepsSorted DEF Next

LEMMA EquipmentInvariant == Spec => [](TypeOK /\ AllEquipped /\ Accounted)
<1>1. Init => AllEquipped /\ Accounted
  BY DEF Init, AllEquipped, Equipped, Accounted, Resting, Housed, Callers, Ids
<1>2. Init => TypeOK
  BY InitTyped
<1>3. TypeOK /\ AllEquipped /\ Accounted /\ [Next]_vars => (TypeOK /\ AllEquipped /\ Accounted)'
  BY TypeStep, EquippedStep, AccountedStep
<1>4. QED BY <1>1, <1>2, <1>3, PTL DEF Spec

(* A run whose virtualenv no other live run of its id has touched since it  *)
(* cleared it tests its own copy of the code: what it uses has pytest, and  *)
(* an install of no other run or start.  Any number of runs may share ids.  *)
THEOREM TestsItsOwnCode == Spec => []OwnCodeTested
<1>1. TypeOK /\ AllEquipped => OwnCodeTested
  BY DEF AllEquipped, Equipped, OwnCodeTested, Own, At, TypeOK
<1>2. QED BY <1>1, EquipmentInvariant, PTL

(* A run that has ended has no workspace; and when every run of an id has   *)
(* ended its virtualenv is gone, whoever removed it under whom, unless a    *)
(* death or a failed creation has left it.                                  *)
THEOREM NothingIsLeft == Spec => []RunLeavesNothing
<1>1. TypeOK /\ AllEquipped /\ Accounted => RunLeavesNothing
  <2> SUFFICES ASSUME TypeOK, AllEquipped, Accounted PROVE RunLeavesNothing
    OBVIOUS
  <2>1. ASSUME NEW r \in Runs, pc[r] \in Resting PROVE ws[r] = NoTree /\ ~held[r]
    BY <2>1 DEF AllEquipped, Equipped, Housed, Resting
  <2>2. QED BY <2>1 DEF RunLeavesNothing, Accounted, At
<1>2. QED BY <1>1, EquipmentInvariant, PTL

=============================================================================
