---------------------------- MODULE Provisioning ----------------------------
(***************************************************************************)
(* What a run is given before its graph starts: a checkout fetched through *)
(* the clone cache (sandbox/github.py), a workspace copied from it         *)
(* (sandbox/workspace.py) and a virtualenv (sandbox/deps.py).  Runs and    *)
(* browse requests of one repository use one cache entry, runs with one id *)
(* one virtualenv, and nothing is locked.  Directories are written, copied *)
(* and removed one file at a time, and a process may die between any two.  *)
(***************************************************************************)
EXTENDS Naturals, FiniteSets, Functions

CONSTANTS
  Runs,         \* callers that fetch, copy, prepare and test
  Browsers,     \* GET /repos/tree and /repos/file: callers that only fetch
  Id,           \* the run id of each run
  Files,        \* what a checkout consists of
  MaxVersion,   \* bound: versions pushed to GitHub
  TooBig,       \* versions over MAX_CHECKOUT_MB
  MaxStarts,    \* bound: fetches begun
  MaxLive,      \* bound: callers under way at one time
  MaxFaults     \* bound: network failures, timeouts, deaths

Callers == Runs \cup Browsers
Ids == {Id[r] : r \in Runs}
Versions == 1..MaxVersion

ASSUME CallersAssumption == Runs \cap Browsers = {} /\ DOMAIN Id = Runs
ASSUME FilesAssumption == IsFiniteSet(Files) /\ "git" \notin Files
ASSUME BoundsAssumption == MaxVersion \in Nat \ {0} /\ {MaxStarts, MaxLive, MaxFaults} \subseteq Nat

VARIABLES
  upstream,   \* the version GitHub has
  cache,      \* the entry: its .git ("broken": git may refuse it), FETCH_HEAD,
              \* index.lock and files (0: no file)
  pc,         \* where each caller is
  todo,       \* what it has still to write, remove or copy
  want,       \* the version its git is writing
  ws,         \* its workspace
  venv,       \* <workspace_root>/<run_id>/venv
  held,       \* does it test with the virtualenv, and will it remove it?
  starts,     \* how often it has begun
  faults,     \* bound: faults so far
  alone,      \* history: has nobody else fetched since it began to?
  since,      \* history: upstream when it began
  faulted,    \* history: has its fetch met a fault?
  littered,   \* history: has it left a virtualenv by dying, or half-made?
  sole        \* history: has it had <run_id>/venv to itself since it cleared it?

fetching == <<todo, want>>
running  == <<ws, venv, held, littered, sole>>
history  == <<alone, since, faulted>>
vars == <<upstream, cache, pc, fetching, running, starts, faults, history>>

-----------------------------------------------------------------------------
Fetching == {"fetch", "reset", "writing", "size", "drop", "clone", "transfer",
             "populate", "size_clone", "clear"}
Resting  == {"idle", "done", "failed"}
Points   == Fetching \cup Resting \cup
            {"got", "copy", "prepare", "create", "project", "pytest", "testing"}

NoTree == [f \in {} |-> 0]
NoVenv == [made |-> FALSE, installed |-> <<>>, pytest |-> FALSE]
Absent == [git |-> "none", fetched |-> 0, locked |-> FALSE, work |-> [f \in Files |-> 0]]

Present(c) == {f \in Files : c.work[f] # 0}
Pieces(c)  == Present(c) \cup IF c.git = "none" THEN {} ELSE {"git"}
Whole(v)   == [f \in Files |-> v]

At(a, points) == pc[a] \in points
Goto(a, point) == pc' = [pc EXCEPT ![a] = point]
Handle(a, pieces) == todo' = [todo EXCEPT ![a] = pieces]
Leave(a, point) == Goto(a, point) /\ Handle(a, {}) /\ want' = [want EXCEPT ![a] = 0]
Remove(a, point) ==
  Goto(a, point) /\ Handle(a, Pieces(cache)) /\ want' = [want EXCEPT ![a] = 0]
Fault(a) ==
  /\ faults < MaxFaults /\ faults' = faults + 1
  /\ faulted' = [faulted EXCEPT ![a] = alone[a]]
Forget(a) ==
  /\ alone' = [alone EXCEPT ![a] = FALSE] /\ since' = [since EXCEPT ![a] = 0]
  /\ faulted' = [faulted EXCEPT ![a] = FALSE]

Init ==
  /\ upstream = 1 /\ cache = Absent
  /\ pc = [a \in Callers |-> "idle"]
  /\ todo = [a \in Callers |-> {}] /\ want = [a \in Callers |-> 0]
  /\ ws = [r \in Runs |-> NoTree] /\ venv = [i \in Ids |-> NoVenv]
  /\ held = [r \in Runs |-> FALSE]
  /\ starts = [a \in Callers |-> 0] /\ faults = 0
  /\ alone = [a \in Callers |-> FALSE] /\ since = [a \in Callers |-> 0]
  /\ faulted = [a \in Callers |-> FALSE] /\ littered = [r \in Runs |-> FALSE]
  /\ sole = [r \in Runs |-> FALSE]

Push ==
  /\ upstream < MaxVersion /\ upstream' = upstream + 1
  /\ UNCHANGED <<cache, pc, fetching, running, starts, faults, history>>

-----------------------------------------------------------------------------
(* fetch_repo: a directory with a .git is refreshed, anything else cloned.  *)
Begin(a) ==
  /\ At(a, Resting) /\ Cardinality({c \in Callers : ~At(c, Resting)}) < MaxLive
  /\ FoldFunction(+, 0, starts) < MaxStarts
  /\ Goto(a, IF cache.git = "none" THEN "clone" ELSE "fetch")
  /\ starts' = [starts EXCEPT ![a] = @ + 1]
  /\ alone' = [b \in Callers |-> b = a /\ \A c \in Callers \ {a} : ~At(c, Fetching)]
  /\ since' = [b \in Callers |-> IF alone'[b] THEN upstream ELSE 0]
  /\ faulted' = [b \in Callers |-> FALSE]
  /\ UNCHANGED <<upstream, cache, fetching, running, faults>>

(* _refresh, git fetch.  A .git that somebody has begun to remove, or that  *)
(* a clone has only begun to make, may still be good for it or not.         *)
Fetch(a) ==
  /\ At(a, {"fetch"}) /\ cache.git # "none"
  /\ cache' = [cache EXCEPT !.git = "ok", !.fetched = upstream]
  /\ Goto(a, "reset")
  /\ UNCHANGED <<upstream, fetching, running, starts, faults, history>>

FetchFails(a) ==
  /\ At(a, {"fetch"})
  /\ \/ cache.git = "ok" /\ Fault(a)
     \/ cache.git # "ok" /\ UNCHANGED <<faults, faulted>>
  /\ Remove(a, "drop")
  /\ UNCHANGED <<upstream, cache, running, starts, alone, since>>

(* git reset --hard FETCH_HEAD.  Whoever was killed while git wrote the     *)
(* index has left its lock behind.                                          *)
CanReset == cache.git = "ok" /\ cache.fetched # 0 /\ ~cache.locked

Reset(a) ==
  /\ At(a, {"reset"}) /\ CanReset
  /\ cache' = [cache EXCEPT !.locked = TRUE]
  /\ want' = [want EXCEPT ![a] = cache.fetched]
  /\ Handle(a, Files) /\ Goto(a, "writing")
  /\ UNCHANGED <<upstream, running, starts, faults, history>>

ResetUnnoticed(a) ==   \* mutant
  /\ At(a, {"reset"}) /\ ~CanReset
  /\ Goto(a, "size")
  /\ UNCHANGED <<upstream, cache, fetching, running, starts, faults, history>>

ResetRefused(a) ==
  /\ At(a, {"reset"}) /\ ~CanReset
  /\ Remove(a, "drop")
  /\ UNCHANGED <<upstream, cache, running, starts, faults, history>>

(* Files are written one at a time, by a reset or by a clone.               *)
WriteOne(a, f) ==
  /\ At(a, {"writing", "populate"}) /\ f \in todo[a] /\ cache.git # "none"
  /\ cache' = [cache EXCEPT !.work[f] = want[a]]
  /\ Handle(a, todo[a] \ {f})
  /\ UNCHANGED <<upstream, pc, want, running, starts, faults, history>>

Written(a) ==
  /\ At(a, {"writing", "populate"}) /\ todo[a] = {} /\ cache.git = "ok"
  /\ cache' = [cache EXCEPT !.locked = FALSE]
  /\ Leave(a, IF pc[a] = "writing" THEN "size" ELSE "size_clone")
  /\ UNCHANGED <<upstream, running, starts, faults, history>>

(* Its .git is being removed under it: git dies.                            *)
GitDies(a) ==
  /\ At(a, {"writing", "transfer", "populate"})
  /\ IF pc[a] = "transfer" THEN cache.git = "none" ELSE cache.git # "ok"
  /\ Remove(a, IF pc[a] = "writing" THEN "drop" ELSE "clear")
  /\ UNCHANGED <<upstream, cache, running, starts, faults, history>>

(* _check_size, and what can still time out before it: clean and set-url.   *)
Oversized == \E f \in Files : cache.work[f] \in TooBig

SizeOfRefresh(a) ==
  /\ At(a, {"size"})
  /\ IF Oversized THEN Remove(a, "drop") ELSE Goto(a, "got") /\ UNCHANGED fetching
  /\ UNCHANGED <<upstream, cache, running, starts, faults, history>>

SizeOfClone(a) ==
  /\ At(a, {"size_clone"})
  /\ Goto(a, IF Oversized THEN "failed" ELSE "got")
  /\ UNCHANGED <<upstream, cache, fetching, running, starts, faults, history>>

(* shutil.rmtree removes what it listed when it began, a .git bit by bit.   *)
RemoveOne(a, piece) ==
  /\ At(a, {"drop", "clear"}) /\ piece \in todo[a]
  /\ \/ /\ piece # "git"
        /\ cache' = [cache EXCEPT !.work[piece] = 0]
        /\ Handle(a, todo[a] \ {piece})
     \/ /\ piece = "git" /\ cache.git = "ok"
        /\ \E l \in {cache.locked, FALSE} :
             cache' = [cache EXCEPT !.git = "broken", !.locked = l]
        /\ UNCHANGED todo
     \/ /\ piece = "git" /\ cache.git # "ok"
        /\ cache' = [Absent EXCEPT !.work = cache.work]
        /\ Handle(a, todo[a] \ {piece})
  /\ UNCHANGED <<upstream, pc, want, running, starts, faults, history>>

Removed(a) ==
  /\ At(a, {"drop", "clear"}) /\ todo[a] = {}
  /\ Goto(a, IF pc[a] = "drop" THEN "clone" ELSE "failed")
  /\ UNCHANGED <<upstream, cache, fetching, running, starts, faults, history>>

(* _clone.  git clone makes a .git, transfers, and checks out.  Where       *)
(* anything stands it refuses; whenever it fails, all that stands is        *)
(* removed.                                                                 *)
Clone(a) ==
  /\ At(a, {"clone"}) /\ Pieces(cache) = {}
  /\ cache' = [cache EXCEPT !.git = "broken"]
  /\ Goto(a, "transfer")
  /\ UNCHANGED <<upstream, fetching, running, starts, faults, history>>

CloneRefusedOnly(a) ==   \* mutant
  /\ At(a, {"clone"}) /\ Pieces(cache) # {}
  /\ Goto(a, "failed")
  /\ UNCHANGED <<upstream, cache, fetching, running, starts, faults, history>>

CloneRefused(a) ==
  /\ At(a, {"clone"}) /\ Pieces(cache) # {}
  /\ Remove(a, "clear")
  /\ UNCHANGED <<upstream, cache, running, starts, faults, history>>

Transfer(a) ==
  /\ At(a, {"transfer"}) /\ cache.git # "none"
  /\ cache' = [cache EXCEPT !.git = "ok", !.locked = TRUE]
  /\ want' = [want EXCEPT ![a] = upstream]
  /\ Handle(a, Files) /\ Goto(a, "populate")
  /\ UNCHANGED <<upstream, running, starts, faults, history>>

TransferFails(a) ==
  /\ At(a, {"transfer"}) /\ Fault(a)
  /\ Remove(a, "clear")
  /\ UNCHANGED <<upstream, cache, running, starts, alone, since>>

(* git is killed at its timeout and leaves everything as it is.  A refresh  *)
(* falls back to a clone; a clone that was killed raises past its rmtree.   *)
GitTimesOut(a) ==
  /\ Fault(a)
  /\ \/ At(a, {"reset", "writing", "size"}) /\ Remove(a, "drop")
     \/ At(a, {"transfer", "populate", "size_clone"}) /\ Leave(a, "failed")
  /\ UNCHANGED <<upstream, cache, running, starts, alone, since>>

FetchSteps(a) ==
  \/ Begin(a) \/ Fetch(a) \/ FetchFails(a) \/ Reset(a) \/ ResetRefused(a)
  \/ Written(a) \/ GitDies(a) \/ SizeOfRefresh(a) \/ SizeOfClone(a) \/ Removed(a)
  \/ Clone(a) \/ CloneRefused(a) \/ Transfer(a) \/ TransferFails(a) \/ GitTimesOut(a)
  \/ \E f \in Files : WriteOne(a, f)
  \/ \E piece \in Files \cup {"git"} : RemoveOne(a, piece)

Browsed(b) ==
  /\ b \in Browsers /\ At(b, {"got"})
  /\ Goto(b, "done") /\ Forget(b)
  /\ UNCHANGED <<upstream, cache, fetching, running, starts, faults>>

-----------------------------------------------------------------------------
(* open_workspace: a new directory, and what copytree lists of the source.  *)
OpenWorkspace(r) ==
  /\ At(r, {"got"})
  /\ IF Pieces(cache) = {}
       THEN Goto(r, "failed") /\ UNCHANGED <<todo, ws>>
       ELSE /\ Goto(r, "copy") /\ Handle(r, Present(cache))
            /\ ws' = [ws EXCEPT ![r] = [f \in Files |-> 0]]
  /\ UNCHANGED <<upstream, cache, want, venv, held, littered, sole, starts, faults, history>>

CopyOne(r, f) ==
  /\ At(r, {"copy"}) /\ f \in todo[r] /\ cache.work[f] # 0
  /\ ws' = [ws EXCEPT ![r][f] = cache.work[f]]
  /\ Handle(r, todo[r] \ {f})
  /\ UNCHANGED <<upstream, cache, pc, want, venv, held, littered, sole, starts, faults, history>>

(* A file that was listed is gone: copytree raises, the workspace is closed.*)
CopyFails(r) ==
  /\ At(r, {"copy"}) /\ \E f \in todo[r] : cache.work[f] = 0
  /\ ws' = [ws EXCEPT ![r] = NoTree]
  /\ Handle(r, {}) /\ Goto(r, "failed")
  /\ UNCHANGED <<upstream, cache, want, venv, held, littered, sole, starts, faults, history>>

Copied(r) ==
  /\ At(r, {"copy"}) /\ todo[r] = {}
  /\ Goto(r, "prepare") /\ Forget(r)
  /\ UNCHANGED <<upstream, cache, fetching, running, starts, faults>>

(* deps.prepare.  Nothing is declared, or installing is off.                *)
UseHarness(r) ==
  /\ At(r, {"prepare"})
  /\ Goto(r, "testing")
  /\ UNCHANGED <<upstream, cache, fetching, ws, venv, held, littered, sole, starts, faults, history>>

(* Nothing tells one run from another that has the same id: the virtualenv  *)
(* of either is cleared, and removed, by both.                              *)
SameId(r) == {q \in Runs \ {r} : Id[q] = Id[r]}
Equipping(q) == At(q, {"create"}) \/ held[q]
Equip(r) ==
  /\ sole' = [q \in Runs |-> IF q = r THEN \A p \in SameId(r) : ~Equipping(p)
                            ELSE sole[q] /\ q \notin SameId(r)]
  /\ littered' = [littered EXCEPT ![r] = FALSE] /\ Goto(r, "create")

KeepVenv(r) ==   \* mutant
  /\ At(r, {"prepare"}) /\ Equip(r)
  /\ UNCHANGED <<upstream, cache, fetching, ws, venv, held, starts, faults, history>>

ClearVenv(r) ==
  /\ At(r, {"prepare"}) /\ Equip(r)
  /\ venv' = [venv EXCEPT ![Id[r]] = NoVenv]
  /\ UNCHANGED <<upstream, cache, fetching, ws, held, starts, faults, history>>

(* `python -m venv` over a virtualenv keeps what is installed in it.        *)
CreateVenv(r) ==
  /\ At(r, {"create"})
  /\ venv' = [venv EXCEPT ![Id[r]].made = TRUE]
  /\ held' = [held EXCEPT ![r] = TRUE]
  /\ Goto(r, "project")
  /\ UNCHANGED <<upstream, cache, fetching, ws, littered, sole, starts, faults, history>>

(* It fails or times out: what it has made stays, and nobody holds it.      *)
HalfMade(r) == \E m \in BOOLEAN : venv' = [venv EXCEPT ![Id[r]].made = @ \/ m]

CreateFails(r) ==
  /\ At(r, {"create"}) /\ HalfMade(r)
  /\ littered' = [littered EXCEPT ![r] = TRUE]
  /\ Goto(r, "testing")
  /\ sole' = [sole EXCEPT ![r] = FALSE]
  /\ UNCHANGED <<upstream, cache, fetching, ws, held, starts, faults, history>>

(* pip install -e . of the workspace, which may fail; then pip install      *)
(* pytest, without which the virtualenv is given up.                        *)
InstallProject(r) ==
  /\ At(r, {"project"})
  /\ \/ /\ venv[Id[r]].made
        /\ venv' = [venv EXCEPT ![Id[r]].installed = <<r, starts[r]>>]
     \/ UNCHANGED venv
  /\ Goto(r, "pytest")
  /\ UNCHANGED <<upstream, cache, fetching, ws, held, littered, sole, starts, faults, history>>

InstallPytest(r) ==
  /\ At(r, {"pytest"}) /\ venv[Id[r]].made
  /\ venv' = [venv EXCEPT ![Id[r]].pytest = TRUE]
  /\ Goto(r, "testing")
  /\ UNCHANGED <<upstream, cache, fetching, ws, held, littered, sole, starts, faults, history>>

PytestMissingUnclosed(r) ==   \* mutant
  /\ At(r, {"pytest"})
  /\ held' = [held EXCEPT ![r] = FALSE]
  /\ Goto(r, "testing")
  /\ UNCHANGED <<upstream, cache, fetching, ws, venv, littered, sole, starts, faults, history>>

PytestMissing(r) ==
  /\ At(r, {"pytest"})
  /\ venv' = [venv EXCEPT ![Id[r]] = NoVenv]
  /\ held' = [held EXCEPT ![r] = FALSE] /\ sole' = [sole EXCEPT ![r] = FALSE]
  /\ Goto(r, "testing")
  /\ UNCHANGED <<upstream, cache, fetching, ws, littered, starts, faults, history>>

(* The graph returns or raises: run()'s finally clause.                     *)
Close(r) ==
  /\ At(r, {"testing"})
  /\ venv' = IF held[r] THEN [venv EXCEPT ![Id[r]] = NoVenv] ELSE venv
  /\ held' = [held EXCEPT ![r] = FALSE] /\ sole' = [sole EXCEPT ![r] = FALSE]
  /\ ws' = [ws EXCEPT ![r] = NoTree]
  /\ Goto(r, "done")
  /\ UNCHANGED <<upstream, cache, fetching, littered, starts, faults, history>>

RunSteps(r) ==
  \/ OpenWorkspace(r) \/ CopyFails(r) \/ Copied(r) \/ UseHarness(r) \/ ClearVenv(r)
  \/ CreateVenv(r) \/ CreateFails(r) \/ InstallProject(r) \/ InstallPytest(r)
  \/ PytestMissing(r) \/ Close(r)
  \/ \E f \in Files : CopyOne(r, f)

(* The process dies, and its git with it: what is on the disk stays, the    *)
(* shallow.lock of a fetch perhaps.  The next start of the caller is a      *)
(* retry with the same id.                                                  *)
Die(a) ==
  /\ ~At(a, Resting) /\ Fault(a)
  /\ Leave(a, "idle")
  /\ \/ UNCHANGED cache
     \/ At(a, {"fetch"}) /\ cache.git = "ok" /\ cache' = [cache EXCEPT !.git = "broken"]
  /\ IF a \in Runs
       THEN /\ ws' = [ws EXCEPT ![a] = NoTree]
            /\ held' = [held EXCEPT ![a] = FALSE] /\ sole' = [sole EXCEPT ![a] = FALSE]
            /\ littered' = [littered EXCEPT ![a] = @ \/ held[a] \/ At(a, {"create"})]
            /\ IF At(a, {"create"}) THEN HalfMade(a) ELSE UNCHANGED venv
       ELSE UNCHANGED running
  /\ UNCHANGED <<upstream, starts, alone, since>>

Next ==
  \/ Push
  \/ \E a \in Callers : FetchSteps(a) \/ Die(a)
  \/ \E r \in Runs : RunSteps(r)
  \/ \E b \in Browsers : Browsed(b)

Spec == Init /\ [][Next]_vars

-----------------------------------------------------------------------------
(* A .git that is gone has no lock and no FETCH_HEAD; what is installed in  *)
(* a virtualenv is the copy of some start of some run.                      *)
Trees == [Files -> Nat]
Marks == {<<>>} \cup (Runs \X Nat)
Entry == [git : {"none", "broken", "ok"}, fetched : Nat, locked : BOOLEAN, work : Trees]
Venv  == [made : BOOLEAN, installed : Marks, pytest : BOOLEAN]

TypeOK ==
  /\ upstream \in Nat \ {0} /\ faults \in Nat /\ starts \in [Callers -> Nat]
  /\ cache \in Entry /\ (cache.git = "none" => ~cache.locked /\ cache.fetched = 0)
  /\ pc \in [Callers -> Points] /\ want \in [Callers -> Nat]
  /\ todo \in [Callers -> SUBSET (Files \cup {"git"})]
  /\ alone \in [Callers -> BOOLEAN] /\ faulted \in [Callers -> BOOLEAN]
  /\ since \in [Callers -> Nat]
  /\ ws \in [Runs -> Trees \cup {NoTree}] /\ venv \in [Ids -> Venv]
  /\ held \in [Runs -> BOOLEAN] /\ littered \in [Runs -> BOOLEAN]
  /\ sole \in [Runs -> BOOLEAN]

(* github.py, "Cached, and re-used carefully": whatever deaths and timeouts *)
(* an earlier fetch has left behind in the cache, a run that has it to      *)
(* itself from its fetch to its copy works on one whole version, and on one *)
(* at least as new as GitHub's when it asked.                               *)
WorksOnOneVersion ==
  \A r \in Runs :
    alone[r] /\ At(r, {"copy"}) /\ todo[r] = {} =>
      \E v \in since[r]..upstream : ws[r] = Whole(v)

(* fetch_repo, "the clone path, which is known to work": no debris makes a  *)
(* repository unfetchable for good.  A fetch that had the cache to itself   *)
(* and fails for no fault of its own leaves it as good as new, or holds a   *)
(* whole checkout that is too big.                                          *)
NothingStaysWedged ==
  \A a \in Callers : alone[a] /\ ~faulted[a] /\ At(a, {"failed"}) =>
    cache = Absent \/ \E v \in TooBig : cache.work = Whole(v) /\ ~cache.locked

(* prepare_workspace_environment: "an editable install of the copy is what  *)
(* makes a patch applied to that copy the code the tests import".  A run    *)
(* that tests with a virtualenv has one with pytest in it, and no other     *)
(* copy of the repository, as long as no run with the same id has been in   *)
(* its virtualenv since it cleared it: retries are safe, live twins are not.*)
OwnCodeTested ==
  \A r \in Runs : At(r, {"testing"}) /\ held[r] /\ sole[r] =>
    /\ venv[Id[r]].made /\ venv[Id[r]].pytest
    /\ venv[Id[r]].installed \in {<<>>, <<r, starts[r]>>}

(* run()'s finally clause: a run that ends leaves no workspace, and when    *)
(* the last run of an id has ended its virtualenv is gone, however they     *)
(* overlapped, unless a start of one of them died with it, or making it     *)
(* failed half-way.                                                         *)
RunLeavesNothing ==
  /\ \A r \in Runs : At(r, Resting) => ws[r] = NoTree
  /\ \A i \in Ids :
       (\A r \in Runs : Id[r] = i => At(r, Resting) /\ ~littered[r]) => venv[i] = NoVenv

(* workspace.py, "A throwaway copy of the target repo", and api/main.py:    *)
(* what a browse request has cloned, "the run about to be started reuses":  *)
(* whoever else fetches, what a run works on is one version of it.          *)
WorkspaceIsACopy ==
  \A r \in Runs : At(r, {"prepare"}) => \E v \in Versions : ws[r] = Whole(v)
=============================================================================
