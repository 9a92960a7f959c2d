------------------------------ MODULE RunStream -----------------------------
(***************************************************************************)
(* One run behind the HTTP API (api/main.py): the worker thread that runs  *)
(* the graph, the event loop it hops its events onto, the coroutine that   *)
(* plays the run, and the watchers that follow its stream of Server-Sent   *)
(* Events.  Code between two awaits is one step of the loop; the worker    *)
(* thread steps at any moment.                                             *)
(***************************************************************************)
EXTENDS Integers, Sequences

CONSTANTS
  Watchers,      \* browsers that may follow the run
  MaxProgress,   \* bound: progress events before the run concludes
  MaxVisits      \* bound: how often one watcher may connect

ASSUME BoundsAssumption == MaxProgress \in Nat \ {0} /\ MaxVisits \in Nat

VARIABLES
  kind,         \* RunStream's subclass; is a clone needed, can the fixture be read
  worker,       \* the thread inside run(): before, during and after it
  progress,     \* progress events so far
  outcome,      \* what run() comes back with
  ready,        \* the loop's queue of call_soon_threadsafe callbacks
  play,         \* the coroutine play()
  events, record, error, finished,    \* RunStream's fields
  subscribers,                        \* RunStream.subscribers
  watcher, queue, got, visits         \* per watcher: stream(), its queue, what it was sent

thread == <<worker, progress, outcome>>
run == <<events, record, error, finished>>
readers == <<subscribers, watcher, got, visits>>
vars == <<kind, thread, ready, play, run, readers, queue>>

-----------------------------------------------------------------------------
(* "broken": a MockRun whose fixture file is missing or is not JSON.        *)
Kinds == {"mock", "broken", "local", "cloned"}
Events == {"progress", "withheld", "verdict", "error"}
DONE == "done"          \* the sentinel _DONE
RESUME == "resume"      \* the callback that completes the to_thread future
None == "none"
(* A record past run()'s gate is sound, or over budget with its patches     *)
(* withheld; the second still fails check_invariants when publish() asks.   *)
Records == {"sound", "overspent"}

TypeOK ==
  /\ kind \in Kinds
  /\ worker \in {"idle", "running", "concluding", "over"}
  /\ progress \in 0 .. MaxProgress
  /\ outcome \in Records \cup {None, "raised"}
  /\ ready \in Seq(Events \cup {RESUME})
  /\ play \in {"created", "fetching", "replaying", "waiting", "resumed", "over"}
  /\ events \in Seq(Events)
  /\ record \in Records \cup {None} /\ error \in BOOLEAN /\ finished \in BOOLEAN
  /\ subscribers \subseteq Watchers
  /\ watcher \in [Watchers -> {"away", "reading", "closed"}]
  /\ queue \in [Watchers -> Seq(Events \cup {DONE})]
  /\ got \in [Watchers -> Seq(Events)]
  /\ visits \in [Watchers -> 0 .. MaxVisits]

Init ==
  /\ kind \in Kinds
  /\ worker = "idle" /\ progress = 0 /\ outcome = None
  /\ ready = <<>> /\ play = "created"
  /\ events = <<>> /\ record = None /\ error = FALSE /\ finished = FALSE
  /\ subscribers = {}
  /\ watcher = [w \in Watchers |-> "away"]
  /\ queue = [w \in Watchers |-> <<>>] /\ got = [w \in Watchers |-> <<>>]
  /\ visits = [w \in Watchers |-> 0]

-----------------------------------------------------------------------------
(* RunStream: what one step of the loop does to its fields. *)

(* _emit for each event, then possibly _emit_sentinel, without an await.    *)
Emit(new, sentinel) ==
  /\ events' = events \o new
  /\ finished' = (finished \/ sentinel)
  /\ queue' = [w \in Watchers |->
                 IF w \in subscribers
                 THEN queue[w] \o new \o (IF sentinel THEN <<DONE>> ELSE <<>>)
                 ELSE queue[w]]

(* fail() records the error and says so, and play()'s finally closes.       *)
FailSilently == error' = TRUE /\ UNCHANGED record /\ Emit(<<>>, TRUE)           \* mutant
FailUnclosed == error' = TRUE /\ UNCHANGED record /\ Emit(<<"error">>, FALSE)   \* mutant
Fail == error' = TRUE /\ UNCHANGED record /\ Emit(<<"error">>, TRUE)

(* publish() checks the record again and sets it, then the same finally.    *)
Publish(r) ==
  /\ record' = r
  /\ UNCHANGED error
  /\ Emit(IF r = "sound" THEN <<>> ELSE <<"withheld">>, TRUE)

-----------------------------------------------------------------------------
(* play(). *)

StartFetch ==
  /\ play = "created" /\ kind = "cloned"
  /\ Emit(<<"progress">>, FALSE)
  /\ play' = "fetching"
  /\ UNCHANGED <<kind, thread, ready, record, error, readers>>

FetchFails ==
  /\ play = "fetching"
  /\ Fail
  /\ play' = "over"
  /\ UNCHANGED <<kind, thread, ready, readers>>

(* Launch the worker: at once for a local path, after the clone otherwise.  *)
Launch ==
  /\ \/ play = "created" /\ kind = "local" /\ Emit(<<>>, FALSE)
     \/ play = "fetching" /\ Emit(<<"progress">>, FALSE)
  /\ play' = "waiting" /\ worker' = "running"
  /\ UNCHANGED <<kind, progress, outcome, ready, record, error, readers>>

ResumePublishing ==  \* mutant: publish() outside the else clause
  /\ play = "resumed"
  /\ Publish(outcome)
  /\ play' = "over"
  /\ UNCHANGED <<kind, thread, ready, readers>>

Resume ==
  /\ play = "resumed"
  /\ IF outcome = "raised" THEN Fail ELSE Publish(outcome)
  /\ play' = "over"
  /\ UNCHANGED <<kind, thread, ready, readers>>

(* load_fixture() is called before the try: the task dies, nothing is said. *)
FixtureUnreadable ==
  /\ kind = "broken" /\ play = "created"
  /\ play' = "over"
  /\ UNCHANGED <<kind, thread, ready, run, readers, queue>>

(* MockRun.play: the recorded events with a sleep before each; the record   *)
(* is published in the step that emits the verdict.                         *)
Replay ==
  /\ kind = "mock" /\ play \in {"created", "replaying"}
  /\ progress < MaxProgress
  /\ Emit(<<"progress">>, FALSE)
  /\ progress' = progress + 1 /\ play' = "replaying"
  /\ UNCHANGED <<kind, worker, outcome, ready, record, error, readers>>

ReplayVerdict ==
  /\ kind = "mock" /\ play = "replaying"
  /\ Emit(<<"verdict">>, TRUE)
  /\ record' = "sound" /\ UNCHANGED error
  /\ play' = "over"
  /\ UNCHANGED <<kind, thread, ready, readers>>

ReplayFails ==   \* a field of the fixture is missing or invalid
  /\ kind = "mock" /\ play \in {"created", "replaying"}
  /\ Fail
  /\ play' = "over"
  /\ UNCHANGED <<kind, thread, ready, readers>>

-----------------------------------------------------------------------------
(* The worker thread: run(), its events sent through call_soon_threadsafe.  *)

Hop(event) == ready' = Append(ready, event)

WorkerEmits ==
  /\ worker = "running" /\ outcome = None /\ progress < MaxProgress
  /\ Hop("progress") /\ progress' = progress + 1
  /\ UNCHANGED <<kind, worker, outcome, play, run, readers, queue>>

WorkerRaises ==
  /\ worker = "running" /\ outcome = None
  /\ outcome' = "raised" /\ worker' = "concluding"
  /\ UNCHANGED <<kind, progress, ready, play, run, readers, queue>>

WorkerWithholds ==   \* enforce_invariants inside run()
  /\ worker = "running" /\ outcome = None
  /\ Hop("withheld") /\ outcome' = "overspent"
  /\ UNCHANGED <<kind, worker, progress, play, run, readers, queue>>

WorkerConcludes ==
  /\ worker = "running"
  /\ Hop("verdict")
  /\ outcome' = IF outcome = None THEN "sound" ELSE outcome
  /\ worker' = "concluding"
  /\ UNCHANGED <<kind, progress, play, run, readers, queue>>

WorkerPolled ==  \* mutant: play() sees the result before the loop saw the events
  /\ worker = "concluding"
  /\ play' = "resumed" /\ worker' = "over"
  /\ UNCHANGED <<kind, progress, outcome, ready, run, readers, queue>>

(* The future completes: one more callback, behind every event of the run.  *)
WorkerReturns ==
  /\ worker = "concluding"
  /\ Hop(RESUME) /\ worker' = "over"
  /\ UNCHANGED <<kind, progress, outcome, play, run, readers, queue>>

-----------------------------------------------------------------------------
(* The loop runs the next callback. *)

RunCallback ==
  /\ ready # <<>>
  /\ IF Head(ready) = RESUME
     THEN play' = "resumed" /\ Emit(<<>>, FALSE)
     ELSE Emit(<<Head(ready)>>, FALSE) /\ UNCHANGED play
  /\ ready' = Tail(ready)
  /\ UNCHANGED <<kind, thread, record, error, readers>>

-----------------------------------------------------------------------------
(* stream(): one GET /runs/{id}/events. *)

SubscribeLive(w) ==  \* mutant: no backlog
  /\ watcher[w] = "away" /\ visits[w] < MaxVisits
  /\ queue' = [queue EXCEPT ![w] = IF finished THEN <<DONE>> ELSE <<>>]
  /\ got' = [got EXCEPT ![w] = <<>>]
  /\ subscribers' = subscribers \cup {w}
  /\ watcher' = [watcher EXCEPT ![w] = "reading"]
  /\ visits' = [visits EXCEPT ![w] = @ + 1]
  /\ UNCHANGED <<kind, thread, ready, play, run>>

Subscribe(w) ==
  /\ watcher[w] = "away" /\ visits[w] < MaxVisits
  /\ queue' = [queue EXCEPT ![w] = IF finished THEN Append(events, DONE) ELSE events]
  /\ got' = [got EXCEPT ![w] = <<>>]
  /\ subscribers' = subscribers \cup {w}
  /\ watcher' = [watcher EXCEPT ![w] = "reading"]
  /\ visits' = [visits EXCEPT ![w] = @ + 1]
  /\ UNCHANGED <<kind, thread, ready, play, run>>

(* The generator's finally clause. *)
Unsubscribe(w, to) ==
  /\ subscribers' = subscribers \ {w}
  /\ watcher' = [watcher EXCEPT ![w] = to]

TakeDone(w) ==
  /\ watcher[w] = "reading" /\ queue[w] # <<>> /\ Head(queue[w]) = DONE
  /\ queue' = [queue EXCEPT ![w] = Tail(@)]
  /\ Unsubscribe(w, "closed")
  /\ UNCHANGED <<kind, thread, ready, play, run, got, visits>>

TakeEvent(w) ==
  /\ watcher[w] = "reading" /\ queue[w] # <<>> /\ Head(queue[w]) # DONE
  /\ got' = [got EXCEPT ![w] = Append(@, Head(queue[w]))]
  /\ queue' = [queue EXCEPT ![w] = Tail(@)]
  /\ IF Head(queue[w]) = "verdict"
     THEN Unsubscribe(w, "closed") ELSE UNCHANGED <<subscribers, watcher>>
  /\ UNCHANGED <<kind, thread, ready, play, run, visits>>

Disconnect(w) ==   \* the browser goes away, and may come back
  /\ watcher[w] = "reading"
  /\ Unsubscribe(w, "away")
  /\ UNCHANGED <<kind, thread, ready, play, run, got, visits, queue>>

-----------------------------------------------------------------------------
Play == StartFetch \/ FetchFails \/ Launch \/ Resume \/ FixtureUnreadable
        \/ Replay \/ ReplayVerdict \/ ReplayFails
Worker == WorkerEmits \/ WorkerRaises \/ WorkerWithholds \/ WorkerConcludes \/ WorkerReturns
Take(w) == TakeDone(w) \/ TakeEvent(w)

Next ==
  \/ Play \/ Worker \/ RunCallback
  \/ \E w \in Watchers : Subscribe(w) \/ Take(w) \/ Disconnect(w)

(* The loop runs whatever is ready, run() ends (RunGraph's Termination), a  *)
(* clone has a timeout, and a connected reader is served.                   *)
Fairness ==
  /\ WF_vars(Play) /\ WF_vars(Worker) /\ WF_vars(RunCallback)
  /\ \A w \in Watchers : WF_vars(Take(w))

Spec == Init /\ [][Next]_vars /\ Fairness

-----------------------------------------------------------------------------
(* Properties. *)

Saw(w, e) == \E i \in DOMAIN got[w] : got[w][i] = e
Closed(w) == watcher[w] = "closed"

(* A watcher that connects late, early or twice sees the whole story: what  *)
(* it was sent and what waits in its queue are together exactly the run's   *)
(* events, in order, none lost and none twice, with the sentinel behind the *)
(* last of them when the run is over.                                       *)
Story == IF finished THEN Append(events, DONE) ELSE events
WholeStory == \A w \in subscribers : got[w] \o queue[w] = Story

(* Once the sentinel is out the story is over: no event of the run is still *)
(* on its way to the loop, so none can follow the sentinel into a queue.    *)
NothingAfterTheEnd == finished => ready = <<>>

(* A run never just stops.  A reader whose stream was closed was told why,  *)
(* by a verdict or by the error; and once the sentinel is out GET /runs/{id} *)
(* has one answer to give, a record or an error, never both.                *)
EndIsExplained ==
  /\ \A w \in Watchers : Closed(w) => Saw(w, "verdict") \/ Saw(w, "error")
  /\ ~(record # None /\ error)
  /\ finished => record # None \/ error

(* Every reader is let go in the end, by the sentinel, the verdict or its   *)
(* own hand: no stream of a run whose play() got as far as its try clause   *)
(* stays open for ever.  (One whose fixture cannot be read does not get     *)
(* there, and its readers do wait for ever.)                                *)
ReadersReleased ==
  \A w \in Watchers :
    kind # "broken" /\ watcher[w] = "reading" ~> watcher[w] # "reading"

(* main.py: the verdict is "terminal: the run is over, so is the stream",   *)
(* and GET /runs/{id} has "the full RunRecord, once the run is terminal":   *)
(* whoever was sent the verdict can read the record.                        *)
RecordReadableAtVerdict == \A w \in Watchers : Saw(w, "verdict") => record # None
=============================================================================
