--------------------------- MODULE RunStreamProofs ---------------------------
(***************************************************************************)
(* What holds of one run behind the API for any number of watchers, visits *)
(* and progress events.  That every reader is let go is liveness and stays *)
(* with TLC.                                                               *)
(***************************************************************************)
EXTENDS RunStream, SequenceTheorems, TLAPS

-----------------------------------------------------------------------------
Contains(s, e) == \E i \in DOMAIN s : s[i] = e
Callbacks == Events \cup {RESUME}
Items == Events \cup {DONE}

(* Where the coroutine, the worker and the loop's callbacks can be at once. *)
Phases ==
  /\ \A w \in Watchers : w \in subscribers <=> watcher[w] = "reading"
  /\ play \in {"created", "fetching", "replaying"} => worker = "idle" /\ ready = <<>>
  /\ play = "waiting" => worker # "idle"
  /\ worker \in {"running", "concluding"} => play = "waiting" /\ ~Contains(ready, RESUME)
  /\ worker = "over" /\ play = "waiting" =>
       \E s \in Seq(Events) : ready = Append(s, RESUME)
  /\ play = "resumed" => worker = "over"
  /\ play \in {"resumed", "over"} => ready = <<>>
  /\ play = "over" => worker \in {"idle", "over"}
  /\ worker \in {"concluding", "over"} => outcome # None
  /\ finished \/ record # None \/ error => play = "over"
  /\ ~(record # None /\ error)
  /\ finished => record # None \/ error

Typed == TypeOK /\ Phases

(* A run that concluded says so, or fail() does.                            *)
Told ==
  /\ worker \in {"concluding", "over"} /\ outcome # "raised" =>
       Contains(events, "verdict") \/ Contains(ready, "verdict")
  /\ finished => Contains(events, "verdict") \/ Contains(events, "error")

Explained ==
  \A w \in Watchers : Closed(w) => Saw(w, "verdict") \/ Saw(w, "error")

-----------------------------------------------------------------------------
(* Sequences. *)

LEMMA Words ==
  /\ RESUME \notin Events /\ DONE \notin Events /\ DONE # RESUME
  /\ None \notin Records /\ "raised" \notin Records
BY DEF RESUME, DONE, Events, None, Records

LEMMA ContainsAppend ==
  ASSUME NEW s \in Seq(Callbacks), NEW e \in Callbacks, NEW x
  PROVE  Contains(Append(s, e), x) <=> Contains(s, x) \/ x = e
<1>1. Append(s, e) \in Seq(Callbacks) /\ Len(Append(s, e)) = Len(s) + 1
  OBVIOUS
<1>2. \A i \in DOMAIN s : i \in DOMAIN Append(s, e) /\ Append(s, e)[i] = s[i]
  OBVIOUS
<1>3. Len(s) + 1 \in DOMAIN Append(s, e) /\ Append(s, e)[Len(s) + 1] = e
  OBVIOUS
<1>4. \A i \in DOMAIN Append(s, e) : i \in DOMAIN s \/ i = Len(s) + 1
  OBVIOUS
<1>5. QED BY <1>2, <1>3, <1>4 DEF Contains

LEMMA ContainsConcat ==
  ASSUME NEW s \in Seq(Events), NEW t \in Seq(Events), NEW x
  PROVE  Contains(s \o t, x) <=> Contains(s, x) \/ Contains(t, x)
<1>1. /\ s \o t \in Seq(Events) /\ Len(s \o t) = Len(s) + Len(t)
      /\ \A i \in 1 .. Len(s) + Len(t) :
           (s \o t)[i] = IF i <= Len(s) THEN s[i] ELSE t[i - Len(s)]
  BY ConcatProperties
<1>2. \A i \in DOMAIN s : i \in DOMAIN (s \o t) /\ (s \o t)[i] = s[i]
  BY <1>1
<1>3. \A i \in DOMAIN t : Len(s) + i \in DOMAIN (s \o t) /\ (s \o t)[Len(s) + i] = t[i]
  BY <1>1
<1>4. \A i \in DOMAIN (s \o t) :
        \/ i \in DOMAIN s /\ (s \o t)[i] = s[i]
        \/ i - Len(s) \in DOMAIN t /\ (s \o t)[i] = t[i - Len(s)]
  BY <1>1
<1>5. QED BY <1>2, <1>3, <1>4 DEF Contains

LEMMA EventsAreItems == Seq(Events) \subseteq Seq(Items)
<1>1. SUFFICES ASSUME NEW s \in Seq(Events) PROVE s \in Seq(Items)
  OBVIOUS
<1>2. \A i \in 1 .. Len(s) : s[i] \in Items
  BY DEF Items
<1>3. QED BY <1>2, IsASeq

LEMMA ConcatItems ==
  ASSUME NEW s \in Seq(Items), NEW t \in Seq(Items)
  PROVE  s \o t \in Seq(Items)
BY ConcatProperties

LEMMA ItemsAssociate ==
  \A s, t, u \in Seq(Items) : (s \o t) \o u = s \o (t \o u)
<1> TAKE s, t, u \in Seq(Items)
<1> QED BY ConcatAssociative

LEMMA Regroup ==
  \A s, t, u, v \in Seq(Items) : s \o ((t \o u) \o v) = ((s \o t) \o u) \o v
<1> TAKE s, t, u, v \in Seq(Items)
<1>1. s \o t \in Seq(Items) /\ t \o u \in Seq(Items)
  BY ConcatItems
<1>2. (s \o (t \o u)) \o v = s \o ((t \o u) \o v)
  BY <1>1, ItemsAssociate, Zenon
<1>3. (s \o t) \o u = s \o (t \o u)
  BY ItemsAssociate, Zenon
<1>4. QED BY <1>2, <1>3, Zenon

(* Moving the head of one sequence to the end of another.                   *)
LEMMA MoveHead ==
  ASSUME NEW s \in Seq(Items), NEW t \in Seq(Items), t # <<>>
  PROVE  Append(s, Head(t)) \o Tail(t) = s \o t
<1>1. Head(t) \in Items /\ Tail(t) \in Seq(Items)
  BY HeadTailProperties
<1>2. <<Head(t)>> \in Seq(Items) /\ t = <<Head(t)>> \o Tail(t)
  BY <1>1
<1>3. Append(s, Head(t)) = s \o <<Head(t)>>
  BY <1>1, AppendIsConcat
<1>4. (s \o <<Head(t)>>) \o Tail(t) = s \o (<<Head(t)>> \o Tail(t))
  BY <1>1, <1>2, ConcatAssociative
<1>5. QED BY <1>2, <1>3, <1>4

LEMMA NothingInEmpty == \A x : ~Contains(<<>>, x)
BY DEF Contains

(* The callback that resumes play() is the last one.                        *)
LEMMA LastCallback ==
  ASSUME NEW s \in Seq(Events)
  PROVE  /\ Append(s, RESUME) \in Seq(Callbacks) /\ Append(s, RESUME) # <<>>
         /\ s = <<>> => Head(Append(s, RESUME)) = RESUME /\ Tail(Append(s, RESUME)) = <<>>
         /\ s # <<>> => /\ Head(Append(s, RESUME)) = Head(s) /\ Head(s) \in Events
                        /\ Tail(Append(s, RESUME)) = Append(Tail(s), RESUME)
                        /\ Tail(s) \in Seq(Events)
<1>1. s \in Seq(Callbacks) /\ RESUME \in Callbacks
  BY DEF Callbacks
<1>2. CASE s = <<>>
  BY <1>1, <1>2
<1>3. CASE s # <<>>
  <2>1. Head(s) \in Events /\ Tail(s) \in Seq(Events)
    BY <1>3
  <2>2. Head(Append(s, RESUME)) = Head(s) /\ Tail(Append(s, RESUME)) = Append(Tail(s), RESUME)
    BY <1>1, <1>3, HeadTailAppend
  <2>3. QED BY <1>1, <1>3, <2>1, <2>2
<1>4. QED BY <1>2, <1>3

LEMMA WithoutResume ==
  ASSUME NEW s \in Seq(Callbacks), ~Contains(s, RESUME)
  PROVE  s \in Seq(Events)
<1>1. \A i \in 1 .. Len(s) : s[i] \in Events
  BY DEF Contains, Callbacks
<1>2. QED BY <1>1, IsASeq

-----------------------------------------------------------------------------
(* Types and phases. *)

LEMMA EmitTyped ==
  ASSUME Typed, NEW new \in Seq(Events), NEW sentinel \in BOOLEAN, Emit(new, sentinel)
  PROVE  /\ events' \in Seq(Events) /\ finished' \in BOOLEAN
         /\ queue' \in [Watchers -> Seq(Events \cup {DONE})]
         /\ finished' = (finished \/ sentinel)
<1> DEFINE end == IF sentinel THEN <<DONE>> ELSE <<>>
<1>1. DONE \in Items /\ new \in Seq(Items)
  BY EventsAreItems DEF Items
<1>2. end \in Seq(Items)
  BY <1>1
<1>3. \A w \in Watchers : queue[w] \in Seq(Items)
  BY DEF Typed, TypeOK, Items
<1>4. \A w \in Watchers : queue[w] \o new \o end \in Seq(Items)
  BY <1>1, <1>2, <1>3, ConcatItems
<1>5. events' = events \o new /\ finished' = (finished \/ sentinel)
  BY DEF Emit
<1>6. queue' = [w \in Watchers |-> IF w \in subscribers THEN queue[w] \o new \o end
                                   ELSE queue[w]]
  BY DEF Emit
<1>7. queue' \in [Watchers -> Seq(Items)]
  BY <1>3, <1>4, <1>6
<1>8. events' \in Seq(Events)
  BY <1>5 DEF Typed, TypeOK
<1>9. QED BY <1>5, <1>7, <1>8 DEF Typed, TypeOK, Items

LEMMA TypeStep == Typed /\ [Next]_vars => Typed'
<1> SUFFICES ASSUME Typed, [Next]_vars PROVE Typed'
  OBVIOUS
<1>a. \A new \in Seq(Events), sentinel \in BOOLEAN : Emit(new, sentinel) =>
        /\ events' \in Seq(Events) /\ finished' \in BOOLEAN
        /\ queue' \in [Watchers -> Seq(Events \cup {DONE})]
        /\ finished' = (finished \/ sentinel)
  BY EmitTyped
<1>b. {<<>>, <<"progress">>, <<"withheld">>, <<"verdict">>, <<"error">>} \subseteq Seq(Events)
  BY DEF Events
<1>c. ready \in Seq(Callbacks)
  BY DEF Typed, TypeOK, Callbacks
<1>1. CASE UNCHANGED vars
  BY <1>1 DEF Typed, TypeOK, Phases, vars, thread, run, readers
<1>2. CASE Play
  <2> USE BoundsAssumption, <1>a, <1>b
      DEF Typed, TypeOK, Phases, vars, thread, run, readers, Kinds, Records, None
  <2>1. CASE StartFetch
    BY <2>1 DEF StartFetch
  <2>2. CASE FetchFails
    BY <2>2 DEF FetchFails, Fail
  <2>3. CASE Launch
    BY <2>3, NothingInEmpty DEF Launch
  <2>4. CASE Resume
    BY <2>4 DEF Resume, Fail, Publish
  <2>5. CASE FixtureUnreadable
    BY <2>5 DEF FixtureUnreadable
  <2>6. CASE Replay
    <3>1. progress' \in 0 .. MaxProgress
      BY <2>6 DEF Replay
    <3>2. Emit(<<"progress">>, FALSE)
      BY <2>6 DEF Replay
    <3>3. QED BY <2>6, <3>1, <3>2 DEF Replay
  <2>7. CASE ReplayVerdict
    BY <2>7 DEF ReplayVerdict
  <2>8. CASE ReplayFails
    BY <2>8 DEF ReplayFails, Fail
  <2>9. QED
    BY <1>2, <2>1, <2>2, <2>3, <2>4, <2>5, <2>6, <2>7, <2>8 DEF Play
<1>3. CASE Worker
  <2>a. \A e \in Events : ~Contains(ready, RESUME) => ~Contains(Append(ready, e), RESUME)
    BY <1>c, ContainsAppend, Words DEF Callbacks
  <2>b. {"progress", "withheld", "verdict"} \subseteq Events
    BY DEF Events
  <2>c. ~Contains(ready, RESUME) => ready \in Seq(Events)
    BY <1>c, WithoutResume
  <2>d. \A e \in Callbacks : Append(ready, e) \in Seq(Callbacks)
    BY <1>c
  <2> USE BoundsAssumption, <2>b
      DEF Typed, TypeOK, Phases, vars, thread, run, readers, Hop, Callbacks
  <2>1. CASE WorkerEmits
    BY <2>1, <2>a, <2>d DEF WorkerEmits
  <2>2. CASE WorkerRaises
    BY <2>2 DEF WorkerRaises, None
  <2>3. CASE WorkerWithholds
    BY <2>3, <2>a, <2>d DEF WorkerWithholds, Records
  <2>4. CASE WorkerConcludes
    BY <2>4, <2>a, <2>d DEF WorkerConcludes, Records, None
  <2>5. CASE WorkerReturns
    BY <2>5, <2>c, <2>d DEF WorkerReturns
  <2>6. QED
    BY <1>3, <2>1, <2>2, <2>3, <2>4, <2>5 DEF Worker
<1>4. CASE RunCallback
  <2> SUFFICES ASSUME RunCallback PROVE Typed'
    BY <1>4
  <2>1. play = "waiting" /\ Tail(ready) \in Seq(Callbacks)
    BY <1>c DEF RunCallback, Typed, TypeOK, Phases
  <2>2. CASE worker \in {"running", "concluding"}
    <3>1. ready \in Seq(Events) /\ ready # <<>>
      BY <1>c, <2>2, WithoutResume DEF Typed, Phases, RunCallback
    <3>2. Head(ready) \in Events /\ Head(ready) # RESUME /\ Tail(ready) \in Seq(Events)
      BY <3>1, Words
    <3>3. ~Contains(Tail(ready), RESUME)
      BY <3>2, Words DEF Contains
    <3>4. <<Head(ready)>> \in Seq(Events)
      BY <3>2
    <3>5. QED
      BY <1>a, <2>1, <2>2, <3>2, <3>3, <3>4
         DEF RunCallback, Typed, TypeOK, Phases, vars, thread, run, readers, Callbacks
  <2>3. CASE worker = "over"
    <3>1. PICK s \in Seq(Events) : ready = Append(s, RESUME)
      BY <2>1, <2>3 DEF Typed, Phases
    <3>2. CASE s = <<>>
      <4>1. Head(ready) = RESUME /\ Tail(ready) = <<>>
        BY <3>1, <3>2, LastCallback
      <4>2. play' = "resumed" /\ Emit(<<>>, FALSE) /\ ready' = <<>>
        BY <4>1 DEF RunCallback
      <4>3. /\ events' \in Seq(Events) /\ finished' = finished
            /\ queue' \in [Watchers -> Seq(Events \cup {DONE})]
        BY <1>a, <1>b, <4>2 DEF Typed, TypeOK
      <4>4. /\ UNCHANGED <<kind, worker, progress, outcome, record, error>>
            /\ UNCHANGED <<subscribers, watcher, got, visits>>
        BY DEF RunCallback, thread, readers
      <4>5. TypeOK'
        BY <4>2, <4>3, <4>4 DEF Typed, TypeOK
      <4>6. Phases'
        BY <2>1, <2>3, <4>2, <4>3, <4>4 DEF Typed, Phases
      <4>7. QED BY <4>5, <4>6 DEF Typed
    <3>3. CASE s # <<>>
      <4>1. /\ Head(ready) \in Events /\ Head(ready) # RESUME
            /\ Tail(ready) = Append(Tail(s), RESUME) /\ Tail(s) \in Seq(Events)
        BY <3>1, <3>3, LastCallback, Words
      <4>2. <<Head(ready)>> \in Seq(Events)
        BY <4>1
      <4>3. QED
        BY <1>a, <2>1, <2>3, <4>1, <4>2
           DEF RunCallback, Typed, TypeOK, Phases, vars, thread, run, readers, Callbacks
    <3>4. QED BY <3>2, <3>3
  <2>4. QED BY <2>1, <2>2, <2>3 DEF Typed, TypeOK, Phases
<1>5. ASSUME NEW w \in Watchers, Subscribe(w) PROVE Typed'
  <2>1. events \in Seq(Events \cup {DONE}) /\ Append(events, DONE) \in Seq(Events \cup {DONE})
    BY DEF Typed, TypeOK
  <2>2. visits'[w] \in 0 .. MaxVisits
    BY <1>5, BoundsAssumption DEF Subscribe, Typed, TypeOK
  <2>3. QED
    BY <1>5, <2>1, <2>2 DEF Subscribe, Typed, TypeOK, Phases, vars, thread, run, readers
<1>6. ASSUME NEW w \in Watchers, Take(w) PROVE Typed'
  <2>1. /\ queue[w] \in Seq(Events \cup {DONE}) /\ queue[w] # <<>>
        /\ Head(queue[w]) \in Events \cup {DONE} /\ Tail(queue[w]) \in Seq(Events \cup {DONE})
    BY <1>6 DEF Take, TakeDone, TakeEvent, Typed, TypeOK
  <2>2. CASE TakeDone(w)
    BY <2>1, <2>2 DEF TakeDone, Unsubscribe, Typed, TypeOK, Phases, vars, thread, run, readers
  <2>3. CASE TakeEvent(w)
    <3>1. Append(got[w], Head(queue[w])) \in Seq(Events)
      BY <2>1, <2>3 DEF TakeEvent, Typed, TypeOK
    <3>2. QED
      BY <2>1, <2>3, <3>1
         DEF TakeEvent, Unsubscribe, Typed, TypeOK, Phases, vars, thread, run, readers
  <2>4. QED BY <1>6, <2>2, <2>3 DEF Take
<1>7. ASSUME NEW w \in Watchers, Disconnect(w) PROVE Typed'
  BY <1>7 DEF Disconnect, Unsubscribe, Typed, TypeOK, Phases, vars, thread, run, readers
<1>8. QED BY <1>1, <1>2, <1>3, <1>4, <1>5, <1>6, <1>7 DEF Next

LEMMA TypeInit == Init => Typed
<1> SUFFICES ASSUME Init PROVE Typed
  OBVIOUS
<1>1. progress \in 0 .. MaxProgress /\ visits \in [Watchers -> 0 .. MaxVisits]
  BY BoundsAssumption DEF Init
<1>2. /\ events \in Seq(Events) /\ ready \in Seq(Events \cup {RESUME})
      /\ queue \in [Watchers -> Seq(Events \cup {DONE})]
      /\ got \in [Watchers -> Seq(Events)]
  BY DEF Init
<1>3. TypeOK
  BY <1>1, <1>2 DEF Init, TypeOK
<1>4. Phases
  BY DEF Init, Phases
<1>5. QED BY <1>3, <1>4 DEF Typed

(* Every field keeps its type, and the coroutine, the worker and the loop's *)
(* callbacks are only where they can be together.                           *)
THEOREM TypeCorrect == Spec => []TypeOK
<1>1. Typed => TypeOK
  BY DEF Typed
<1>2. QED BY <1>1, TypeInit, TypeStep, PTL DEF Spec

(* No callback of the run is left when its stream ends, so none can put an  *)
(* event behind the sentinel.                                               *)
THEOREM NothingFollowsTheEnd == Spec => []NothingAfterTheEnd
<1>1. Typed => NothingAfterTheEnd
  BY DEF Typed, Phases, NothingAfterTheEnd
<1>2. QED BY <1>1, TypeInit, TypeStep, PTL DEF Spec

-----------------------------------------------------------------------------
(* The whole story. *)

LEMMA StoryItems ==
  ASSUME Typed
  PROVE  /\ Story \in Seq(Items) /\ events \in Seq(Items)
         /\ \A w \in Watchers : got[w] \in Seq(Items) /\ queue[w] \in Seq(Items)
<1>1. events \in Seq(Items) /\ \A w \in Watchers : got[w] \in Seq(Items)
  BY EventsAreItems DEF Typed, TypeOK
<1>2. DONE \in Items /\ \A w \in Watchers : queue[w] \in Seq(Items)
  BY DEF Typed, TypeOK, Items
<1>3. QED BY <1>1, <1>2 DEF Story

(* Emitting adds the same to the story and to each queue.                   *)
LEMMA EmitKeepsStory ==
  ASSUME Typed, WholeStory, ~finished,
         NEW new \in Seq(Events), NEW sentinel \in BOOLEAN, Emit(new, sentinel),
         UNCHANGED <<subscribers, got>>
  PROVE  WholeStory'
<1> DEFINE end == IF sentinel THEN <<DONE>> ELSE <<>>
<1>1. new \in Seq(Items) /\ DONE \in Items /\ events \in Seq(Items)
  BY EventsAreItems, StoryItems DEF Items
<1>2. end \in Seq(Items) /\ new \o end \in Seq(Items) /\ events \o new \in Seq(Items)
  BY <1>1, ConcatItems
<1>3. Append(events \o new, DONE) = (events \o new) \o <<DONE>>
  BY <1>1, <1>2, AppendIsConcat
<1>4. (events \o new) \o <<>> = events \o new
  BY <1>2
<1>5. Story' = (events \o new) \o end
  BY <1>3, <1>4 DEF Story, Emit
<1>6. ASSUME NEW w \in subscribers PROVE got[w] \o (queue[w] \o new \o end) = Story'
  <2>1. w \in Watchers /\ got[w] \in Seq(Items) /\ queue[w] \in Seq(Items)
    BY StoryItems DEF Typed, TypeOK
  <2>2. got[w] \o queue[w] = events
    BY DEF WholeStory, Story
  <2>3. got[w] \o (queue[w] \o new \o end) = ((got[w] \o queue[w]) \o new) \o end
    <3> HIDE DEF end
    <3>1. end \in Seq(Items) /\ new \in Seq(Items)
      BY <1>1, <1>2
    <3>2. \A u, v \in Seq(Items) :
            got[w] \o ((queue[w] \o u) \o v) = ((got[w] \o queue[w]) \o u) \o v
      BY <2>1, Regroup
    <3>3. QED BY <3>1, <3>2
  <2>4. QED BY <1>5, <2>2, <2>3
<1>7. ASSUME NEW w \in subscribers PROVE queue'[w] = queue[w] \o new \o end
  BY DEF Emit, Typed, TypeOK
<1>8. QED BY <1>6, <1>7 DEF WholeStory

LEMMA StoryStep == Typed /\ WholeStory /\ [Next]_vars => WholeStory'
<1> SUFFICES ASSUME Typed, WholeStory, [Next]_vars PROVE WholeStory'
  OBVIOUS
<1>a. finished => play = "over" /\ ready = <<>>
  BY DEF Typed, Phases
<1>b. {<<>>, <<"progress">>, <<"withheld">>, <<"verdict">>, <<"error">>} \subseteq Seq(Events)
  BY DEF Events
<1>c. ~finished /\ UNCHANGED <<subscribers, got>> =>
        \A new \in Seq(Events), sentinel \in BOOLEAN : Emit(new, sentinel) => WholeStory'
  BY EmitKeepsStory
<1>1. CASE UNCHANGED vars
  BY <1>1 DEF WholeStory, Story, vars, run, readers
<1>2. CASE Play
  <2>1. CASE FixtureUnreadable
    BY <2>1 DEF FixtureUnreadable, WholeStory, Story, run, readers
  <2>2. CASE ~FixtureUnreadable
    <3>1. ~finished /\ UNCHANGED <<subscribers, got>>
      BY <1>2, <1>a, <2>2
         DEF Play, StartFetch, FetchFails, Launch, Resume, Replay, ReplayVerdict,
             ReplayFails, readers
    <3>2. QED
      BY <1>2, <1>b, <1>c, <2>2, <3>1
         DEF Play, StartFetch, FetchFails, Launch, Resume, Replay, ReplayVerdict,
             ReplayFails, Fail, Publish
  <2>3. QED BY <2>1, <2>2
<1>3. CASE Worker
  <2>1. UNCHANGED <<events, finished, subscribers, got, queue>>
    BY <1>3 DEF Worker, WorkerEmits, WorkerRaises, WorkerWithholds, WorkerConcludes,
                WorkerReturns, run, readers
  <2>2. QED BY <2>1 DEF WholeStory, Story
<1>4. CASE RunCallback
  <2>1. ~finished /\ UNCHANGED <<subscribers, got>>
    BY <1>4, <1>a DEF RunCallback, readers
  <2>2. Head(ready) # RESUME => <<Head(ready)>> \in Seq(Events)
    <3>1. Head(ready) \in Events \cup {RESUME}
      BY <1>4 DEF RunCallback, Typed, TypeOK
    <3>2. QED BY <3>1
  <2>3. QED BY <1>4, <1>b, <1>c, <2>1, <2>2 DEF RunCallback
<1>5. ASSUME NEW w \in Watchers, Subscribe(w) PROVE WholeStory'
  <2>1. Story' = Story
    BY <1>5 DEF Subscribe, Story, run
  <2>2. queue'[w] = Story /\ got'[w] = <<>>
    BY <1>5 DEF Subscribe, Story, Typed, TypeOK
  <2>3. <<>> \o Story = Story
    BY StoryItems, ConcatEmptySeq
  <2>4. \A v \in subscribers \ {w} : queue'[v] = queue[v] /\ got'[v] = got[v]
    BY <1>5 DEF Subscribe, Typed, TypeOK
  <2>5. subscribers' = subscribers \cup {w}
    BY <1>5 DEF Subscribe
  <2>6. QED BY <2>1, <2>2, <2>3, <2>4, <2>5 DEF WholeStory
<1>6. ASSUME NEW w \in Watchers, Take(w) PROVE WholeStory'
  <2>1. Story' = Story /\ subscribers' \subseteq subscribers
    BY <1>6 DEF Take, TakeDone, TakeEvent, Unsubscribe, Story, run
  <2>2. \A v \in subscribers \ {w} : queue'[v] = queue[v] /\ got'[v] = got[v]
    BY <1>6 DEF Take, TakeDone, TakeEvent, Unsubscribe, Typed, TypeOK
  <2>3. CASE TakeDone(w)
    BY <2>1, <2>2, <2>3 DEF TakeDone, Unsubscribe, WholeStory
  <2>4. CASE TakeEvent(w)
    <3>1. /\ got[w] \in Seq(Items) /\ queue[w] \in Seq(Items) /\ queue[w] # <<>>
          /\ queue'[w] = Tail(queue[w]) /\ got'[w] = Append(got[w], Head(queue[w]))
      BY <2>4, StoryItems DEF TakeEvent, Typed, TypeOK
    <3>2. got'[w] \o queue'[w] = got[w] \o queue[w]
      BY <3>1, MoveHead
    <3>3. QED BY <2>1, <2>2, <3>2 DEF WholeStory
  <2>5. QED BY <1>6, <2>3, <2>4 DEF Take
<1>7. ASSUME NEW w \in Watchers, Disconnect(w) PROVE WholeStory'
  BY <1>7 DEF Disconnect, Unsubscribe, WholeStory, Story, run
<1>8. QED BY <1>1, <1>2, <1>3, <1>4, <1>5, <1>6, <1>7 DEF Next

LEMMA StoryAlways == Spec => [](Typed /\ WholeStory)
<1>1. Init => WholeStory
  BY DEF Init, WholeStory
<1>2. QED BY <1>1, TypeInit, TypeStep, StoryStep, PTL DEF Spec

(* Whenever and however often a watcher connects, its stream is the run's   *)
(* events, gapless and in order, for any number of watchers and events.     *)
THEOREM StreamsAreWhole == Spec => []WholeStory
BY StoryAlways, PTL

-----------------------------------------------------------------------------
(* The reason. *)

LEMMA ContainsHead ==
  ASSUME NEW s \in Seq(Callbacks), s # <<>>, NEW x
  PROVE  Contains(s, x) => x = Head(s) \/ Contains(Tail(s), x)
<1> SUFFICES ASSUME NEW i \in DOMAIN s, s[i] = x, x # Head(s) PROVE Contains(Tail(s), x)
  BY DEF Contains
<1>1. i # 1 /\ i \in 1 .. Len(s)
  OBVIOUS
<1>2. i - 1 \in DOMAIN Tail(s) /\ Tail(s)[i - 1] = s[i]
  BY <1>1
<1>3. QED BY <1>2 DEF Contains

(* What emitting tells stays told.                                          *)
LEMMA EmitTells ==
  ASSUME Typed, NEW new \in Seq(Events), NEW sentinel \in BOOLEAN, Emit(new, sentinel), NEW x
  PROVE  Contains(events', x) <=> Contains(events, x) \/ Contains(new, x)
BY ContainsConcat DEF Emit, Typed, TypeOK

LEMMA OneTold == \A x : Contains(<<x>>, x)
<1> TAKE x
<1>1. 1 \in DOMAIN <<x>> /\ <<x>>[1] = x
  OBVIOUS
<1>2. QED BY <1>1 DEF Contains

LEMMA ToldStep == Typed /\ Told /\ [Next]_vars => Told'
<1> SUFFICES ASSUME Typed, Told, [Next]_vars PROVE Told'
  OBVIOUS
<1>a. \A new \in Seq(Events), sentinel \in BOOLEAN : \A x : Emit(new, sentinel) =>
        /\ Contains(events', x) <=> Contains(events, x) \/ Contains(new, x)
        /\ finished' = (finished \/ sentinel)
  BY EmitTells, EmitTyped
<1>b. {<<>>, <<"progress">>, <<"withheld">>, <<"verdict">>, <<"error">>} \subseteq Seq(Events)
  BY DEF Events
<1>c. ready \in Seq(Callbacks)
  BY DEF Typed, TypeOK, Callbacks
<1>1. CASE UNCHANGED vars
  BY <1>1 DEF Told, vars, thread, run
<1>2. CASE Play
  <2>1. CASE StartFetch \/ Replay
    BY <1>a, <1>b, <2>1 DEF StartFetch, Replay, thread, Told
  <2>2. CASE Launch
    BY <1>a, <1>b, <2>2 DEF Launch, Told
  <2>3. CASE FixtureUnreadable
    BY <2>3 DEF FixtureUnreadable, thread, run, Told
  <2>4. ASSUME Fail, UNCHANGED <<thread, ready>> PROVE Told'
    BY <1>a, <1>b, <2>4, OneTold DEF Fail, thread, Told
  <2>5. CASE ReplayVerdict
    BY <1>a, <1>b, <2>5, OneTold DEF ReplayVerdict, thread, Told
  <2>6. CASE Resume /\ outcome # "raised"
    <3>1. Contains(events, "verdict")
      BY <2>6, NothingInEmpty DEF Resume, Told, Typed, Phases
    <3>2. QED
      BY <1>a, <1>b, <2>6, <3>1 DEF Resume, Publish, thread, Told
  <2>7. QED
    BY <1>2, <2>1, <2>2, <2>3, <2>4, <2>5, <2>6 DEF Play, FetchFails, Resume, ReplayFails
<1>3. CASE Worker
  <2>1. UNCHANGED <<events, finished>>
    BY <1>3 DEF Worker, WorkerEmits, WorkerRaises, WorkerWithholds, WorkerConcludes,
                WorkerReturns, run
  <2>2. \A e \in Callbacks : \A x :
          Contains(Append(ready, e), x) <=> Contains(ready, x) \/ x = e
    BY <1>c, ContainsAppend
  <2>3. CASE WorkerEmits \/ WorkerWithholds \/ WorkerRaises
    BY <2>1, <2>3 DEF WorkerEmits, WorkerWithholds, WorkerRaises, Told
  <2>4. CASE WorkerConcludes
    BY <2>1, <2>2, <2>4 DEF WorkerConcludes, Hop, Told, Callbacks, Events
  <2>5. CASE WorkerReturns
    BY <2>1, <2>2, <2>5 DEF WorkerReturns, Hop, Told, Callbacks
  <2>6. QED BY <1>3, <2>3, <2>4, <2>5 DEF Worker
<1>4. CASE RunCallback
  <2>1. \A x : Contains(ready, x) => x = Head(ready) \/ Contains(ready', x)
    BY <1>4, <1>c, ContainsHead DEF RunCallback
  <2>2. UNCHANGED <<worker, outcome>>
    BY <1>4 DEF RunCallback, thread
  <2>3. CASE Head(ready) = RESUME
    <3>1. Emit(<<>>, FALSE)
      BY <1>4, <2>3 DEF RunCallback
    <3>2. QED
      BY <1>a, <1>b, <2>1, <2>2, <2>3, <3>1 DEF Told, RESUME
  <2>4. CASE Head(ready) # RESUME
    <3>1. Emit(<<Head(ready)>>, FALSE)
      BY <1>4, <2>4 DEF RunCallback
    <3>2. Head(ready) \in Events
      BY <1>4, <2>4 DEF RunCallback, Typed, TypeOK
    <3>3. <<Head(ready)>> \in Seq(Events)
      BY <3>2
    <3>4. QED
      BY <1>a, <2>1, <2>2, <3>1, <3>3, OneTold DEF Told
  <2>5. QED BY <2>3, <2>4
<1>5. ASSUME NEW w \in Watchers, Subscribe(w) \/ Take(w) \/ Disconnect(w) PROVE Told'
  BY <1>5 DEF Subscribe, Take, TakeDone, TakeEvent, Disconnect, thread, run, Told
<1>6. QED BY <1>1, <1>2, <1>3, <1>4, <1>5 DEF Next

LEMMA SecondSequence ==
  \A s, t \in Seq(Items) : t # <<>> =>
    /\ Len(s) + 1 \in 1 .. Len(s) + Len(t) /\ (s \o t)[Len(s) + 1] = Head(t)
    /\ Len(s \o t) = Len(s) + Len(t)
    /\ \A i \in 1 .. Len(s) : (s \o t)[i] = s[i]
OBVIOUS

(* A reader that has come to the sentinel has been sent every event.        *)
LEMMA DoneIsLast ==
  ASSUME Typed, WholeStory, NEW w \in subscribers, queue[w] # <<>>, Head(queue[w]) = DONE
  PROVE  finished /\ got[w] = events
<1> DEFINE n == Len(got[w]) + 1
<1>1. /\ w \in Watchers /\ got[w] \in Seq(Events) /\ events \in Seq(Events)
      /\ got[w] \in Seq(Items) /\ queue[w] \in Seq(Items)
  BY StoryItems DEF Typed, TypeOK
<1>2. /\ n \in 1 .. Len(got[w]) + Len(queue[w]) /\ Story[n] = DONE
      /\ Len(Story) = Len(got[w]) + Len(queue[w])
      /\ \A i \in 1 .. Len(got[w]) : Story[i] = got[w][i]
  <2>1. Story = got[w] \o queue[w]
    BY DEF WholeStory
  <2>2. QED BY <1>1, <2>1, SecondSequence
<1>3. n \notin 1 .. Len(events) \/ events[n] # DONE
  BY <1>1, Words
<1>4. finished /\ Story = Append(events, DONE)
  BY <1>1, <1>2, <1>3 DEF Story
<1>5. n = Len(events) + 1
  <2>1. /\ Len(Append(events, DONE)) = Len(events) + 1
        /\ \A i \in 1 .. Len(events) : Append(events, DONE)[i] = events[i]
    BY <1>1
  <2>2. n \in 1 .. Len(events) + 1
    BY <1>2, <1>4, <2>1
  <2>3. n \notin 1 .. Len(events)
    BY <1>2, <1>3, <1>4, <2>1
  <2>4. Len(events) \in Nat
    BY <1>1
  <2>5. QED BY <2>2, <2>3, <2>4
<1>6. \A i \in 1 .. Len(events) : events[i] = got[w][i]
  BY <1>1, <1>2, <1>4, <1>5
<1>7. QED BY <1>1, <1>4, <1>5, <1>6

LEMMA ExplainedStep ==
  Typed /\ WholeStory /\ Told /\ Explained /\ [Next]_vars => Explained'
<1> SUFFICES ASSUME Typed, WholeStory, Told, Explained, [Next]_vars PROVE Explained'
  OBVIOUS
<1>1. CASE UNCHANGED <<watcher, got>>
  BY <1>1 DEF Explained, Closed, Saw
<1>2. CASE Play \/ Worker \/ RunCallback \/ UNCHANGED vars
  BY <1>1, <1>2
     DEF Play, StartFetch, FetchFails, Launch, Resume, FixtureUnreadable, Replay,
         ReplayVerdict, ReplayFails, Worker, WorkerEmits, WorkerRaises, WorkerWithholds,
         WorkerConcludes, WorkerReturns, RunCallback, readers, vars
<1>3. ASSUME NEW w \in Watchers, Subscribe(w) \/ Disconnect(w) PROVE Explained'
  <2>1. watcher'[w] # "closed"
    BY <1>3 DEF Subscribe, Disconnect, Unsubscribe, Typed, TypeOK
  <2>2. \A v \in Watchers \ {w} : watcher'[v] = watcher[v] /\ got'[v] = got[v]
    BY <1>3 DEF Subscribe, Disconnect, Unsubscribe, Typed, TypeOK
  <2>3. QED BY <2>1, <2>2 DEF Explained, Closed, Saw
<1>4. ASSUME NEW w \in Watchers, TakeDone(w) PROVE Explained'
  <2>1. finished /\ got[w] = events
    BY <1>4, DoneIsLast DEF TakeDone, Typed, Phases
  <2>2. got'[w] = got[w] /\ \A v \in Watchers \ {w} : watcher'[v] = watcher[v] /\ got'[v] = got[v]
    BY <1>4 DEF TakeDone, Unsubscribe, Typed, TypeOK
  <2>3. QED BY <2>1, <2>2 DEF Told, Contains, Explained, Closed, Saw
<1>5. ASSUME NEW w \in Watchers, TakeEvent(w) PROVE Explained'
  <2>1. \A v \in Watchers \ {w} : watcher'[v] = watcher[v] /\ got'[v] = got[v]
    BY <1>5 DEF TakeEvent, Unsubscribe, Typed, TypeOK
  <2>2. watcher'[w] = "closed" => Head(queue[w]) = "verdict"
    BY <1>5 DEF TakeEvent, Unsubscribe
  <2>3. got'[w] = Append(got[w], Head(queue[w])) /\ got[w] \in Seq(Events)
    BY <1>5 DEF TakeEvent, Typed, TypeOK
  <2>4. Len(got[w]) + 1 \in DOMAIN got'[w] /\ got'[w][Len(got[w]) + 1] = Head(queue[w])
    BY <2>3
  <2>5. QED BY <2>1, <2>2, <2>4 DEF Explained, Closed, Saw
<1>6. QED BY <1>2, <1>3, <1>4, <1>5 DEF Next, Take

(* A stream that was closed says how the run ended, and the run has one     *)
(* answer to give, on every way a play() or a worker can end.               *)
THEOREM EndsAreExplained == Spec => []EndIsExplained
<1>1. Init => Told /\ Explained
  BY DEF Init, Told, Explained, Closed
<1>2. Typed /\ Explained => EndIsExplained
  BY DEF Typed, Phases, Explained, EndIsExplained
<1>3. QED
  BY <1>1, <1>2, StoryAlways, TypeInit, ToldStep, ExplainedStep, PTL DEF Spec
=============================================================================
