-------------------------- MODULE AgentStream_proofs --------------------------
(***************************************************************************)
(* Proofs about AgentStream for every set of scripts and every queue size. *)
(***************************************************************************)
EXTENDS AgentStream, TLAPS

------------------------------------------------------------------------------
(* The inductive invariant *)

\* What the streamer has said so far: the frames that were sent, the one that is
\* being sent and the event that waits for the route.
Pending == IF route.pc = "sending" THEN Append(frames, route.frame) ELSE frames
Output == IF streamer.event \in {Nothing, Stop} THEN Pending ELSE Append(Pending, streamer.event)

\* The first k events of o are the first k chunks of the script s, all text.
TalkTo(s, o, k) ==
    /\ k \in Nat /\ k <= Len(o) /\ k <= Len(s)
    /\ \A i \in 1..k : o[i] = Token(i) /\ s[i] = "text"

\* The model makes its call after k chunks.
CallAt(s, k) == k < Len(s) /\ s[k + 1] = "call"

\* The answers a client may see: only text; text and the outcome of the call;
\* text and an error; everything there is; and that followed by "done".
Talk(s, o) == TalkTo(s, o, Len(o))
Answered(s, o) == /\ Len(o) > 0 /\ o[Len(o)] = Result
                  /\ TalkTo(s, o, Len(o) - 1) /\ CallAt(s, Len(o) - 1)
Failed(s, o) == Len(o) > 0 /\ o[Len(o)] = Error /\ TalkTo(s, o, Len(o) - 1)
Whole(s, o) == (Talk(s, o) /\ Len(o) = Len(s)) \/ Answered(s, o)
Completed(s, o) ==
    /\ Len(o) > 0 /\ o[Len(o)] = Done
    /\ \/ TalkTo(s, o, Len(o) - 1) /\ Len(o) - 1 = Len(s)
       \/ /\ Len(o) > 1 /\ o[Len(o) - 1] = Result
          /\ TalkTo(s, o, Len(o) - 2) /\ CallAt(s, Len(o) - 2)

\* No failure is among the first i items of the queue q.
Clean(q, i) == \A j \in 1..i : q[j] # Error

\* When c chunks of s have been taken off the queue q, it holds the next ones
\* and perhaps the end, up to the first failure.
InOrder(s, q, c) ==
    \A i \in 1..Len(q) : Clean(q, i) =>
        q[i] = Chunk(c + i) \/ (q[i] = End /\ c + i = Len(s) + 1)

\* If there is no failure in the queue, the thread t goes on where the queue ends.
GoesOn(s, q, t, c) ==
    Clean(q, Len(q)) =>
        /\ t.pc = "idle" => t.read = 0 /\ c + Len(q) = 0
        /\ t.pc = "reading" => c + Len(q) = t.read
        /\ t.pc = "putting" /\ t.item.kind = "chunk" =>
              t.item = Chunk(t.read) /\ c + Len(q) + 1 = t.read
        /\ t.pc = "putting" /\ t.item = End => t.read = Len(s) /\ c + Len(q) = Len(s)

\* The calls among the first c chunks.
CallsTo(s, c) == {n \in 1..c : s[n] = "call"}

\* While the model streams, the text so far has been said, up to the call, and
\* the calls so far have been collected.
Streaming(c) ==
    /\ InOrder(script, queue, c)
    /\ GoesOn(script, queue, thread, c)
    /\ streamer.event # Stop
    /\ Talk(script, Output)
    /\ streamer.calls = CallsTo(script, c)
    /\ streamer.calls # {} => CallAt(script, Len(Output))
    /\ streamer.calls = {} => Len(Output) = c

\* What has been said at each control point of the streamer.
SaidInv ==
    /\ \A i \in 1..Len(frames) : frames[i] # Error
    /\ streamer.pc = "streaming" => \E c \in 0..Len(script) : Streaming(c)
    /\ streamer.pc = "staging" =>
          streamer.event = Nothing /\ Talk(script, Output) /\ CallAt(script, Len(Output))
    /\ streamer.pc = "last" =>
          streamer.event # Stop /\ (Answered(script, Output) \/ Failed(script, Output))
    /\ streamer.pc = "finished" =>
          streamer.event = Stop /\ (Whole(script, Output) \/ Failed(script, Output))

\* What a client may have been sent when the response has ended.
EndedInv == \/ Talk(script, frames) \/ Answered(script, frames)
            \/ Failed(script, frames) \/ Completed(script, frames)

\* A result is on its way to the client, or there.
Told == \/ streamer.event = Result \/ route.frame = Result
        \/ \E i \in 1..Len(frames) : frames[i] = Result

\* What is staged, or about to be, is the whole call; a result stands for it.
StagedInv ==
    /\ staged \subseteq {CallChunks}
    /\ streamer.pc = "staging" => streamer.calls = CallChunks
    /\ Told => staged # {}

\* The invariant that is preserved by every step.
IInv ==
    /\ TypeOK
    /\ Open => SaidInv
    /\ ~Open => EndedInv
    /\ StagedInv

------------------------------------------------------------------------------
(* Items and events *)

\* The items of the queue and the events of the streamer are told apart by kind.
LEMMA Kinds ==
  /\ \A n : Chunk(n).kind = "chunk" /\ Chunk(n).n = n /\ Chunk(n) # End /\ Chunk(n) # Error
  /\ End.kind # "chunk" /\ Error.kind # "chunk" /\ End # Error
  /\ \A n : /\ Token(n).kind = "token" /\ Token(n).n = n
            /\ Token(n) \notin {Error, Result, Done, Stop, Nothing}
  /\ \A e \in {Error, Result, Done, Stop, Nothing} : e.kind # "token"
  /\ Error \notin {Result, Done, Stop, Nothing} /\ Result \notin {Done, Stop, Nothing}
  /\ Done \notin {Stop, Nothing} /\ Stop # Nothing
  BY DEF Chunk, End, Error, Token, Result, Done, Stop, Nothing

\* The shape of the state, variable by variable.
LEMMA TypeFacts ==
  ASSUME TypeOK
  PROVE  /\ script \in Seq({"text", "call"}) /\ Len(script) \in Nat
         /\ queue \in Seq(Items) /\ Len(queue) \in Nat
         /\ frames \in Seq(Events) /\ Len(frames) \in Nat
         /\ thread.read \in Nat /\ thread.read <= Len(script) /\ thread.item \in Items
         /\ streamer.event \in Events /\ route.frame \in Events
  <1>1. script \in Seq({"text", "call"})
    BY ScriptAssumption DEF TypeOK
  <1>2. Len(script) \in Nat
    BY <1>1
  <1>3. queue \in Seq(Items) /\ Len(queue) \in Nat /\ frames \in Seq(Events) /\ Len(frames) \in Nat
    BY DEF TypeOK
  <1>4. thread.read \in 0..Len(script) /\ thread.item \in Items
    BY DEF TypeOK
  <1> QED
    BY <1>1, <1>2, <1>3, <1>4 DEF TypeOK

\* The script does not change, so neither do the items and events it allows.
LEMMA SameScript ==
  ASSUME script' = script
  PROVE  Items' = Items /\ Events' = Events
  BY DEF Items, Events

------------------------------------------------------------------------------
(* Type correctness *)

\* The type of the thread, as in TypeOK.
ThreadType == [pc : {"idle", "reading", "putting", "done", "failed"},
               read : 0..Len(script), item : Items]

\* _enqueue_from_worker ends the thread or gives it the item to put.
LEMMA EnqueueType ==
  ASSUME NEW t \in ThreadType, NEW x \in Items
  PROVE  /\ Enqueue(t, x) \in ThreadType
         /\ Enqueue(t, x).read = t.read
         /\ stop => Enqueue(t, x).pc = "done"
         /\ ~stop => Enqueue(t, x).pc = "putting" /\ Enqueue(t, x).item = x
  BY DEF Enqueue, ThreadType

\* After its put the thread reads on, or is done.
LEMMA AfterPutType ==
  ASSUME NEW t \in ThreadType
  PROVE  /\ AfterPut(t) \in ThreadType
         /\ AfterPut(t).read = t.read
         /\ AfterPut(t).pc = IF t.item.kind = "chunk" THEN "reading" ELSE "done"
  BY DEF AfterPut, ThreadType

\* The thread's side of a step: a thread again, in the same stream.
LEMMA ThreadSteps ==
  ASSUME TypeOK, Thread
  PROVE  /\ thread' \in ThreadType
         /\ queue' \in Seq(Items) /\ Len(queue') <= SIZE
         /\ UNCHANGED <<script, producer, stop, streamer, staged, route, frames, gone>>
  <1>1. thread \in ThreadType /\ queue \in Seq(Items) /\ Len(queue) <= SIZE /\ SIZE \in Nat
    BY SizeAssumption DEF TypeOK, ThreadType
  <1>2. End \in Items /\ Error \in Items
    BY DEF Items
  <1>3. UNCHANGED <<script, producer, stop, streamer, staged, route, frames, gone>>
    BY DEF Thread, ThreadStarts, ThreadReads, ThreadRaises, PutLands, PutTimesOut, agent, client
  <1>4. ASSUME NEW x \in Items, Room PROVE Append(queue, x) \in Seq(Items) /\ Len(Append(queue, x)) <= SIZE
    BY <1>1, <1>4 DEF Room
  <1>5. thread.item \in Items
    BY <1>1 DEF ThreadType
  <1>6. CASE ThreadStarts
    BY <1>1, <1>3, <1>6 DEF ThreadStarts, ThreadType
  <1>7. CASE ThreadReads
    <2>1. CASE thread.read < Len(script)
      <3> DEFINE t == [thread EXCEPT !.read = thread.read + 1]
      <3>1. Len(script) \in Nat /\ thread.read \in 0..Len(script)
        BY <1>1, TypeFacts DEF ThreadType
      <3>2. thread.read + 1 \in 1..Len(script)
        BY <2>1, <3>1
      <3>3. Chunk(thread.read + 1) \in Items
        BY <3>2 DEF Items
      <3>4. t \in ThreadType
        BY <1>1, <3>1, <3>2 DEF ThreadType
      <3>5. thread' = Enqueue(t, Chunk(thread.read + 1)) /\ queue' = queue
        BY <1>7, <2>1 DEF ThreadReads
      <3> HIDE DEF t
      <3> QED
        BY <1>1, <1>3, <3>3, <3>4, <3>5, EnqueueType
    <2>2. CASE ~(thread.read < Len(script))
      BY <1>1, <1>2, <1>3, <1>7, <2>2, EnqueueType DEF ThreadReads
    <2> QED
      BY <2>1, <2>2
  <1>8. CASE ThreadRaises
    BY <1>1, <1>2, <1>3, <1>8, EnqueueType DEF ThreadRaises
  <1>9. CASE PutLands
    BY <1>1, <1>3, <1>4, <1>5, <1>9, AfterPutType DEF PutLands
  <1>10. CASE PutTimesOut
    <2>1. thread' \in ThreadType
      <3>1. CASE thread.item = Error
        BY <1>1, <1>10, <3>1 DEF PutTimesOut, ThreadType
      <3>2. CASE thread.item # Error
        BY <1>1, <1>2, <1>10, <3>2, EnqueueType DEF PutTimesOut
      <3> QED
        BY <3>1, <3>2
    <2>2. queue' = queue \/ (Room /\ queue' = Append(queue, thread.item))
      BY <1>10 DEF PutTimesOut
    <2> QED
      BY <1>1, <1>3, <1>4, <1>5, <2>1, <2>2
  <1> QED
    BY <1>6, <1>7, <1>8, <1>9, <1>10 DEF Thread

\* aclose keeps the queue within its size.
LEMMA CloseType ==
  ASSUME NEW q \in Seq(Items), Len(q) <= SIZE, CloseBridge(q)
  PROVE  stop' = TRUE /\ queue' \in Seq(Items) /\ Len(queue') <= SIZE
  <1>1. End \in Items /\ SIZE \in Nat
    BY SizeAssumption DEF Items
  <1> QED
    BY <1>1 DEF CloseBridge

\* A yield sets the event and the control point, and nothing else.
LEMMA YieldType ==
  ASSUME TypeOK, NEW e \in Events, NEW pc \in {"streaming", "staging", "last", "finished"},
         Yield(e, pc)
  PROVE  /\ streamer' \in [pc : {"streaming", "staging", "last", "finished"},
                           calls : SUBSET (1..Len(script)), event : Events]
         /\ streamer'.event = e /\ streamer'.pc = pc /\ streamer'.calls = streamer.calls
  BY DEF Yield, TypeOK

\* The streamer's side of a step.
LEMMA StreamerSteps ==
  ASSUME TypeOK, Streamer
  PROVE  /\ streamer' \in [pc : {"streaming", "staging", "last", "finished"},
                           calls : SUBSET (1..Len(script)), event : Events]
         /\ queue' \in Seq(Items) /\ Len(queue') <= SIZE
         /\ stop' \in BOOLEAN /\ staged' \in SUBSET SUBSET (1..Len(script))
         /\ UNCHANGED <<script, thread, producer, route, frames, gone>>
  <1>1. queue \in Seq(Items) /\ Len(queue) <= SIZE /\ SIZE \in Nat /\ stop \in BOOLEAN
        /\ staged \in SUBSET SUBSET (1..Len(script)) /\ streamer.calls \in SUBSET (1..Len(script))
    BY SizeAssumption DEF TypeOK
  <1>2. Error \in Events /\ Result \in Events /\ Stop \in Events /\ Nothing \in Events
    BY DEF Events
  <1>3. UNCHANGED <<script, thread, producer, route, frames, gone>>
    BY DEF Streamer, GetsChunk, GetsEnd, GetsError, GetTimesOut, StagesTool, Finishes, Finalised,
           bridge, client
  <1>4. queue # <<>> => Tail(queue) \in Seq(Items) /\ Len(Tail(queue)) <= SIZE /\ Head(queue) \in Items
    BY <1>1
  <1>5. CASE GetsChunk
    <2>1. /\ Head(queue).kind = "chunk" /\ queue # <<>>
          /\ queue' = Tail(queue) /\ UNCHANGED <<stop, staged>>
      BY <1>5 DEF GetsChunk
    <2>2. Head(queue).n \in 1..Len(script)
      BY <1>4, <2>1, Kinds DEF Items
    <2>3. PICK n : n = Head(queue).n
      OBVIOUS
    <2>4. Token(n) \in Events
      BY <2>2, <2>3 DEF Events
    <2>5. PICK calls : calls = streamer.calls \cup {m \in {n} : script[m] = "call"}
      OBVIOUS
    <2>6. calls \in SUBSET (1..Len(script))
      BY <1>1, <2>2, <2>3, <2>5
    <2>7. \E e \in Events : streamer' = [streamer EXCEPT !.calls = calls, !.event = e]
      BY <1>2, <1>5, <2>3, <2>4, <2>5 DEF GetsChunk
    <2>8. streamer' \in [pc : {"streaming", "staging", "last", "finished"},
                        calls : SUBSET (1..Len(script)), event : Events]
      BY <2>6, <2>7 DEF TypeOK
    <2> QED
      BY <1>1, <1>3, <1>4, <2>1, <2>8
  <1>6. CASE GetsEnd
    <2>1. queue # <<>> /\ CloseBridge(Tail(queue)) /\ staged' = staged
      BY <1>6 DEF GetsEnd
    <2>2. Yield(Stop, "finished") \/ Yield(Nothing, "staging") \/ Yield(Error, "last")
      BY <1>6 DEF GetsEnd
    <2> QED
      BY <1>1, <1>2, <1>3, <1>4, <2>1, <2>2, CloseType, YieldType
  <1>7. CASE GetsError
    BY <1>1, <1>2, <1>3, <1>4, <1>7, CloseType, YieldType DEF GetsError
  <1>8. CASE GetTimesOut
    BY <1>1, <1>2, <1>3, <1>8, CloseType, YieldType DEF GetTimesOut
  <1>9. CASE StagesTool
    <2>1. /\ staged' \in SUBSET SUBSET (1..Len(script)) /\ UNCHANGED <<queue, stop>>
          /\ Yield(Result, "last") \/ Yield(Error, "last")
      BY <1>1, <1>9 DEF StagesTool, MayStage, bridge
    <2> QED
      BY <1>1, <1>2, <1>3, <2>1, YieldType
  <1>10. CASE Finishes
    BY <1>1, <1>2, <1>3, <1>10, YieldType DEF Finishes, bridge
  <1>11. CASE Finalised
    <2>1. staged' \in SUBSET SUBSET (1..Len(script))
      BY <1>1, <1>11 DEF Finalised, MayStage
    <2> QED
      BY <1>1, <1>2, <1>3, <1>11, <2>1, CloseType, YieldType DEF Finalised
  <1> QED
    BY <1>5, <1>6, <1>7, <1>8, <1>9, <1>10, <1>11 DEF Streamer

\* The route's side of a step.
LEMMA RouteSteps ==
  ASSUME TypeOK, Route
  PROVE  /\ streamer' \in [pc : {"streaming", "staging", "last", "finished"},
                           calls : SUBSET (1..Len(script)), event : Events]
         /\ route' \in [pc : {"waiting", "sending", "closing", "ended"}, frame : Events]
         /\ frames' \in Seq(Events)
         /\ UNCHANGED <<script, thread, producer, queue, stop, gone, staged>>
  <1>1. /\ frames \in Seq(Events)
        /\ streamer.event \in Events /\ route.frame \in Events
    BY TypeFacts DEF TypeOK
  <1>2. Done \in Events /\ Nothing \in Events
    BY DEF Events
  <1>3. UNCHANGED <<script, thread, producer, queue, stop, gone, staged>>
    BY DEF Route, RouteTakesEvent, RouteSends, RouteBreaks, RouteDisconnected, RouteEnds, bridge, agent
  <1>4. ASSUME NEW sent \in Seq(Events), RouteCloses(sent)
        PROVE  /\ route' \in [pc : {"waiting", "sending", "closing", "ended"}, frame : Events]
               /\ frames' \in Seq(Events)
    BY <1>1, <1>2, <1>4 DEF RouteCloses
  <1>5. CASE RouteTakesEvent
    BY <1>1, <1>2, <1>3, <1>5 DEF RouteTakesEvent, TypeOK
  <1>6. CASE RouteSends
    <2>1. streamer' = streamer /\ Append(frames, route.frame) \in Seq(Events)
      BY <1>1, <1>6 DEF RouteSends, agent
    <2>2. CASE route.frame = Error
      BY <1>3, <1>4, <1>6, <2>1, <2>2 DEF RouteSends, TypeOK
    <2>3. CASE route.frame # Error
      <3>1. /\ route' = [pc |-> "waiting", frame |-> Nothing]
            /\ frames' = Append(frames, route.frame)
        BY <1>6, <2>3 DEF RouteSends
      <3>2. route' \in [pc : {"waiting", "sending", "closing", "ended"}, frame : Events]
        BY <1>2, <3>1
      <3> QED
        BY <1>1, <1>3, <2>1, <3>1, <3>2 DEF TypeOK
    <2> QED
      BY <2>2, <2>3
  <1>7. CASE RouteBreaks
    <2>1. streamer' = streamer /\ Append(frames, Done) \in Seq(Events)
      BY <1>1, <1>2, <1>7 DEF RouteBreaks, agent
    <2> QED
      BY <1>3, <1>4, <1>7, <2>1 DEF RouteBreaks, TypeOK
  <1>8. CASE RouteDisconnected
    BY <1>1, <1>3, <1>4, <1>8 DEF RouteDisconnected, TypeOK, agent
  <1>9. CASE RouteEnds
    BY <1>3, <1>9 DEF RouteEnds, TypeOK, agent
  <1> QED
    BY <1>5, <1>6, <1>7, <1>8, <1>9 DEF Route

\* Types alone are inductive here.
LEMMA NextTypeOK ==
  ASSUME TypeOK, [Next]_vars
  PROVE  TypeOK' /\ script' = script
  <1>1. CASE Thread
    <2>1. script' = script /\ Items' = Items /\ Events' = Events
      BY <1>1, ThreadSteps, SameScript
    <2> QED
      BY <1>1, <2>1, ThreadSteps DEF TypeOK, ThreadType
  <1>2. CASE Producer
    <2>1. /\ UNCHANGED <<script, thread, stop, streamer, staged, route, frames, gone>>
          /\ producer' \in {"running", "putting", "done"}
      BY <1>2 DEF Producer, ProducerReturns, ProducerTimesOut, ProducerPuts, agent, client
    <2>2. Error \in Items /\ SIZE \in Nat
      BY SizeAssumption DEF Items
    <2>3. queue' = queue \/ (Room /\ queue' = Append(queue, Error))
      BY <1>2 DEF Producer, ProducerReturns, ProducerTimesOut, ProducerPuts
    <2>4. queue' \in Seq(Items) /\ Len(queue') <= SIZE
      <3>1. queue \in Seq(Items) /\ Len(queue) <= SIZE /\ Len(queue) \in Nat
        BY DEF TypeOK
      <3>2. CASE queue' = queue
        BY <3>1, <3>2
      <3>3. CASE Room /\ queue' = Append(queue, Error)
        BY <2>2, <3>1, <3>3 DEF Room
      <3> QED
        BY <2>3, <3>2, <3>3
    <2> QED
      BY <2>1, <2>4, SameScript DEF TypeOK
  <1>3. CASE Streamer
    BY <1>3, StreamerSteps, SameScript DEF TypeOK
  <1>4. CASE Route
    BY <1>4, RouteSteps, SameScript DEF TypeOK
  <1>5. CASE Disconnect
    BY <1>5, SameScript DEF TypeOK, Disconnect, bridge, agent
  <1>6. CASE UNCHANGED vars
    BY <1>6, SameScript DEF TypeOK, vars
  <1> QED
    BY <1>1, <1>2, <1>3, <1>4, <1>5, <1>6 DEF Next

------------------------------------------------------------------------------
(* What has been said *)

\* The frames are the beginning of the output; the frame being sent is next.
LEMMA OutputFacts ==
  ASSUME TypeOK
  PROVE  /\ Output \in Seq(Events) /\ Pending \in Seq(Events)
         /\ Len(Output) \in Nat /\ Len(frames) <= Len(Output)
         /\ \A i \in 1..Len(frames) : Output[i] = frames[i]
         /\ route.pc = "sending" =>
               Len(frames) + 1 <= Len(Output) /\ Output[Len(frames) + 1] = route.frame
         /\ streamer.event \in {Nothing, Stop} => Output = Pending
         /\ route.pc # "sending" => Pending = frames
         /\ route.pc = "sending" => Pending = Append(frames, route.frame)
         /\ streamer.event \notin {Nothing, Stop} => Output = Append(Pending, streamer.event)
  <1>1. /\ frames \in Seq(Events) /\ Len(frames) \in Nat
        /\ streamer.event \in Events /\ route.frame \in Events
    BY TypeFacts
  <1>2. /\ Pending \in Seq(Events) /\ Len(Pending) \in Nat /\ Len(frames) <= Len(Pending)
        /\ \A i \in 1..Len(frames) : Pending[i] = frames[i]
        /\ route.pc = "sending" => Len(frames) + 1 <= Len(Pending) /\ Pending[Len(frames) + 1] = route.frame
    BY <1>1 DEF Pending
  <1>3. /\ Output \in Seq(Events) /\ Len(Output) \in Nat /\ Len(Pending) <= Len(Output)
        /\ \A i \in 1..Len(Pending) : Output[i] = Pending[i]
    BY <1>1, <1>2 DEF Output
  <1> QED
    BY <1>1, <1>2, <1>3 DEF Output, Pending

\* How an answer may go on.
LEMMA TalkGoesOn ==
  ASSUME NEW S, NEW s \in Seq({"text", "call"}), NEW o \in Seq(S), Talk(s, o)
  PROVE  /\ \A x \in S : x = Token(Len(o) + 1) /\ Len(o) < Len(s) /\ s[Len(o) + 1] = "text"
               => Talk(s, Append(o, x))
         /\ Result \in S /\ CallAt(s, Len(o)) => Answered(s, Append(o, Result))
         /\ Error \in S => Failed(s, Append(o, Error))
  <1>1. Len(o) \in Nat /\ Len(s) \in Nat
    OBVIOUS
  <1>2. ASSUME NEW x \in S
        PROVE  /\ Len(Append(o, x)) = Len(o) + 1 /\ Append(o, x)[Len(o) + 1] = x
               /\ \A i \in 1..Len(o) : Append(o, x)[i] = o[i]
    OBVIOUS
  <1>3. ASSUME NEW x \in S PROVE TalkTo(s, Append(o, x), Len(o))
    BY <1>1, <1>2 DEF Talk, TalkTo
  <1>4. ASSUME NEW x \in S, x = Token(Len(o) + 1), Len(o) < Len(s), s[Len(o) + 1] = "text"
        PROVE  Talk(s, Append(o, x))
    BY <1>1, <1>2, <1>3, <1>4 DEF Talk, TalkTo
  <1>5. ASSUME NEW x \in S
        PROVE  Len(Append(o, x)) > 0 /\ Len(Append(o, x)) - 1 = Len(o)
    BY <1>1, <1>2
  <1> QED
    BY <1>2, <1>3, <1>4, <1>5 DEF Answered, Failed

\* "done" completes an answer that is whole.
LEMMA WholeCompletes ==
  ASSUME NEW S, NEW s \in Seq({"text", "call"}), NEW o \in Seq(S), Done \in S, Whole(s, o)
  PROVE  Completed(s, Append(o, Done))
  <1>1. Len(o) \in Nat /\ Len(s) \in Nat
    OBVIOUS
  <1> DEFINE d == Append(o, Done)
  <1>2. /\ Len(d) = Len(o) + 1 /\ d[Len(o) + 1] = Done
        /\ \A i \in 1..Len(o) : d[i] = o[i]
    OBVIOUS
  <1> HIDE DEF d
  <1>3. \A k \in Nat : TalkTo(s, o, k) => TalkTo(s, d, k)
    BY <1>1, <1>2 DEF TalkTo
  <1>4. ASSUME Talk(s, o), Len(o) = Len(s) PROVE Completed(s, d)
    <2>1. Len(d) - 1 = Len(o) /\ Len(d) > 0
      BY <1>1, <1>2
    <2> QED
      BY <1>1, <1>2, <1>3, <1>4, <2>1 DEF Talk, Completed
  <1>5. ASSUME Answered(s, o) PROVE Completed(s, d)
    <2>1. /\ Len(o) > 0 /\ o[Len(o)] = Result /\ Len(o) - 1 \in Nat
          /\ TalkTo(s, o, Len(o) - 1) /\ CallAt(s, Len(o) - 1)
      BY <1>1, <1>5 DEF Answered
    <2>2. Len(d) - 1 = Len(o) /\ Len(d) - 2 = Len(o) - 1 /\ Len(d) > 1
      BY <1>1, <1>2, <2>1
    <2>3. d[Len(d) - 1] = Result /\ TalkTo(s, d, Len(d) - 2) /\ CallAt(s, Len(d) - 2) /\ d[Len(d)] = Done
      BY <1>1, <1>2, <1>3, <2>1, <2>2
    <2> QED
      BY <2>2, <2>3 DEF Completed
  <1> QED
    BY <1>4, <1>5 DEF Whole, d

\* The beginning of an answer that is not completed is one too.
LEMMA PrefixIsAnswer ==
  ASSUME NEW S, NEW s \in Seq({"text", "call"}), NEW o \in Seq(S), NEW f \in Seq(S),
         Len(f) <= Len(o), \A i \in 1..Len(f) : o[i] = f[i],
         Talk(s, o) \/ Answered(s, o) \/ Failed(s, o)
  PROVE  Talk(s, f) \/ Answered(s, f) \/ Failed(s, f)
  <1>1. Len(o) \in Nat /\ Len(f) \in Nat /\ Len(s) \in Nat
    OBVIOUS
  <1>2. \A k \in Nat : TalkTo(s, o, k) /\ k <= Len(f) => TalkTo(s, f, k)
    BY <1>1 DEF TalkTo
  <1>3. CASE Len(f) = Len(o)
    <2>1. Len(o) > 0 => o[Len(o)] = f[Len(f)]
      BY <1>1, <1>3
    <2> QED
      BY <1>1, <1>2, <1>3, <2>1 DEF Talk, Answered, Failed
  <1>4. CASE Len(f) < Len(o)
    <2>1. \A k \in Nat : Len(f) <= k /\ TalkTo(s, o, k) => TalkTo(s, f, Len(f))
      BY <1>1 DEF TalkTo
    <2>2. Len(f) <= Len(o) - 1 /\ Len(o) - 1 \in Nat
      BY <1>1, <1>4
    <2> QED
      BY <1>1, <2>1, <2>2 DEF Talk, Answered, Failed
  <1> QED
    BY <1>1, <1>3, <1>4

------------------------------------------------------------------------------
(* The bridge *)

\* Steps of the thread and the producer put the next chunk into the queue, or
\* the end after the last one, or a failure.
LEMMA BridgeSteps ==
  ASSUME TypeOK, Thread \/ Producer, NEW c \in 0..Len(script),
         InOrder(script, queue, c), GoesOn(script, queue, thread, c)
  PROVE  InOrder(script, queue', c) /\ GoesOn(script, queue', thread', c)
  <1>1. /\ Len(script) \in Nat /\ queue \in Seq(Items) /\ Len(queue) \in Nat /\ c \in Nat
        /\ thread.read \in Nat /\ thread.item \in Items /\ thread \in ThreadType
    BY TypeFacts DEF TypeOK, ThreadType
  <1>2. End \in Items /\ Error \in Items
    BY DEF Items
  <1>3. ASSUME NEW x \in Items
        PROVE  /\ Len(Append(queue, x)) = Len(queue) + 1 /\ Append(queue, x)[Len(queue) + 1] = x
               /\ \A i \in 1..Len(queue) : Append(queue, x)[i] = queue[i]
    BY <1>1
  \* Appending: the new item is the next chunk, the end, or a failure.
  <1>4. ASSUME NEW x \in Items, NEW q, q = Append(queue, x),
               \/ ~Clean(queue, Len(queue))
               \/ x = Error
               \/ x = Chunk(c + Len(queue) + 1)
               \/ x = End /\ c + Len(queue) = Len(script)
        PROVE  /\ InOrder(script, q, c)
               /\ Clean(q, Len(q)) => Clean(queue, Len(queue)) /\ x # Error
    <2>1. /\ Len(q) = Len(queue) + 1 /\ q[Len(queue) + 1] = x
          /\ \A i \in 1..Len(queue) : q[i] = queue[i]
      BY <1>3, <1>4
    <2>2. \A i \in 1..Len(queue) : Clean(q, i) <=> Clean(queue, i)
      BY <1>1, <2>1 DEF Clean
    <2>3. Clean(q, Len(queue) + 1) => Clean(queue, Len(queue)) /\ x # Error
      BY <1>1, <2>1 DEF Clean
    <2>4. ASSUME NEW i \in 1..Len(q), Clean(q, i)
          PROVE  q[i] = Chunk(c + i) \/ (q[i] = End /\ c + i = Len(script) + 1)
      <3>1. CASE i \in 1..Len(queue)
        BY <2>1, <2>2, <2>4, <3>1 DEF InOrder
      <3>2. CASE i = Len(queue) + 1
        <4>1. x = Chunk(c + Len(queue) + 1) \/ (x = End /\ c + Len(queue) = Len(script))
          BY <1>4, <2>3, <2>4, <3>2
        <4>2. c + i = c + Len(queue) + 1 /\ (c + Len(queue) = Len(script) => c + i = Len(script) + 1)
          BY <1>1, <3>2
        <4> QED
          BY <2>1, <3>2, <4>1, <4>2
      <3> QED
        BY <1>1, <2>1, <3>1, <3>2
    <2> QED
      BY <2>1, <2>3, <2>4 DEF InOrder
  <1>5. ASSUME thread'.pc \in {"done", "failed"} \/ (thread'.pc = "putting" /\ thread'.item = Error),
               NEW q
        PROVE  GoesOn(script, q, thread', c)
    BY <1>5, Kinds DEF GoesOn
  <1>6. CASE ThreadStarts
    <2>1. queue' = queue
      BY <1>6 DEF ThreadStarts
    <2>2. \/ thread'.pc \in {"done", "failed"}
          \/ thread'.pc = "reading" /\ thread'.read = thread.read /\ thread.pc = "idle"
      BY <1>1, <1>6 DEF ThreadStarts, ThreadType
    <2>3. CASE thread'.pc = "reading" /\ thread'.read = thread.read /\ thread.pc = "idle"
      BY <1>1, <2>1, <2>3 DEF GoesOn
    <2> QED
      BY <1>5, <2>1, <2>2, <2>3
  <1>7. CASE ThreadReads
    <2>1. queue' = queue /\ thread.pc = "reading"
      BY <1>7 DEF ThreadReads
    <2>2. Clean(queue, Len(queue)) => c + Len(queue) = thread.read
      BY <2>1 DEF GoesOn
    <2>3. CASE thread.read < Len(script)
      <3> DEFINE t == [thread EXCEPT !.read = thread.read + 1]
                 n == thread.read + 1
      <3>1. n \in 1..Len(script)
        BY <1>1, <2>3
      <3>2. t \in ThreadType /\ t.read = n
        BY <1>1, <3>1 DEF ThreadType
      <3>3. Chunk(n) \in Items
        BY <3>1 DEF Items
      <3>4. thread' = Enqueue(t, Chunk(n))
        BY <1>7, <2>3 DEF ThreadReads
      <3>5. Clean(queue, Len(queue)) => c + Len(queue) + 1 = n
        BY <1>1, <2>2
      <3> HIDE DEF t, n
      <3>6. \/ thread'.pc = "done"
            \/ thread'.pc = "putting" /\ thread'.item = Chunk(n) /\ thread'.read = n
        BY <3>2, <3>3, <3>4, EnqueueType
      <3>7. CASE thread'.pc = "putting" /\ thread'.item = Chunk(n) /\ thread'.read = n
        BY <2>1, <3>5, <3>7, Kinds DEF GoesOn
      <3> QED
        BY <1>5, <2>1, <3>6, <3>7
    <2>4. CASE ~(thread.read < Len(script))
      <3>1. thread.read = Len(script)
        BY <1>1, <2>4, TypeFacts
      <3>2. thread' = Enqueue(thread, End)
        BY <1>7, <2>4 DEF ThreadReads
      <3>3. \/ thread'.pc = "done"
            \/ thread'.pc = "putting" /\ thread'.item = End /\ thread'.read = Len(script)
        BY <1>1, <1>2, <3>1, <3>2, EnqueueType
      <3>4. CASE thread'.pc = "putting" /\ thread'.item = End /\ thread'.read = Len(script)
        BY <2>1, <2>2, <3>1, <3>4, Kinds DEF GoesOn
      <3> QED
        BY <1>5, <2>1, <3>3, <3>4
    <2> QED
      BY <2>3, <2>4
  <1>8. CASE ThreadRaises
    <2>1. queue' = queue /\ thread' = Enqueue(thread, Error)
      BY <1>8 DEF ThreadRaises
    <2>2. thread'.pc = "done" \/ (thread'.pc = "putting" /\ thread'.item = Error)
      BY <1>1, <1>2, <2>1, EnqueueType
    <2> QED
      BY <1>5, <2>1, <2>2
  \* What the thread is putting may come next.
  <1>9. ASSUME thread.pc = "putting"
        PROVE  \/ ~Clean(queue, Len(queue))
               \/ thread.item = Error
               \/ thread.item = Chunk(c + Len(queue) + 1)
               \/ thread.item = End /\ c + Len(queue) = Len(script)
    <2>1. thread.item = Error \/ thread.item = End \/ thread.item.kind = "chunk"
      BY <1>1, Kinds DEF Items
    <2> QED
      BY <1>9, <2>1 DEF GoesOn
  <1>10. CASE PutLands
    <2>1. thread.pc = "putting" /\ queue' = Append(queue, thread.item) /\ thread' = AfterPut(thread)
      BY <1>10 DEF PutLands
    <2>2. /\ InOrder(script, queue', c)
          /\ Clean(queue', Len(queue')) => Clean(queue, Len(queue))
      BY <1>1, <1>4, <1>9, <2>1
    <2>3. /\ thread'.read = thread.read
          /\ thread'.pc = IF thread.item.kind = "chunk" THEN "reading" ELSE "done"
      BY <1>1, <2>1, AfterPutType
    <2>4. CASE thread.item.kind = "chunk"
      <3>1. Len(queue') = Len(queue) + 1
        BY <1>1, <1>3, <2>1
      <3>2. Clean(queue, Len(queue)) => c + Len(queue) + 1 = thread.read
        BY <2>1, <2>4 DEF GoesOn
      <3>3. Clean(queue, Len(queue)) => c + Len(queue') = thread.read
        BY <1>1, <3>1, <3>2
      <3> QED
        BY <2>2, <2>3, <2>4, <3>3 DEF GoesOn
    <2>5. CASE thread.item.kind # "chunk"
      BY <1>5, <2>2, <2>3, <2>5
    <2> QED
      BY <2>4, <2>5
  <1>11. CASE PutTimesOut
    <2>1. thread.pc = "putting"
      BY <1>11 DEF PutTimesOut
    <2>2. InOrder(script, queue', c)
      BY <1>1, <1>4, <1>9, <1>11, <2>1 DEF PutTimesOut
    <2>3. CASE thread.item = Error
      <3>1. thread' = [thread EXCEPT !.pc = "failed"]
        BY <1>11, <2>3 DEF PutTimesOut
      <3>2. thread'.pc = "failed"
        BY <1>1, <3>1 DEF ThreadType
      <3> QED
        BY <1>5, <2>2, <3>2
    <2>4. CASE thread.item # Error
      <3>1. thread' = Enqueue(thread, Error)
        BY <1>11, <2>4 DEF PutTimesOut
      <3>2. thread'.pc = "done" \/ (thread'.pc = "putting" /\ thread'.item = Error)
        BY <1>1, <1>2, <3>1, EnqueueType
      <3> QED
        BY <1>5, <2>2, <3>2
    <2> QED
      BY <2>3, <2>4
  <1>12. CASE Producer
    <2>1. thread' = thread
      BY <1>12 DEF Producer, ProducerReturns, ProducerTimesOut, ProducerPuts
    <2>2. queue' = queue \/ queue' = Append(queue, Error)
      BY <1>12 DEF Producer, ProducerReturns, ProducerTimesOut, ProducerPuts
    <2>3. CASE queue' = queue
      BY <2>1, <2>3
    <2>4. CASE queue' = Append(queue, Error)
      BY <1>2, <1>4, <2>1, <2>4 DEF GoesOn
    <2> QED
      BY <2>2, <2>3, <2>4
  <1> QED
    BY <1>6, <1>7, <1>8, <1>10, <1>11, <1>12 DEF Thread

\* The streamer takes the head of the queue: it is the next chunk, or the end
\* after the last one, or a failure.
LEMMA TakeHead ==
  ASSUME TypeOK, NEW c \in 0..Len(script), queue # <<>>,
         InOrder(script, queue, c), GoesOn(script, queue, thread, c)
  PROVE  /\ Head(queue) = End => c = Len(script)
         /\ Head(queue).kind = "chunk" =>
               /\ Head(queue) = Chunk(c + 1) /\ c + 1 \in 1..Len(script)
               /\ InOrder(script, Tail(queue), c + 1)
               /\ GoesOn(script, Tail(queue), thread, c + 1)
  <1>1. /\ Len(script) \in Nat /\ queue \in Seq(Items) /\ Len(queue) \in Nat /\ c \in Nat
        /\ thread.read \in Nat
    BY TypeFacts
  <1>2. /\ Len(queue) >= 1 /\ Head(queue) = queue[1] /\ queue[1] \in Items
        /\ Len(Tail(queue)) = Len(queue) - 1
        /\ \A i \in 1..Len(Tail(queue)) : Tail(queue)[i] = queue[i + 1]
    BY <1>1
  <1>3. ASSUME queue[1] # Error
        PROVE  queue[1] = Chunk(c + 1) \/ (queue[1] = End /\ c + 1 = Len(script) + 1)
    <2>1. Clean(queue, 1) /\ 1 \in 1..Len(queue)
      BY <1>1, <1>2, <1>3 DEF Clean
    <2> QED
      BY <2>1 DEF InOrder
  <1>4. Head(queue) = End => c = Len(script)
    BY <1>1, <1>2, <1>3, Kinds
  <1>5. ASSUME Head(queue).kind = "chunk"
        PROVE  /\ Head(queue) = Chunk(c + 1) /\ c + 1 \in 1..Len(script)
               /\ InOrder(script, Tail(queue), c + 1)
               /\ GoesOn(script, Tail(queue), thread, c + 1)
    <2>1. queue[1] = Chunk(c + 1) /\ queue[1] # Error
      BY <1>2, <1>3, <1>5, Kinds
    <2>2. c + 1 \in 1..Len(script)
      BY <1>2, <2>1, Kinds DEF Items
    <2> DEFINE q == Tail(queue)
    <2>3. Len(q) \in Nat /\ Len(queue) = Len(q) + 1 /\ \A i \in 1..Len(q) : q[i] = queue[i + 1]
      BY <1>1, <1>2
    <2> HIDE DEF q
    <2>4. ASSUME NEW i \in 0..Len(q), Clean(q, i) PROVE Clean(queue, i + 1)
      <3> SUFFICES ASSUME NEW j \in 1..(i + 1) PROVE queue[j] # Error
        BY DEF Clean
      <3>1. CASE j = 1
        BY <2>1, <3>1
      <3>2. CASE j # 1
        <4>1. j - 1 \in 1..i /\ j - 1 \in 1..Len(q) /\ (j - 1) + 1 = j
          BY <2>3, <3>2
        <4>2. q[j - 1] # Error
          BY <2>4, <4>1 DEF Clean
        <4>3. q[j - 1] = queue[(j - 1) + 1]
          BY <2>3, <4>1
        <4> QED
          BY <4>1, <4>2, <4>3
      <3> QED
        BY <3>1, <3>2
    <2>5. InOrder(script, q, c + 1)
      <3> SUFFICES ASSUME NEW i \in 1..Len(q), Clean(q, i)
                   PROVE  q[i] = Chunk(c + 1 + i) \/ (q[i] = End /\ c + 1 + i = Len(script) + 1)
        BY DEF InOrder
      <3>1. i + 1 \in 1..Len(queue) /\ Clean(queue, i + 1) /\ c + (i + 1) = c + 1 + i
        BY <1>1, <2>3, <2>4
      <3>2. queue[i + 1] = Chunk(c + (i + 1)) \/ (queue[i + 1] = End /\ c + (i + 1) = Len(script) + 1)
        BY <3>1 DEF InOrder
      <3> QED
        BY <2>3, <3>1, <3>2
    <2>6. Clean(q, Len(q)) => Clean(queue, Len(queue))
      BY <2>3, <2>4
    <2>7. c + Len(queue) = c + 1 + Len(q)
      BY <1>1, <2>3
    <2>8. GoesOn(script, q, thread, c + 1)
      <3>1. c + Len(queue) # 0
        BY <1>1, <1>2
      <3> QED
        BY <2>6, <2>7, <3>1 DEF GoesOn
    <2> QED
      BY <1>2, <2>1, <2>2, <2>5, <2>8 DEF q
  <1> QED
    BY <1>4, <1>5

------------------------------------------------------------------------------
(* Preservation *)

\* Nothing has been said and nothing read.
LEMMA InitIInv == Init => IInv
  <1> SUFFICES ASSUME Init PROVE IInv
    OBVIOUS
  <1>1. script \in Scripts /\ script \in Seq({"text", "call"}) /\ Len(script) \in Nat
    BY ScriptAssumption DEF Init
  <1>2. TypeOK
    <2>1. End \in Items /\ Nothing \in Events /\ <<>> \in Seq(Items) /\ <<>> \in Seq(Events)
      BY DEF Items, Events
    <2>2. thread \in [pc : {"idle", "reading", "putting", "done", "failed"},
                     read : 0..Len(script), item : Items]
      BY <1>1, <2>1 DEF Init
    <2>3. /\ streamer \in [pc : {"streaming", "staging", "last", "finished"},
                           calls : SUBSET (1..Len(script)), event : Events]
          /\ route \in [pc : {"waiting", "sending", "closing", "ended"}, frame : Events]
      BY <2>1 DEF Init
    <2>4. queue \in Seq(Items) /\ Len(queue) <= SIZE /\ frames \in Seq(Events)
      BY <2>1, SizeAssumption DEF Init
    <2> QED
      BY <1>1, <2>2, <2>3, <2>4 DEF Init, TypeOK
  <1>3. Output = <<>> /\ frames = <<>> /\ queue = <<>> /\ streamer.event # Stop
    BY Kinds DEF Init, Output, Pending
  <1>4. Talk(script, Output) /\ Len(Output) = 0
    BY <1>1, <1>3 DEF Talk, TalkTo
  <1>5. InOrder(script, queue, 0) /\ GoesOn(script, queue, thread, 0)
    BY <1>1, <1>3 DEF Init, InOrder, GoesOn
  <1>6. Streaming(0) /\ 0 \in 0..Len(script)
    BY <1>1, <1>3, <1>4, <1>5 DEF Streaming, Init, CallsTo
  <1>7. SaidInv
    BY <1>3, <1>6 DEF SaidInv, Init
  <1>8. StagedInv
    BY <1>3, Kinds DEF StagedInv, Told, Init
  <1> QED
    BY <1>2, <1>7, <1>8 DEF IInv, Init, Open

\* Steps that only touch the bridge say nothing.
LEMMA NothingSaid ==
  ASSUME SaidInv, UNCHANGED <<script, streamer, route, frames>>,
         \A c \in 0..Len(script) :
            InOrder(script, queue, c) /\ GoesOn(script, queue, thread, c)
            => InOrder(script, queue', c) /\ GoesOn(script, queue', thread', c)
  PROVE  SaidInv'
  <1>1. Output' = Output
    BY DEF Output, Pending
  <1>2. \A c \in 0..Len(script) : Streaming(c) => Streaming(c)'
    BY <1>1 DEF Streaming
  <1> QED
    BY <1>1, <1>2 DEF SaidInv

\* When the streamer is driven, its event goes to the end of the output.
LEMMA Says ==
  ASSUME TypeOK, streamer.event = Nothing, UNCHANGED <<route, frames>>
  PROVE  /\ streamer'.event \in {Nothing, Stop} => Output' = Output
         /\ streamer'.event \notin {Nothing, Stop} => Output' = Append(Output, streamer'.event)
  BY DEF Output, Pending

\* A chunk of text before the call is said; nothing is said of the others.
LEMMA GetsChunkSaid ==
  ASSUME IInv, TypeOK', GetsChunk
  PROVE  SaidInv'
  <1>1. /\ TypeOK /\ SaidInv /\ streamer.pc = "streaming" /\ queue # <<>>
        /\ Head(queue).kind = "chunk" /\ queue' = Tail(queue)
        /\ UNCHANGED <<script, thread, route, frames>> /\ streamer.event = Nothing
    BY DEF IInv, GetsChunk, Driven, Open, client
  <1>2. PICK c \in 0..Len(script) : Streaming(c)
    BY <1>1 DEF SaidInv
  <1>3. /\ Head(queue) = Chunk(c + 1) /\ c + 1 \in 1..Len(script)
        /\ InOrder(script, queue', c + 1) /\ GoesOn(script, queue', thread', c + 1)
    BY <1>1, <1>2, TakeHead DEF Streaming
  <1>4. Len(script) \in Nat /\ script \in Seq({"text", "call"}) /\ c \in Nat
    BY <1>1, TypeFacts
  <1>5. script[c + 1] \in {"text", "call"} /\ c + 1 \in 0..Len(script)
    BY <1>3, <1>4
  <1>6. Head(queue).n = c + 1
    BY <1>3, Kinds
  <1>7. PICK calls : calls = streamer.calls \cup {m \in {c + 1} : script[m] = "call"}
    OBVIOUS
  <1>8. calls = CallsTo(script, c + 1)
    <2>1. streamer.calls = CallsTo(script, c)
      BY <1>2 DEF Streaming
    <2>2. 1..(c + 1) = (1..c) \cup {c + 1}
      BY <1>4
    <2> QED
      BY <1>7, <2>1, <2>2 DEF CallsTo
  <1>9. /\ streamer'.pc = "streaming" /\ streamer'.calls = calls
        /\ streamer'.event = IF calls = {} THEN Token(c + 1) ELSE Nothing
    <2>1. streamer' = [streamer EXCEPT !.calls = calls,
                                       !.event = IF calls = {} THEN Token(c + 1) ELSE Nothing]
      BY <1>6, <1>7 DEF GetsChunk
    <2> QED
      BY <1>1, <2>1 DEF TypeOK
  <1>10. Output \in Seq(Events) /\ Len(Output) \in Nat /\ Talk(script, Output)
    BY <1>1, <1>2, OutputFacts DEF Streaming
  <1>11. CASE calls # {}
    <2>1. Output' = Output /\ streamer'.event # Stop
      BY <1>1, <1>9, <1>11, Says, Kinds
    <2>2. CallAt(script, Len(Output))
      <3>1. CASE streamer.calls # {}
        BY <1>2, <3>1 DEF Streaming
      <3>2. CASE streamer.calls = {}
        BY <1>2, <1>3, <1>4, <1>7, <1>11, <3>2 DEF Streaming, CallAt
      <3> QED
        BY <3>1, <3>2
    <2>3. Streaming(c + 1)'
      BY <1>1, <1>3, <1>8, <1>9, <1>10, <1>11, <2>1, <2>2 DEF Streaming
    <2> QED
      BY <1>1, <1>5, <1>9, <2>3 DEF SaidInv
  <1>12. CASE calls = {}
    <2>1. /\ streamer.calls = {} /\ script[c + 1] = "text" /\ Len(Output) = c
      BY <1>2, <1>5, <1>7, <1>12 DEF Streaming
    <2>2. Token(c + 1) \in Events /\ streamer'.event \notin {Nothing, Stop}
      BY <1>3, <1>9, <1>12, Kinds DEF Events
    <2>3. Output' = Append(Output, Token(c + 1))
      BY <1>1, <1>9, <1>12, <2>2, Says
    <2>4. Talk(script, Append(Output, Token(c + 1)))
      BY <1>3, <1>4, <1>10, <2>1, <2>2, TalkGoesOn
    <2>5. Len(Append(Output, Token(c + 1))) = c + 1
      BY <1>10, <2>1, <2>2
    <2>6. Streaming(c + 1)'
      BY <1>1, <1>3, <1>8, <1>9, <1>12, <2>2, <2>3, <2>4, <2>5 DEF Streaming
    <2> QED
      BY <1>1, <1>5, <1>9, <2>6 DEF SaidInv
  <1> QED
    BY <1>11, <1>12

\* The rest of the streamer: the end of the stream, failures, the tool call.
LEMMA StreamerSaid ==
  ASSUME IInv, TypeOK', Streamer, Open
  PROVE  SaidInv'
  <1>1. TypeOK /\ SaidInv /\ script' = script
    BY StreamerSteps DEF IInv
  <1>2. UNCHANGED <<route, frames>>
    BY <1>1, StreamerSteps
  <1>3. script \in Seq({"text", "call"}) /\ Output \in Seq(Events) /\ Len(Output) \in Nat
    BY <1>1, TypeFacts, OutputFacts
  <1>4. Error \in Events /\ Result \in Events /\ Stop \in Events /\ Nothing \in Events
    BY DEF Events
  <1>5. CASE GetsChunk
    BY <1>5, GetsChunkSaid
  \* A failure after text.
  <1>6. ASSUME streamer.event = Nothing, Yield(Error, "last"), Talk(script, Output)
        PROVE  SaidInv'
    <2>1. streamer'.event = Error /\ streamer'.pc = "last"
      BY <1>1, <1>4, <1>6, YieldType
    <2>2. Output' = Append(Output, Error)
      BY <1>1, <1>2, <1>6, <2>1, Says, Kinds
    <2>3. Failed(script, Append(Output, Error))
      BY <1>3, <1>4, <1>6, TalkGoesOn
    <2> QED
      BY <1>1, <1>2, <2>1, <2>2, <2>3, Kinds DEF SaidInv
  <1>7. streamer.pc = "streaming" => Talk(script, Output)
    BY <1>1 DEF SaidInv, Streaming
  <1>8. CASE GetsEnd
    <2>1. /\ streamer.event = Nothing /\ streamer.pc = "streaming"
          /\ queue # <<>> /\ Head(queue) = End
      BY <1>8 DEF GetsEnd, Driven
    <2>2. PICK c \in 0..Len(script) : Streaming(c)
      BY <1>1, <2>1 DEF SaidInv
    <2>3. c = Len(script)
      BY <1>1, <2>1, <2>2, TakeHead DEF Streaming
    <2>4. CASE streamer.calls = {} /\ Yield(Stop, "finished")
      <3>1. streamer'.event = Stop /\ streamer'.pc = "finished" /\ Output' = Output
        BY <1>1, <1>2, <1>4, <2>1, <2>4, YieldType, Says
      <3>2. Whole(script, Output)
        BY <2>2, <2>3, <2>4 DEF Streaming, Whole
      <3> QED
        BY <1>1, <1>2, <3>1, <3>2 DEF SaidInv
    <2>5. CASE streamer.calls # {} /\ Yield(Nothing, "staging")
      <3>1. streamer'.event = Nothing /\ streamer'.pc = "staging" /\ Output' = Output
        BY <1>1, <1>2, <1>4, <2>1, <2>5, YieldType, Says
      <3>2. CallAt(script, Len(Output)) /\ Talk(script, Output)
        BY <2>2, <2>5 DEF Streaming
      <3> QED
        BY <1>1, <1>2, <3>1, <3>2 DEF SaidInv
    <2>6. CASE Yield(Error, "last")
      BY <1>6, <1>7, <2>1, <2>6
    <2> QED
      BY <1>8, <2>4, <2>5, <2>6 DEF GetsEnd
  <1>9. CASE GetsError \/ GetTimesOut
    BY <1>6, <1>7, <1>9 DEF GetsError, GetTimesOut, Driven
  <1>10. CASE StagesTool
    <2>1. /\ streamer.event = Nothing /\ streamer.pc = "staging"
          /\ Talk(script, Output) /\ CallAt(script, Len(Output))
      BY <1>1, <1>10 DEF StagesTool, SaidInv
    <2>2. CASE Yield(Error, "last")
      BY <1>6, <2>1, <2>2
    <2>3. CASE Yield(Result, "last")
      <3>1. streamer'.event = Result /\ streamer'.pc = "last"
        BY <1>1, <1>4, <2>3, YieldType
      <3>2. Output' = Append(Output, Result)
        BY <1>1, <1>2, <2>1, <3>1, Says, Kinds
      <3>3. Answered(script, Append(Output, Result))
        BY <1>3, <1>4, <2>1, TalkGoesOn
      <3> QED
        BY <1>1, <1>2, <3>1, <3>2, <3>3, Kinds DEF SaidInv
    <2> QED
      BY <1>10, <2>2, <2>3 DEF StagesTool
  <1>11. CASE Finishes
    <2>1. /\ streamer.event = Nothing /\ streamer.pc = "last" /\ Yield(Stop, "finished")
          /\ Answered(script, Output) \/ Failed(script, Output)
      BY <1>1, <1>11 DEF Finishes, Driven, SaidInv
    <2>2. streamer'.event = Stop /\ streamer'.pc = "finished" /\ Output' = Output
      BY <1>1, <1>2, <1>4, <2>1, YieldType, Says
    <2> QED
      BY <1>1, <1>2, <2>1, <2>2 DEF SaidInv, Whole
  <1>12. CASE Finalised
    BY <1>12 DEF Finalised
  <1> QED
    BY <1>5, <1>8, <1>9, <1>10, <1>11, <1>12 DEF Streamer

\* Before the route ends, what has been said is an answer.
LEMMA SaidIsAnswer ==
  ASSUME SaidInv, TypeOK
  PROVE  \/ Talk(script, Output) \/ Answered(script, Output) \/ Failed(script, Output)
  <1>1. streamer.pc \in {"streaming", "staging", "last", "finished"}
    BY DEF TypeOK
  <1> QED
    BY <1>1 DEF SaidInv, Streaming, Whole

\* The route sends the output on, in order, and ends after an error, after
\* "done" or when the client is gone.
LEMMA RouteSaid ==
  ASSUME IInv, TypeOK', Route
  PROVE  /\ Open' => SaidInv'
         /\ ~Open' => EndedInv'
  <1>0. CASE RouteEnds
    BY <1>0, RouteSteps DEF IInv, RouteEnds, Open, EndedInv
  <1> SUFFICES ASSUME RouteTakesEvent \/ RouteSends \/ RouteBreaks \/ RouteDisconnected
               PROVE  /\ Open' => SaidInv'
                      /\ ~Open' => EndedInv'
    BY <1>0 DEF Route
  <1>1. TypeOK /\ SaidInv
    BY DEF IInv, RouteTakesEvent, RouteSends, RouteBreaks, RouteDisconnected, Open
  <1>2. UNCHANGED <<script, thread, queue>>
    BY <1>1, RouteSteps
  <1>3. /\ script \in Seq({"text", "call"}) /\ Output \in Seq(Events) /\ Len(Output) \in Nat
        /\ frames \in Seq(Events) /\ Len(frames) \in Nat /\ route.frame \in Events
    BY <1>1, TypeFacts, OutputFacts
  <1>4. Talk(script, Output) \/ Answered(script, Output) \/ Failed(script, Output)
    BY <1>1, SaidIsAnswer
  <1>5. ASSUME Output' = Output, streamer'.pc = streamer.pc, streamer'.calls = streamer.calls,
               streamer'.event = streamer.event
                 \/ (streamer.event # Stop /\ streamer'.event = Nothing),
               \A i \in 1..Len(frames') : frames'[i] # Error
        PROVE  SaidInv'
    <2>1. \A c \in 0..Len(script) : Streaming(c) => Streaming(c)'
      BY <1>2, <1>5, Kinds DEF Streaming
    <2> QED
      BY <1>1, <1>2, <1>5, <2>1, Kinds DEF SaidInv
  <1>6. CASE RouteTakesEvent
    <2>1. /\ route.pc = "waiting" /\ streamer.event \notin {Nothing, Stop}
          /\ route' = [pc |-> "sending", frame |-> streamer.event]
          /\ streamer' = [streamer EXCEPT !.event = Nothing] /\ frames' = frames
      BY <1>6 DEF RouteTakesEvent
    <2>2. /\ route'.pc = "sending" /\ route'.frame = streamer.event
      BY <2>1
    <2>3. /\ streamer'.event = Nothing /\ streamer'.pc = streamer.pc /\ streamer'.calls = streamer.calls
      BY <1>1, <2>1 DEF TypeOK
    <2>4. Output' = Append(frames, streamer.event) /\ Output = Append(frames, streamer.event)
      BY <2>1, <2>2, <2>3 DEF Output, Pending
    <2>5. \A i \in 1..Len(frames') : frames'[i] # Error
      BY <1>1, <2>1 DEF SaidInv
    <2> QED
      BY <1>5, <2>1, <2>2, <2>3, <2>4, <2>5 DEF Open
  <1>7. CASE RouteSends
    <2>1. route.pc = "sending" /\ streamer' = streamer
      BY <1>7 DEF RouteSends, agent
    <2>2. Len(frames) + 1 <= Len(Output) /\ Output[Len(frames) + 1] = route.frame
      BY <1>1, <2>1, OutputFacts
    <2>3. /\ frames' = Append(frames, route.frame) /\ Len(frames') = Len(frames) + 1
          /\ frames'[Len(frames) + 1] = route.frame
          /\ \A i \in 1..Len(frames) : frames'[i] = frames[i]
      BY <1>3, <1>7 DEF RouteSends, RouteCloses, agent
    <2>4. CASE route.frame = Error
      <3>1. route'.pc = "closing"
        BY <1>7, <2>4 DEF RouteSends, RouteCloses, agent
      <3>2. frames' \in Seq(Events) /\ Len(frames') <= Len(Output)
        BY <1>3, <2>2, <2>3
      <3>3. \A i \in 1..Len(frames') : Output[i] = frames'[i]
        <4>1. \A i \in 1..Len(frames) : Output[i] = frames[i]
          BY <1>1, OutputFacts
        <4>2. \A i \in 1..Len(frames') : i \in 1..Len(frames) \/ i = Len(frames) + 1
          BY <1>3, <2>3
        <4> QED
          BY <2>2, <2>3, <4>1, <4>2
      <3>4. PICK f \in Seq(Events) : f = frames'
        BY <3>2
      <3>5. Talk(script, f) \/ Answered(script, f) \/ Failed(script, f)
        BY <1>3, <1>4, <3>2, <3>3, <3>4, PrefixIsAnswer
      <3> QED
        BY <1>2, <3>1, <3>4, <3>5 DEF EndedInv, Open
    <2>5. CASE route.frame # Error
      <3>1. route'.pc = "waiting"
        BY <1>7, <2>5 DEF RouteSends, agent
      <3>2. Output' = Output
        BY <2>1, <2>3, <3>1 DEF Output, Pending
      <3>3. \A i \in 1..Len(frames') : frames'[i] # Error
        <4>1. \A i \in 1..Len(frames') : i \in 1..Len(frames) \/ i = Len(frames) + 1
          BY <1>3, <2>3
        <4> QED
          BY <1>1, <2>3, <2>5, <4>1 DEF SaidInv
      <3> QED
        BY <1>5, <2>1, <3>1, <3>2, <3>3 DEF Open
    <2> QED
      BY <2>4, <2>5
  <1>8. CASE RouteBreaks
    <2>1. /\ route.pc = "waiting" /\ streamer.event = Stop
          /\ route'.pc = "closing" /\ frames' = Append(frames, Done)
      BY <1>8 DEF RouteBreaks, RouteCloses, agent
    <2>2. Output = frames
      BY <2>1 DEF Output, Pending
    <2>3. Whole(script, Output) \/ Failed(script, Output)
      <3>1. streamer.pc = "finished"
        BY <1>1, <2>1, Kinds DEF SaidInv, Streaming, TypeOK
      <3> QED
        BY <1>1, <3>1 DEF SaidInv
    <2>4. ~Failed(script, frames)
      <3>1. Len(frames) > 0 => Len(frames) \in 1..Len(frames)
        BY <1>3
      <3> QED
        BY <1>1, <3>1 DEF SaidInv, Failed
    <2>5. Done \in Events
      BY DEF Events
    <2>6. Completed(script, Append(frames, Done))
      BY <1>3, <2>2, <2>3, <2>4, <2>5, WholeCompletes
    <2> QED
      BY <1>2, <2>1, <2>6 DEF EndedInv, Open
  <1>9. CASE RouteDisconnected
    <2>1. route'.pc = "closing" /\ frames' = frames
      BY <1>9 DEF RouteDisconnected, RouteCloses, agent
    <2>2. Len(frames) <= Len(Output) /\ \A i \in 1..Len(frames) : Output[i] = frames[i]
      BY <1>1, OutputFacts
    <2>3. Talk(script, frames) \/ Answered(script, frames) \/ Failed(script, frames)
      BY <1>3, <1>4, <2>2, PrefixIsAnswer
    <2> QED
      BY <1>2, <2>1, <2>3 DEF EndedInv, Open
  <1> QED
    BY <1>6, <1>7, <1>8, <1>9

\* Steps that leave the streamer, what is staged and what is told alone.
LEMMA SameStaged ==
  ASSUME StagedInv, UNCHANGED <<script, streamer, route, frames, staged>>
  PROVE  StagedInv'
  BY DEF StagedInv, Told, CallChunks

\* What the streamer does to what is staged: only the whole call is added, and
\* a result is announced only when it has been.
LEMMA StreamerStages ==
  ASSUME IInv, Streamer
  PROVE  StagedInv'
  <1>1. TypeOK /\ StagedInv /\ CallChunks' = CallChunks /\ UNCHANGED <<script, route, frames>>
    BY StreamerSteps DEF IInv, CallChunks
  <1>2. Error \in Events /\ Result \in Events /\ Stop \in Events /\ Nothing \in Events
    BY DEF Events
  \* It is enough that the step adds no more than the call, and no result without it.
  <1>3. ASSUME staged \subseteq staged', staged' \subseteq {CallChunks},
               streamer'.pc = "staging" => streamer'.calls = CallChunks,
               streamer'.event = Result => staged' # {}
        PROVE  StagedInv'
    BY <1>1, <1>3 DEF StagedInv, Told
  <1>4. ASSUME staged' = staged, NEW e \in {Error, Stop, Nothing}, NEW pc \in {"last", "finished"},
               Yield(e, pc)
        PROVE  StagedInv'
    <2>1. streamer'.event = e /\ streamer'.pc = pc
      BY <1>1, <1>2, <1>4, YieldType
    <2> QED
      BY <1>1, <1>3, <1>4, <2>1, Kinds DEF StagedInv
  <1>5. CASE GetsChunk
    <2>1. staged' = staged /\ streamer.pc = "streaming"
      BY <1>5 DEF GetsChunk
    <2>2. streamer'.pc = "streaming" /\ streamer'.event # Result
      <3>1. PICK n, calls : streamer' = [streamer EXCEPT !.calls = calls,
                                   !.event = IF calls = {} THEN Token(n) ELSE Nothing]
        BY <1>5 DEF GetsChunk
      <3> QED
        BY <1>1, <2>1, <3>1, Kinds DEF TypeOK
    <2> QED
      BY <1>1, <1>3, <2>1, <2>2 DEF StagedInv
  <1>6. CASE GetsEnd
    <2>1. staged' = staged /\ Open /\ streamer.pc = "streaming" /\ queue # <<>> /\ Head(queue) = End
      BY <1>6 DEF GetsEnd, Driven
    <2>2. PICK c \in 0..Len(script) : Streaming(c)
      BY <2>1 DEF IInv, SaidInv
    <2>3. c = Len(script)
      BY <1>1, <2>1, <2>2, TakeHead DEF Streaming
    <2>4. streamer.calls = CallChunks
      BY <2>2, <2>3 DEF Streaming, CallsTo, CallChunks
    <2>5. CASE Yield(Nothing, "staging")
      <3>1. streamer'.event = Nothing /\ streamer'.calls = streamer.calls
        BY <1>1, <1>2, <2>5, YieldType
      <3> QED
        BY <1>1, <1>3, <2>1, <2>4, <3>1, Kinds DEF StagedInv
    <2> QED
      BY <1>4, <1>6, <2>1, <2>5 DEF GetsEnd
  <1>7. CASE GetsError \/ GetTimesOut \/ Finishes
    BY <1>4, <1>7 DEF GetsError, GetTimesOut, Finishes
  <1>8. ASSUME streamer.pc = "staging", MayStage
        PROVE  /\ staged \subseteq staged' /\ staged' \subseteq {CallChunks}
               /\ streamer.calls = CallChunks
    BY <1>1, <1>8 DEF StagedInv, MayStage
  <1>9. CASE StagesTool
    <2>1. /\ streamer.pc = "staging" /\ MayStage
          /\ \/ streamer.calls \in staged' /\ Yield(Result, "last")
             \/ Yield(Error, "last")
      BY <1>9 DEF StagesTool
    <2>2. /\ streamer'.pc = "last"
          /\ streamer'.event = Result => streamer.calls \in staged'
      BY <1>1, <1>2, <2>1, YieldType, Kinds
    <2> QED
      BY <1>3, <1>8, <2>1, <2>2
  <1>10. CASE Finalised
    <2>1. /\ (streamer.pc = "staging" /\ MayStage) \/ staged' = staged
          /\ Yield(Nothing, "finished")
      BY <1>10 DEF Finalised
    <2>2. streamer'.pc = "finished" /\ streamer'.event = Nothing
      BY <1>1, <1>2, <2>1, YieldType
    <2>3. staged \subseteq staged' /\ staged' \subseteq {CallChunks}
      BY <1>1, <1>8, <2>1 DEF StagedInv
    <2> QED
      BY <1>3, <2>2, <2>3, Kinds
  <1> QED
    BY <1>5, <1>6, <1>7, <1>9, <1>10 DEF Streamer

\* The route passes results on and makes none.
LEMMA RouteTells ==
  ASSUME IInv, Route
  PROVE  StagedInv'
  <1>1. /\ TypeOK /\ StagedInv /\ CallChunks' = CallChunks /\ staged' = staged
        /\ frames \in Seq(Events) /\ route.frame \in Events
    BY RouteSteps, TypeFacts DEF IInv, CallChunks
  <1>2. streamer'.pc = streamer.pc /\ streamer'.calls = streamer.calls
    BY <1>1 DEF Route, RouteTakesEvent, RouteSends, RouteBreaks, RouteDisconnected, RouteEnds,
                agent, TypeOK
  <1>3. Told' => Told
    <2>1. CASE RouteTakesEvent
      <3>1. /\ route'.frame = streamer.event /\ frames' = frames
            /\ streamer' = [streamer EXCEPT !.event = Nothing]
        BY <2>1 DEF RouteTakesEvent
      <3>2. streamer'.event = Nothing
        BY <1>1, <3>1 DEF TypeOK
      <3> QED
        BY <3>1, <3>2, Kinds DEF Told
    <2>2. ASSUME NEW e \in Events, frames' = Append(frames, e), streamer' = streamer,
                 route'.frame = Nothing, e = route.frame \/ e = Done
          PROVE  Told' => Told
      <3>1. \A i \in 1..Len(frames') : frames'[i] = e \/ (i \in 1..Len(frames) /\ frames'[i] = frames[i])
        BY <1>1, <2>2
      <3> QED
        BY <2>2, <3>1, Kinds DEF Told
    <2>3. Done \in Events
      BY DEF Events
    <2>4. CASE RouteSends
      BY <1>1, <2>2, <2>4 DEF RouteSends, RouteCloses, agent
    <2>5. CASE RouteBreaks
      BY <2>2, <2>3, <2>5 DEF RouteBreaks, RouteCloses, agent
    <2>6. CASE RouteDisconnected
      BY <2>6, Kinds DEF RouteDisconnected, RouteCloses, agent, Told
    <2>7. CASE RouteEnds
      <3>1. route'.frame = route.frame /\ UNCHANGED <<streamer, frames>>
        BY <1>1, <2>7 DEF RouteEnds, agent, TypeOK
      <3> QED
        BY <3>1 DEF Told
    <2> QED
      BY <2>1, <2>4, <2>5, <2>6, <2>7 DEF Route
  <1> QED
    BY <1>1, <1>2, <1>3 DEF StagedInv

\* Every step preserves the invariant.
LEMMA NextIInv == IInv /\ [Next]_vars => IInv'
  <1> SUFFICES ASSUME IInv, [Next]_vars PROVE IInv'
    OBVIOUS
  <1>1. TypeOK /\ TypeOK' /\ script' = script /\ StagedInv
    BY NextTypeOK DEF IInv
  <1>2. ASSUME UNCHANGED <<route, frames>>, ~Open, StagedInv' PROVE IInv'
    BY <1>1, <1>2 DEF IInv, EndedInv, Open
  <1>3. ASSUME UNCHANGED route, Open, SaidInv', StagedInv' PROVE IInv'
    BY <1>1, <1>3 DEF IInv, Open
  <1>4. CASE Thread \/ Producer
    <2>1. UNCHANGED <<streamer, route, frames, staged>>
      BY <1>1, <1>4, ThreadSteps
         DEF Producer, ProducerReturns, ProducerTimesOut, ProducerPuts, agent, client
    <2>2. StagedInv'
      BY <1>1, <2>1, SameStaged
    <2>3. Open => SaidInv'
      BY <1>1, <1>4, <2>1, BridgeSteps, NothingSaid DEF IInv
    <2> QED
      BY <1>2, <1>3, <2>1, <2>2, <2>3
  <1>5. CASE Streamer
    <2>1. UNCHANGED <<route, frames>> /\ StagedInv'
      BY <1>1, <1>5, StreamerSteps, StreamerStages
    <2>2. Open => SaidInv'
      BY <1>1, <1>5, StreamerSaid
    <2> QED
      BY <1>2, <1>3, <2>1, <2>2
  <1>6. CASE Route
    BY <1>1, <1>6, RouteSaid, RouteTells DEF IInv
  <1>7. CASE Disconnect \/ UNCHANGED vars
    <2>1. UNCHANGED <<script, thread, queue, streamer, route, frames, staged>>
      BY <1>7 DEF Disconnect, bridge, agent, vars
    <2>2. Open => SaidInv'
      BY <2>1, NothingSaid DEF IInv
    <2> QED
      BY <1>1, <1>2, <1>3, <2>1, <2>2, SameStaged
  <1> QED
    BY <1>4, <1>5, <1>6, <1>7 DEF Next

\* The invariant holds in every reachable state.
THEOREM Invariance == Spec => []IInv
  <1>1. IInv /\ [Next]_vars => IInv'
    BY NextIInv
  <1> QED
    BY <1>1, InitIInv, PTL DEF Spec

------------------------------------------------------------------------------
(* The properties *)

\* Every variable keeps its type and the bounded queue its bound, for every
\* script and every LLM_STREAM_QUEUE_SIZE.
THEOREM TypeCorrect == Spec => []TypeOK
  <1>1. IInv => TypeOK
    BY DEF IInv
  <1> QED
    BY <1>1, Invariance, PTL

\* An answer that satisfies one of the shapes is complete if it says so.
LEMMA AnswersComplete ==
  ASSUME TypeOK, \/ Talk(script, frames) \/ Answered(script, frames)
                 \/ Failed(script, frames) \/ Completed(script, frames)
  PROVE  DoneMeansComplete
  <1>1. Len(frames) \in Nat /\ Len(script) \in Nat
    BY TypeFacts
  <1> DEFINE n == Len(frames)
  \* Where the text ends.
  <1>2. PICK k \in Nat :
          /\ TalkTo(script, frames, k)
          /\ \/ k = n
             \/ k = n - 1 /\ frames[n] = Error
             \/ k = n - 1 /\ frames[n] = Result
             \/ k = n - 1 /\ frames[n] = Done /\ k = Len(script)
             \/ k = n - 2 /\ frames[n] = Done /\ frames[n - 1] = Result /\ CallAt(script, k)
    <2>1. CASE Talk(script, frames)
      BY <1>1, <2>1 DEF Talk
    <2>2. CASE Answered(script, frames)
      BY <1>1, <2>2 DEF Answered
    <2>3. CASE Failed(script, frames)
      BY <1>1, <2>3 DEF Failed
    <2>4. CASE Completed(script, frames)
      BY <1>1, <2>4 DEF Completed
    <2> QED
      BY <2>1, <2>2, <2>3, <2>4
  <1>3. k <= n /\ k <= Len(script) /\ \A i \in 1..k : frames[i] = Token(i) /\ script[i] = "text"
    BY <1>2 DEF TalkTo
  <1> SUFFICES ASSUME NEW i \in 1..n
               PROVE  /\ frames[i].kind = "token" =>
                            i \in Said /\ \A m \in 1..i : frames[m] = Token(m)
                      /\ frames[i] \in {Done, Error} => i = n
                      /\ frames[i] = Done =>
                            /\ \A m \in Said : m < i /\ frames[m] = Token(m)
                            /\ (\E m \in 1..Len(script) : script[m] = "call") =>
                                  i > 1 /\ frames[i - 1] = Result
    BY DEF DoneMeansComplete
  <1>4. CASE i <= k
    <2>1. frames[i] = Token(i) /\ i \in 1..Len(script)
      BY <1>1, <1>3, <1>4
    <2>2. \A m \in 1..i : m \in 1..k
      BY <1>4
    <2>3. i \in Said /\ \A m \in 1..i : frames[m] = Token(m)
      BY <1>3, <2>1, <2>2 DEF Said
    <2>4. frames[i] \notin {Done, Error}
      BY <2>1, Kinds
    <2> QED
      BY <2>3, <2>4
  <1>5. CASE i > k
    <2>1. \/ i = n \/ (i = n - 1 /\ frames[i] = Result)
      BY <1>1, <1>2, <1>3, <1>5
    <2>2. frames[i] \in {Error, Result, Done}
      BY <1>1, <1>2, <1>3, <1>5, <2>1
    <2>3. frames[i].kind # "token"
      BY <2>2, Kinds
    <2>4. frames[i] \in {Done, Error} => i = n
      BY <2>1, Kinds
    <2>5. ASSUME frames[i] = Done
          PROVE  /\ i = n
                 /\ \/ k = n - 1 /\ k = Len(script)
                    \/ k = n - 2 /\ frames[n - 1] = Result /\ CallAt(script, k)
      <3>1. i = n
        BY <2>4, <2>5
      <3> QED
        BY <1>2, <1>3, <1>5, <2>5, <3>1, Kinds
    <2>6. ASSUME frames[i] = Done, NEW m \in Said PROVE m < i /\ frames[m] = Token(m)
      <3>1. m \in 1..Len(script) /\ \A j \in 1..m : script[j] = "text"
        BY DEF Said
      <3>2. m <= k
        <4>1. CASE k = Len(script)
          BY <1>1, <3>1, <4>1
        <4>2. CASE CallAt(script, k) /\ k \in Nat
          <5>1. m > k => k + 1 \in 1..m
            BY <3>1, <4>2
          <5> QED
            BY <3>1, <4>2, <5>1 DEF CallAt
        <4> QED
          BY <2>5, <2>6, <4>1, <4>2
      <3> QED
        BY <1>1, <1>3, <1>5, <3>1, <3>2
    <2>7. ASSUME frames[i] = Done, NEW m \in 1..Len(script), script[m] = "call"
          PROVE  i > 1 /\ frames[i - 1] = Result
      <3>1. k # Len(script)
        BY <1>1, <1>3, <2>7
      <3>2. k = n - 2 /\ frames[n - 1] = Result /\ i = n
        BY <2>5, <2>7, <3>1
      <3> QED
        BY <1>1, <3>2
    <2> QED
      BY <2>3, <2>4, <2>6, <2>7
  <1> QED
    BY <1>1, <1>4, <1>5

\* Whatever times out, fails or fills up between the SDK and the client, the
\* text arrives in order and without gaps, and "done" is sent only after all of
\* it and the outcome of the tool call.
THEOREM CompletionIsTrue == Spec => []DoneMeansComplete
  <1>1. IInv => DoneMeansComplete
    <2> SUFFICES ASSUME IInv PROVE DoneMeansComplete
      OBVIOUS
    <2>1. TypeOK
      BY DEF IInv
    <2>2. CASE ~Open
      BY <2>1, <2>2, AnswersComplete DEF IInv, EndedInv
    <2>3. CASE Open
      <3>1. SaidInv
        BY <2>3 DEF IInv
      <3>2. Talk(script, Output) \/ Answered(script, Output) \/ Failed(script, Output)
        BY <2>1, <3>1, SaidIsAnswer
      <3>3. /\ script \in Seq({"text", "call"}) /\ frames \in Seq(Events) /\ Output \in Seq(Events)
            /\ Len(frames) <= Len(Output) /\ \A i \in 1..Len(frames) : Output[i] = frames[i]
        BY <2>1, TypeFacts, OutputFacts
      <3>4. Talk(script, frames) \/ Answered(script, frames) \/ Failed(script, frames)
        BY <3>2, <3>3, PrefixIsAnswer
      <3> QED
        BY <2>1, <3>4, AnswersComplete
    <2> QED
      BY <2>2, <2>3
  <1> QED
    BY <1>1, Invariance, PTL

\* Whatever times out, fails, fills up or is cancelled between the SDK and the
\* database, a tool call that is staged for approval was put together from every
\* chunk the model sent of it, and a client that is told of one finds it staged.
THEOREM StagedCallsAreWhole == Spec => []StagedIsWhole
  <1>1. IInv => StagedIsWhole
    BY DEF IInv, StagedInv, Told, StagedIsWhole
  <1> QED
    BY <1>1, Invariance, PTL
==============================================================================
