----------------------------- MODULE AgentStream -----------------------------
(***************************************************************************)
(* One streamed agent response: POST /generate-stream/                     *)
(* (server/routes/agent_router.py), GeneralAgentStreamer (agents.py) and   *)
(* the bridge from the synchronous model SDK to the event loop             *)
(* (server/integrations/llm.py).                                           *)
(*                                                                         *)
(*   SDK -> worker thread -> bounded queue -> streamer -> route -> client  *)
(*                               ^                                         *)
(*                 producer task |                                         *)
(*                                                                         *)
(* The thread reads the SDK's iterator and puts what it reads into the     *)
(* queue; the producer task waits for the thread and reports its failure   *)
(* or its deadline through the same queue.  The streamer turns chunks into *)
(* events and stages at most one tool call when the stream is over.  The   *)
(* route always has one anext(iterator) task under way, also while the     *)
(* client is reading the previous frame.  All but the thread run on the    *)
(* event loop.                                                             *)
(***************************************************************************)
EXTENDS Naturals, Sequences

CONSTANTS Scripts,   \* what the model may say: sequences of "text" and "call"
          SIZE       \* LLM_STREAM_QUEUE_SIZE

ASSUME SizeAssumption == SIZE \in Nat \ {0}
ASSUME ScriptAssumption == \A s \in Scripts : s \in Seq({"text", "call"})

VARIABLES script,    \* what the model says this time
          thread,    \* _produce
          producer,  \* _run_producer
          queue,     \* _queue
          stop,      \* _stop, which aclose sets
          streamer,  \* GeneralAgentStreamer.run
          route,     \* stream_response_generator
          frames,    \* what was sent to the client
          gone,      \* the client has disconnected
          staged     \* tool calls staged for approval, each as the chunks it came in

vars == <<script, thread, producer, queue, stop, streamer, route, frames, gone, staged>>
bridge == <<thread, producer, queue, stop>>
agent == <<streamer, staged>>
client == <<route, frames, gone>>

\* An item of the queue: the number of a chunk, "end" or "error".  An event of
\* the streamer: a token, of the chunk with that number, or one of the others.
Chunk(n) == [kind |-> "chunk", n |-> n]
End      == [kind |-> "end", n |-> 0]
Error    == [kind |-> "error", n |-> 0]
Token(n) == [kind |-> "token", n |-> n]
Result   == [kind |-> "tool_result", n |-> 0]
Done     == [kind |-> "done", n |-> 0]
Stop     == [kind |-> "stop", n |-> 0]      \* StopAsyncIteration
Nothing  == [kind |-> "none", n |-> 0]

Items == {End, Error} \cup {Chunk(n) : n \in 1..Len(script)}
Events == {Error, Result, Done, Stop, Nothing} \cup {Token(n) : n \in 1..Len(script)}

\* Every variable holds a value of its type; the queue is never over its size.
TypeOK ==
    /\ script \in Scripts
    /\ thread \in [pc : {"idle", "reading", "putting", "done", "failed"},
                   read : 0..Len(script), item : Items]
    /\ producer \in {"running", "putting", "done"}
    /\ queue \in Seq(Items) /\ Len(queue) <= SIZE
    /\ stop \in BOOLEAN
    /\ streamer \in [pc : {"streaming", "staging", "last", "finished"},
                     calls : SUBSET (1..Len(script)), event : Events]
    /\ route \in [pc : {"waiting", "sending", "closing", "ended"}, frame : Events]
    /\ frames \in Seq(Events)
    /\ gone \in BOOLEAN
    /\ staged \in SUBSET SUBSET (1..Len(script))

Init ==
    /\ script \in Scripts
    /\ thread = [pc |-> "idle", read |-> 0, item |-> End]
    /\ producer = "running"
    /\ queue = <<>>
    /\ stop = FALSE
    /\ streamer = [pc |-> "streaming", calls |-> {}, event |-> Nothing]
    /\ route = [pc |-> "waiting", frame |-> Nothing]
    /\ frames = <<>>
    /\ gone = FALSE
    /\ staged = {}

\* Faulty variant: a queue without maxsize.
RoomAlways == TRUE

Room == Len(queue) < SIZE

------------------------------------------------------------------------------
(* The worker thread: _produce *)

\* The runner gives the call a thread, or has none left (ProviderCapacityExceeded).
ThreadStarts ==
    /\ thread.pc = "idle" /\ producer = "running"
    /\ \/ thread' = [thread EXCEPT !.pc = IF stop THEN "done" ELSE "reading"]
       \/ thread' = [thread EXCEPT !.pc = "failed"]
    /\ UNCHANGED <<script, producer, queue, stop, agent, client>>

\* _enqueue_from_worker; once the consumer is gone the thread returns instead.
Enqueue(t, item) ==
    IF stop THEN [t EXCEPT !.pc = "done"] ELSE [t EXCEPT !.pc = "putting", !.item = item]

\* The SDK's iterator returns a chunk or ends.
ThreadReads ==
    /\ thread.pc = "reading"
    /\ thread' = IF thread.read < Len(script)
                 THEN Enqueue([thread EXCEPT !.read = @ + 1], Chunk(thread.read + 1))
                 ELSE Enqueue(thread, End)
    /\ UNCHANGED <<script, producer, queue, stop, agent, client>>

\* It raises, on its own or because aclose has closed it.
ThreadRaises ==
    /\ thread.pc = "reading"
    /\ thread' = Enqueue(thread, Error)
    /\ UNCHANGED <<script, producer, queue, stop, agent, client>>

\* Where the thread goes on when its put is over.
AfterPut(t) == [t EXCEPT !.pc = IF t.item.kind = "chunk" THEN "reading" ELSE "done"]

\* The event loop runs queue.put for the thread.
PutLands ==
    /\ thread.pc = "putting" /\ Room
    /\ queue' = Append(queue, thread.item)
    /\ thread' = AfterPut(thread)
    /\ UNCHANGED <<script, producer, stop, agent, client>>

\* Faulty variant: a put that times out is given up and the thread reads on.
PutTimesOutSilently ==
    /\ thread.pc = "putting"
    /\ thread' = AfterPut(thread)
    /\ UNCHANGED <<script, producer, queue, stop, agent, client>>

\* Faulty variant: the thread waits for room as long as it takes.
PutNeverTimesOut == FALSE /\ UNCHANGED vars

\* The queue did not take the item in time, or took it just too late to notice.
\* The thread reports that, unless the report is what timed out.
PutTimesOut ==
    /\ thread.pc = "putting"
    /\ \/ UNCHANGED queue
       \/ Room /\ queue' = Append(queue, thread.item)
    /\ thread' = IF thread.item = Error THEN [thread EXCEPT !.pc = "failed"]
                 ELSE Enqueue(thread, Error)
    /\ UNCHANGED <<script, producer, stop, agent, client>>

------------------------------------------------------------------------------
(* The producer task: _run_producer *)

\* An exception that leaves the call is reported, if there is anyone to report to.
ProducerReturns ==
    /\ producer = "running"
    /\ \/ thread.pc = "done" /\ producer' = "done"
       \/ thread.pc = "failed" /\ producer' = IF stop THEN "done" ELSE "putting"
    /\ UNCHANGED <<script, thread, queue, stop, agent, client>>

\* LLM_STREAM_TIMEOUT_SECONDS have passed; the thread, if any, goes on alone.
ProducerTimesOut ==
    /\ producer = "running"
    /\ producer' = IF stop THEN "done" ELSE "putting"
    /\ UNCHANGED <<script, thread, queue, stop, agent, client>>

ProducerPuts ==
    /\ producer = "putting" /\ Room
    /\ queue' = Append(queue, Error)
    /\ producer' = "done"
    /\ UNCHANGED <<script, thread, stop, agent, client>>

------------------------------------------------------------------------------
(* The streamer: GeneralAgentStreamer.run over the bridge's __anext__ *)

\* The route has not come to its finally clause.
Open == route.pc \in {"waiting", "sending"}

\* The anext(iterator) task of the route is under way and not cancelled.
Driven == streamer.event = Nothing /\ Open

\* aclose: stop, and an end marker if there is room.
CloseBridge(q) ==
    /\ stop' = TRUE
    /\ queue' = IF stop \/ Len(q) >= SIZE THEN q ELSE Append(q, End)

Yield(event, pc) == streamer' = [streamer EXCEPT !.event = event, !.pc = pc]

\* function_calls grows; text is passed on until the first call.
GetsChunk ==
    /\ Driven /\ streamer.pc = "streaming" /\ queue # <<>> /\ Head(queue).kind = "chunk"
    /\ queue' = Tail(queue)
    /\ LET n == Head(queue).n
           calls == streamer.calls \cup {m \in {n} : script[m] = "call"}
       IN streamer' = [streamer EXCEPT !.calls = calls,
                                       !.event = IF calls = {} THEN Token(n) ELSE Nothing]
    /\ UNCHANGED <<script, thread, producer, stop, staged, client>>

\* The stream is over.  A call is staged if the policy allows it and the
\* arguments put together from its chunks are valid.
GetsEnd ==
    /\ Driven /\ streamer.pc = "streaming" /\ queue # <<>> /\ Head(queue) = End
    /\ CloseBridge(Tail(queue))
    /\ \/ streamer.calls = {} /\ Yield(Stop, "finished")
       \/ streamer.calls # {} /\ Yield(Nothing, "staging")
       \/ streamer.calls # {} /\ Yield(Error, "last")
    /\ UNCHANGED <<script, thread, producer, staged, client>>

\* Faulty variant: a failure is reported only if no call has come yet.
ErrorSparesCalls ==
    /\ Driven /\ streamer.pc = "streaming" /\ queue # <<>> /\ Head(queue) = Error
    /\ CloseBridge(Tail(queue))
    /\ IF streamer.calls = {} THEN Yield(Error, "last") ELSE Yield(Nothing, "staging")
    /\ UNCHANGED <<script, thread, producer, staged, client>>

GetsError ==
    /\ Driven /\ streamer.pc = "streaming" /\ queue # <<>> /\ Head(queue) = Error
    /\ CloseBridge(Tail(queue)) /\ Yield(Error, "last")
    /\ UNCHANGED <<script, thread, producer, staged, client>>

\* Faulty variant: the get waits as long as it takes.
GetNeverTimesOut == FALSE /\ UNCHANGED vars

\* The idle timeout, or the deadline of the whole stream.
GetTimesOut ==
    /\ Driven /\ streamer.pc = "streaming"
    /\ CloseBridge(queue) /\ Yield(Error, "last")
    /\ UNCHANGED <<script, thread, producer, staged, client>>

\* create_pending_action commits the proposal or fails; it may also fail after
\* the commit.
MayStage == staged' \in {staged, staged \cup {streamer.calls}}

StagesTool ==
    /\ Driven /\ streamer.pc = "staging"
    /\ MayStage
    /\ \/ streamer.calls \in staged' /\ Yield(Result, "last")
       \/ Yield(Error, "last")
    /\ UNCHANGED <<script, bridge, client>>

Finishes ==
    /\ Driven /\ streamer.pc = "last"
    /\ Yield(Stop, "finished")
    /\ UNCHANGED <<script, bridge, staged, client>>

\* The generator is finalised: by CancelledError at the await its task is in, by
\* its aclose, or, if it was left suspended, by the event loop's hook.  The
\* cancellation may find the commit of a tool call already sent.
Finalised ==
    /\ ~Open /\ streamer.pc # "finished"
    /\ CloseBridge(queue) /\ Yield(Nothing, "finished")
    /\ IF streamer.pc = "staging" THEN MayStage ELSE UNCHANGED staged
    /\ UNCHANGED <<script, thread, producer, client>>

------------------------------------------------------------------------------
(* The route: stream_response_generator *)

\* The finally clause begins: the task that is still under way is cancelled.
RouteCloses(sent) ==
    /\ route' = [pc |-> "closing", frame |-> Nothing]
    /\ frames' = sent

\* It waits for the cancelled task to end, unless it is itself cancelled because
\* the connection is lost.  A generator that stands at a yield needs no waiting.
RouteEnds ==
    /\ route.pc = "closing"
    /\ gone \/ streamer.event # Nothing \/ streamer.pc = "finished"
    /\ route' = [route EXCEPT !.pc = "ended"]
    /\ UNCHANGED <<script, bridge, agent, frames, gone>>

\* A new anext task is started before the event is sent.
RouteTakesEvent ==
    /\ route.pc = "waiting" /\ streamer.event \notin {Nothing, Stop}
    /\ route' = [pc |-> "sending", frame |-> streamer.event]
    /\ streamer' = [streamer EXCEPT !.event = Nothing]
    /\ UNCHANGED <<script, bridge, frames, gone, staged>>

RouteSends ==
    /\ route.pc = "sending"
    /\ IF route.frame = Error
         THEN RouteCloses(Append(frames, route.frame))
         ELSE /\ frames' = Append(frames, route.frame)
              /\ route' = [pc |-> "waiting", frame |-> Nothing]
    /\ UNCHANGED <<script, bridge, agent, gone>>

RouteBreaks ==
    /\ route.pc = "waiting" /\ streamer.event = Stop
    /\ RouteCloses(Append(frames, Done))
    /\ UNCHANGED <<script, bridge, agent, gone>>

\* is_disconnected at a heartbeat or before a frame, or the cancellation that
\* the server's response sends when the connection is lost.
RouteDisconnected ==
    /\ Open /\ gone
    /\ RouteCloses(frames)
    /\ UNCHANGED <<script, bridge, agent, gone>>

Disconnect ==
    /\ ~gone /\ route.pc # "ended"
    /\ gone' = TRUE
    /\ UNCHANGED <<script, bridge, agent, route, frames>>

------------------------------------------------------------------------------
Thread == ThreadStarts \/ ThreadReads \/ ThreadRaises \/ PutLands \/ PutTimesOut
Producer == ProducerReturns \/ ProducerTimesOut \/ ProducerPuts
Streamer == GetsChunk \/ GetsEnd \/ GetsError \/ GetTimesOut \/ StagesTool \/ Finishes \/ Finalised
Route == RouteTakesEvent \/ RouteSends \/ RouteBreaks \/ RouteDisconnected \/ RouteEnds

Next == Thread \/ Producer \/ Streamer \/ Route \/ Disconnect

\* The event loop runs what is ready, the idle timeout and the timeout of a put
\* fire, the database answers and the client reads or is gone.  The SDK need not
\* do anything, and the deadline of the whole stream may be far away.
Fairness ==
    /\ WF_vars(Streamer) /\ WF_vars(Route)
    /\ WF_vars(ProducerReturns) /\ WF_vars(ProducerPuts)
    /\ WF_vars(PutLands \/ PutTimesOut)

Spec == Init /\ [][Next]_vars /\ Fairness

------------------------------------------------------------------------------
(* Properties *)

\* The chunks that are sent as tokens: the text before the first call.
Said == {n \in 1..Len(script) : \A m \in 1..n : script[m] = "text"}

\* The client gets the model's text in order and without gaps, "done" only if
\* it has got all of it and the outcome of its tool call, and nothing after
\* "done" or "error": an answer cut short by a timeout, a full queue or a
\* failure of the SDK is never reported as complete.
DoneMeansComplete ==
    \A i \in 1..Len(frames) :
        /\ frames[i].kind = "token" => i \in Said /\ \A n \in 1..i : frames[n] = Token(n)
        /\ frames[i] \in {Done, Error} => i = Len(frames)
        /\ frames[i] = Done =>
              /\ \A n \in Said : n < i /\ frames[n] = Token(n)
              /\ (\E n \in 1..Len(script) : script[n] = "call") =>
                    i > 1 /\ frames[i - 1] = Result

\* The chunks of the model's tool calls.
CallChunks == {n \in 1..Len(script) : script[n] = "call"}

\* What is staged for approval was chosen and put together from all the chunks in
\* which the model sent calls, never from the part that came before a timeout, a
\* full queue, a failure of the SDK or a cancellation; and a client that is told
\* the outcome of a call has it staged.
StagedIsWhole ==
    /\ staged \subseteq {CallChunks}
    /\ (\E i \in 1..Len(frames) : frames[i] = Result) => staged # {}

\* The response ends, even if the SDK never returns: also its finally clause,
\* which waits for the task that drives the streamer.
StreamEnds == <>(route.pc = "ended")

\* If the SDK's reads return, as its transport timeout makes them, the worker
\* thread ends and gives its slot in the runner back, whatever has become of the
\* consumer and however full it left the queue.
ThreadEnds ==
    WF_vars(ThreadReads \/ ThreadRaises) =>
        (thread.pc = "reading" ~> thread.pc \in {"done", "failed"})

==============================================================================
