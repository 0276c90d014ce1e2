--------------------------- MODULE ProviderRunner ---------------------------
(***************************************************************************)
(* Google calls: BoundedSyncRunner (server/integrations/provider.py) under *)
(* run_google_operation and run_google_retryable_operation                 *)
(* (server/integrations/google.py).                                        *)
(*                                                                         *)
(* A coroutine takes the lock of the API client it uses (the client is not *)
(* thread safe), then a slot of the bounded pool, and hands the blocking   *)
(* operation to a thread.  A deadline or a cancellation ends the waiting,  *)
(* never the thread: the abandoned thread keeps slot and lock, and its     *)
(* done-callback gives both back.  Reads and idempotent writes are retried *)
(* within an overall deadline.                                             *)
(*                                                                         *)
(* Deadlines may pass at any await; a thread may run for ever.             *)
(***************************************************************************)
EXTENDS Integers, FiniteSets

CONSTANTS Calls,         \* coroutines, one logical operation each
          Resources,     \* API clients
          ResourceOf,    \* the client a call uses; None for a call without one
          Writes,        \* calls whose outcome would be ambiguous: never retried
          SLOTS,         \* PROVIDER_MAX_CONCURRENCY
          MAX_ATTEMPTS,  \* PROVIDER_RETRY_MAX_ATTEMPTS
          None

ASSUME PoolAssumption == SLOTS \in Nat \ {0} /\ MAX_ATTEMPTS \in Nat \ {0}
ASSUME ResourceAssumption ==
    /\ None \notin Resources
    /\ ResourceOf \in [Calls -> Resources \cup {None}]
    /\ Writes \subseteq Calls

VARIABLES call,      \* the coroutines
          thread,    \* the operation of each attempt of each call
          slots,     \* free slots of the pool's BoundedSemaphore
          locked     \* resources whose asyncio.Lock is held

vars == <<call, thread, slots, locked>>

Attempts == 1..MAX_ATTEMPTS

\* GoogleProviderError and its subclasses.
Errors == {"timeout", "unavailable", "quota", "authentication", "rejected", "internal"}

Call == [pc    : {"idle", "lock", "slot", "calling", "backoff", "returned"},
         tries : 0..MAX_ATTEMPTS,
         with  : Errors \cup {"none", "ok", "cancelled"}]

Thread == [state    : {"none", "running", "done"},  \* done: its future is done
           detached : BOOLEAN]                      \* release_when_finished is attached

TypeOK ==
    /\ call \in [Calls -> Call]
    /\ thread \in [Calls \X Attempts -> Thread]
    /\ slots \in 0..SLOTS
    /\ locked \subseteq Resources

Init ==
    /\ call = [c \in Calls |-> [pc |-> "idle", tries |-> 0, with |-> "none"]]
    /\ thread = [x \in Calls \X Attempts |-> [state |-> "none", detached |-> FALSE]]
    /\ slots = SLOTS
    /\ locked = {}

------------------------------------------------------------------------------

Current(c) == <<c, call[c].tries>>

\* The resources a call has to lock: at most one.
Needs(c) == {ResourceOf[c]} \ {None}

Enter(c) == IF Needs(c) = {} THEN "slot" ELSE "lock"

\* An asyncio.Lock does not know its holder: release frees it whoever holds it.
Unlocked(c) == locked \ Needs(c)

Return(c, with) == call' = [call EXCEPT ![c] = [@ EXCEPT !.pc = "returned", !.with = with]]

\* Faulty variant: whether the operation is a write does not matter.
RetriesAnything(c, error) ==
    /\ error \in {"timeout", "unavailable", "quota"}
    /\ call[c].tries < MAX_ATTEMPTS

\* classify_google_error and the attempt limit: may this failure be retried?
Retries(c, error) ==
    /\ c \notin Writes
    /\ error \in {"timeout", "unavailable", "quota"}
    /\ call[c].tries < MAX_ATTEMPTS

\* A failed attempt: back off, or raise -- always when the delay does not fit
\* before the overall deadline.
Fail(c, error) ==
    \/ Return(c, error)
    \/ Retries(c, error) /\ call' = [call EXCEPT ![c] = [@ EXCEPT !.pc = "backoff"]]

------------------------------------------------------------------------------
(* Admission *)

Begin(c) ==
    /\ call[c].pc = "idle"
    /\ call' = [call EXCEPT ![c] = [@ EXCEPT !.pc = Enter(c), !.tries = 1]]
    /\ UNCHANGED <<thread, slots, locked>>

AcquireLock(c) ==
    /\ call[c].pc = "lock"
    /\ Needs(c) \cap locked = {}
    /\ locked' = locked \cup Needs(c)
    /\ call' = [call EXCEPT ![c] = [@ EXCEPT !.pc = "slot"]]
    /\ UNCHANGED <<thread, slots>>

\* Faulty variant: the wait for the lock has no deadline.
LockWaitUnbounded(c) == FALSE /\ UNCHANGED vars

LockTimeout(c) ==
    /\ call[c].pc = "lock"
    /\ Fail(c, "timeout")
    /\ UNCHANGED <<thread, slots, locked>>

AcquireSlot(c) ==
    /\ call[c].pc = "slot"
    /\ slots > 0
    /\ slots' = slots - 1
    /\ thread' = [thread EXCEPT ![Current(c)] = [state |-> "running", detached |-> FALSE]]
    /\ call' = [call EXCEPT ![c] = [@ EXCEPT !.pc = "calling"]]
    /\ UNCHANGED locked

\* The deadline passes before admission, in the queue for a slot (capacity
\* exceeded, reported as unavailable) or right after it.
SlotTimeout(c) ==
    /\ call[c].pc = "slot"
    /\ \E error \in {"timeout", "unavailable"} : Fail(c, error)
    /\ locked' = Unlocked(c)
    /\ UNCHANGED <<thread, slots>>

------------------------------------------------------------------------------
(* The thread and its coroutine *)

\* Faulty variant: the callback is attached to every future.
FutureDoneAlwaysReleases(c, n) ==
    /\ thread[<<c, n>>].state = "running"
    /\ thread' = [thread EXCEPT ![<<c, n>>] = [@ EXCEPT !.state = "done"]]
    /\ slots' = slots + 1
    /\ locked' = IF thread[<<c, n>>].detached THEN Unlocked(c) ELSE locked
    /\ UNCHANGED call

\* Faulty variant: nothing is called on detached completion.
FutureDoneForgetsLock(c, n) ==
    /\ thread[<<c, n>>].state = "running"
    /\ thread' = [thread EXCEPT ![<<c, n>>] = [@ EXCEPT !.state = "done"]]
    /\ slots' = IF thread[<<c, n>>].detached THEN slots + 1 ELSE slots
    /\ UNCHANGED <<call, locked>>

\* The event loop learns that the thread has ended; an abandoned thread's
\* release_when_finished frees its slot and then its lock.
FutureDone(c, n) ==
    /\ thread[<<c, n>>].state = "running"
    /\ thread' = [thread EXCEPT ![<<c, n>>] = [@ EXCEPT !.state = "done"]]
    /\ IF thread[<<c, n>>].detached
       THEN slots' = slots + 1 /\ locked' = Unlocked(c)
       ELSE UNCHANGED <<slots, locked>>
    /\ UNCHANGED call

\* The coroutine resumes with its future done: with the result, an error, or
\* the deadline that passed at the same moment.  Both finally clauses release.
Collect(c) ==
    /\ call[c].pc = "calling"
    /\ thread[Current(c)].state = "done"
    /\ Return(c, "ok") \/ \E error \in Errors : Fail(c, error)
    /\ slots' = slots + 1
    /\ locked' = Unlocked(c)
    /\ UNCHANGED thread

\* Faulty variant: the slot is free as soon as nobody waits for its thread.
TimeoutFreesSlot(c) ==
    /\ call[c].pc = "calling"
    /\ thread[Current(c)].state = "running"
    /\ Fail(c, "timeout")
    /\ thread' = [thread EXCEPT ![Current(c)] = [@ EXCEPT !.detached = FALSE]]
    /\ slots' = slots + 1
    /\ UNCHANGED locked

\* Faulty variant: the lock is released on every way out.
TimeoutFreesLock(c) ==
    /\ call[c].pc = "calling"
    /\ thread[Current(c)].state = "running"
    /\ Fail(c, "timeout")
    /\ thread' = [thread EXCEPT ![Current(c)] = [@ EXCEPT !.detached = TRUE]]
    /\ locked' = Unlocked(c)
    /\ UNCHANGED slots

\* The deadline passes while the thread runs: it is left to its callback.
Timeout(c) ==
    /\ call[c].pc = "calling"
    /\ thread[Current(c)].state = "running"
    /\ Fail(c, "timeout")
    /\ thread' = [thread EXCEPT ![Current(c)] = [@ EXCEPT !.detached = TRUE]]
    /\ UNCHANGED <<slots, locked>>

\* The next attempt, unless the overall deadline passed during the backoff.
Retry(c) ==
    /\ call[c].pc = "backoff"
    /\ \/ call' = [call EXCEPT ![c] = [@ EXCEPT !.pc = Enter(c), !.tries = call[c].tries + 1]]
       \/ Return(c, "timeout")
    /\ UNCHANGED <<thread, slots, locked>>

------------------------------------------------------------------------------
(* The client disconnects: CancelledError at the await the call is in *)

CancelWaiting(c) ==
    /\ call[c].pc \in {"lock", "slot", "backoff"}
    /\ Return(c, "cancelled")
    /\ locked' = IF call[c].pc = "slot" THEN Unlocked(c) ELSE locked
    /\ UNCHANGED <<thread, slots>>

CancelCalling(c) ==
    /\ call[c].pc = "calling"
    /\ Return(c, "cancelled")
    /\ \/ /\ thread[Current(c)].state = "running"
          /\ thread' = [thread EXCEPT ![Current(c)] = [@ EXCEPT !.detached = TRUE]]
          /\ UNCHANGED <<slots, locked>>
       \/ /\ thread[Current(c)].state = "done"
          /\ slots' = slots + 1
          /\ locked' = Unlocked(c)
          /\ UNCHANGED thread

------------------------------------------------------------------------------

CallStep(c) ==
    \/ AcquireLock(c) \/ LockTimeout(c) \/ AcquireSlot(c) \/ SlotTimeout(c)
    \/ Collect(c) \/ Timeout(c) \/ Retry(c)

Next ==
    \/ \E c \in Calls : Begin(c) \/ CallStep(c) \/ CancelWaiting(c) \/ CancelCalling(c)
    \/ \E c \in Calls, n \in Attempts : FutureDone(c, n)

Spec == Init /\ [][Next]_vars

\* The event loop runs every coroutine that can run, and deadlines pass.  About
\* threads nothing is assumed.
LoopSpec == Spec /\ \A c \in Calls : WF_vars(CallStep(c))

------------------------------------------------------------------------------

Running == {x \in Calls \X Attempts : thread[x].state = "running"}

\* provider.py: abandoned SDK calls must not allow "an unbounded number of
\* replacement threads": however many calls time out, the pool is never exceeded.
ThreadsWithinPool == Cardinality(Running) <= SLOTS

\* An API client is used by one thread at a time -- also by the retry of a call
\* whose first thread is still running, and after cancellations.
OneThreadPerResource ==
    \A x, y \in Running :
        x # y /\ ResourceOf[x[1]] = ResourceOf[y[1]] => ResourceOf[x[1]] = None

\* When nothing is under way every slot and every lock has been given back,
\* whichever of coroutine, deadline, cancellation and callback came first.
NothingLeaked ==
    Running = {} /\ (\A c \in Calls : call[c].pc \in {"idle", "returned"})
    => slots = SLOTS /\ locked = {}

\* execute_google_request: "Dispatch a potentially ambiguous provider request
\* exactly once": no failure makes the runner hand a write to a second thread.
WriteSentOnce ==
    \A c \in Writes :
        Cardinality({n \in Attempts : thread[<<c, n>>].state # "none"}) <= 1

\* Every call returns, even if threads holding its lock or the pool never end.
EveryCallReturns == \A c \in Calls : call[c].pc # "idle" ~> call[c].pc = "returned"
==============================================================================
