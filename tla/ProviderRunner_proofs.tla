------------------------ MODULE ProviderRunner_proofs ------------------------
(***************************************************************************)
(* Proofs about ProviderRunner for every set of calls, clients and writes, *)
(* every pool size and every attempt limit: the pool bound holds for       *)
(* threads, a client is used by one thread, nothing is leaked or released  *)
(* twice, and a write is sent once.                                        *)
(***************************************************************************)
EXTENDS ProviderRunner, FiniteSetTheorems, TLAPS

------------------------------------------------------------------------------
(* The inductive invariant *)

\* The attempts of a call and its control state: later attempts have no thread
\* yet, the current one has a thread of its own exactly while the call waits for
\* it, and every other running thread has been left to its callback.
AttemptShape ==
    \A c \in Calls :
        /\ call[c].pc = "idle" => call[c].tries = 0
        /\ call[c].pc # "idle" => call[c].tries \in Attempts
        /\ \A n \in Attempts : n > call[c].tries => thread[<<c, n>>].state = "none"
        /\ call[c].pc \in {"lock", "slot"} => thread[<<c, call[c].tries>>].state = "none"
        /\ call[c].pc = "calling" => /\ thread[<<c, call[c].tries>>].state # "none"
                                     /\ ~thread[<<c, call[c].tries>>].detached
        /\ \A n \in Attempts :
              thread[<<c, n>>].state = "running" /\ ~thread[<<c, n>>].detached
              => call[c].pc = "calling" /\ call[c].tries = n

\* Only what may be repeated is repeated.
OnlyReadsRetry ==
    \A c \in Calls :
        /\ call[c].pc = "backoff" => c \notin Writes /\ call[c].tries < MAX_ATTEMPTS
        /\ c \in Writes => call[c].tries <= 1

\* The attempts that occupy a slot: the thread runs, or has ended and its call
\* has not come back for the result.
Occupies(c, n) ==
    \/ thread[<<c, n>>].state = "running"
    \/ call[c].pc = "calling" /\ call[c].tries = n

Occupied == {x \in Calls \X Attempts : Occupies(x[1], x[2])}

\* Slots are neither lost nor made.
SlotsCounted == IsFiniteSet(Occupied) /\ slots + Cardinality(Occupied) = SLOTS

\* The attempts that hold their client's lock: those, and one that has it and
\* still waits for a slot.
Holds(c, n) == Occupies(c, n) \/ (call[c].pc = "slot" /\ call[c].tries = n)

\* A lock is held exactly while one attempt holds it.
LocksHeld ==
    /\ \A c \in Calls, n \in Attempts :
          Holds(c, n) /\ ResourceOf[c] # None => ResourceOf[c] \in locked
    /\ \A c, d \in Calls, n, m \in Attempts :
          Holds(c, n) /\ Holds(d, m) /\ ResourceOf[c] = ResourceOf[d] /\ ResourceOf[c] # None
          => c = d /\ n = m
    /\ \A r \in locked : \E c \in Calls, n \in Attempts : Holds(c, n) /\ ResourceOf[c] = r

\* The invariant that is preserved by every step.
IInv == TypeOK /\ AttemptShape /\ OnlyReadsRetry /\ SlotsCounted /\ LocksHeld

------------------------------------------------------------------------------
(* Facts about the operators *)

\* Which locks a call needs, in terms of its client.
LEMMA NeedsItsClient ==
  ASSUME NEW c \in Calls
  PROVE  /\ ResourceOf[c] = None => Needs(c) = {} /\ Enter(c) = "slot"
         /\ ResourceOf[c] # None => Needs(c) = {ResourceOf[c]} /\ Enter(c) = "lock"
         /\ Unlocked(c) = {r \in locked : r # ResourceOf[c] \/ ResourceOf[c] = None}
  BY ResourceAssumption DEF Needs, Enter, Unlocked

\* The initial states satisfy the invariant: no call has begun.
LEMMA InitIInv == Init => IInv
  <1> SUFFICES ASSUME Init PROVE IInv
    OBVIOUS
  <1>1. TypeOK
    BY PoolAssumption DEF Init, TypeOK, Call, Thread
  <1>2. AttemptShape /\ OnlyReadsRetry
    BY DEF Init, AttemptShape, OnlyReadsRetry, Attempts
  <1>3. \A c \in Calls, n \in Attempts : ~Occupies(c, n) /\ ~Holds(c, n)
    BY DEF Init, Occupies, Holds
  <1>4. Occupied = {}
    BY <1>3 DEF Occupied
  <1>5. SlotsCounted
    BY <1>4, FS_EmptySet, PoolAssumption DEF SlotsCounted, Init
  <1>6. LocksHeld
    BY <1>3 DEF LocksHeld, Init
  <1> QED
    BY <1>1, <1>2, <1>5, <1>6 DEF IInv

\* The coroutine of a call moves on: its record changes, the others do not.
Moves(c, k) == call' = [call EXCEPT ![c] = k]

\* What such a step leaves of the calls.
LEMMA CallMoved ==
  ASSUME TypeOK, NEW c \in Calls, NEW k \in Call, Moves(c, k)
  PROVE  /\ call' \in [Calls -> Call]
         /\ call'[c] = k
         /\ \A d \in Calls : d # c => call'[d] = call[d]
  BY DEF TypeOK, Moves

\* The record of a call that goes on with attempt n.
Entered(k, pc, n) == [k EXCEPT !.pc = pc, !.tries = n]

\* It is a call record again, with that control state and attempt number.
LEMMA CallEnters ==
  ASSUME NEW k \in Call, NEW pc \in {"lock", "slot"}, NEW n \in 0..MAX_ATTEMPTS
  PROVE  Entered(k, pc, n) \in Call /\ Entered(k, pc, n).pc = pc /\ Entered(k, pc, n).tries = n
  BY DEF Call, Entered

\* A call that returns or backs off keeps its attempt number, and only what may
\* be repeated backs off.
Ends(c, k) ==
    /\ k \in Call
    /\ k.tries = call[c].tries
    /\ \/ k.pc = "returned"
       \/ k.pc = "backoff" /\ c \notin Writes /\ call[c].tries < MAX_ATTEMPTS

\* A return ends the attempt.
LEMMA ReturnEnds ==
  ASSUME TypeOK, NEW c \in Calls, NEW with \in Errors \cup {"ok", "cancelled"}, Return(c, with)
  PROVE  \E k : Moves(c, k) /\ Ends(c, k)
  <1> DEFINE k == [call[c] EXCEPT !.pc = "returned", !.with = with]
  <1>1. call[c] \in Call
    BY DEF TypeOK
  <1>2. k \in Call /\ k.pc = "returned" /\ k.tries = call[c].tries
    BY <1>1 DEF Call
  <1>3. Moves(c, k)
    BY DEF Return, Moves
  <1> HIDE DEF k
  <1> QED
    BY <1>2, <1>3 DEF Ends

\* So does a failure, whether it is returned or retried.
LEMMA FailEnds ==
  ASSUME TypeOK, NEW c \in Calls, NEW error \in Errors, Fail(c, error)
  PROVE  \E k : Moves(c, k) /\ Ends(c, k)
  <1>1. CASE Return(c, error)
    BY <1>1, ReturnEnds
  <1>2. CASE Retries(c, error) /\ call' = [call EXCEPT ![c] = [@ EXCEPT !.pc = "backoff"]]
    <2> DEFINE k == [call[c] EXCEPT !.pc = "backoff"]
    <2>1. call[c] \in Call
      BY DEF TypeOK
    <2>2. k \in Call /\ k.pc = "backoff" /\ k.tries = call[c].tries
      BY <2>1 DEF Call
    <2>3. Moves(c, k)
      BY <1>2 DEF Moves
    <2> HIDE DEF k
    <2> QED
      BY <1>2, <2>2, <2>3 DEF Ends, Retries
  <1> QED
    BY <1>1, <1>2 DEF Fail

------------------------------------------------------------------------------
(* One lemma per kind of step *)

\* An attempt that holds its client's lock stops holding it and releases it.
LEMMA LockReleased ==
  ASSUME TypeOK, LocksHeld, NEW c \in Calls, NEW a \in Attempts, Holds(c, a),
         locked' = Unlocked(c),
         \A d \in Calls, n \in Attempts : Holds(d, n)' <=> Holds(d, n) /\ ~(d = c /\ n = a)
  PROVE  LocksHeld'
  <1>0. /\ None \notin locked
        /\ locked' = {r \in locked : r # ResourceOf[c] \/ ResourceOf[c] = None}
    BY NeedsItsClient, ResourceAssumption DEF TypeOK
  <1>1. ASSUME NEW d \in Calls, NEW n \in Attempts, Holds(d, n)', ResourceOf[d] # None
        PROVE  ResourceOf[d] \in locked'
    <2>1. Holds(d, n) /\ ~(d = c /\ n = a) /\ ResourceOf[d] \in locked
      BY <1>1 DEF LocksHeld
    <2>2. ResourceOf[d] # ResourceOf[c]
      BY <1>1, <2>1 DEF LocksHeld
    <2> QED
      BY <1>0, <2>1, <2>2
  <1>2. ASSUME NEW r \in locked'
        PROVE  \E d \in Calls, n \in Attempts : Holds(d, n)' /\ ResourceOf[d] = r
    <2>1. r \in locked /\ r # ResourceOf[c]
      BY <1>0
    <2>2. PICK d \in Calls, n \in Attempts : Holds(d, n) /\ ResourceOf[d] = r
      BY <2>1 DEF LocksHeld
    <2> QED
      BY <2>1, <2>2
  <1>3. \A d, e \in Calls, n, m \in Attempts :
           /\ Holds(d, n)' /\ Holds(e, m)'
           /\ ResourceOf[d] = ResourceOf[e] /\ ResourceOf[d] # None
           => d = e /\ n = m
    BY DEF LocksHeld
  <1> QED
    BY <1>1, <1>2, <1>3 DEF LocksHeld

\* A call that holds nothing goes on to wait for admission, backs off or returns.
LEMMA WaitingMoves ==
  ASSUME IInv, NEW c \in Calls, NEW k \in Call, Moves(c, k), UNCHANGED <<thread, slots, locked>>,
         \/ call[c].pc \in {"lock", "backoff"} /\ Ends(c, k)
         \/ /\ call[c].pc \in {"idle", "backoff"}
            /\ k.pc = Enter(c) /\ k.tries = call[c].tries + 1
  PROVE  IInv'
  <1>1. /\ call' \in [Calls -> Call] /\ call'[c] = k
        /\ \A d \in Calls : d # c => call'[d] = call[d]
    BY CallMoved DEF IInv
  <1>2. TypeOK'
    BY <1>1 DEF IInv, TypeOK
  <1>3. k.tries \in Nat /\ call[c].tries \in Nat /\ MAX_ATTEMPTS \in Nat
    BY PoolAssumption DEF IInv, TypeOK, Call
  <1>4. k.pc \in {"lock", "slot", "backoff", "returned"} /\ (k.pc = "slot" => ResourceOf[c] = None)
    BY NeedsItsClient DEF Ends
  <1>a. /\ call[c].pc = "idle" => call[c].tries = 0
        /\ call[c].pc # "idle" => call[c].tries \in Attempts
        /\ call[c].pc = "backoff" => c \notin Writes /\ call[c].tries < MAX_ATTEMPTS
        /\ \A n \in Attempts : n > call[c].tries => thread[<<c, n>>].state = "none"
    BY DEF IInv, AttemptShape, OnlyReadsRetry
  <1>b. \/ /\ k.tries = call[c].tries /\ k.tries \in Attempts /\ k.pc \in {"backoff", "returned"}
           /\ k.pc = "backoff" => c \notin Writes /\ k.tries < MAX_ATTEMPTS
        \/ /\ k.tries = call[c].tries + 1 /\ k.pc \in {"lock", "slot"}
           /\ k.tries \in Attempts /\ (c \in Writes => k.tries = 1)
    <2>1. CASE call[c].pc \in {"lock", "backoff"} /\ Ends(c, k)
      BY <2>1, <1>a DEF Ends
    <2>2. CASE /\ call[c].pc \in {"idle", "backoff"}
               /\ k.pc = Enter(c) /\ k.tries = call[c].tries + 1
      <3>1. k.pc \in {"lock", "slot"}
        BY <2>2 DEF Enter
      <3>2. call[c].tries + 1 \in Attempts /\ (c \in Writes => k.tries = 1)
        BY <2>2, <1>a, <1>3, PoolAssumption DEF Attempts
      <3> QED
        BY <2>2, <3>1, <3>2
    <2> QED
      BY <2>1, <2>2
  <1>7. AttemptShape'
    <2> SUFFICES ASSUME NEW d \in Calls
                 PROVE  AttemptShape!(d)'
      BY DEF AttemptShape
    <2>1. CASE d # c
      BY <2>1, <1>1 DEF IInv, AttemptShape
    <2>2. CASE d = c
      <3>1. \A n \in Attempts : ~(thread[<<c, n>>].state = "running" /\ ~thread[<<c, n>>].detached)
        BY DEF IInv, AttemptShape
      <3>2. k.pc \in {"lock", "slot"} => thread[<<c, k.tries>>].state = "none"
        BY <1>a, <1>b, <1>3
      <3>3. \A n \in Attempts : n > k.tries => thread[<<c, n>>].state = "none"
        BY <1>a, <1>b, <1>3 DEF Attempts
      <3> QED
        BY <2>2, <3>1, <3>2, <3>3, <1>1, <1>b
    <2> QED
      BY <2>1, <2>2
  <1>8. OnlyReadsRetry'
    BY <1>1, <1>3, <1>b DEF IInv, OnlyReadsRetry
  <1>9. \A d \in Calls, n \in Attempts : Occupies(d, n)' = Occupies(d, n)
    BY <1>1, <1>4 DEF Occupies
  <1>10. SlotsCounted'
    <2>1. Occupied' = Occupied
      BY <1>9 DEF Occupied
    <2> QED
      BY <2>1 DEF IInv, SlotsCounted
  <1>11. \A d \in Calls, n \in Attempts : ResourceOf[d] # None => Holds(d, n)' = Holds(d, n)
    BY <1>1, <1>4, <1>9 DEF Holds
  <1>12. LocksHeld'
    <2>1. locked' = locked /\ None \notin locked
      BY ResourceAssumption DEF IInv, TypeOK
    <2> QED
      BY <1>11, <2>1 DEF IInv, LocksHeld
  <1> QED
    BY <1>2, <1>7, <1>8, <1>10, <1>12 DEF IInv

\* A call that waits for its client gets the lock.
LEMMA LockTaken ==
  ASSUME IInv, NEW c \in Calls, AcquireLock(c)
  PROVE  IInv'
  <1> DEFINE k == [call[c] EXCEPT !.pc = "slot"]
  <1>0. k \in Call /\ k.pc = "slot" /\ k.tries = call[c].tries
    BY DEF IInv, TypeOK, Call
  <1>a. Moves(c, k)
    BY DEF AcquireLock, Moves
  <1> HIDE DEF k
  <1>1. /\ call' \in [Calls -> Call] /\ call'[c] = k
        /\ \A d \in Calls : d # c => call'[d] = call[d]
    BY <1>0, <1>a, CallMoved DEF IInv
  <1>2. /\ call[c].pc = "lock" /\ Needs(c) \cap locked = {} /\ locked' = locked \cup Needs(c)
        /\ UNCHANGED <<thread, slots>>
    BY DEF AcquireLock
  <1>3. TypeOK'
    BY <1>1, <1>2, ResourceAssumption DEF IInv, TypeOK, Needs
  <1>4. AttemptShape' /\ OnlyReadsRetry'
    BY <1>0, <1>1, <1>2 DEF IInv, AttemptShape, OnlyReadsRetry
  <1>5. \A d \in Calls, n \in Attempts : Occupies(d, n)' = Occupies(d, n)
    BY <1>0, <1>1, <1>2 DEF Occupies
  <1>6. SlotsCounted'
    <2>1. Occupied' = Occupied
      BY <1>5 DEF Occupied
    <2> QED
      BY <1>2, <2>1 DEF IInv, SlotsCounted
  <1>7. \A d \in Calls, n \in Attempts :
           Holds(d, n)' <=> Holds(d, n) \/ (d = c /\ n = call[c].tries)
    BY <1>0, <1>1, <1>2, <1>5 DEF Holds
  <1>8. call[c].tries \in Attempts
    BY <1>2 DEF IInv, AttemptShape
  <1>9. LocksHeld'
    BY <1>2, <1>7, <1>8, NeedsItsClient DEF IInv, LocksHeld
  <1> QED
    BY <1>3, <1>4, <1>6, <1>9 DEF IInv

\* A call is admitted and its thread starts.
LEMMA SlotTaken ==
  ASSUME IInv, NEW c \in Calls, AcquireSlot(c)
  PROVE  IInv'
  <1> DEFINE k == [call[c] EXCEPT !.pc = "calling"]
             a == call[c].tries
             t == [state |-> "running", detached |-> FALSE]
  <1>0. k \in Call /\ k.pc = "calling" /\ k.tries = a
    BY DEF IInv, TypeOK, Call
  <1>a. Moves(c, k)
    BY DEF AcquireSlot, Moves
  <1>b. t \in Thread /\ t.state = "running" /\ ~t.detached
    BY DEF Thread
  <1>c. call[c].pc = "slot" /\ slots > 0 /\ slots' = slots - 1 /\ UNCHANGED locked
    BY DEF AcquireSlot
  <1>d. a \in Attempts /\ thread[<<c, a>>].state = "none"
    BY <1>c DEF IInv, AttemptShape
  <1>e. thread' = [thread EXCEPT ![<<c, a>>] = t]
    BY DEF AcquireSlot, Current
  <1> HIDE DEF k, t
  <1>1. /\ call' \in [Calls -> Call] /\ call'[c] = k
        /\ \A d \in Calls : d # c => call'[d] = call[d]
    BY <1>0, <1>a, CallMoved DEF IInv
  <1>2. /\ thread' \in [Calls \X Attempts -> Thread]
        /\ thread'[<<c, a>>] = t
        /\ \A d \in Calls, n \in Attempts : d # c \/ n # a => thread'[<<d, n>>] = thread[<<d, n>>]
    BY <1>b, <1>d, <1>e DEF IInv, TypeOK
  <1>3. TypeOK'
    BY <1>1, <1>2, <1>c, PoolAssumption DEF IInv, TypeOK
  <1>4. AttemptShape'
    BY <1>0, <1>1, <1>2, <1>b, <1>c, <1>d DEF IInv, AttemptShape, Attempts
  <1>5. OnlyReadsRetry'
    BY <1>0, <1>1 DEF IInv, OnlyReadsRetry
  <1>6. \A d \in Calls, n \in Attempts :
           Occupies(d, n)' <=> Occupies(d, n) \/ (d = c /\ n = a)
    BY <1>0, <1>1, <1>2, <1>b, <1>c DEF Occupies
  <1>7. ~Occupies(c, a)
    BY <1>c, <1>d DEF Occupies
  <1>8. SlotsCounted'
    <2>1. Occupied' = Occupied \cup {<<c, a>>}
      BY <1>6, <1>d DEF Occupied
    <2>2. <<c, a>> \notin Occupied
      BY <1>7 DEF Occupied
    <2>3. IsFiniteSet(Occupied') /\ Cardinality(Occupied') = Cardinality(Occupied) + 1
      BY <2>1, <2>2, FS_AddElement DEF IInv, SlotsCounted
    <2>4. Cardinality(Occupied) \in Nat
      BY FS_CardinalityType DEF IInv, SlotsCounted
    <2> QED
      BY <2>3, <2>4, <1>c, PoolAssumption DEF IInv, SlotsCounted, TypeOK
  <1>9. \A d \in Calls, n \in Attempts : Holds(d, n)' = Holds(d, n)
    BY <1>0, <1>1, <1>6, <1>c DEF Holds
  <1>10. LocksHeld'
    BY <1>9, <1>c DEF IInv, LocksHeld
  <1> QED
    BY <1>3, <1>4, <1>5, <1>8, <1>10 DEF IInv

\* A call gives up waiting for a slot and releases its client.
LEMMA SlotGivenUp ==
  ASSUME IInv, NEW c \in Calls, NEW k, Moves(c, k), Ends(c, k), call[c].pc = "slot",
         locked' = Unlocked(c), UNCHANGED <<thread, slots>>
  PROVE  IInv'
  <1>0. k \in Call /\ k.pc \in {"backoff", "returned"} /\ k.tries = call[c].tries
        /\ (k.pc = "backoff" => c \notin Writes /\ k.tries < MAX_ATTEMPTS)
    BY DEF Ends
  <1>1. /\ call' \in [Calls -> Call] /\ call'[c] = k
        /\ \A d \in Calls : d # c => call'[d] = call[d]
    BY <1>0, CallMoved DEF IInv
  <1>2. TypeOK'
    BY <1>1 DEF IInv, TypeOK, Unlocked
  <1>3. AttemptShape'
    BY <1>0, <1>1 DEF IInv, AttemptShape
  <1>4. OnlyReadsRetry'
    BY <1>0, <1>1 DEF IInv, OnlyReadsRetry
  <1>5. \A d \in Calls, n \in Attempts : Occupies(d, n)' = Occupies(d, n)
    BY <1>0, <1>1 DEF Occupies
  <1>6. SlotsCounted'
    <2>1. Occupied' = Occupied
      BY <1>5 DEF Occupied
    <2> QED
      BY <2>1 DEF IInv, SlotsCounted
  <1>7. ~Occupies(c, call[c].tries) /\ call[c].tries \in Attempts
    BY DEF IInv, AttemptShape, Occupies
  <1>8. \A d \in Calls, n \in Attempts :
           Holds(d, n)' <=> Holds(d, n) /\ ~(d = c /\ n = call[c].tries)
    BY <1>0, <1>1, <1>5, <1>7 DEF Holds
  <1>9. LocksHeld'
    <2>1. Holds(c, call[c].tries)
      BY DEF Holds
    <2> QED
      BY <1>7, <1>8, <2>1, LockReleased DEF IInv
  <1> QED
    BY <1>2, <1>3, <1>4, <1>6, <1>9 DEF IInv

\* A thread ends; if its call has left it, its callback releases slot and client.
LEMMA ThreadEnds ==
  ASSUME IInv, NEW c \in Calls, NEW a \in Attempts, FutureDone(c, a)
  PROVE  IInv'
  <1> DEFINE t == [thread[<<c, a>>] EXCEPT !.state = "done"]
             left == thread[<<c, a>>].detached
  <1>a. t \in Thread /\ t.state = "done" /\ t.detached = left
    BY DEF IInv, TypeOK, Thread
  <1>b. /\ thread[<<c, a>>].state = "running" /\ UNCHANGED call
        /\ left => slots' = slots + 1 /\ locked' = Unlocked(c)
        /\ ~left => UNCHANGED <<slots, locked>>
    BY DEF FutureDone
  <1>c. left \in BOOLEAN
    BY DEF IInv, TypeOK, Thread
  <1>d. thread' = [thread EXCEPT ![<<c, a>>] = t]
    BY DEF FutureDone
  <1> HIDE DEF t
  <1>1. /\ thread' \in [Calls \X Attempts -> Thread]
        /\ thread'[<<c, a>>] = t
        /\ \A d \in Calls, n \in Attempts : d # c \/ n # a => thread'[<<d, n>>] = thread[<<d, n>>]
    BY <1>a, <1>d DEF IInv, TypeOK
  <1>2. left <=> ~(call[c].pc = "calling" /\ call[c].tries = a)
    BY <1>b, <1>c DEF IInv, AttemptShape
  <1>3. AttemptShape'
    BY <1>1, <1>2, <1>a, <1>b DEF IInv, AttemptShape
  <1>4. OnlyReadsRetry'
    BY <1>b DEF IInv, OnlyReadsRetry
  <1>5. \A d \in Calls, n \in Attempts :
           Occupies(d, n)' <=> Occupies(d, n) /\ ~(left /\ d = c /\ n = a)
    BY <1>1, <1>2, <1>a, <1>b DEF Occupies
  <1>6. Occupies(c, a)
    BY <1>b DEF Occupies
  <1>7. SlotsCounted' /\ slots' \in 0..SLOTS
    <2>0. Cardinality(Occupied) \in Nat /\ IsFiniteSet(Occupied)
      BY FS_CardinalityType DEF IInv, SlotsCounted
    <2>1. CASE left
      <3>1. Occupied' = Occupied \ {<<c, a>>}
        BY <1>5, <2>1 DEF Occupied
      <3>2. <<c, a>> \in Occupied
        BY <1>6 DEF Occupied
      <3>3. IsFiniteSet(Occupied') /\ Cardinality(Occupied') = Cardinality(Occupied) - 1
        BY <3>1, <3>2, <2>0, FS_RemoveElement
      <3>4. Cardinality(Occupied') \in Nat
        BY <3>3, FS_CardinalityType
      <3> QED
        BY <2>0, <2>1, <3>3, <3>4, <1>b, PoolAssumption DEF IInv, SlotsCounted, TypeOK
    <2>2. CASE ~left
      <3>1. Occupied' = Occupied
        BY <1>5, <2>2 DEF Occupied
      <3> QED
        BY <2>2, <3>1, <1>b DEF IInv, SlotsCounted, TypeOK
    <2> QED
      BY <2>1, <2>2
  <1>8. \A d \in Calls, n \in Attempts :
           Holds(d, n)' <=> Holds(d, n) /\ ~(left /\ d = c /\ n = a)
    <2>1. left => ~(call[c].pc = "slot" /\ call[c].tries = a)
      BY <1>b DEF IInv, AttemptShape
    <2> QED
      BY <1>5, <1>b, <2>1 DEF Holds
  <1>9. LocksHeld' /\ locked' \subseteq Resources
    <2>1. Holds(c, a)
      BY <1>6 DEF Holds
    <2>2. CASE left
      <3>1. LocksHeld'
        BY <1>8, <1>b, <2>1, <2>2, LockReleased DEF IInv
      <3> QED
        BY <3>1, <1>b, <2>2 DEF IInv, TypeOK, Unlocked
    <2>3. CASE ~left
      BY <1>8, <1>b, <2>3 DEF IInv, LocksHeld, TypeOK
    <2> QED
      BY <2>2, <2>3
  <1>10. TypeOK'
    BY <1>1, <1>7, <1>9, <1>b DEF IInv, TypeOK
  <1> QED
    BY <1>3, <1>4, <1>7, <1>9, <1>10 DEF IInv

\* A call comes back for its result and releases slot and client.
LEMMA ResultCollected ==
  ASSUME IInv, NEW c \in Calls, NEW k, Moves(c, k), Ends(c, k), call[c].pc = "calling",
         thread[Current(c)].state = "done",
         slots' = slots + 1, locked' = Unlocked(c), UNCHANGED thread
  PROVE  IInv'
  <1> DEFINE a == call[c].tries
  <1>0. k \in Call /\ k.pc \in {"backoff", "returned"} /\ k.tries = a
        /\ (k.pc = "backoff" => c \notin Writes /\ k.tries < MAX_ATTEMPTS)
    BY DEF Ends
  <1>1. /\ call' \in [Calls -> Call] /\ call'[c] = k
        /\ \A d \in Calls : d # c => call'[d] = call[d]
    BY <1>0, CallMoved DEF IInv
  <1>2. a \in Attempts /\ thread[<<c, a>>].state = "done"
    BY DEF IInv, AttemptShape, Current
  <1>3. AttemptShape'
    BY <1>0, <1>1, <1>2 DEF IInv, AttemptShape
  <1>4. OnlyReadsRetry'
    BY <1>0, <1>1 DEF IInv, OnlyReadsRetry
  <1>5. \A d \in Calls, n \in Attempts :
           Occupies(d, n)' <=> Occupies(d, n) /\ ~(d = c /\ n = a)
    BY <1>0, <1>1, <1>2 DEF Occupies
  <1>6. Occupies(c, a)
    BY DEF Occupies
  <1>7. SlotsCounted' /\ slots' \in 0..SLOTS
    <2>0. Cardinality(Occupied) \in Nat /\ IsFiniteSet(Occupied)
      BY FS_CardinalityType DEF IInv, SlotsCounted
    <2>1. Occupied' = Occupied \ {<<c, a>>}
      BY <1>5 DEF Occupied
    <2>2. <<c, a>> \in Occupied
      BY <1>2, <1>6 DEF Occupied
    <2>3. IsFiniteSet(Occupied') /\ Cardinality(Occupied') = Cardinality(Occupied) - 1
      BY <2>1, <2>2, <2>0, FS_RemoveElement
    <2>4. Cardinality(Occupied') \in Nat
      BY <2>3, FS_CardinalityType
    <2> QED
      BY <2>0, <2>3, <2>4, PoolAssumption DEF IInv, SlotsCounted, TypeOK
  <1>8. \A d \in Calls, n \in Attempts :
           Holds(d, n)' <=> Holds(d, n) /\ ~(d = c /\ n = a)
    BY <1>0, <1>1, <1>5 DEF Holds
  <1>9. LocksHeld'
    <2>1. Holds(c, a)
      BY <1>6 DEF Holds
    <2> QED
      BY <1>2, <1>8, <2>1, LockReleased DEF IInv
  <1>10. TypeOK'
    BY <1>1, <1>7 DEF IInv, TypeOK, Unlocked
  <1> QED
    BY <1>3, <1>4, <1>7, <1>9, <1>10 DEF IInv

\* A call leaves a running thread to its callback.
Leaves(c) ==
    /\ thread[Current(c)].state = "running"
    /\ thread' = [thread EXCEPT ![Current(c)] = [@ EXCEPT !.detached = TRUE]]
    /\ UNCHANGED <<slots, locked>>

\* Detaching moves the duty to release slot and lock to the callback.
LEMMA ThreadLeft ==
  ASSUME IInv, NEW c \in Calls, NEW k, Moves(c, k), Ends(c, k), call[c].pc = "calling", Leaves(c)
  PROVE  IInv'
  <1> DEFINE a == call[c].tries
             t == [thread[<<c, a>>] EXCEPT !.detached = TRUE]
  <1>0. k \in Call /\ k.pc \in {"backoff", "returned"} /\ k.tries = a
        /\ (k.pc = "backoff" => c \notin Writes /\ k.tries < MAX_ATTEMPTS)
    BY DEF Ends
  <1>1. /\ call' \in [Calls -> Call] /\ call'[c] = k
        /\ \A d \in Calls : d # c => call'[d] = call[d]
    BY <1>0, CallMoved DEF IInv
  <1>2. a \in Attempts /\ thread[<<c, a>>].state = "running"
    BY DEF IInv, AttemptShape, Current, Leaves
  <1>a. t \in Thread /\ t.state = "running" /\ t.detached
    BY <1>2 DEF IInv, TypeOK, Thread
  <1>b. thread' = [thread EXCEPT ![<<c, a>>] = t] /\ slots' = slots /\ locked' = locked
    BY DEF Current, Leaves
  <1> HIDE DEF t
  <1>c. /\ thread' \in [Calls \X Attempts -> Thread]
        /\ thread'[<<c, a>>] = t
        /\ \A d \in Calls, n \in Attempts : d # c \/ n # a => thread'[<<d, n>>] = thread[<<d, n>>]
    BY <1>2, <1>a, <1>b DEF IInv, TypeOK
  <1>3. AttemptShape'
    <2> SUFFICES ASSUME NEW d \in Calls
                 PROVE  AttemptShape!(d)'
      BY DEF AttemptShape
    <2>1. CASE d # c
      <3>1. call'[d] = call[d] /\ \A n \in Attempts : thread'[<<d, n>>] = thread[<<d, n>>]
        BY <2>1, <1>1, <1>c
      <3> QED
        BY <3>1 DEF IInv, AttemptShape
    <2>2. CASE d = c
      <3>1. /\ \A n \in Attempts : n > a => n # a /\ thread[<<c, n>>].state = "none"
            /\ \A n \in Attempts : n # a =>
                 ~(thread[<<c, n>>].state = "running" /\ ~thread[<<c, n>>].detached)
        BY <1>2 DEF IInv, AttemptShape, Attempts
      <3>2. \A n \in Attempts : n > a => thread'[<<c, n>>].state = "none"
        BY <3>1, <1>c
      <3>3. \A n \in Attempts :
               ~(thread'[<<c, n>>].state = "running" /\ ~thread'[<<c, n>>].detached)
        BY <3>1, <1>a, <1>c
      <3> QED
        BY <2>2, <3>2, <3>3, <1>0, <1>1, <1>2
    <2> QED
      BY <2>1, <2>2
  <1>4. OnlyReadsRetry'
    BY <1>0, <1>1 DEF IInv, OnlyReadsRetry
  <1>5. \A d \in Calls, n \in Attempts : Occupies(d, n)' = Occupies(d, n)
    BY <1>0, <1>1, <1>2, <1>a, <1>c DEF Occupies
  <1>6. SlotsCounted'
    <2>1. Occupied' = Occupied
      BY <1>5 DEF Occupied
    <2> QED
      BY <2>1, <1>b DEF IInv, SlotsCounted
  <1>7. \A d \in Calls, n \in Attempts : Holds(d, n)' = Holds(d, n)
    BY <1>0, <1>1, <1>5 DEF Holds
  <1>8. LocksHeld'
    BY <1>7, <1>b DEF IInv, LocksHeld
  <1>9. TypeOK'
    BY <1>1, <1>b, <1>c DEF IInv, TypeOK
  <1> QED
    BY <1>3, <1>4, <1>6, <1>8, <1>9 DEF IInv

------------------------------------------------------------------------------

\* Every step keeps the invariant: each is of one of the kinds above.
LEMMA NextIInv == IInv /\ [Next]_vars => IInv'
  <1> SUFFICES ASSUME IInv, [Next]_vars PROVE IInv'
    OBVIOUS
  <1>0. TypeOK
    BY DEF IInv
  <1>1. ASSUME NEW c \in Calls, Begin(c) PROVE IInv'
    <2> DEFINE k == Entered(call[c], Enter(c), 1)
    <2>1. call[c] \in Call /\ call[c].tries = 0 /\ Enter(c) \in {"lock", "slot"}
      BY <1>1 DEF IInv, TypeOK, AttemptShape, Begin, Enter
    <2>2. k \in Call /\ k.pc = Enter(c) /\ k.tries = call[c].tries + 1
      <3>1. 1 \in 0..MAX_ATTEMPTS /\ call[c].tries + 1 = 1
        BY <2>1, PoolAssumption
      <3> QED
        BY <2>1, <3>1, CallEnters
    <2>3. Moves(c, k) /\ call[c].pc = "idle" /\ UNCHANGED <<thread, slots, locked>>
      BY <1>1 DEF Begin, Moves, Entered
    <2> HIDE DEF k
    <2> QED
      BY <2>2, <2>3, WaitingMoves
  <1>2. ASSUME NEW c \in Calls, LockTimeout(c) PROVE IInv'
    <2>1. PICK k : Moves(c, k) /\ Ends(c, k)
      BY <1>0, <1>2, FailEnds DEF LockTimeout, Errors
    <2> QED
      BY <1>2, <2>1, WaitingMoves DEF LockTimeout, Ends
  <1>3. ASSUME NEW c \in Calls, SlotTimeout(c) PROVE IInv'
    <2>1. PICK k : Moves(c, k) /\ Ends(c, k)
      BY <1>0, <1>3, FailEnds DEF SlotTimeout, Errors
    <2> QED
      BY <1>3, <2>1, SlotGivenUp DEF SlotTimeout
  <1>4. ASSUME NEW c \in Calls, Collect(c) PROVE IInv'
    <2>1. PICK k : Moves(c, k) /\ Ends(c, k)
      BY <1>0, <1>4, FailEnds, ReturnEnds DEF Collect
    <2> QED
      BY <1>4, <2>1, ResultCollected DEF Collect
  <1>5. ASSUME NEW c \in Calls, Timeout(c) PROVE IInv'
    <2>1. PICK k : Moves(c, k) /\ Ends(c, k)
      BY <1>0, <1>5, FailEnds DEF Timeout, Errors
    <2> QED
      BY <1>5, <2>1, ThreadLeft DEF Timeout, Leaves
  <1>6. ASSUME NEW c \in Calls, Retry(c) PROVE IInv'
    <2>0. call[c].pc = "backoff" /\ UNCHANGED <<thread, slots, locked>>
      BY <1>6 DEF Retry
    <2>1. CASE Return(c, "timeout")
      <3>1. PICK k : Moves(c, k) /\ Ends(c, k)
        BY <1>0, <2>1, ReturnEnds DEF Errors
      <3> QED
        BY <2>0, <3>1, WaitingMoves DEF Ends
    <2>2. CASE call' = [call EXCEPT ![c] = [@ EXCEPT !.pc = Enter(c), !.tries = call[c].tries + 1]]
      <3> DEFINE k == Entered(call[c], Enter(c), call[c].tries + 1)
      <3>1. /\ call[c] \in Call /\ Enter(c) \in {"lock", "slot"}
            /\ call[c].tries + 1 \in 0..MAX_ATTEMPTS
        BY <2>0, PoolAssumption DEF IInv, TypeOK, Call, OnlyReadsRetry, Enter
      <3>2. k \in Call /\ k.pc = Enter(c) /\ k.tries = call[c].tries + 1
        BY <3>1, CallEnters
      <3>3. Moves(c, k)
        BY <2>2 DEF Moves, Entered
      <3> HIDE DEF k
      <3> QED
        BY <2>0, <3>2, <3>3, WaitingMoves
    <2> QED
      BY <1>6, <2>1, <2>2 DEF Retry
  <1>7. ASSUME NEW c \in Calls, CancelWaiting(c) PROVE IInv'
    <2>1. PICK k : Moves(c, k) /\ Ends(c, k)
      BY <1>0, <1>7, ReturnEnds DEF CancelWaiting
    <2>2. CASE call[c].pc = "slot"
      BY <1>7, <2>1, <2>2, SlotGivenUp DEF CancelWaiting
    <2>3. CASE call[c].pc # "slot"
      BY <1>7, <2>1, <2>3, WaitingMoves DEF CancelWaiting, Ends
    <2> QED
      BY <2>2, <2>3
  <1>8. ASSUME NEW c \in Calls, CancelCalling(c) PROVE IInv'
    <2>1. PICK k : Moves(c, k) /\ Ends(c, k)
      BY <1>0, <1>8, ReturnEnds DEF CancelCalling
    <2>2. CASE thread[Current(c)].state = "running"
      BY <1>8, <2>1, <2>2, ThreadLeft DEF CancelCalling, Leaves
    <2>3. CASE thread[Current(c)].state = "done"
      BY <1>8, <2>1, <2>3, ResultCollected DEF CancelCalling
    <2> QED
      BY <1>8, <2>2, <2>3 DEF CancelCalling
  <1>9. CASE UNCHANGED vars
    <2>1. UNCHANGED <<Occupied, slots>> /\ SlotsCounted'
      BY <1>9 DEF IInv, SlotsCounted, Occupied, Occupies, vars
    <2>2. LocksHeld'
      <3>1. \A c \in Calls, n \in Attempts : Holds(c, n)' = Holds(c, n)
        BY <1>9 DEF Holds, Occupies, vars
      <3> QED
        BY <1>9, <3>1 DEF IInv, LocksHeld, vars
    <2> QED
      BY <1>9, <2>1, <2>2 DEF IInv, TypeOK, AttemptShape, OnlyReadsRetry, vars
  <1> QED
    BY <1>1, <1>2, <1>3, <1>4, <1>5, <1>6, <1>7, <1>8, <1>9, LockTaken, SlotTaken, ThreadEnds
    DEF Next, CallStep

\* The invariant holds in every reachable state.
LEMMA Invariance == Spec => []IInv
  BY InitIInv, NextIInv, PTL DEF Spec

\* Every variable keeps its type, in particular the free slots of the pool.
THEOREM TypeCorrect == Spec => []TypeOK
  <1>1. IInv => TypeOK
    BY DEF IInv
  <1> QED
    BY <1>1, Invariance, PTL

\* However many calls time out or are cancelled and leave their threads behind,
\* no more threads run than the pool has slots (BoundedSyncRunner).
THEOREM PoolBound == Spec => []ThreadsWithinPool
  <1>1. IInv => ThreadsWithinPool
    <2> SUFFICES ASSUME IInv PROVE ThreadsWithinPool
      OBVIOUS
    <2>1. Running \in SUBSET Occupied
      BY DEF Running, Occupied, Occupies
    <2>2. IsFiniteSet(Occupied) /\ Cardinality(Occupied) \in Nat
      BY FS_CardinalityType DEF IInv, SlotsCounted
    <2>3. IsFiniteSet(Running) /\ Cardinality(Running) <= Cardinality(Occupied)
      BY <2>1, <2>2, FS_Subset
    <2>4. Cardinality(Running) \in Nat
      BY <2>3, FS_CardinalityType
    <2> QED
      BY <2>2, <2>3, <2>4, PoolAssumption DEF IInv, TypeOK, SlotsCounted, ThreadsWithinPool
  <1> QED
    BY <1>1, Invariance, PTL

\* An API client is used by one thread at a time, also across retries of a call
\* whose earlier thread still runs.
THEOREM ClientExclusion == Spec => []OneThreadPerResource
  <1>1. IInv => OneThreadPerResource
    <2> SUFFICES ASSUME IInv, NEW x \in Running, NEW y \in Running,
                        ResourceOf[x[1]] = ResourceOf[y[1]], ResourceOf[x[1]] # None
                 PROVE  x = y
      BY DEF OneThreadPerResource
    <2>1. PICK c \in Calls, n \in Attempts : x = <<c, n>> /\ Holds(c, n)
      BY DEF Running, Holds, Occupies
    <2>2. PICK d \in Calls, m \in Attempts : y = <<d, m>> /\ Holds(d, m)
      BY DEF Running, Holds, Occupies
    <2> QED
      BY <2>1, <2>2 DEF IInv, LocksHeld
  <1> QED
    BY <1>1, Invariance, PTL

\* When nothing is under way every slot and every client lock is free again.
THEOREM NoLeak == Spec => []NothingLeaked
  <1>1. IInv => NothingLeaked
    <2> SUFFICES ASSUME IInv, Running = {}, \A c \in Calls : call[c].pc \in {"idle", "returned"}
                 PROVE  slots = SLOTS /\ locked = {}
      BY DEF NothingLeaked
    <2>1. \A c \in Calls, n \in Attempts : ~Occupies(c, n) /\ ~Holds(c, n)
      BY DEF Running, Occupies, Holds
    <2>2. Occupied = {}
      BY <2>1 DEF Occupied
    <2>3. slots = SLOTS
      BY <2>2, FS_EmptySet, PoolAssumption DEF IInv, SlotsCounted, TypeOK
    <2>4. locked = {}
      BY <2>1 DEF IInv, LocksHeld
    <2> QED
      BY <2>3, <2>4
  <1> QED
    BY <1>1, Invariance, PTL

\* A write is handed to at most one thread, whatever fails.
THEOREM AmbiguousWriteOnce == Spec => []WriteSentOnce
  <1>1. IInv => WriteSentOnce
    <2> SUFFICES ASSUME IInv, NEW c \in Writes
                 PROVE  Cardinality({n \in Attempts : thread[<<c, n>>].state # "none"}) <= 1
      BY DEF WriteSentOnce
    <2> DEFINE S == {n \in Attempts : thread[<<c, n>>].state # "none"}
    <2>1. c \in Calls /\ call[c].tries \in Nat
      BY ResourceAssumption DEF IInv, TypeOK, Call
    <2>2. call[c].tries <= 1
      BY <2>1 DEF IInv, OnlyReadsRetry
    <2>3. S \in SUBSET {1}
      <3>1. \A n \in Attempts : n > call[c].tries => thread[<<c, n>>].state = "none"
        BY <2>1 DEF IInv, AttemptShape
      <3> QED
        BY <2>1, <2>2, <3>1 DEF Attempts
    <2> HIDE DEF S
    <2>4. IsFiniteSet({1}) /\ Cardinality({1}) = 1
      BY FS_Singleton
    <2>5. Cardinality(S) <= 1
      BY <2>3, <2>4, FS_Subset
    <2> QED
      BY <2>5 DEF S
  <1> QED
    BY <1>1, Invariance, PTL

==============================================================================
