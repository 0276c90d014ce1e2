------------------------- MODULE WatchRenewal_proofs -------------------------
(***************************************************************************)
(* Proofs about WatchRenewal for every set of renewers, all durations and  *)
(* all bounds: the recorded expiry is within Gmail's grant, and no renewal *)
(* moves the cursor over a message nobody dealt with.                      *)
(***************************************************************************)
EXTENDS WatchRenewal, TLAPS

------------------------------------------------------------------------------
(* The inductive invariant *)

\* An answer that is still to be recorded promises no more than Gmail has
\* granted, since a later grant only extends an earlier one.
AnswersWithinGrant == \A w \in Renewers : renewer[w].expires <= gmail

\* Answers and cursor are about messages that have arrived.
HistoryKnown ==
    /\ \A w \in Renewers : renewer[w].history <= hist
    /\ box.cursor # None => box.cursor <= hist

\* Each failure that is counted, or that the lease holder is about to count, was
\* taken from the budget.
FailuresCounted ==
    /\ box.tries + faults <= MaxFaults
    /\ \A w \in Renewers :
          box.holder = w /\ renewer[w].pc = "failing" => box.tries + faults < MaxFaults

\* The invariant that is preserved by every step.
IInv ==
    /\ TypeOK
    /\ AnswersWithinGrant
    /\ HistoryKnown
    /\ FailuresCounted
    /\ BeliefWithinGrant
    /\ LapseLosesNothing

------------------------------------------------------------------------------
(* Facts about the operators *)

\* The backoff is within its cap, whatever the number of failures.
LEMMA RetryDelayCapped == ASSUME NEW n PROVE RetryDelay(n) \in 0..BACKOFF_MAX
  BY DurationAssumption DEF RetryDelay

\* A renewer goes to another control state.
LEMMA GotoMoves ==
  ASSUME TypeOK, NEW w \in Renewers, NEW pc \in {"idle", "claimed", "answered", "failing"},
         Goto(w, pc)
  PROVE  /\ renewer' \in [Renewers -> Renewer]
         /\ \A v \in Renewers : /\ renewer'[v].expires = renewer[v].expires
                                /\ renewer'[v].history = renewer[v].history
                                /\ v # w => renewer'[v].pc = renewer[v].pc
         /\ renewer'[w].pc = pc
  BY DEF TypeOK, Goto, Renewer

\* Time shortens a duration by at most one, and keeps the order of two.
LEMMA LessShortens ==
  ASSUME NEW m \in Nat, NEW n \in Nat
  PROVE  Less(m) \in Nat /\ Less(m) <= m /\ (m <= n => Less(m) <= Less(n))
  BY DEF Less

\* The initial states satisfy the invariant: no watch was ever started.
LEMMA InitIInv == Init => IInv
  BY DurationAssumption, BoundAssumption, RenewerAssumption
  DEF Init, IInv, TypeOK, Box, Renewer, HistIds, MaxTries, AnswersWithinGrant, HistoryKnown,
      FailuresCounted, BeliefWithinGrant, LapseLosesNothing

------------------------------------------------------------------------------
(* One lemma per action *)

\* A claim changes the lease only.
LEMMA ClaimRenewalIInv ==
  ASSUME IInv, NEW w \in Renewers, ClaimRenewal(w)
  PROVE  IInv'
  <1>1. /\ renewer' \in [Renewers -> Renewer] /\ renewer'[w].pc = "claimed"
        /\ \A v \in Renewers : /\ renewer'[v].expires = renewer[v].expires
                               /\ renewer'[v].history = renewer[v].history
                               /\ v # w => renewer'[v].pc = renewer[v].pc
    BY GotoMoves DEF IInv, ClaimRenewal
  <1>2. /\ box' = [box EXCEPT !.holder = w, !.lease = LEASE]
        /\ UNCHANGED <<gmail, hist, triaged, faults>>
    BY DEF ClaimRenewal
  <1>3. /\ box' \in Box /\ box'.holder = w /\ box'.tries = box.tries
        /\ box'.expires = box.expires /\ box'.cursor = box.cursor
    <2>1. box \in Box /\ LEASE \in 0..LEASE
      BY DurationAssumption DEF IInv, TypeOK
    <2> QED
      BY <1>2, <2>1 DEF Box
  <1>4. TypeOK'
    BY <1>1, <1>2, <1>3 DEF IInv, TypeOK
  <1>5. AnswersWithinGrant' /\ HistoryKnown' /\ FailuresCounted'
    BY <1>1, <1>2, <1>3 DEF IInv, AnswersWithinGrant, HistoryKnown, FailuresCounted
  <1>6. BeliefWithinGrant' /\ LapseLosesNothing'
    BY <1>2, <1>3 DEF IInv, BeliefWithinGrant, LapseLosesNothing
  <1> QED
    BY <1>4, <1>5, <1>6 DEF IInv

\* A new grant is the longest there can be; its answer is about what has arrived.
LEMMA WatchIInv ==
  ASSUME IInv, NEW w \in Renewers, Watch(w)
  PROVE  IInv'
  <1> DEFINE x == [pc |-> "answered", expires |-> EXPIRY, history |-> hist]
  <1>1. /\ gmail' = EXPIRY /\ renewer' = [renewer EXCEPT ![w] = x]
        /\ UNCHANGED <<box, hist, triaged, faults>>
    BY DEF Watch
  <1>2. x \in Renewer /\ x.pc = "answered" /\ x.expires = EXPIRY /\ x.history = hist
    BY DurationAssumption DEF IInv, TypeOK, Renewer
  <1> HIDE DEF x
  <1>3. /\ renewer' \in [Renewers -> Renewer] /\ renewer'[w] = x
        /\ \A v \in Renewers : v # w => renewer'[v] = renewer[v]
    BY <1>1, <1>2 DEF IInv, TypeOK
  <1>4. TypeOK'
    BY <1>1, <1>3, DurationAssumption DEF IInv, TypeOK
  <1>5. AnswersWithinGrant'
    BY <1>1, <1>2, <1>3, DurationAssumption DEF IInv, TypeOK, Renewer, AnswersWithinGrant
  <1>6. HistoryKnown' /\ FailuresCounted'
    BY <1>1, <1>2, <1>3 DEF IInv, TypeOK, HistIds, HistoryKnown, FailuresCounted
  <1>7. BeliefWithinGrant' /\ LapseLosesNothing'
    BY <1>1, DurationAssumption DEF IInv, TypeOK, Box, BeliefWithinGrant, LapseLosesNothing
  <1> QED
    BY <1>4, <1>5, <1>6, <1>7 DEF IInv

\* A fault that leaves the row alone, whatever Gmail made of the request.
LEMMA FaultIInv ==
  ASSUME IInv, NEW w \in Renewers, FaultStep(w)
  PROVE  IInv'
  <1>1. PICK pc \in {"idle", "failing"} : Goto(w, pc)
    BY DEF FaultStep, WatchFails, CompleteFails, Crash
  <1>2. /\ faults > 0 /\ faults' = faults - 1 /\ gmail' \in {gmail, EXPIRY}
        /\ UNCHANGED <<box, hist, triaged>>
    BY DEF FaultStep, WatchFails, CompleteFails, Crash, Fault
  <1>3. /\ renewer' \in [Renewers -> Renewer] /\ renewer'[w].pc = pc
        /\ \A v \in Renewers : /\ renewer'[v].expires = renewer[v].expires
                               /\ renewer'[v].history = renewer[v].history
                               /\ v # w => renewer'[v].pc = renewer[v].pc
    BY <1>1, GotoMoves DEF IInv
  <1>4. TypeOK'
    BY <1>2, <1>3, DurationAssumption, BoundAssumption DEF IInv, TypeOK
  <1>5. gmail' >= gmail
    BY <1>2, DurationAssumption DEF IInv, TypeOK
  <1>6. AnswersWithinGrant'
    BY <1>2, <1>3, <1>5, DurationAssumption DEF IInv, TypeOK, Renewer, AnswersWithinGrant
  <1>7. HistoryKnown'
    BY <1>2, <1>3 DEF IInv, HistoryKnown
  <1>8. FailuresCounted'
    BY <1>2, <1>3, BoundAssumption DEF IInv, TypeOK, Box, MaxTries, FailuresCounted
  <1>9. BeliefWithinGrant' /\ LapseLosesNothing'
    BY <1>2, <1>5, DurationAssumption DEF IInv, TypeOK, Box, BeliefWithinGrant, LapseLosesNothing
  <1> QED
    BY <1>4, <1>6, <1>7, <1>8, <1>9 DEF IInv

\* What is recorded is an answer that is within the grant; the cursor is set only
\* where there is none, and then to the baseline.
LEMMA CompleteIInv ==
  ASSUME IInv, NEW w \in Renewers, Complete(w)
  PROVE  IInv'
  <1>1. /\ renewer' \in [Renewers -> Renewer] /\ renewer'[w].pc = "idle"
        /\ \A v \in Renewers : /\ renewer'[v].expires = renewer[v].expires
                               /\ renewer'[v].history = renewer[v].history
                               /\ v # w => renewer'[v].pc = renewer[v].pc
    BY GotoMoves DEF IInv, Complete
  <1>2. UNCHANGED <<gmail, hist, faults>>
    BY DEF Complete
  <1>3. renewer[w].history \in HistIds /\ renewer[w].expires \in 0..EXPIRY
    BY DEF IInv, TypeOK, Renewer
  <1>4. CASE box.holder # w
    <2>1. UNCHANGED <<box, triaged>>
      BY <1>4 DEF Complete, Baseline
    <2>2. TypeOK'
      BY <1>1, <1>2, <2>1 DEF IInv, TypeOK
    <2>3. AnswersWithinGrant' /\ HistoryKnown' /\ FailuresCounted'
      BY <1>1, <1>2, <2>1 DEF IInv, AnswersWithinGrant, HistoryKnown, FailuresCounted
    <2>4. BeliefWithinGrant' /\ LapseLosesNothing'
      BY <1>2, <2>1 DEF IInv, BeliefWithinGrant, LapseLosesNothing
    <2> QED
      BY <2>2, <2>3, <2>4 DEF IInv
  <1>5. CASE box.holder = w
    <2> DEFINE cursor == IF box.cursor = None THEN renewer[w].history ELSE box.cursor
    <2>1. box' = [holder |-> None, lease |-> 0, tries |-> 0, next |-> 0,
                  expires |-> renewer[w].expires, cursor |-> cursor]
      BY <1>5 DEF Complete
    <2>2. cursor \in HistIds
      BY <1>3, RenewerAssumption DEF IInv, TypeOK, Box, HistIds
    <2>3. /\ box' \in Box /\ box'.holder = None /\ box'.tries = 0
          /\ box'.expires = renewer[w].expires /\ box'.cursor = cursor
      BY <1>3, <2>1, <2>2, DurationAssumption, BoundAssumption DEF Box, MaxTries
    <2>4. triaged' = IF box.cursor = None THEN 1..renewer[w].history ELSE triaged
      BY <1>5 DEF Complete, Baseline
    <2>5. TypeOK'
      <3>1. 1..renewer[w].history \subseteq HistIds
        BY <1>3, BoundAssumption DEF HistIds
      <3>2. triaged' \subseteq HistIds
        BY <2>4, <3>1 DEF IInv, TypeOK
      <3> QED
        BY <1>1, <1>2, <2>3, <3>2 DEF IInv, TypeOK
    <2>6. AnswersWithinGrant' /\ HistoryKnown'
      BY <1>1, <1>2, <2>3 DEF IInv, AnswersWithinGrant, HistoryKnown
    <2>7. FailuresCounted'
      BY <1>1, <1>2, <2>3, BoundAssumption, RenewerAssumption DEF IInv, TypeOK, FailuresCounted
    <2>8. BeliefWithinGrant'
      BY <1>2, <2>3 DEF IInv, AnswersWithinGrant, BeliefWithinGrant
    <2>9. LapseLosesNothing'
      BY <2>3, <2>4 DEF IInv, LapseLosesNothing
    <2> QED
      BY <2>5, <2>6, <2>7, <2>8, <2>9 DEF IInv
  <1> QED
    BY <1>4, <1>5

\* A failure is counted once, by the renewer that holds the lease.
LEMMA RecordFailureIInv ==
  ASSUME IInv, NEW w \in Renewers, RecordFailure(w)
  PROVE  IInv'
  <1>1. /\ renewer' \in [Renewers -> Renewer] /\ renewer'[w].pc = "idle"
        /\ \A v \in Renewers : /\ renewer'[v].expires = renewer[v].expires
                               /\ renewer'[v].history = renewer[v].history
                               /\ v # w => renewer'[v].pc = renewer[v].pc
    BY GotoMoves DEF IInv, RecordFailure
  <1>2. renewer[w].pc = "failing" /\ UNCHANGED <<gmail, hist, triaged, faults>>
    BY DEF RecordFailure
  <1>3. /\ box' \in Box /\ box'.expires = box.expires /\ box'.cursor = box.cursor
        /\ \/ UNCHANGED box /\ box.holder # w
           \/ box'.holder = None /\ box'.tries = box.tries + 1 /\ box.holder = w
    <2>1. CASE box.holder # w
      BY <2>1 DEF IInv, TypeOK, RecordFailure
    <2>2. CASE box.holder = w
      <3> DEFINE delay == RetryDelay(box.tries + 1)
                 n == box.tries + 1
      <3>0. box' = [box EXCEPT !.holder = None, !.lease = 0, !.tries = n, !.next = delay]
        BY <2>2 DEF RecordFailure, IInv, TypeOK, Box
      <3>1. delay \in 0..BACKOFF_MAX
        BY RetryDelayCapped
      <3>2. n \in 0..MaxTries
        BY <1>2, <2>2, BoundAssumption DEF IInv, TypeOK, Box, MaxTries, FailuresCounted
      <3> HIDE DEF delay, n
      <3>3. /\ box' \in Box /\ box'.expires = box.expires /\ box'.cursor = box.cursor
            /\ box'.holder = None /\ box'.tries = n
        <4>1. box \in Box /\ 0 \in 0..LEASE
          BY DurationAssumption DEF IInv, TypeOK
        <4> QED
          BY <3>0, <3>1, <3>2, <4>1 DEF Box
      <3> QED
        BY <2>2, <3>3 DEF n
    <2> QED
      BY <2>1, <2>2
  <1>4. TypeOK'
    BY <1>1, <1>2, <1>3 DEF IInv, TypeOK
  <1>5. AnswersWithinGrant' /\ HistoryKnown'
    BY <1>1, <1>2, <1>3 DEF IInv, AnswersWithinGrant, HistoryKnown
  <1>6. FailuresCounted'
    BY <1>1, <1>2, <1>3, BoundAssumption, RenewerAssumption
    DEF IInv, TypeOK, Box, MaxTries, FailuresCounted
  <1>7. BeliefWithinGrant' /\ LapseLosesNothing'
    BY <1>2, <1>3 DEF IInv, BeliefWithinGrant, LapseLosesNothing
  <1> QED
    BY <1>4, <1>5, <1>6, <1>7 DEF IInv

\* Jobs advance the cursor over what they have dealt with.
LEMMA JobsAdvanceIInv ==
  ASSUME IInv, JobsAdvance
  PROVE  IInv'
  <1>1. PICK h \in (box.cursor + 1)..hist :
           /\ triaged' = triaged \cup (box.cursor + 1)..h
           /\ box' = [box EXCEPT !.cursor = h]
    BY DEF JobsAdvance
  <1>2. box.cursor # None /\ UNCHANGED <<gmail, hist, renewer, faults>>
    BY DEF JobsAdvance
  <1>3. box.cursor \in HistIds /\ h \in HistIds /\ box.cursor + 1 \in HistIds
    BY <1>2, BoundAssumption DEF IInv, TypeOK, Box, HistIds
  <1>4. /\ box' \in Box /\ box'.cursor = h /\ box'.expires = box.expires
        /\ box'.tries = box.tries /\ box'.holder = box.holder
    BY <1>1, <1>3 DEF IInv, TypeOK, Box
  <1>5. TypeOK'
    BY <1>1, <1>2, <1>3, <1>4, BoundAssumption DEF IInv, TypeOK, HistIds
  <1>6. AnswersWithinGrant' /\ FailuresCounted'
    BY <1>2, <1>4 DEF IInv, AnswersWithinGrant, FailuresCounted
  <1>7. HistoryKnown'
    BY <1>2, <1>3, <1>4 DEF IInv, TypeOK, HistIds, HistoryKnown
  <1>8. BeliefWithinGrant' /\ LapseLosesNothing'
    BY <1>1, <1>2, <1>3, <1>4, BoundAssumption DEF IInv, HistIds, BeliefWithinGrant, LapseLosesNothing
  <1> QED
    BY <1>5, <1>6, <1>7, <1>8 DEF IInv

\* Time shortens the grant and every belief about it alike.
LEMMA TimePassesIInv ==
  ASSUME IInv, TimePasses, faults' = faults \/ Fault
  PROVE  IInv'
  <1> DEFINE lease == Less(box.lease)
             next == Less(box.next)
             expires == Less(box.expires)
  <1>0. faults' \in 0..MaxFaults /\ faults' <= faults
    BY BoundAssumption DEF IInv, TypeOK, Fault
  <1>1. /\ gmail' = Less(gmail) /\ UNCHANGED <<hist, triaged>>
        /\ renewer' = [w \in Renewers |-> [renewer[w] EXCEPT !.expires = Less(renewer[w].expires)]]
        /\ box' = [box EXCEPT !.lease = lease, !.next = next, !.expires = expires]
    BY DEF TimePasses, IInv, TypeOK, Box, Renewer
  <1>2. /\ lease \in 0..LEASE /\ next \in 0..BACKOFF_MAX /\ expires \in 0..EXPIRY
        /\ expires <= Less(gmail) /\ Less(gmail) \in 0..EXPIRY
    BY LessShortens, DurationAssumption DEF IInv, TypeOK, Box, BeliefWithinGrant
  <1> HIDE DEF lease, next, expires
  <1>3. /\ box' \in Box /\ box'.holder = box.holder /\ box'.tries = box.tries
        /\ box'.cursor = box.cursor /\ box'.expires = expires
    BY <1>1, <1>2 DEF IInv, TypeOK, Box
  <1>4. ASSUME NEW w \in Renewers
        PROVE  /\ renewer'[w] \in Renewer /\ renewer'[w].pc = renewer[w].pc
               /\ renewer'[w].history = renewer[w].history /\ renewer'[w].expires <= gmail'
    <2> DEFINE e == Less(renewer[w].expires)
    <2>1. renewer'[w] = [renewer[w] EXCEPT !.expires = e]
      BY <1>1
    <2>2. e \in 0..EXPIRY /\ e <= Less(gmail)
      BY LessShortens, DurationAssumption DEF IInv, TypeOK, Renewer, AnswersWithinGrant
    <2> HIDE DEF e
    <2> QED
      BY <1>1, <2>1, <2>2 DEF IInv, TypeOK, Renewer
  <1>5. renewer' \in [Renewers -> Renewer]
    BY <1>1, <1>4
  <1>6. TypeOK'
    BY <1>0, <1>1, <1>2, <1>3, <1>5 DEF IInv, TypeOK
  <1>7. AnswersWithinGrant' /\ HistoryKnown'
    BY <1>1, <1>3, <1>4 DEF IInv, AnswersWithinGrant, HistoryKnown
  <1>8. FailuresCounted'
    BY <1>0, <1>3, <1>4, BoundAssumption DEF IInv, TypeOK, Box, MaxTries, FailuresCounted
  <1>9. BeliefWithinGrant' /\ LapseLosesNothing'
    BY <1>1, <1>2, <1>3 DEF IInv, BeliefWithinGrant, LapseLosesNothing
  <1> QED
    BY <1>6, <1>7, <1>8, <1>9 DEF IInv

\* A message arrives after the cursor.
LEMMA ArriveIInv == ASSUME IInv, Arrive PROVE IInv'
  <1>1. /\ hist < MaxHist /\ hist' = hist + 1
        /\ UNCHANGED <<box, gmail, renewer, triaged, faults>>
    BY DEF Arrive
  <1>2. TypeOK'
    BY <1>1, BoundAssumption DEF IInv, TypeOK, HistIds
  <1>3. HistoryKnown'
    BY <1>1, RenewerAssumption DEF IInv, TypeOK, Box, Renewer, HistIds, HistoryKnown
  <1> QED
    BY <1>1, <1>2, <1>3
    DEF IInv, AnswersWithinGrant, FailuresCounted, BeliefWithinGrant, LapseLosesNothing

\* Every step keeps the invariant.
LEMMA NextIInv == IInv /\ [Next]_vars => IInv'
  <1> SUFFICES ASSUME IInv, [Next]_vars PROVE IInv'
    OBVIOUS
  <1>1. ASSUME NEW w \in Renewers, RenewerStep(w) PROVE IInv'
    BY <1>1, ClaimRenewalIInv, WatchIInv, CompleteIInv, RecordFailureIInv DEF RenewerStep
  <1>2. CASE Tick \/ LeaseOverrun
    BY <1>2, TimePassesIInv DEF Tick, LeaseOverrun
  <1>3. CASE UNCHANGED vars
    BY <1>3 DEF vars, IInv, TypeOK, AnswersWithinGrant, HistoryKnown, FailuresCounted,
                BeliefWithinGrant, LapseLosesNothing
  <1> QED
    BY <1>1, <1>2, <1>3, FaultIInv, ArriveIInv, JobsAdvanceIInv DEF Next

\* The invariant holds in every reachable state.
LEMMA Invariance == Spec => []IInv
  BY InitIInv, NextIInv, PTL DEF Spec

------------------------------------------------------------------------------

\* Every variable keeps its type, in particular the backoff its cap.
THEOREM TypeCorrect == Spec => []TypeOK
  <1>1. IInv => TypeOK
    BY DEF IInv
  <1> QED
    BY <1>1, Invariance, PTL

\* Whichever of several overlapping renewals is recorded, and however late, the
\* row never reports a watch as valid for longer than Gmail goes on publishing.
THEOREM ExpiryIsTrue == Spec => []BeliefWithinGrant
  <1>1. IInv => BeliefWithinGrant
    BY DEF IInv
  <1> QED
    BY <1>1, Invariance, PTL

\* No renewal, first or later, moves the cursor over a message since the baseline
\* that no job has dealt with.
THEOREM RenewalKeepsMessages == Spec => []LapseLosesNothing
  <1>1. IInv => LapseLosesNothing
    BY DEF IInv
  <1> QED
    BY <1>1, Invariance, PTL

==============================================================================
