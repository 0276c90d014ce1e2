----------------------- MODULE NotificationJobs_proofs -----------------------
(***************************************************************************)
(* Proofs about NotificationJobs for every number of workers, messages,    *)
(* recovery generations and faults and every setting: the cursor only      *)
(* moves forward, stays where it is during recovery, and passes a message  *)
(* only after some worker has begun to triage it, or when the message      *)
(* arrived during recovery.                                                *)
(***************************************************************************)
EXTENDS NotificationJobs, FiniteSetTheorems, WellFoundedInduction, TLAPS

------------------------------------------------------------------------------
(* The inductive invariant *)

\* More than one worker: leases can be taken over.
Several == \E v, w \in Workers : v # w

\* What the cursor may pass: a message that arrived during recovery or is
\* triaged; with several workers, one whose triage has begun.
Covered(m) ==
    \/ m \in during
    \/ triage[m].state = "terminal"
    \/ Several /\ triage[m].state = "processing"

\* Everything up to the cursor may be passed.  Recovery has seen to all from
\* its page on, and has not used up its limit.
BoxInv ==
    /\ box.cursor <= hist
    /\ \A m \in 1..box.cursor : Covered(m)
    /\ box.page # 1 /\ box.count < RESYNC_MAX
    /\ box.sync \in {"required", "processing"} =>
          \A m \in 1..hist : Covered(m) \/ box.page = 0 \/ m < box.page
    /\ box.sync = "manual_required" => box.lease = 0 /\ box.next = 0

\* What a job's state says about the cursor and recovery.
JobInv ==
    \A m \in Messages :
        /\ job[m].state # "absent" => m <= hist
        /\ job[m].state = "succeeded" => m <= box.cursor
        /\ job[m].state = "dead_letter" => box.sync = "manual_required"

\* The worker is going through its list of messages.
Triaging(w) == worker[w].pc \in {"triage", "check", "analyze"}

\* What the place of a worker says about its own record.
Placed(w) ==
    /\ worker[w].pc # "idle" => worker[w].job \in Messages /\ worker[w].job <= hist
    /\ worker[w].cursor <= hist /\ worker[w].page # 1
    /\ worker[w].pc \in {"check", "analyze"} => worker[w].todo # {}
    /\ worker[w].pc \in {"read", "complete", "page_done", "profile", "resync_done"} =>
          worker[w].todo = {}
    /\ worker[w].pc \in {"read", "history"} => ~worker[w].resync
    /\ worker[w].pc \in {"list", "page_done", "profile", "resync_done"} => worker[w].resync
    /\ worker[w].pc = "list" => worker[w].count < RESYNC_MAX
    /\ worker[w].pc \in {"profile", "resync_done"} => worker[w].page = 0
    /\ worker[w].pc \in {"complete", "resync_done"} \/ (Triaging(w) /\ ~worker[w].resync) =>
          worker[w].job <= worker[w].cursor
    /\ worker[w].pc = "dead_letter" => box.sync = "manual_required"

\* A worker on normal history has all up to its cursor seen to, or on its list.
Reading(w) ==
    /\ worker[w].pc = "history" => \A m \in 1..worker[w].cursor : Covered(m)
    /\ worker[w].pc = "complete" \/ (Triaging(w) /\ ~worker[w].resync) =>
          \A m \in 1..worker[w].cursor : Covered(m) \/ m \in worker[w].todo

\* So has the worker that holds the recovery lease, from its page on.
Recovering(w) ==
    HoldsResync(w) =>
        /\ worker[w].pc = "list" =>
              \A m \in 1..hist : Covered(m) \/ worker[w].page = 0 \/ m < worker[w].page
        /\ \/ worker[w].pc \in {"page_done", "profile", "resync_done"}
           \/ Triaging(w) /\ worker[w].resync
           => \A m \in 1..hist : \/ Covered(m) \/ m \in worker[w].todo
                                 \/ worker[w].page # 0 /\ m < worker[w].page
        /\ worker[w].pc = "resync_done" => box.cursor <= worker[w].cursor

\* A single worker does not lose its triage lease.
Analyzing(w) ==
    worker[w].pc = "analyze" =>
        /\ triage[NextMessage(w)].state # "absent"
        /\ Several \/ HoldsTriage(w, NextMessage(w))

\* All that holds of one worker.
WorkerInv(w) == Placed(w) /\ Reading(w) /\ Recovering(w) /\ Analyzing(w)

\* The invariant that is preserved by every step.
IInv == TypeOK /\ BoxInv /\ JobInv /\ \A w \in Workers : WorkerInv(w)

------------------------------------------------------------------------------
(* Facts about the operators *)

\* The bounds and settings are natural numbers.
LEMMA Numbers ==
  /\ MaxHist \in Nat /\ MaxGen \in Nat /\ MaxFaults \in Nat
  /\ LEASE \in Nat /\ MAX_ATTEMPTS \in Nat /\ BACKOFF_MAX \in Nat
  /\ RESYNC_MAX \in Nat /\ RESYNC_MAX > 0 /\ PAGE \in Nat /\ PAGE > 0
  BY BoundsAssumption

\* A nonempty set of natural numbers has a least element.
LEMMA MinOfSet ==
  ASSUME NEW S \in SUBSET Nat, S # {}
  PROVE  Min(S) \in S /\ \A x \in S : Min(S) <= x
  <1>1. PICK x \in S : \A y \in S : ~(<<y, x>> \in OpToRel(<, Nat))
    BY NatLessThanWellFounded, WFMin
  <1>2. \A y \in S : x <= y
    <2> SUFFICES ASSUME NEW y \in S, y < x PROVE FALSE
      OBVIOUS
    <2>1. <<y, x>> \in OpToRel(<, Nat)
      BY DEF OpToRel
    <2> QED
      BY <1>1, <2>1
  <1> QED
    BY <1>2 DEF Min

\* A nonempty set of message numbers has a greatest element.
LEMMA MaxOfSet ==
  ASSUME NEW n \in Nat, NEW S \in SUBSET (0..n), S # {}
  PROVE  Max(S) \in S /\ \A x \in S : x <= Max(S)
  <1> DEFINE T == {k \in 0..n : \A x \in S : x <= k}
             b == Min(T)
  <1>1. n \in T
    OBVIOUS
  <1>2. b \in T /\ \A k \in T : b <= k
    BY <1>1, MinOfSet
  <1> HIDE DEF b
  <1>3. b \in 0..n /\ \A x \in S : x <= b
    BY <1>2
  <1>4. b \in S
    <2> SUFFICES ASSUME b \notin S PROVE FALSE
      OBVIOUS
    <2>1. \A x \in S : x <= b - 1
      BY <1>3
    <2>2. b - 1 \in T
      <3>1. PICK x \in S : TRUE
        OBVIOUS
      <3>2. x >= 0 /\ x <= b - 1
        BY <2>1
      <3>3. b - 1 \in 0..n
        BY <1>3, <3>2
      <3> QED
        BY <2>1, <3>3
    <2> QED
      BY <1>2, <1>3, <2>2
  <1>5. Max(S) \in S /\ \A x \in S : Max(S) >= x
    <2>1. \A x \in S : b >= x
      BY <1>3
    <2> QED
      BY <1>4, <2>1 DEF Max
  <1> QED
    BY <1>5

\* What the type invariant says of the numbers.
LEMMA TypeFacts ==
  ASSUME TypeOK
  PROVE  /\ hist \in Nat /\ hist <= MaxHist /\ \A m \in 1..hist : m \in Messages
         /\ box.cursor \in Nat /\ box.page \in Nat /\ box.count \in Nat
         /\ \A w \in Workers : /\ worker[w] \in Worker /\ worker[w].cursor \in Nat
                               /\ worker[w].job \in Nat /\ worker[w].page \in Nat
                               /\ worker[w].todo \subseteq Messages
  <1>1. hist \in Nat /\ hist <= MaxHist
    BY Numbers DEF TypeOK
  <1>2. \A m \in 1..hist : m \in Messages
    BY <1>1, Numbers DEF Messages
  <1>3. box.cursor \in Nat /\ box.page \in Nat /\ box.count \in Nat
    BY Numbers DEF TypeOK, Box
  <1>4. ASSUME NEW w \in Workers
        PROVE  /\ worker[w] \in Worker /\ worker[w].cursor \in Nat /\ worker[w].job \in Nat
               /\ worker[w].page \in Nat /\ worker[w].todo \subseteq Messages
    BY Numbers DEF TypeOK, Worker
  <1> QED
    BY <1>1, <1>2, <1>3, <1>4

\* A backoff is within its cap.
LEMMA RetryDelayType == ASSUME NEW tries PROVE RetryDelay(tries) \in 0..BACKOFF_MAX
  <1> DEFINE delay == BACKOFF_INITIAL * 2 ^ (IF tries > 0 THEN tries - 1 ELSE 0)
  <1>1. RetryDelay(tries) = IF delay \in 1..BACKOFF_MAX THEN delay ELSE BACKOFF_MAX
    BY DEF RetryDelay
  <1> HIDE DEF delay
  <1> QED
    BY <1>1, Numbers

\* An attempt counter stays within its limit.
LEMMA BumpType == ASSUME NEW n \in 0..MAX_ATTEMPTS PROVE Bump(n) \in 0..MAX_ATTEMPTS
  BY Numbers DEF Bump

\* A worker that has messages left takes one of them.
LEMMA NextMessageListed ==
  ASSUME TypeOK, NEW w \in Workers, worker[w].todo # {}
  PROVE  NextMessage(w) \in worker[w].todo /\ NextMessage(w) \in Messages
  <1>1. worker[w].todo \in SUBSET Messages
    BY DEF TypeOK, Worker
  <1>2. worker[w].todo \in SUBSET (0..MaxHist) /\ worker[w].todo \in SUBSET Nat
    BY <1>1 DEF Messages
  <1>3. Max(worker[w].todo) \in worker[w].todo /\ Min(worker[w].todo) \in worker[w].todo
    BY <1>2, Numbers, MaxOfSet, MinOfSet
  <1> QED
    BY <1>1, <1>3 DEF NextMessage

\* A page of the inbox: no longer than asked for, and nothing is left out between
\* the page, the page before it and the page after it.
LEMMA InboxPageComplete ==
  ASSUME TypeOK, NEW token \in 0..MaxHist, NEW size \in Nat, size > 0,
         NEW page, page = InboxPage(token, size)
  PROVE  /\ page \in SUBSET Messages
         /\ Cardinality(page) \in Nat /\ Cardinality(page) <= size
         /\ PageAfter(page) \in 0..MaxHist /\ PageAfter(page) # 1
         /\ \A m \in 1..hist : token = 0 \/ m < token =>
               m \in page \/ (PageAfter(page) # 0 /\ m < PageAfter(page))
  <1> DEFINE older == {m \in 1..hist : token = 0 \/ m < token}
             Above(m) == {n \in older : n > m}
  <1>1. page = {m \in older : Cardinality(Above(m)) < size}
    BY DEF InboxPage
  <1>2. hist \in Nat /\ hist <= MaxHist
    BY Numbers DEF TypeOK
  <1>3. IsFiniteSet(older)
    <2>1. IsFiniteSet(1..hist)
      BY <1>2, FS_Interval
    <2>2. older \subseteq 1..hist
      OBVIOUS
    <2> HIDE DEF older
    <2> QED
      BY <2>1, <2>2, FS_Subset
  <1>4. older \subseteq 1..hist /\ older \subseteq Nat /\ older \subseteq Messages
    BY <1>2, Numbers DEF Messages
  <1>5. ASSUME NEW m PROVE /\ IsFiniteSet(Above(m)) /\ Cardinality(Above(m)) \in Nat
                           /\ Above(m) \subseteq older
    <2>1. Above(m) \subseteq older
      OBVIOUS
    <2> HIDE DEF Above, older
    <2>2. IsFiniteSet(Above(m))
      BY <1>3, <2>1, FS_Subset
    <2> QED
      BY <2>1, <2>2, FS_CardinalityType
  <1>6. page \subseteq older
    BY <1>1
  <1>7. \A m, n \in older : n \in page /\ n < m => m \in page
    <2> SUFFICES ASSUME NEW m \in older, NEW n \in older, n \in page, n < m PROVE m \in page
      OBVIOUS
    <2>1. Above(m) \subseteq Above(n)
      BY <1>4
    <2>2. Cardinality(Above(m)) <= Cardinality(Above(n))
      <3> HIDE DEF Above
      <3> QED
        BY <1>5, <2>1, FS_Subset
    <2>3. Cardinality(Above(n)) < size
      BY <1>1
    <2> HIDE DEF Above, older
    <2> QED
      BY <1>1, <1>5, <2>2, <2>3
  <1>8. CASE page = {}
    <2>1. older = {}
      <3> SUFFICES ASSUME older # {} PROVE FALSE
        OBVIOUS
      <3>1. older \in SUBSET (0..hist)
        BY <1>2
      <3>2. Max(older) \in older /\ \A x \in older : x <= Max(older)
        <4> HIDE DEF older
        <4> QED
          BY <1>2, <3>1, MaxOfSet
      <3>3. Above(Max(older)) = {}
        BY <1>4, <3>2
      <3>4. Cardinality(Above(Max(older))) = 0
        <4> HIDE DEF Above
        <4> QED
          BY <3>3, FS_EmptySet
      <3> HIDE DEF older, Above
      <3> QED
        BY <1>1, <1>8, <3>2, <3>4
    <2>2. Cardinality(page) = 0 /\ PageAfter(page) = 0
      BY <1>8, FS_EmptySet DEF PageAfter
    <2>3. \A m \in 1..hist : ~(token = 0 \/ m < token)
      BY <2>1
    <2> QED
      BY <1>8, <2>2, <2>3, Numbers
  <1>9. CASE page # {}
    <2> DEFINE b == Min(page)
    <2>1. b \in page /\ \A x \in page : b <= x
      BY <1>4, <1>6, <1>9, MinOfSet
    <2>2. PageAfter(page) = IF b = 1 THEN 0 ELSE b
      BY <1>9 DEF PageAfter
    <2> HIDE DEF b
    <2>3. b \in 1..hist /\ b \in older
      BY <1>4, <1>6, <2>1
    <2>4. Cardinality(page) \in Nat /\ Cardinality(page) <= size
      <3>1. page \subseteq Above(b) \cup {b}
        BY <1>4, <1>6, <2>1
      <3>2. Cardinality(Above(b)) < size /\ b \notin Above(b)
        BY <1>1, <2>1, <2>3
      <3> HIDE DEF Above, older
      <3>3. /\ IsFiniteSet(Above(b) \cup {b})
            /\ Cardinality(Above(b) \cup {b}) = Cardinality(Above(b)) + 1
        BY <1>5, <3>2, FS_AddElement
      <3>4. IsFiniteSet(page) /\ Cardinality(page) <= Cardinality(Above(b) \cup {b})
        BY <3>1, <3>3, FS_Subset
      <3>5. Cardinality(page) \in Nat
        BY <3>4, FS_CardinalityType
      <3> QED
        BY <1>5, <3>2, <3>3, <3>4, <3>5
    <2>5. PageAfter(page) \in 0..MaxHist /\ PageAfter(page) # 1
      BY <1>2, <2>2, <2>3, Numbers
    <2>6. \A m \in older : m \in page \/ m < b
      BY <1>4, <1>7, <2>1, <2>3
    <2>7. \A m \in older : m \in page \/ (PageAfter(page) # 0 /\ m < PageAfter(page))
      <3>1. \A m \in older : m >= 1
        BY <1>4
      <3> HIDE DEF older
      <3> QED
        BY <1>2, <2>2, <2>3, <2>6, <3>1
    <2> QED
      BY <1>4, <1>6, <2>4, <2>5, <2>7
  <1> QED
    BY <1>8, <1>9

------------------------------------------------------------------------------
(* Kinds of steps *)

\* What a step may do to the cursor and to recovery.
BoxStep ==
    /\ box'.cursor >= box.cursor
    /\ box.sync # "idle" /\ box'.cursor # box.cursor =>
          box.sync = "processing" /\ box'.sync = "idle"
    /\ box.sync = "manual_required" => box' = box

\* What is covered stays covered, and what arrives during recovery is.
Forward ==
    /\ hist <= hist'
    /\ \A m \in Messages : Covered(m) => Covered(m)'
    /\ box.sync # "idle" => \A m \in Messages : hist < m /\ m <= hist' => Covered(m)'
    /\ \A m \in Messages : triage[m].state # "absent" => triage'[m].state # "absent"

\* A worker that does not move keeps its invariant.
LEMMA OthersKeep ==
  ASSUME IInv, TypeOK', Forward, BoxStep, NEW v \in Workers, worker'[v] = worker[v],
         HoldsResync(v)' => HoldsResync(v) /\ box'.cursor = box.cursor,
         \A m \in Messages : Several \/ (HoldsTriage(v, m) => HoldsTriage(v, m)')
  PROVE  WorkerInv(v)'
  <1>0. /\ hist \in Nat /\ hist' \in Nat /\ hist <= hist' /\ hist' <= MaxHist
        /\ worker[v] \in Worker /\ box.cursor \in Nat /\ worker[v].cursor \in Nat
        /\ worker[v].job \in Nat /\ worker[v].page \in Nat
    <2>1. /\ hist \in Nat /\ box.cursor \in Nat
          /\ worker[v] \in Worker /\ worker[v].cursor \in Nat
          /\ worker[v].job \in Nat /\ worker[v].page \in Nat
      BY TypeFacts DEF IInv
    <2>2. hist' \in Nat /\ hist' <= MaxHist
      BY Numbers DEF TypeOK
    <2> QED
      BY <2>1, <2>2 DEF Forward
  <1>1. \A m \in 1..hist : m \in Messages
    BY TypeFacts DEF IInv
  <1>2. WorkerInv(v)
    BY DEF IInv
  <1>3. Placed(v)'
    BY <1>0, <1>2 DEF WorkerInv, Placed, Triaging, BoxStep
  <1>4. Reading(v)'
    <2>1. \A m \in 1..worker[v].cursor : Covered(m) => Covered(m)'
      BY <1>0, <1>1, <1>2 DEF WorkerInv, Placed, Forward
    <2> QED
      BY <1>2, <2>1 DEF WorkerInv, Reading, Triaging
  <1>5. Recovering(v)'
    <2> SUFFICES ASSUME HoldsResync(v)' PROVE Recovering(v)'
      BY DEF Recovering
    <2>1. HoldsResync(v) /\ box'.cursor = box.cursor /\ box.sync = "processing"
      BY DEF HoldsResync
    <2>2. \A m \in 1..hist' : m <= hist \/ Covered(m)'
      BY <1>0, <2>1, Numbers DEF Forward, Messages
    <2>3. \A m \in 1..hist : Covered(m) => Covered(m)'
      BY <1>1 DEF Forward
    <2> HIDE DEF Covered
    <2> QED
      BY <1>0, <1>2, <2>1, <2>2, <2>3 DEF WorkerInv, Recovering, Triaging
  <1>6. Analyzing(v)'
    <2> SUFFICES ASSUME worker[v].pc = "analyze" PROVE Analyzing(v)'
      BY DEF Analyzing
    <2>1. NextMessage(v)' = NextMessage(v)
      BY DEF NextMessage
    <2>2. NextMessage(v) \in Messages
      BY <1>2, NextMessageListed DEF IInv, WorkerInv, Placed
    <2>3. triage[NextMessage(v)].state # "absent" /\ (Several \/ HoldsTriage(v, NextMessage(v)))
      BY <1>2 DEF WorkerInv, Analyzing
    <2>4. /\ triage'[NextMessage(v)].state # "absent"
          /\ \/ Several
             \/ triage'[NextMessage(v)].state = "processing" /\ triage'[NextMessage(v)].token = v
      BY <2>2, <2>3 DEF Forward, HoldsTriage
    <2> QED
      BY <2>1, <2>4 DEF Analyzing, HoldsTriage
  <1> QED
    BY <1>3, <1>4, <1>5, <1>6 DEF WorkerInv

\* A step of one worker, which may change rows and reports no new message.
LEMMA StepKeeps ==
  ASSUME IInv, NEW w \in Workers, UNCHANGED <<hist, queue, during>>,
         job' \in [Messages -> Job], box' \in Box, triage' \in [Messages -> Triage],
         faults' \in 0..MaxFaults, worker' \in [Workers -> Worker],
         \A v \in Workers : v # w => worker'[v] = worker[v],
         \A m \in Messages : Covered(m) => Covered(m)',
         \A m \in Messages : triage[m].state # "absent" => triage'[m].state # "absent",
         \A v \in Workers, m \in Messages :
            v # w => Several \/ (HoldsTriage(v, m) => HoldsTriage(v, m)'),
         \A v \in Workers : v # w /\ HoldsResync(v)' => HoldsResync(v) /\ box'.cursor = box.cursor,
         BoxStep, BoxInv', JobInv', WorkerInv(w)'
  PROVE  IInv' /\ BoxStep
  <1>1. TypeOK'
    BY DEF IInv, TypeOK
  <1>2. Forward
    <2>1. hist \in Nat /\ hist' = hist
      BY TypeFacts DEF IInv
    <2>2. \A m \in Messages : ~(hist < m /\ m <= hist')
      BY <2>1, Numbers DEF Messages
    <2> QED
      BY <2>1, <2>2 DEF Forward
  <1>3. ASSUME NEW v \in Workers, v # w PROVE WorkerInv(v)'
    <2>1. worker'[v] = worker[v] /\ (HoldsResync(v)' => HoldsResync(v) /\ box'.cursor = box.cursor)
      BY <1>3
    <2>2. \A m \in Messages : Several \/ (HoldsTriage(v, m) => HoldsTriage(v, m)')
      BY <1>3
    <2> QED
      BY <1>1, <1>2, <2>1, <2>2, OthersKeep
  <1> QED
    BY <1>1, <1>3 DEF IInv

\* A step that changes no row.
LEMMA WorkerMoves ==
  ASSUME IInv, NEW w \in Workers, UNCHANGED <<hist, queue, job, box, triage, during>>,
         faults' \in 0..MaxFaults, worker' \in [Workers -> Worker],
         \A v \in Workers : v # w => worker'[v] = worker[v], WorkerInv(w)'
  PROVE  IInv' /\ BoxStep
  <1>1. job' \in [Messages -> Job] /\ box' \in Box /\ triage' \in [Messages -> Triage]
    BY DEF IInv, TypeOK
  <1>2. BoxStep
    BY TypeFacts DEF IInv, BoxStep
  <1>3. \A m \in Messages : Covered(m)' <=> Covered(m)
    BY DEF Covered
  <1>4. BoxInv'
    BY DEF IInv, BoxInv, Covered
  <1>5. JobInv'
    BY DEF IInv, JobInv
  <1>6. \A v \in Workers : v # w => (HoldsResync(v)' <=> HoldsResync(v))
    BY DEF HoldsResync
  <1>7. \A v \in Workers, m \in Messages : HoldsTriage(v, m)' <=> HoldsTriage(v, m)
    BY DEF HoldsTriage
  <1> QED
    BY <1>1, <1>2, <1>3, <1>4, <1>5, <1>6, <1>7, StepKeeps

\* A step that changes the triage row of one message: it is leased, released or done.
LEMMA TriageMoves ==
  ASSUME IInv, NEW w \in Workers, UNCHANGED <<hist, queue, job, box, during>>,
         faults' \in 0..MaxFaults, worker' \in [Workers -> Worker],
         \A v \in Workers : v # w => worker'[v] = worker[v], WorkerInv(w)',
         triage' \in [Messages -> Triage],
         \A m \in Messages : \/ triage'[m] = triage[m]
                             \/ triage[m].state # "terminal" /\ triage'[m].state = "processing"
                             \/ triage'[m].state = "terminal"
  PROVE  IInv' /\ BoxStep
  <1>1. job' \in [Messages -> Job] /\ box' \in Box
    BY DEF IInv, TypeOK
  <1>2. BoxStep
    BY TypeFacts DEF IInv, BoxStep
  <1>3. \A m \in Messages : Covered(m) => Covered(m)'
    BY DEF Covered
  <1>4. \A m \in Messages : triage[m].state # "absent" => triage'[m].state # "absent"
    OBVIOUS
  <1>5. BoxInv'
    <2>1. \A m \in 1..hist : Covered(m) => Covered(m)'
      BY <1>3, TypeFacts DEF IInv
    <2>2. \A m \in 1..box.cursor : Covered(m) => Covered(m)'
      BY <2>1, TypeFacts DEF IInv, BoxInv
    <2> HIDE DEF Covered
    <2> QED
      BY <2>1, <2>2 DEF IInv, BoxInv
  <1>6. JobInv'
    BY DEF IInv, JobInv
  <1>7. \A v \in Workers : v # w => (HoldsResync(v)' <=> HoldsResync(v))
    BY DEF HoldsResync
  <1>8. \A v \in Workers, m \in Messages : v # w => Several
    BY DEF Several
  <1> QED
    BY <1>1, <1>2, <1>3, <1>4, <1>5, <1>6, <1>7, <1>8, StepKeeps

\* A step that changes jobs and the mailbox, the cursor perhaps among it.
LEMMA RowsMove ==
  ASSUME IInv, NEW w \in Workers, UNCHANGED <<hist, queue, triage, during>>,
         faults' \in 0..MaxFaults, worker' \in [Workers -> Worker],
         \A v \in Workers : v # w => worker'[v] = worker[v], WorkerInv(w)',
         job' \in [Messages -> Job], box' \in Box,
         \A v \in Workers : v # w /\ HoldsResync(v)' => HoldsResync(v) /\ box'.cursor = box.cursor,
         BoxStep, BoxInv', JobInv'
  PROVE  IInv' /\ BoxStep
  <1>1. triage' \in [Messages -> Triage]
    BY DEF IInv, TypeOK
  <1>2. \A m \in Messages : Covered(m)' <=> Covered(m)
    BY DEF Covered
  <1>3. \A v \in Workers, m \in Messages : HoldsTriage(v, m)' <=> HoldsTriage(v, m)
    BY DEF HoldsTriage
  <1> QED
    BY <1>1, <1>2, <1>3, StepKeeps

------------------------------------------------------------------------------
(* How a worker moves on *)

\* A worker that goes to another place keeps the rest of its record.
LEMMA GotoFields ==
  ASSUME TypeOK, NEW w \in Workers, NEW pc \in WorkerPc, Goto(w, pc)
  PROVE  /\ worker' \in [Workers -> Worker]
         /\ \A v \in Workers : v # w => worker'[v] = worker[v]
         /\ worker'[w].pc = pc /\ worker'[w].job = worker[w].job
         /\ worker'[w].gen = worker[w].gen /\ worker'[w].cursor = worker[w].cursor
         /\ worker'[w].todo = worker[w].todo /\ worker'[w].resync = worker[w].resync
         /\ worker'[w].rgen = worker[w].rgen /\ worker'[w].page = worker[w].page
         /\ worker'[w].count = worker[w].count
  <1>1. worker[w] \in Worker
    BY DEF TypeOK
  <1> DEFINE k == [worker[w] EXCEPT !.pc = pc]
  <1>2. worker' = [worker EXCEPT ![w] = k]
    BY DEF Goto
  <1>3. /\ k \in Worker /\ k.pc = pc /\ k.job = worker[w].job
        /\ k.gen = worker[w].gen /\ k.cursor = worker[w].cursor
        /\ k.todo = worker[w].todo /\ k.resync = worker[w].resync
        /\ k.rgen = worker[w].rgen /\ k.page = worker[w].page /\ k.count = worker[w].count
    BY <1>1 DEF Worker
  <1> HIDE DEF k
  <1>4. worker'[w] = k /\ worker' \in [Workers -> Worker] /\ \A v \in Workers : v # w => worker'[v] = worker[v]
    BY <1>2, <1>3 DEF TypeOK
  <1> QED
    BY <1>3, <1>4

\* A worker at rest.
LEMMA AtRestFields ==
  /\ AtRest \in Worker /\ AtRest.pc = "idle" /\ AtRest.job = 0 /\ AtRest.cursor = 0
  /\ AtRest.todo = {} /\ AtRest.resync = FALSE /\ AtRest.page = 0 /\ AtRest.count = 0
  BY Numbers DEF AtRest, Worker, WorkerPc, Messages

\* A worker that comes to rest has nothing to keep.
LEMMA Rests ==
  ASSUME IInv, NEW w \in Workers, Rest(w), UNCHANGED hist
  PROVE  /\ worker' \in [Workers -> Worker] /\ WorkerInv(w)'
         /\ \A v \in Workers : v # w => worker'[v] = worker[v]
  <1>1. worker' \in [Workers -> Worker] /\ \A v \in Workers : v # w => worker'[v] = worker[v]
    BY AtRestFields DEF IInv, TypeOK, Rest
  <1>2. worker'[w] = AtRest
    BY DEF IInv, TypeOK, Rest
  <1>3. /\ worker'[w].pc = "idle" /\ worker'[w].cursor = 0 /\ worker'[w].page = 0
    BY <1>2, AtRestFields
  <1>4. hist' \in Nat
    BY TypeFacts DEF IInv
  <1>5. Placed(w)'
    BY <1>3, <1>4 DEF Placed, Triaging
  <1>6. Reading(w)' /\ Recovering(w)' /\ Analyzing(w)'
    BY <1>3 DEF Reading, Recovering, Analyzing, Triaging
  <1> QED
    BY <1>1, <1>5, <1>6 DEF WorkerInv

\* Neither has one that has only to release or to put back.
LEMMA Parks ==
  ASSUME IInv, NEW w \in Workers, UNCHANGED hist, worker[w].pc # "idle",
         NEW pc \in {"fail", "fail_resync", "release", "requeue", "requeue_now"}, Goto(w, pc)
  PROVE  /\ worker' \in [Workers -> Worker] /\ WorkerInv(w)'
         /\ \A v \in Workers : v # w => worker'[v] = worker[v]
  <1>1. pc \in WorkerPc /\ TypeOK
    BY DEF WorkerPc, IInv
  <1>2. /\ worker' \in [Workers -> Worker]
        /\ \A v \in Workers : v # w => worker'[v] = worker[v]
        /\ worker'[w].pc = pc /\ worker'[w].job = worker[w].job
        /\ worker'[w].cursor = worker[w].cursor /\ worker'[w].page = worker[w].page
    BY <1>1, GotoFields
  <1>3. Placed(w)
    BY DEF IInv, WorkerInv
  <1>4. Placed(w)'
    BY <1>2, <1>3 DEF Placed, Triaging
  <1>5. Reading(w)' /\ Recovering(w)' /\ Analyzing(w)'
    BY <1>2 DEF Reading, Recovering, Analyzing, Triaging
  <1> QED
    BY <1>2, <1>4, <1>5 DEF WorkerInv

\* A worker gets a new record.
LEMMA WorkerSet ==
  ASSUME TypeOK, NEW w \in Workers, NEW k \in Worker, worker' = [worker EXCEPT ![w] = k]
  PROVE  /\ worker' \in [Workers -> Worker] /\ worker'[w] = k
         /\ \A v \in Workers : v # w => worker'[v] = worker[v]
  BY DEF TypeOK

\* A message is done with: the worker has the rest of its list left.
LEMMA TicksOff ==
  ASSUME IInv, NEW w \in Workers, worker[w].pc \in {"check", "analyze"}, TickOff(w),
         UNCHANGED <<hist, box>>, \A m \in Messages : Covered(m) => Covered(m)',
         NEW n \in Messages, n = NextMessage(w), Covered(n)'
  PROVE  /\ worker' \in [Workers -> Worker] /\ WorkerInv(w)'
         /\ \A v \in Workers : v # w => worker'[v] = worker[v]
  <1> DEFINE k == [worker[w] EXCEPT !.pc = "triage", !.todo = worker[w].todo \ {n}]
  <1>1. TypeOK /\ Placed(w) /\ Reading(w) /\ Recovering(w) /\ worker[w] \in Worker
    BY TypeFacts DEF IInv, WorkerInv
  <1>2. /\ k \in Worker /\ k.pc = "triage" /\ k.todo = worker[w].todo \ {n}
        /\ k.job = worker[w].job /\ k.cursor = worker[w].cursor /\ k.resync = worker[w].resync
        /\ k.rgen = worker[w].rgen /\ k.page = worker[w].page
    BY <1>1 DEF Worker, WorkerPc
  <1>3. worker' = [worker EXCEPT ![w] = k]
    BY DEF TickOff
  <1> HIDE DEF k
  <1>4. /\ worker' \in [Workers -> Worker] /\ worker'[w] = k
        /\ \A v \in Workers : v # w => worker'[v] = worker[v]
    BY <1>1, <1>2, <1>3, WorkerSet
  <1>5. Placed(w)' /\ Analyzing(w)'
    BY <1>1, <1>2, <1>4 DEF Placed, Analyzing, Triaging
  <1>6. \A m \in Messages : Covered(m) \/ m \in worker[w].todo => Covered(m)' \/ m \in k.todo
    BY <1>2
  <1>7. Reading(w)'
    <2>1. \A m \in 1..worker[w].cursor : m \in Messages
      BY <1>1, TypeFacts DEF Placed
    <2> QED
      BY <1>1, <1>2, <1>4, <1>6, <2>1 DEF Reading, Triaging
  <1>8. Recovering(w)'
    <2>1. HoldsResync(w)' <=> HoldsResync(w)
      BY <1>2, <1>4 DEF HoldsResync
    <2>2. \A m \in 1..hist : m \in Messages
      BY <1>1, TypeFacts
    <2> QED
      BY <1>1, <1>2, <1>4, <1>6, <2>1, <2>2 DEF Recovering, Triaging
  <1> QED
    BY <1>4, <1>5, <1>7, <1>8 DEF WorkerInv

------------------------------------------------------------------------------
(* One lemma per action *)

\* A snapshot of the mailbox: what lies behind its cursor is covered.
LEMMA ReadStateIInv == ASSUME IInv, NEW w \in Workers, ReadState(w) PROVE IInv' /\ BoxStep
  <1> DEFINE p == CASE box.sync = "manual_required" -> "dead_letter"
                    [] box.sync \in {"required", "processing"} -> "resync"
                    [] worker[w].job <= box.cursor -> "complete"
                    [] OTHER -> "history"
             k == [worker[w] EXCEPT !.cursor = box.cursor, !.pc = p]
  <1>1. /\ worker[w].pc = "read" /\ worker' = [worker EXCEPT ![w] = k]
        /\ UNCHANGED <<hist, queue, job, box, triage, faults, during>>
    BY DEF ReadState
  <1>2. /\ p \in {"dead_letter", "resync", "complete", "history"}
        /\ p = "dead_letter" => box.sync = "manual_required"
        /\ p = "complete" => worker[w].job <= box.cursor
    OBVIOUS
  <1> HIDE DEF p
  <1>3. /\ TypeOK /\ worker[w] \in Worker /\ box.cursor \in 0..MaxHist
        /\ Placed(w) /\ faults' \in 0..MaxFaults
    BY <1>1, TypeFacts DEF IInv, WorkerInv, TypeOK, Box
  <1>4. /\ k \in Worker /\ k.pc = p /\ k.cursor = box.cursor
        /\ k.todo = worker[w].todo /\ k.job = worker[w].job /\ k.page = worker[w].page
        /\ k.resync = worker[w].resync
    BY <1>2, <1>3 DEF Worker, WorkerPc
  <1> HIDE DEF k
  <1>5. /\ worker' \in [Workers -> Worker] /\ worker'[w] = k
        /\ \A v \in Workers : v # w => worker'[v] = worker[v]
    BY <1>1, <1>3, <1>4, WorkerSet
  <1>6. Placed(w)'
    BY <1>1, <1>2, <1>3, <1>4, <1>5 DEF Placed, Triaging, IInv, BoxInv
  <1>7. Reading(w)' /\ Recovering(w)' /\ Analyzing(w)'
    BY <1>1, <1>2, <1>4, <1>5 DEF Reading, Recovering, Analyzing, Triaging, Covered, IInv, BoxInv
  <1>8. WorkerInv(w)'
    BY <1>6, <1>7 DEF WorkerInv
  <1> QED
    BY <1>1, <1>3, <1>5, <1>8, WorkerMoves

\* History is listed without a gap after the cursor.
LEMMA ListHistoryIInv == ASSUME IInv, NEW w \in Workers, ListHistory(w) PROVE IInv' /\ BoxStep
  <1> DEFINE listed == (worker[w].cursor + 1)..hist
             k == [worker[w] EXCEPT !.pc = "triage", !.todo = listed, !.cursor = hist]
  <1>1. worker[w].pc = "history" /\ UNCHANGED <<hist, queue, job, box, triage, faults, during>>
    BY DEF ListHistory
  <1>2. /\ TypeOK /\ worker[w] \in Worker /\ hist \in 0..MaxHist /\ worker[w].cursor \in Nat
        /\ Placed(w) /\ Reading(w) /\ faults' \in 0..MaxFaults
    BY <1>1, TypeFacts DEF IInv, WorkerInv, TypeOK
  <1>3. CASE Goto(w, "fail_resync")
    BY <1>1, <1>2, <1>3, Parks, WorkerMoves
  <1>4. CASE worker' = [worker EXCEPT ![w] = k]
    <2>1. listed \in SUBSET Messages
      BY <1>2, Numbers DEF Messages
    <2>2. \A m \in 1..hist : m <= worker[w].cursor \/ m \in listed
      BY <1>2
    <2> HIDE DEF listed
    <2>3. /\ k \in Worker /\ k.pc = "triage" /\ k.cursor = hist /\ k.todo = listed
          /\ k.job = worker[w].job /\ k.page = worker[w].page /\ k.resync = worker[w].resync
      BY <1>2, <2>1 DEF Worker, WorkerPc
    <2> HIDE DEF k
    <2>4. /\ worker' \in [Workers -> Worker] /\ worker'[w] = k
          /\ \A v \in Workers : v # w => worker'[v] = worker[v]
      BY <1>2, <1>4, <2>3, WorkerSet
    <2>5. Placed(w)'
      BY <1>1, <1>2, <2>3, <2>4 DEF Placed, Triaging
    <2>6. \A m \in 1..hist : Covered(m)' \/ m \in listed
      BY <1>1, <1>2, <2>2 DEF Reading, Covered
    <2>7. Reading(w)'
      BY <1>1, <2>3, <2>4, <2>6 DEF Reading, Triaging
    <2>8. Recovering(w)' /\ Analyzing(w)'
      BY <1>1, <1>2, <2>3, <2>4 DEF Recovering, Analyzing, Triaging, Placed
    <2>9. WorkerInv(w)'
      BY <2>5, <2>7, <2>8 DEF WorkerInv
    <2> QED
      BY <1>1, <1>2, <2>4, <2>9, WorkerMoves
  <1> QED
    BY <1>3, <1>4 DEF ListHistory

\* A provider call fails and the worker is left with something to put back.
LEMMA CallFailsIInv ==
  ASSUME IInv, NEW w \in Workers, HistoryFails(w) \/ RecoveryFails(w) PROVE IInv' /\ BoxStep
  <1>1. /\ worker[w].pc # "idle" /\ UNCHANGED <<hist, queue, job, box, triage, during>>
        /\ \E pc \in {"fail", "fail_resync", "release"} : Goto(w, pc)
    BY DEF HistoryFails, RecoveryFails
  <1>2. faults' \in 0..MaxFaults
    BY Numbers DEF HistoryFails, RecoveryFails, Fault, IInv, TypeOK
  <1> QED
    BY <1>1, <1>2, Parks, WorkerMoves

\* A worker dies at any place.
LEMMA CrashIInv == ASSUME IInv, NEW w \in Workers, Crash(w) PROVE IInv' /\ BoxStep
  <1>1. Rest(w) /\ UNCHANGED <<hist, queue, job, box, triage, during>>
    BY DEF Crash
  <1>2. faults' \in 0..MaxFaults
    BY Numbers DEF Crash, Fault, IInv, TypeOK
  <1> QED
    BY <1>1, <1>2, Rests, WorkerMoves

\* A message that could not be leased is done with only if it is triaged.
LEMMA CheckTriageIInv == ASSUME IInv, NEW w \in Workers, CheckTriage(w) PROVE IInv' /\ BoxStep
  <1>1. worker[w].pc = "check" /\ UNCHANGED <<hist, queue, job, box, triage, faults, during>>
    BY DEF CheckTriage
  <1>2. faults' \in 0..MaxFaults
    BY <1>1 DEF IInv, TypeOK
  <1>3. CASE triage[NextMessage(w)].state = "terminal" /\ TickOff(w)
    <2>1. \A m \in Messages : Covered(m) => Covered(m)'
      BY <1>1 DEF Covered
    <2>2. PICK n \in Messages : n = NextMessage(w)
      BY <1>1, NextMessageListed DEF IInv, WorkerInv, Placed
    <2>3. Covered(n)'
      BY <1>1, <1>3, <2>2 DEF Covered
    <2> QED
      BY <1>1, <1>2, <1>3, <2>1, <2>2, <2>3, TicksOff, WorkerMoves
  <1>4. CASE GiveUp(w)
    BY <1>1, <1>2, <1>4, Parks, WorkerMoves DEF GiveUp
  <1> QED
    BY <1>3, <1>4 DEF CheckTriage

\* The list is empty: the page, or the history, is done with.
LEMMA ListTriagedIInv == ASSUME IInv, NEW w \in Workers, ListTriaged(w) PROVE IInv' /\ BoxStep
  <1> DEFINE p == IF worker[w].resync THEN "page_done" ELSE "complete"
  <1>1. /\ worker[w].pc = "triage" /\ worker[w].todo = {} /\ Goto(w, p)
        /\ UNCHANGED <<hist, queue, job, box, triage, faults, during>>
    BY DEF ListTriaged
  <1>2. /\ p \in WorkerPc /\ p \in {"page_done", "complete"}
        /\ p = "page_done" <=> worker[w].resync = TRUE
    BY DEF WorkerPc
  <1> HIDE DEF p
  <1>3. /\ TypeOK /\ worker[w].resync \in BOOLEAN /\ faults' \in 0..MaxFaults
        /\ Placed(w) /\ Reading(w) /\ Recovering(w)
    BY <1>1 DEF IInv, WorkerInv, TypeOK, Worker
  <1>4. /\ worker' \in [Workers -> Worker]
        /\ \A v \in Workers : v # w => worker'[v] = worker[v]
        /\ worker'[w].pc = p /\ worker'[w].job = worker[w].job
        /\ worker'[w].cursor = worker[w].cursor /\ worker'[w].page = worker[w].page
        /\ worker'[w].todo = worker[w].todo /\ worker'[w].resync = worker[w].resync
        /\ worker'[w].rgen = worker[w].rgen
    BY <1>1, <1>2, <1>3, GotoFields
  <1>5. Placed(w)'
    BY <1>1, <1>2, <1>3, <1>4 DEF Placed, Triaging
  <1>6. Reading(w)' /\ Analyzing(w)'
    BY <1>1, <1>2, <1>3, <1>4 DEF Reading, Analyzing, Triaging, Covered
  <1>7. Recovering(w)'
    <2>1. HoldsResync(w)' <=> HoldsResync(w)
      BY <1>1, <1>4 DEF HoldsResync
    <2> QED
      BY <1>1, <1>2, <1>3, <1>4, <2>1 DEF Recovering, Triaging, Covered
  <1>8. WorkerInv(w)'
    BY <1>5, <1>6, <1>7 DEF WorkerInv
  <1> QED
    BY <1>1, <1>3, <1>4, <1>8, WorkerMoves

\* One page of the inbox is listed: what is newer than the next page is covered
\* or on the list.
LEMMA ListInboxIInv == ASSUME IInv, NEW w \in Workers, ListInbox(w) PROVE IInv' /\ BoxStep
  <1> DEFINE size == Min({PAGE, RESYNC_MAX - worker[w].count})
             page == InboxPage(worker[w].page, size)
             k == [worker[w] EXCEPT !.pc = "triage", !.todo = page, !.page = PageAfter(page),
                                    !.count = worker[w].count + Cardinality(page)]
  <1>1. /\ worker[w].pc = "list" /\ worker' = [worker EXCEPT ![w] = k]
        /\ UNCHANGED <<hist, queue, job, box, triage, faults, during>>
    BY DEF ListInbox
  <1>2. /\ TypeOK /\ worker[w] \in Worker /\ worker[w].count \in 0..RESYNC_MAX
        /\ worker[w].page \in 0..MaxHist /\ faults' \in 0..MaxFaults
        /\ Placed(w) /\ Recovering(w)
    BY <1>1 DEF IInv, WorkerInv, TypeOK, Worker
  <1>3. size \in Nat /\ size > 0 /\ size <= RESYNC_MAX - worker[w].count
    <2>1. worker[w].count < RESYNC_MAX
      BY <1>1, <1>2 DEF Placed
    <2>2. {PAGE, RESYNC_MAX - worker[w].count} \in SUBSET (Nat \ {0})
      BY <1>2, <2>1, Numbers
    <2>3. /\ size \in {PAGE, RESYNC_MAX - worker[w].count}
          /\ \A x \in {PAGE, RESYNC_MAX - worker[w].count} : size <= x
      BY <2>2, MinOfSet
    <2> HIDE DEF size
    <2>4. size <= RESYNC_MAX - worker[w].count
      BY <2>3
    <2>5. size \in Nat /\ size # 0
      BY <2>2, <2>3
    <2> QED
      BY <2>4, <2>5
  <1> HIDE DEF size
  <1>4. /\ page \in SUBSET Messages
        /\ Cardinality(page) \in Nat /\ Cardinality(page) <= size
        /\ PageAfter(page) \in 0..MaxHist /\ PageAfter(page) # 1
        /\ \A m \in 1..hist : worker[w].page = 0 \/ m < worker[w].page =>
              m \in page \/ (PageAfter(page) # 0 /\ m < PageAfter(page))
    <2>1. page = InboxPage(worker[w].page, size)
      OBVIOUS
    <2> HIDE DEF page
    <2> QED
      BY <1>2, <1>3, <2>1, InboxPageComplete
  <1> HIDE DEF page
  <1>5. worker[w].count + Cardinality(page) \in 0..RESYNC_MAX
    BY <1>2, <1>3, <1>4, Numbers
  <1>6. /\ k \in Worker /\ k.pc = "triage" /\ k.todo = page /\ k.page = PageAfter(page)
        /\ k.job = worker[w].job /\ k.cursor = worker[w].cursor /\ k.resync = worker[w].resync
        /\ k.rgen = worker[w].rgen
    BY <1>2, <1>4, <1>5 DEF Worker, WorkerPc
  <1> HIDE DEF k
  <1>7. /\ worker' \in [Workers -> Worker] /\ worker'[w] = k
        /\ \A v \in Workers : v # w => worker'[v] = worker[v]
    BY <1>1, <1>2, <1>6, WorkerSet
  <1>8. Placed(w)' /\ Analyzing(w)'
    BY <1>1, <1>2, <1>4, <1>6, <1>7 DEF Placed, Analyzing, Triaging
  <1>9. Reading(w)'
    BY <1>1, <1>2, <1>6, <1>7 DEF Reading, Triaging, Placed
  <1>10. Recovering(w)'
    <2>1. HoldsResync(w)' <=> HoldsResync(w)
      BY <1>1, <1>6, <1>7 DEF HoldsResync
    <2>2. \A m : Covered(m)' <=> Covered(m)
      BY <1>1 DEF Covered
    <2> QED
      BY <1>1, <1>2, <1>4, <1>6, <1>7, <2>1, <2>2 DEF Recovering, Triaging
  <1>11. WorkerInv(w)'
    BY <1>8, <1>9, <1>10 DEF WorkerInv
  <1> QED
    BY <1>1, <1>2, <1>7, <1>11, WorkerMoves

\* The mailbox's history id now: the cursor is not beyond it.
LEMMA ReadProfileIInv == ASSUME IInv, NEW w \in Workers, ReadProfile(w) PROVE IInv' /\ BoxStep
  <1> DEFINE k == [worker[w] EXCEPT !.pc = "resync_done", !.cursor = hist]
  <1>1. /\ worker[w].pc = "profile" /\ worker' = [worker EXCEPT ![w] = k]
        /\ UNCHANGED <<hist, queue, job, box, triage, faults, during>>
    BY DEF ReadProfile
  <1>2. /\ TypeOK /\ worker[w] \in Worker /\ hist \in 0..MaxHist /\ faults' \in 0..MaxFaults
        /\ Placed(w) /\ Recovering(w) /\ box.cursor <= hist
    BY <1>1 DEF IInv, WorkerInv, TypeOK, BoxInv
  <1>3. /\ k \in Worker /\ k.pc = "resync_done" /\ k.cursor = hist /\ k.todo = worker[w].todo
        /\ k.job = worker[w].job /\ k.page = worker[w].page /\ k.resync = worker[w].resync
        /\ k.rgen = worker[w].rgen
    BY <1>2 DEF Worker, WorkerPc
  <1> HIDE DEF k
  <1>4. /\ worker' \in [Workers -> Worker] /\ worker'[w] = k
        /\ \A v \in Workers : v # w => worker'[v] = worker[v]
    BY <1>1, <1>2, <1>3, WorkerSet
  <1>5. Placed(w)' /\ Analyzing(w)' /\ Reading(w)'
    BY <1>1, <1>2, <1>3, <1>4 DEF Placed, Analyzing, Reading, Triaging
  <1>6. Recovering(w)'
    <2>1. HoldsResync(w)' <=> HoldsResync(w)
      BY <1>1, <1>3, <1>4 DEF HoldsResync
    <2>2. \A m : Covered(m)' <=> Covered(m)
      BY <1>1 DEF Covered
    <2> QED
      BY <1>1, <1>2, <1>3, <1>4, <2>1, <2>2 DEF Recovering, Triaging
  <1>7. WorkerInv(w)'
    BY <1>5, <1>6 DEF WorkerInv
  <1> QED
    BY <1>1, <1>2, <1>4, <1>7, WorkerMoves

\* A worker turns to the next message of its list.
LEMMA GoesOn ==
  ASSUME IInv, NEW w \in Workers, worker[w].pc = "triage", worker[w].todo # {},
         NEW pc \in {"check", "analyze"}, Goto(w, pc), UNCHANGED <<hist, box>>,
         \A m \in Messages : Covered(m) => Covered(m)'
  PROVE  /\ worker' \in [Workers -> Worker]
         /\ \A v \in Workers : v # w => worker'[v] = worker[v]
         /\ worker'[w].pc = pc /\ NextMessage(w)' = NextMessage(w)
         /\ Placed(w)' /\ Reading(w)' /\ Recovering(w)'
  <1>1. /\ pc \in WorkerPc /\ TypeOK /\ Placed(w) /\ Reading(w) /\ Recovering(w)
    BY DEF WorkerPc, IInv, WorkerInv
  <1>2. /\ worker' \in [Workers -> Worker]
        /\ \A v \in Workers : v # w => worker'[v] = worker[v]
        /\ worker'[w].pc = pc /\ worker'[w].job = worker[w].job
        /\ worker'[w].cursor = worker[w].cursor /\ worker'[w].page = worker[w].page
        /\ worker'[w].todo = worker[w].todo /\ worker'[w].resync = worker[w].resync
        /\ worker'[w].rgen = worker[w].rgen
    BY <1>1, GotoFields
  <1>3. Placed(w)'
    BY <1>1, <1>2 DEF Placed, Triaging
  <1>4. /\ \A m \in 1..worker[w].cursor : Covered(m) => Covered(m)'
        /\ \A m \in 1..hist : Covered(m) => Covered(m)'
    BY <1>1, TypeFacts DEF Placed
  <1>5. Reading(w)'
    <2> HIDE DEF Covered
    <2> QED
      BY <1>1, <1>2, <1>4 DEF Reading, Triaging
  <1>6. Recovering(w)'
    <2>1. HoldsResync(w)' <=> HoldsResync(w)
      BY <1>2 DEF HoldsResync
    <2> QED
      BY <1>1, <1>2, <1>4, <2>1 DEF Recovering, Triaging
  <1>7. NextMessage(w)' = NextMessage(w)
    BY <1>2 DEF NextMessage
  <1> QED
    BY <1>2, <1>3, <1>5, <1>6, <1>7

\* A message is leased, unless it is triaged, leased or waiting.
LEMMA ClaimTriageIInv == ASSUME IInv, NEW w \in Workers, ClaimTriage(w) PROVE IInv' /\ BoxStep
  <1>1. /\ worker[w].pc = "triage" /\ worker[w].todo # {}
        /\ UNCHANGED <<hist, queue, job, box, faults, during>>
    BY DEF ClaimTriage
  <1>2. TypeOK /\ faults' \in 0..MaxFaults
    BY <1>1 DEF IInv, TypeOK
  <1>3. PICK n \in Messages : n = NextMessage(w)
    BY <1>1, <1>2, NextMessageListed
  <1>4. CASE Goto(w, "check") /\ UNCHANGED triage
    <2>1. \A m \in Messages : Covered(m) => Covered(m)'
      BY <1>1, <1>4 DEF Covered
    <2>2. /\ worker' \in [Workers -> Worker]
          /\ \A v \in Workers : v # w => worker'[v] = worker[v]
          /\ worker'[w].pc = "check" /\ Placed(w)' /\ Reading(w)' /\ Recovering(w)'
      BY <1>1, <1>4, <2>1, GoesOn
    <2>3. WorkerInv(w)'
      BY <2>2 DEF WorkerInv, Analyzing
    <2> QED
      BY <1>1, <1>2, <1>4, <2>2, <2>3, WorkerMoves
  <1>5. CASE /\ triage[n].state # "terminal" /\ Goto(w, "analyze")
             /\ triage' = [triage EXCEPT ![n] =
                             [state |-> "processing", tries |-> Bump(triage[n].tries), token |-> w,
                              lease |-> LEASE, next |-> 0]]
    <2>1. Bump(triage[n].tries) \in 0..MAX_ATTEMPTS
      BY <1>2, BumpType DEF TypeOK, Triage
    <2> DEFINE r == [state |-> "processing", tries |-> Bump(triage[n].tries), token |-> w,
                     lease |-> LEASE, next |-> 0]
    <2>2. r \in Triage /\ r.state = "processing" /\ r.token = w
      BY <2>1, Numbers DEF Triage
    <2> HIDE DEF r
    <2>3. /\ triage' \in [Messages -> Triage] /\ triage'[n] = r
          /\ \A m \in Messages : m # n => triage'[m] = triage[m]
      BY <1>2, <1>5, <2>2 DEF TypeOK, r
    <2>4. \A m \in Messages : Covered(m) => Covered(m)'
      BY <1>1, <1>5, <2>2, <2>3 DEF Covered
    <2>5. /\ worker' \in [Workers -> Worker]
          /\ \A v \in Workers : v # w => worker'[v] = worker[v]
          /\ worker'[w].pc = "analyze" /\ NextMessage(w)' = NextMessage(w)
          /\ Placed(w)' /\ Reading(w)' /\ Recovering(w)'
      BY <1>1, <1>5, <2>4, GoesOn
    <2>6. Analyzing(w)'
      BY <1>3, <2>2, <2>3, <2>5 DEF Analyzing, HoldsTriage
    <2>7. WorkerInv(w)'
      BY <2>5, <2>6 DEF WorkerInv
    <2> QED
      BY <1>1, <1>2, <1>5, <2>2, <2>3, <2>5, <2>7, TriageMoves
  <1> QED
    BY <1>3, <1>4, <1>5 DEF ClaimTriage

\* A row that reaches its final state.
LEMMA FinishedTriage ==
  ASSUME NEW r \in Triage
  PROVE  Finished(r, "terminal") \in Triage /\ Finished(r, "terminal").state = "terminal"
  BY Numbers DEF Finished, Triage

\* A message is analysed; only with several workers may another have the lease by now.
LEMMA FinalizeTriageIInv == ASSUME IInv, NEW w \in Workers, FinalizeTriage(w) PROVE IInv' /\ BoxStep
  <1>1. /\ worker[w].pc = "analyze" /\ TickOff(w)
        /\ UNCHANGED <<hist, queue, job, box, faults, during>>
    BY DEF FinalizeTriage
  <1>2. TypeOK /\ faults' \in 0..MaxFaults /\ Analyzing(w)
    BY <1>1 DEF IInv, TypeOK, WorkerInv
  <1>3. PICK n \in Messages : n = NextMessage(w)
    BY <1>1, NextMessageListed DEF IInv, WorkerInv, Placed
  <1>4. triage[n].state # "absent" /\ (Several \/ HoldsTriage(w, n))
    BY <1>1, <1>2, <1>3 DEF Analyzing
  <1>5. triage' = IF HoldsTriage(w, n) THEN [triage EXCEPT ![n] = Finished(triage[n], "terminal")]
                  ELSE triage
    BY <1>3 DEF FinalizeTriage
  <1>6. /\ triage' \in [Messages -> Triage]
        /\ \A m \in Messages : triage'[m] = triage[m] \/ triage'[m].state = "terminal"
        /\ HoldsTriage(w, n) => triage'[n].state = "terminal"
        /\ ~HoldsTriage(w, n) => triage'[n] = triage[n]
    <2>1. triage[n] \in Triage
      BY <1>2 DEF TypeOK
    <2> DEFINE r == Finished(triage[n], "terminal")
    <2>2. r \in Triage /\ r.state = "terminal"
      BY <2>1, FinishedTriage
    <2> HIDE DEF r
    <2> QED
      BY <1>2, <1>5, <2>2 DEF TypeOK, r
  <1>7. \A m \in Messages : Covered(m) => Covered(m)'
    BY <1>1, <1>6 DEF Covered
  <1>8. Covered(n)'
    <2>1. triage[n].state \in {"absent", "processing", "terminal"}
      BY <1>2 DEF TypeOK, Triage
    <2> QED
      BY <1>4, <1>6, <2>1 DEF Covered
  <1>9. /\ worker' \in [Workers -> Worker] /\ WorkerInv(w)'
        /\ \A v \in Workers : v # w => worker'[v] = worker[v]
    BY <1>1, <1>3, <1>7, <1>8, TicksOff
  <1> QED
    BY <1>1, <1>2, <1>6, <1>9, TriageMoves

\* A message could not be analysed: it waits for its retry.
LEMMA ReleaseTriageIInv == ASSUME IInv, NEW w \in Workers, ReleaseTriage(w) PROVE IInv' /\ BoxStep
  <1>1. /\ worker[w].pc = "analyze" /\ GiveUp(w)
        /\ UNCHANGED <<hist, queue, job, box, during>>
    BY DEF ReleaseTriage
  <1>2. TypeOK /\ faults' \in 0..MaxFaults
    BY Numbers DEF ReleaseTriage, Fault, IInv, TypeOK
  <1>3. PICK n \in Messages : n = NextMessage(w)
    BY <1>1, NextMessageListed DEF IInv, WorkerInv, Placed
  <1> DEFINE r == [state |-> "processing", tries |-> triage[n].tries, token |-> None,
                   lease |-> 0, next |-> RetryDelay(triage[n].tries)]
  <1>4. triage' = IF HoldsTriage(w, n) THEN [triage EXCEPT ![n] = r] ELSE triage
    BY <1>3 DEF ReleaseTriage
  <1>5. r \in Triage /\ r.state = "processing"
    <2>1. triage[n].tries \in 0..MAX_ATTEMPTS /\ RetryDelay(triage[n].tries) \in 0..BACKOFF_MAX
      BY <1>2, RetryDelayType DEF TypeOK, Triage
    <2> QED
      BY <2>1, Numbers DEF Triage
  <1> HIDE DEF r
  <1>6. /\ triage' \in [Messages -> Triage]
        /\ \A m \in Messages : \/ triage'[m] = triage[m]
                               \/ triage[m].state # "terminal" /\ triage'[m].state = "processing"
    BY <1>2, <1>4, <1>5 DEF TypeOK, HoldsTriage
  <1>7. /\ worker' \in [Workers -> Worker] /\ WorkerInv(w)'
        /\ \A v \in Workers : v # w => worker'[v] = worker[v]
    BY <1>1, Parks DEF GiveUp
  <1> QED
    BY <1>1, <1>2, <1>6, <1>7, TriageMoves

\* What putting a job back, or finishing it, makes of it.
LEMMA JobRecords ==
  ASSUME NEW j \in Job, NEW delay \in 0..BACKOFF_MAX, NEW state \in {"succeeded", "dead_letter"}
  PROVE  /\ Requeued(j, delay) \in Job /\ Requeued(j, delay).state = "pending"
         /\ Finished(j, state) \in Job /\ Finished(j, state).state = state
  BY Numbers DEF Requeued, Finished, Job

\* One job changes, or none, and its new state says the truth.
LEMMA JobSet ==
  ASSUME IInv, BoxStep, UNCHANGED hist, box' \in Box, NEW m \in Messages, NEW r \in Job,
         job' \in {job, [job EXCEPT ![m] = r]}, m <= hist,
         r.state = "succeeded" => m <= box'.cursor,
         r.state = "dead_letter" => box'.sync = "manual_required"
  PROVE  job' \in [Messages -> Job] /\ JobInv'
  <1>1. /\ job' \in [Messages -> Job] /\ (job'[m] = job[m] \/ job'[m] = r)
        /\ \A x \in Messages : x # m => job'[x] = job[x]
    BY DEF IInv, TypeOK
  <1>2. \A x \in Messages : x <= box.cursor => x <= box'.cursor
    BY TypeFacts, Numbers DEF IInv, BoxStep, Messages, Box
  <1>3. box.sync = "manual_required" => box'.sync = "manual_required"
    BY DEF BoxStep
  <1> QED
    BY <1>1, <1>2, <1>3 DEF IInv, JobInv

\* The mailbox row is as it was.
LEMMA BoxSame ==
  ASSUME IInv, UNCHANGED <<hist, box, triage, during>>
  PROVE  /\ box' \in Box /\ BoxInv' /\ BoxStep
         /\ \A v \in Workers : worker'[v] = worker[v] /\ HoldsResync(v)' => HoldsResync(v)
  <1>1. BoxInv'
    BY DEF IInv, BoxInv, Covered
  <1>2. BoxStep
    BY TypeFacts DEF IInv, BoxStep
  <1> QED
    BY <1>1, <1>2 DEF IInv, TypeOK, HoldsResync

\* Recovery waits, where it was or from the newest message on.
LEMMA BoxWaits ==
  ASSUME IInv, UNCHANGED <<hist, triage, during>>, box' \in Box,
         box'.cursor = box.cursor, box'.sync = "required", box.sync # "manual_required",
         \/ box'.page = 0 /\ box'.count = 0
         \/ box'.page = box.page /\ box'.count = box.count /\ box.sync \in {"required", "processing"}
  PROVE  BoxInv' /\ BoxStep /\ \A v \in Workers : ~HoldsResync(v)'
  <1>1. \A m : Covered(m)' <=> Covered(m)
    BY DEF Covered
  <1>2. BoxInv'
    BY <1>1, Numbers DEF IInv, BoxInv
  <1>3. BoxStep
    BY TypeFacts DEF IInv, BoxStep
  <1> QED
    BY <1>2, <1>3 DEF HoldsResync

\* What giving up the recovery lease makes of the mailbox.
LEMMA WaitingBox ==
  ASSUME NEW b \in Box, NEW tries \in 0..MAX_ATTEMPTS, NEW delay \in 0..BACKOFF_MAX
  PROVE  LET c == Waiting(b, tries, delay) IN
         c \in Box /\ c.cursor = b.cursor /\ c.sync = "required" /\ c.page = b.page /\ c.count = b.count
  <1> DEFINE zero == 0
             c1 == [b EXCEPT !.sync = "required", !.token = None, !.lease = zero]
             c2 == [c1 EXCEPT !.tries = tries, !.next = delay]
  <1>1. zero \in 0..LEASE
    BY Numbers
  <1>2. Waiting(b, tries, delay) = c2
    BY DEF Waiting
  <1> HIDE DEF zero
  <1>3. /\ c1 \in Box /\ c1.cursor = b.cursor /\ c1.sync = "required" /\ c1.page = b.page
        /\ c1.count = b.count
    BY <1>1 DEF Box
  <1> HIDE DEF c1
  <1>4. /\ c2 \in Box /\ c2.cursor = c1.cursor /\ c2.sync = c1.sync /\ c2.page = c1.page
        /\ c2.count = c1.count
    BY <1>3 DEF Box
  <1> QED
    BY <1>2, <1>3, <1>4

\* What a new generation makes of it.
LEMMA NewGenerationBox ==
  ASSUME NEW b \in Box, b.gen < MaxGen
  PROVE  LET c == NewGeneration(b) IN
         c \in Box /\ c.cursor = b.cursor /\ c.sync = "required" /\ c.page = 0 /\ c.count = 0
  <1> DEFINE zero == 0
             g == b.gen + 1
             c1 == [b EXCEPT !.sync = "required", !.gen = g, !.page = zero, !.count = zero]
             c2 == [c1 EXCEPT !.tries = zero, !.token = None, !.lease = zero, !.next = zero]
  <1>1. g \in 0..MaxGen
    BY Numbers DEF Box
  <1>2. /\ zero \in 0..LEASE /\ zero \in 0..BACKOFF_MAX /\ zero \in 0..MAX_ATTEMPTS
        /\ zero \in 0..MaxHist /\ zero \in 0..RESYNC_MAX
    BY Numbers
  <1>3. NewGeneration(b) = c2
    BY DEF NewGeneration
  <1> HIDE DEF g, zero
  <1>4. /\ c1 \in Box /\ c1.cursor = b.cursor /\ c1.sync = "required" /\ c1.page = zero
        /\ c1.count = zero
    BY <1>1, <1>2 DEF Box
  <1> HIDE DEF c1
  <1>5. /\ c2 \in Box /\ c2.cursor = c1.cursor /\ c2.sync = c1.sync /\ c2.page = c1.page
        /\ c2.count = c1.count
    BY <1>2, <1>4 DEF Box
  <1> QED
    BY <1>3, <1>4, <1>5 DEF zero

\* A step that changes jobs and the mailbox and no worker.
LEMMA RowsMoveAlone ==
  ASSUME IInv, NEW w \in Workers, UNCHANGED <<hist, queue, triage, worker, faults, during>>,
         job' \in [Messages -> Job], box' \in Box,
         \A v \in Workers : HoldsResync(v)' => HoldsResync(v) /\ box'.cursor = box.cursor,
         BoxStep, BoxInv', JobInv'
  PROVE  IInv' /\ BoxStep
  <1>1. TypeOK'
    BY DEF IInv, TypeOK
  <1>2. Forward
    <2>1. \A m \in Messages : ~(hist < m /\ m <= hist')
      BY TypeFacts, Numbers DEF IInv, Messages
    <2> QED
      BY <2>1, TypeFacts DEF IInv, Forward, Covered
  <1>3. \A v \in Workers, m \in Messages : HoldsTriage(v, m)' <=> HoldsTriage(v, m)
    BY DEF HoldsTriage
  <1>4. ASSUME NEW v \in Workers PROVE WorkerInv(v)'
    BY <1>1, <1>2, <1>3, OthersKeep
  <1> QED
    BY <1>1, <1>4 DEF IInv

\* A claim that only tidies up: a lapsed lease, a job to give up, a job that
\* has used up its attempts.
LEMMA ClaimTidiesIInv ==
  ASSUME IInv, NEW w \in Workers, NEW m \in Messages,
         ClaimFindsLapsedJob(w, m) \/ ClaimFindsManual(w, m) \/ ClaimFindsExhausted(w, m)
  PROVE  IInv' /\ BoxStep
  <1>1. UNCHANGED <<hist, queue, triage, worker, faults, during>>
    BY DEF ClaimFindsLapsedJob, ClaimFindsManual, ClaimFindsExhausted
  <1>2. TypeOK /\ job[m] \in Job /\ box \in Box /\ box.tries \in 0..MAX_ATTEMPTS
    BY DEF IInv, TypeOK, Box
  <1>3. m <= hist
    BY DEF ClaimFindsLapsedJob, ClaimFindsManual, ClaimFindsExhausted, IInv, JobInv
  <1>4. CASE ClaimFindsLapsedJob(w, m)
    <2> DEFINE r == Requeued(job[m], RetryDelay(job[m].tries))
    <2>1. r \in Job /\ r.state = "pending"
      BY <1>2, RetryDelayType, JobRecords
    <2>2. job' = [job EXCEPT ![m] = r]
      BY <1>4 DEF ClaimFindsLapsedJob
    <2> HIDE DEF r
    <2>3. /\ box' \in Box /\ BoxInv' /\ BoxStep
          /\ \A v \in Workers : HoldsResync(v)' => HoldsResync(v) /\ box'.cursor = box.cursor
      <3>1. CASE /\ box.sync = "processing"
                 /\ box' = Waiting(box, Bump(box.tries), RetryDelay(Bump(box.tries)))
        <4>1. /\ box' \in Box /\ box'.cursor = box.cursor /\ box'.sync = "required"
              /\ box'.page = box.page /\ box'.count = box.count
          BY <1>2, <3>1, BumpType, RetryDelayType, WaitingBox
        <4> QED
          BY <1>1, <3>1, <4>1, BoxWaits
      <3>2. CASE UNCHANGED box
        BY <1>1, <3>2, BoxSame
      <3> QED
        BY <1>4, <3>1, <3>2 DEF ClaimFindsLapsedJob
    <2>4. job' \in [Messages -> Job] /\ JobInv'
      BY <1>1, <1>3, <2>1, <2>2, <2>3, JobSet
    <2> QED
      BY <1>1, <2>3, <2>4, RowsMoveAlone
  <1>5. CASE ClaimFindsManual(w, m)
    <2> DEFINE r == Finished(job[m], "dead_letter")
    <2>1. r \in Job /\ r.state = "dead_letter"
      BY <1>2, JobRecords, RetryDelayType
    <2>2. job' = [job EXCEPT ![m] = r] /\ UNCHANGED box /\ box.sync = "manual_required"
      BY <1>5 DEF ClaimFindsManual
    <2> HIDE DEF r
    <2>3. /\ box' \in Box /\ BoxInv' /\ BoxStep
          /\ \A v \in Workers : HoldsResync(v)' => HoldsResync(v) /\ box'.cursor = box.cursor
      BY <1>1, <2>2, BoxSame
    <2>4. job' \in [Messages -> Job] /\ JobInv'
      BY <1>1, <1>3, <2>1, <2>2, <2>3, JobSet
    <2> QED
      BY <1>1, <2>3, <2>4, RowsMoveAlone
  <1>6. CASE ClaimFindsExhausted(w, m)
    <2>1. box' = NewGeneration(box) /\ box.gen < MaxGen /\ box.sync = "idle" /\ UNCHANGED job
      BY <1>6 DEF ClaimFindsExhausted
    <2>2. /\ box' \in Box /\ box'.cursor = box.cursor /\ box'.sync = "required"
          /\ box'.page = 0 /\ box'.count = 0
      BY <1>2, <2>1, NewGenerationBox
    <2>3. BoxInv' /\ BoxStep /\ \A v \in Workers : ~HoldsResync(v)'
      BY <1>1, <2>1, <2>2, BoxWaits
    <2>4. job' \in [Messages -> Job] /\ JobInv'
      <3>1. job[m].state = "pending"
        BY <1>6 DEF ClaimFindsExhausted
      <3> QED
        BY <1>1, <1>2, <1>3, <2>1, <2>2, <2>3, <3>1, JobSet
    <2> QED
      BY <1>1, <2>2, <2>3, <2>4, RowsMoveAlone
  <1> QED
    BY <1>4, <1>5, <1>6

\* A worker leases a job.
LEMMA ClaimJobIInv ==
  ASSUME IInv, NEW w \in Workers, NEW m \in Messages, ClaimJob(w, m) PROVE IInv' /\ BoxStep
  <1> DEFINE r == [state |-> "processing", tries |-> Bump(job[m].tries), token |-> w,
                   lease |-> LEASE, next |-> 0]
             k == [AtRest EXCEPT !.pc = "read", !.job = m, !.gen = box.gen]
  <1>1. /\ UNCHANGED <<hist, queue, box, triage, faults, during>>
        /\ job[m].state = "pending" /\ job' = [job EXCEPT ![m] = r]
        /\ worker' = [worker EXCEPT ![w] = k]
    BY DEF ClaimJob
  <1>2. /\ TypeOK /\ job[m].tries \in 0..MAX_ATTEMPTS /\ box.gen \in 0..MaxGen
        /\ m <= hist /\ faults' \in 0..MaxFaults /\ hist \in Nat
    BY <1>1, TypeFacts DEF IInv, TypeOK, Job, Box, JobInv
  <1>3. r \in Job /\ r.state = "processing"
    <2>1. Bump(job[m].tries) \in 0..MAX_ATTEMPTS
      BY <1>2, BumpType
    <2> QED
      BY <2>1, Numbers DEF Job
  <1>4. /\ k \in Worker /\ k.pc = "read" /\ k.job = m /\ k.cursor = 0 /\ k.page = 0
        /\ k.todo = {} /\ k.resync = FALSE
    <2>1. m \in 0..MaxHist
      BY Numbers DEF Messages
    <2> QED
      BY <1>2, <2>1, AtRestFields DEF Worker, WorkerPc
  <1> HIDE DEF r, k
  <1>5. /\ worker' \in [Workers -> Worker] /\ worker'[w] = k
        /\ \A v \in Workers : v # w => worker'[v] = worker[v]
    BY <1>1, <1>2, <1>4, WorkerSet
  <1>6. WorkerInv(w)'
    BY <1>1, <1>2, <1>4, <1>5
    DEF WorkerInv, Placed, Reading, Recovering, Analyzing, Triaging
  <1>7. /\ box' \in Box /\ BoxInv' /\ BoxStep
        /\ \A v \in Workers : v # w /\ HoldsResync(v)' => HoldsResync(v) /\ box'.cursor = box.cursor
    BY <1>1, <1>5, BoxSame
  <1>8. job' \in [Messages -> Job] /\ JobInv'
    BY <1>1, <1>2, <1>3, <1>7, JobSet
  <1> QED
    BY <1>1, <1>2, <1>5, <1>6, <1>7, <1>8, RowsMove

\* The worker's job, which it may hold no longer, is put back or left alone.
LEMMA JobPutBack ==
  ASSUME IInv, NEW w \in Workers, worker[w].pc # "idle", Rest(w),
         UNCHANGED <<hist, queue, triage, faults, during>>,
         NEW delay \in 0..BACKOFF_MAX,
         job' \in {job, [job EXCEPT ![worker[w].job] = Requeued(job[worker[w].job], delay)]},
         box' \in Box, BoxInv', BoxStep,
         \A v \in Workers : v # w /\ HoldsResync(v)' => HoldsResync(v) /\ box'.cursor = box.cursor
  PROVE  IInv' /\ BoxStep
  <1>1. PICK m \in Messages : m = worker[w].job /\ m <= hist
    BY DEF IInv, WorkerInv, Placed
  <1>2. job[m] \in Job /\ faults' \in 0..MaxFaults
    BY DEF IInv, TypeOK
  <1> DEFINE r == Requeued(job[m], delay)
  <1>3. r \in Job /\ r.state = "pending"
    BY <1>2, JobRecords
  <1> HIDE DEF r
  <1>4. job' \in {job, [job EXCEPT ![m] = r]}
    BY <1>1 DEF r
  <1>5. job' \in [Messages -> Job] /\ JobInv'
    BY <1>1, <1>3, <1>4, JobSet
  <1>6. /\ worker' \in [Workers -> Worker] /\ WorkerInv(w)'
        /\ \A v \in Workers : v # w => worker'[v] = worker[v]
    BY Rests
  <1> QED
    BY <1>2, <1>5, <1>6, RowsMove

\* The same, with the mailbox left alone too.
LEMMA OnlyJobPutBack ==
  ASSUME IInv, NEW w \in Workers, worker[w].pc # "idle", Rest(w),
         UNCHANGED <<hist, queue, box, triage, faults, during>>,
         NEW delay \in 0..BACKOFF_MAX,
         job' \in {job, [job EXCEPT ![worker[w].job] = Requeued(job[worker[w].job], delay)]}
  PROVE  IInv' /\ BoxStep
  <1>1. \A v \in Workers : v # w => worker'[v] = worker[v]
    BY Rests
  <1>2. /\ box' \in Box /\ BoxInv' /\ BoxStep
        /\ \A v \in Workers : v # w /\ HoldsResync(v)' => HoldsResync(v) /\ box'.cursor = box.cursor
    BY <1>1, BoxSame
  <1> QED
    BY <1>2, JobPutBack

\* A job completes: the cursor is raised over what its worker has seen to.
LEMMA CompleteJobIInv == ASSUME IInv, NEW w \in Workers, CompleteJob(w) PROVE IInv' /\ BoxStep
  <1>1. /\ worker[w].pc = "complete" /\ Rest(w)
        /\ UNCHANGED <<hist, queue, triage, faults, during>>
    BY DEF CompleteJob
  <1>2. PICK m \in Messages : m = worker[w].job
    BY <1>1 DEF IInv, WorkerInv, Placed
  <1>3. CASE UNCHANGED <<job, box>>
    BY <1>1, <1>3, OnlyJobPutBack, RetryDelayType
  <1>4. CASE /\ job' = [job EXCEPT ![m] = Requeued(job[m], RetryDelay(job[m].tries))]
             /\ UNCHANGED box
    <2>1. RetryDelay(job[m].tries) \in 0..BACKOFF_MAX
      BY RetryDelayType
    <2> QED
      BY <1>1, <1>2, <1>4, <2>1, OnlyJobPutBack
  <1>5. CASE /\ ~RecoveryChanged(w)
             /\ job' = [job EXCEPT ![m] = Finished(job[m], "succeeded")]
             /\ box' = [box EXCEPT !.cursor = Max({box.cursor, worker[w].cursor, m})]
    <2> DEFINE r == Finished(job[m], "succeeded")
               S == {box.cursor, worker[w].cursor, m}
               c == Max(S)
    <2>1. /\ box \in Box /\ box.sync = "idle" /\ job[m] \in Job /\ faults' \in 0..MaxFaults
          /\ box.cursor \in 0..MaxHist /\ worker[w].cursor \in 0..MaxHist /\ m \in 0..MaxHist
      <3>1. m \in 0..MaxHist
        BY Numbers DEF Messages
      <3>2. box.sync = "idle"
        BY <1>5 DEF RecoveryChanged
      <3> QED
        BY <1>1, <3>1, <3>2 DEF IInv, TypeOK, Box, Worker
    <2>2. /\ m <= worker[w].cursor /\ worker[w].cursor <= hist /\ box.cursor <= hist
          /\ \A x \in 1..worker[w].cursor : Covered(x)
          /\ \A x \in 1..box.cursor : Covered(x)
      BY <1>1, <1>2 DEF IInv, WorkerInv, Placed, Reading, BoxInv
    <2>3. r \in Job /\ r.state = "succeeded"
      BY <2>1, JobRecords, RetryDelayType
    <2>4. c \in S /\ \A x \in S : x <= c
      <3>1. S \in SUBSET (0..MaxHist) /\ S # {}
        BY <2>1
      <3> HIDE DEF S
      <3> QED
        BY <3>1, Numbers, MaxOfSet
    <2>5. box' = [box EXCEPT !.cursor = c]
      BY <1>5
    <2> HIDE DEF c, r
    <2>6. /\ c \in 0..MaxHist /\ box.cursor <= c /\ m <= c /\ c <= hist
          /\ \A x \in 1..c : Covered(x)
      <3>1. c = box.cursor \/ c = worker[w].cursor \/ c = m
        BY <2>4
      <3>2. c \in 0..MaxHist /\ box.cursor <= c /\ m <= c
        BY <2>1, <2>4
      <3>3. c <= box.cursor \/ c <= worker[w].cursor
        BY <2>1, <2>2, <3>1
      <3>4. hist \in Nat
        BY TypeFacts DEF IInv
      <3> QED
        BY <2>1, <2>2, <3>2, <3>3, <3>4
    <2>7. /\ box' \in Box /\ box'.cursor = c /\ box'.sync = "idle" /\ box'.page = box.page
          /\ box'.count = box.count
      BY <2>1, <2>5, <2>6 DEF Box
    <2>8. BoxStep
      BY <2>1, <2>6, <2>7 DEF BoxStep
    <2>9. BoxInv'
      <3>1. \A x : Covered(x)' <=> Covered(x)
        BY <1>1 DEF Covered
      <3> QED
        BY <1>1, <2>6, <2>7, <3>1 DEF IInv, BoxInv
    <2>10. job' \in [Messages -> Job] /\ JobInv'
      <3>1. job' = [job EXCEPT ![m] = r] /\ m <= hist
        BY <1>1, <1>2, <1>5 DEF r, IInv, WorkerInv, Placed
      <3> QED
        BY <1>1, <2>3, <2>6, <2>7, <2>8, <3>1, JobSet
    <2>11. /\ worker' \in [Workers -> Worker] /\ WorkerInv(w)'
           /\ \A v \in Workers : v # w => worker'[v] = worker[v]
      BY <1>1, Rests
    <2>12. \A v \in Workers : ~HoldsResync(v)'
      BY <2>7 DEF HoldsResync
    <2> QED
      BY <1>1, <2>1, <2>7, <2>8, <2>9, <2>10, <2>11, <2>12, RowsMove
  <1> QED
    BY <1>2, <1>3, <1>4, <1>5 DEF CompleteJob

\* A job fails: it is put back, and recovery may be opened.
LEMMA FailJobIInv == ASSUME IInv, NEW w \in Workers, FailJob(w) PROVE IInv' /\ BoxStep
  <1>1. /\ worker[w].pc # "idle" /\ Rest(w)
        /\ UNCHANGED <<hist, queue, triage, faults, during>>
    BY DEF FailJob
  <1> DEFINE m == worker[w].job
  <1>2. RetryDelay(job[m].tries) \in 0..BACKOFF_MAX /\ 0 \in 0..BACKOFF_MAX
    BY RetryDelayType, Numbers
  <1>3. CASE /\ job' \in {job, [job EXCEPT ![m] = Requeued(job[m], RetryDelay(job[m].tries))]}
             /\ UNCHANGED box
    BY <1>1, <1>2, <1>3, OnlyJobPutBack
  <1>4. CASE /\ ~RecoveryChanged(w) /\ box.gen < MaxGen /\ box' = NewGeneration(box)
             /\ job' = [job EXCEPT ![m] = Requeued(job[m], 0)]
    <2>1. box \in Box /\ box.sync = "idle"
      BY <1>4 DEF IInv, TypeOK, RecoveryChanged
    <2>2. /\ box' \in Box /\ box'.cursor = box.cursor /\ box'.sync = "required"
          /\ box'.page = 0 /\ box'.count = 0
      BY <1>4, <2>1, NewGenerationBox
    <2>3. BoxInv' /\ BoxStep /\ \A v \in Workers : ~HoldsResync(v)'
      BY <1>1, <2>1, <2>2, BoxWaits
    <2> QED
      BY <1>1, <1>2, <1>4, <2>2, <2>3, JobPutBack
  <1> QED
    BY <1>3, <1>4 DEF FailJob

\* A job is put back.
LEMMA RequeueJobIInv == ASSUME IInv, NEW w \in Workers, RequeueJob(w) PROVE IInv' /\ BoxStep
  <1> DEFINE m == worker[w].job
             d == IF worker[w].pc = "requeue" THEN RetryDelay(job[m].tries) ELSE 0
  <1>1. /\ worker[w].pc # "idle" /\ Rest(w)
        /\ UNCHANGED <<hist, queue, box, triage, faults, during>>
        /\ job' \in {job, [job EXCEPT ![m] = Requeued(job[m], d)]}
    BY DEF RequeueJob
  <1>2. d \in 0..BACKOFF_MAX
    BY RetryDelayType, Numbers
  <1> HIDE DEF d
  <1> QED
    BY <1>1, <1>2, OnlyJobPutBack

\* A job is given up, when the mailbox demands manual recovery.
LEMMA DeadLetterJobIInv == ASSUME IInv, NEW w \in Workers, DeadLetterJob(w) PROVE IInv' /\ BoxStep
  <1>1. /\ worker[w].pc = "dead_letter" /\ Rest(w)
        /\ UNCHANGED <<hist, queue, box, triage, faults, during>>
    BY DEF DeadLetterJob
  <1>2. PICK m \in Messages : m = worker[w].job /\ m <= hist
    BY <1>1 DEF IInv, WorkerInv, Placed
  <1>3. job[m] \in Job /\ faults' \in 0..MaxFaults /\ box.sync = "manual_required"
    BY <1>1 DEF IInv, TypeOK, WorkerInv, Placed
  <1> DEFINE r == Finished(job[m], "dead_letter")
  <1>4. r \in Job /\ r.state = "dead_letter"
    BY <1>3, JobRecords, RetryDelayType
  <1>5. job' \in {job, [job EXCEPT ![m] = r]}
    BY <1>2 DEF DeadLetterJob
  <1> HIDE DEF r
  <1>6. /\ worker' \in [Workers -> Worker] /\ WorkerInv(w)'
        /\ \A v \in Workers : v # w => worker'[v] = worker[v]
    BY <1>1, Rests
  <1>7. /\ box' \in Box /\ BoxInv' /\ BoxStep
        /\ \A v \in Workers : v # w /\ HoldsResync(v)' => HoldsResync(v) /\ box'.cursor = box.cursor
    BY <1>1, <1>6, BoxSame
  <1>8. job' \in [Messages -> Job] /\ JobInv'
    BY <1>1, <1>2, <1>3, <1>4, <1>5, <1>7, JobSet
  <1> QED
    BY <1>1, <1>3, <1>6, <1>7, <1>8, RowsMove

\* A step that changes the mailbox and no job.
LEMMA BoxMoves ==
  ASSUME IInv, NEW w \in Workers, UNCHANGED <<hist, queue, job, triage, faults, during>>,
         worker' \in [Workers -> Worker],
         \A v \in Workers : v # w => worker'[v] = worker[v], WorkerInv(w)',
         box' \in Box, BoxStep, BoxInv',
         \A v \in Workers : v # w => ~HoldsResync(v)'
  PROVE  IInv' /\ BoxStep
  <1>1. faults' \in 0..MaxFaults /\ job' \in [Messages -> Job]
    BY DEF IInv, TypeOK
  <1>2. \A x \in Messages : x <= box.cursor => x <= box'.cursor
    BY TypeFacts, Numbers DEF IInv, BoxStep, Messages, Box
  <1>3. JobInv'
    BY <1>2 DEF IInv, JobInv, BoxStep
  <1> QED
    BY <1>1, <1>3, RowsMove

\* Recovery is left to its next turn, by its holder or because its lease lapsed.
LEMMA RecoveryWaits ==
  ASSUME IInv, NEW w \in Workers, worker[w].pc # "idle", Goto(w, "requeue"),
         UNCHANGED <<hist, queue, job, triage, faults, during>>, box.sync = "processing",
         box' = Waiting(box, Bump(box.tries), RetryDelay(Bump(box.tries)))
  PROVE  IInv' /\ BoxStep
  <1>1. box \in Box /\ box.tries \in 0..MAX_ATTEMPTS
    BY DEF IInv, TypeOK, Box
  <1>2. /\ box' \in Box /\ box'.cursor = box.cursor /\ box'.sync = "required"
        /\ box'.page = box.page /\ box'.count = box.count
    BY <1>1, BumpType, RetryDelayType, WaitingBox
  <1>3. BoxInv' /\ BoxStep /\ \A v \in Workers : ~HoldsResync(v)'
    BY <1>2, BoxWaits
  <1>4. /\ worker' \in [Workers -> Worker] /\ WorkerInv(w)'
        /\ \A v \in Workers : v # w => worker'[v] = worker[v]
    BY Parks
  <1> QED
    BY <1>2, <1>3, <1>4, BoxMoves

\* The worker puts its job back and leaves the mailbox alone.
LEMMA PutsBack ==
  ASSUME IInv, NEW w \in Workers, worker[w].pc # "idle", Goto(w, "requeue"),
         UNCHANGED <<hist, queue, job, box, triage, faults, during>>
  PROVE  IInv' /\ BoxStep
  <1>1. faults' \in 0..MaxFaults
    BY DEF IInv, TypeOK
  <1> QED
    BY <1>1, Parks, WorkerMoves

\* Recovery is released.
LEMMA ReleaseResyncIInv == ASSUME IInv, NEW w \in Workers, ReleaseResync(w) PROVE IInv' /\ BoxStep
  <1>1. /\ worker[w].pc # "idle" /\ Goto(w, "requeue")
        /\ UNCHANGED <<hist, queue, job, triage, faults, during>>
        /\ \/ UNCHANGED box
           \/ /\ box.sync = "processing"
              /\ box' = Waiting(box, Bump(box.tries), RetryDelay(Bump(box.tries)))
    BY DEF ReleaseResync, HoldsResync
  <1> QED
    BY <1>1, RecoveryWaits, PutsBack

\* A worker takes the recovery lease, and goes on where recovery was.
LEMMA ClaimResyncIInv == ASSUME IInv, NEW w \in Workers, ClaimResync(w) PROVE IInv' /\ BoxStep
  <1>1. worker[w].pc = "resync" /\ UNCHANGED <<hist, queue, job, triage, faults, during>>
    BY DEF ClaimResync
  <1> DEFINE k == [worker[w] EXCEPT !.pc = "list", !.resync = TRUE, !.rgen = box.gen,
                                    !.page = box.page, !.count = box.count]
  <1>2. CASE /\ box.sync = "required"
             /\ box' = [box EXCEPT !.sync = "processing", !.token = w, !.lease = LEASE]
             /\ worker' = [worker EXCEPT ![w] = k]
    <2>1. /\ TypeOK /\ box \in Box /\ worker[w] \in Worker /\ Placed(w) /\ BoxInv
          /\ box.gen \in 0..MaxGen /\ box.page \in 0..MaxHist /\ box.count \in 0..RESYNC_MAX
      BY DEF IInv, TypeOK, WorkerInv, Box
    <2>2. LEASE \in 0..LEASE
      BY Numbers
    <2>3. /\ box' \in Box /\ box'.cursor = box.cursor /\ box'.sync = "processing"
          /\ box'.token = w /\ box'.page = box.page /\ box'.count = box.count /\ box'.gen = box.gen
      BY <1>2, <2>1, <2>2 DEF Box
    <2>4. /\ k \in Worker /\ k.pc = "list" /\ k.resync = TRUE /\ k.page = box.page
          /\ k.count = box.count /\ k.job = worker[w].job /\ k.cursor = worker[w].cursor
      <3> DEFINE j == [worker[w] EXCEPT !.pc = "list", !.resync = TRUE]
      <3>1. /\ j \in Worker /\ j.pc = "list" /\ j.resync = TRUE /\ j.job = worker[w].job
            /\ j.cursor = worker[w].cursor
        BY <2>1 DEF Worker, WorkerPc
      <3>2. k = [j EXCEPT !.rgen = box.gen, !.page = box.page, !.count = box.count]
        OBVIOUS
      <3> HIDE DEF j, k
      <3> QED
        BY <2>1, <3>1, <3>2 DEF Worker
    <2> HIDE DEF k
    <2>5. /\ worker' \in [Workers -> Worker] /\ worker'[w] = k
          /\ \A v \in Workers : v # w => worker'[v] = worker[v]
      BY <1>2, <2>1, <2>4, WorkerSet
    <2>6. \A m : Covered(m)' <=> Covered(m)
      BY <1>1 DEF Covered
    <2>7. BoxInv'
      BY <1>1, <1>2, <2>1, <2>3, <2>6 DEF BoxInv
    <2>8. BoxStep
      BY <1>2, <2>3, TypeFacts DEF BoxStep, IInv
    <2>9. Placed(w)' /\ Reading(w)' /\ Analyzing(w)'
      BY <1>1, <2>1, <2>4, <2>5 DEF Placed, Reading, Analyzing, Triaging, BoxInv
    <2>10. Recovering(w)'
      BY <1>1, <1>2, <2>1, <2>4, <2>5, <2>6 DEF Recovering, Triaging, BoxInv
    <2>11. WorkerInv(w)'
      BY <2>9, <2>10 DEF WorkerInv
    <2>12. \A v \in Workers : v # w => ~HoldsResync(v)'
      BY <2>3 DEF HoldsResync
    <2> QED
      BY <1>1, <2>3, <2>5, <2>7, <2>8, <2>11, <2>12, BoxMoves
  <1>3. CASE /\ box.sync = "processing" /\ Goto(w, "requeue")
             /\ box' = Waiting(box, Bump(box.tries), RetryDelay(Bump(box.tries)))
    BY <1>1, <1>3, RecoveryWaits
  <1>4. CASE UNCHANGED box /\ Goto(w, "requeue")
    BY <1>1, <1>4, PutsBack
  <1> QED
    BY <1>2, <1>3, <1>4 DEF ClaimResync

\* A page is triaged: recovery is checkpointed there, or reaches its limit, or the
\* profile is to be read.
LEMMA PageDoneIInv == ASSUME IInv, NEW w \in Workers, PageDone(w) PROVE IInv' /\ BoxStep
  <1>1. /\ worker[w].pc = "page_done" /\ UNCHANGED <<hist, queue, job, triage, faults, during>>
    BY DEF PageDone
  <1>2. /\ TypeOK /\ box \in Box /\ BoxInv /\ Placed(w) /\ Recovering(w) /\ worker[w].todo = {}
        /\ worker[w].page \in 0..MaxHist /\ worker[w].count \in 0..RESYNC_MAX
        /\ faults' \in 0..MaxFaults
    BY <1>1 DEF IInv, TypeOK, WorkerInv, Placed, Worker
  <1>3. \A m : Covered(m)' <=> Covered(m)
    BY <1>1 DEF Covered
  <1>4. CASE worker[w].page = 0 /\ Goto(w, "profile") /\ UNCHANGED box
    <2>1. /\ worker' \in [Workers -> Worker]
          /\ \A v \in Workers : v # w => worker'[v] = worker[v]
          /\ worker'[w].pc = "profile" /\ worker'[w].job = worker[w].job
          /\ worker'[w].cursor = worker[w].cursor /\ worker'[w].page = worker[w].page
          /\ worker'[w].todo = worker[w].todo /\ worker'[w].resync = worker[w].resync
          /\ worker'[w].rgen = worker[w].rgen
      BY <1>2, <1>4, GotoFields DEF WorkerPc
    <2>2. Placed(w)' /\ Reading(w)' /\ Analyzing(w)'
      BY <1>1, <1>2, <1>4, <2>1 DEF Placed, Reading, Analyzing, Triaging
    <2>3. HoldsResync(w)' <=> HoldsResync(w)
      BY <1>4, <2>1 DEF HoldsResync
    <2>4. Recovering(w)'
      BY <1>1, <1>2, <1>3, <2>1, <2>3 DEF Recovering, Triaging
    <2>5. WorkerInv(w)'
      BY <2>2, <2>4 DEF WorkerInv
    <2> QED
      BY <1>1, <1>2, <1>4, <2>1, <2>5, WorkerMoves
  <1>5. CASE Goto(w, "requeue") /\ UNCHANGED box
    BY <1>1, <1>5, PutsBack
  <1>6. CASE /\ worker[w].page # 0 /\ HoldsResync(w) /\ worker[w].count < RESYNC_MAX
             /\ box' = [box EXCEPT !.sync = "required", !.token = None, !.lease = 0,
                                   !.page = worker[w].page, !.count = worker[w].count, !.next = 0]
             /\ Goto(w, "requeue_now")
    <2>1. /\ box' \in Box /\ box'.cursor = box.cursor /\ box'.sync = "required"
          /\ box'.page = worker[w].page /\ box'.count = worker[w].count
      <3> DEFINE zero == 0
                 b1 == [box EXCEPT !.sync = "required", !.token = None, !.lease = zero]
                 b2 == [b1 EXCEPT !.page = worker[w].page, !.count = worker[w].count, !.next = zero]
      <3>1. zero \in 0..LEASE /\ zero \in 0..BACKOFF_MAX
        BY Numbers
      <3>2. box' = b2
        BY <1>6
      <3> HIDE DEF zero
      <3>3. b1 \in Box /\ b1.cursor = box.cursor /\ b1.sync = "required"
        BY <1>2, <3>1 DEF Box
      <3> HIDE DEF b1
      <3>4. /\ b2 \in Box /\ b2.cursor = b1.cursor /\ b2.sync = b1.sync
            /\ b2.page = worker[w].page /\ b2.count = worker[w].count
        BY <1>2, <3>1, <3>3 DEF Box
      <3> QED
        BY <3>2, <3>3, <3>4
    <2>2. box.sync = "processing"
      BY <1>6 DEF HoldsResync
    <2>3. BoxStep /\ \A v \in Workers : ~HoldsResync(v)'
      BY <2>1, <2>2, TypeFacts DEF BoxStep, IInv, HoldsResync
    <2>4. BoxInv'
      <3>1. \A m \in 1..hist : Covered(m) \/ m < worker[w].page
        BY <1>1, <1>2, <1>6 DEF Recovering
      <3>2. worker[w].page # 1
        BY <1>2 DEF Placed
      <3> QED
        BY <1>1, <1>2, <1>3, <1>6, <2>1, <3>1, <3>2 DEF BoxInv
    <2>5. /\ worker' \in [Workers -> Worker] /\ WorkerInv(w)'
          /\ \A v \in Workers : v # w => worker'[v] = worker[v]
      BY <1>1, <1>6, Parks
    <2> QED
      BY <1>1, <2>1, <2>3, <2>4, <2>5, BoxMoves
  <1>7. CASE /\ HoldsResync(w)
             /\ box' = [box EXCEPT !.sync = "manual_required", !.token = None, !.lease = 0,
                                   !.next = 0]
             /\ Goto(w, "dead_letter")
    <2>1. /\ box' \in Box /\ box'.cursor = box.cursor /\ box'.sync = "manual_required"
          /\ box'.page = box.page /\ box'.count = box.count /\ box'.lease = 0 /\ box'.next = 0
      <3> DEFINE zero == 0
      <3>1. zero \in 0..LEASE /\ zero \in 0..BACKOFF_MAX
        BY Numbers
      <3>2. box' = [box EXCEPT !.sync = "manual_required", !.token = None, !.lease = zero, !.next = zero]
        BY <1>7
      <3> HIDE DEF zero
      <3>3. /\ box' \in Box /\ box'.cursor = box.cursor /\ box'.sync = "manual_required"
            /\ box'.page = box.page /\ box'.count = box.count /\ box'.lease = zero /\ box'.next = zero
        BY <1>2, <3>1, <3>2 DEF Box
      <3> QED
        BY <3>3 DEF zero
    <2>2. box.sync = "processing"
      BY <1>7 DEF HoldsResync
    <2>3. BoxStep /\ \A v \in Workers : ~HoldsResync(v)'
      BY <2>1, <2>2, TypeFacts DEF BoxStep, IInv, HoldsResync
    <2>4. BoxInv'
      BY <1>1, <1>2, <1>3, <2>1 DEF BoxInv
    <2>5. /\ worker' \in [Workers -> Worker]
          /\ \A v \in Workers : v # w => worker'[v] = worker[v]
          /\ worker'[w].pc = "dead_letter" /\ worker'[w].job = worker[w].job
          /\ worker'[w].cursor = worker[w].cursor /\ worker'[w].page = worker[w].page
      BY <1>2, <1>7, GotoFields DEF WorkerPc
    <2>6. WorkerInv(w)'
      BY <1>1, <1>2, <2>1, <2>5 DEF WorkerInv, Placed, Reading, Recovering, Analyzing, Triaging
    <2> QED
      BY <1>1, <2>1, <2>3, <2>4, <2>5, <2>6, BoxMoves
  <1> QED
    BY <1>4, <1>5, <1>6, <1>7 DEF PageDone

\* Recovery is complete: the cursor jumps to the profile, over messages that are
\* covered; it does not move back, since nobody else could move it.
LEMMA CompleteResyncIInv == ASSUME IInv, NEW w \in Workers, CompleteResync(w) PROVE IInv' /\ BoxStep
  <1>1. /\ worker[w].pc = "resync_done" /\ UNCHANGED <<hist, queue, job, triage, faults, during>>
    BY DEF CompleteResync
  <1> DEFINE k == [worker[w] EXCEPT !.pc = "complete", !.cursor = worker[w].job]
  <1>2. CASE UNCHANGED box /\ Goto(w, "requeue")
    BY <1>1, <1>2, PutsBack
  <1>3. CASE /\ HoldsResync(w)
             /\ box' = [cursor |-> worker[w].cursor, sync |-> "idle", gen |-> box.gen,
                        page |-> 0, count |-> 0, tries |-> 0, token |-> None,
                        lease |-> 0, next |-> 0]
             /\ worker' = [worker EXCEPT ![w] = k]
    <2>1. /\ TypeOK /\ box \in Box /\ box.gen \in 0..MaxGen /\ worker[w] \in Worker
          /\ worker[w].cursor \in 0..MaxHist /\ worker[w].job \in 0..MaxHist
          /\ Placed(w) /\ Recovering(w)
      BY DEF IInv, TypeOK, WorkerInv, Worker, Box
    <2>2. /\ worker[w].cursor <= hist /\ worker[w].page = 0 /\ worker[w].todo = {}
          /\ worker[w].job <= worker[w].cursor /\ box.cursor <= worker[w].cursor
          /\ \A m \in 1..hist : Covered(m)
      BY <1>1, <1>3, <2>1 DEF Placed, Recovering
    <2>3. /\ box' \in Box /\ box'.cursor = worker[w].cursor /\ box'.sync = "idle"
          /\ box'.page = 0 /\ box'.count = 0
      BY <1>3, <2>1, Numbers DEF Box
    <2>4. box.sync = "processing" /\ box.cursor \in Nat /\ worker[w].job \in Messages /\ hist \in Nat
      BY <1>1, <1>3, <2>1, TypeFacts DEF HoldsResync, Placed
    <2>5. BoxStep /\ \A v \in Workers : ~HoldsResync(v)'
      BY <2>1, <2>2, <2>3, <2>4 DEF BoxStep, HoldsResync
    <2>6. \A m : Covered(m)' <=> Covered(m)
      BY <1>1 DEF Covered
    <2>7. \A m \in 1..worker[w].cursor : Covered(m)
      BY <2>1, <2>2, <2>4
    <2>8. BoxInv'
      BY <1>1, <2>2, <2>3, <2>6, <2>7, Numbers DEF BoxInv
    <2>9. /\ k \in Worker /\ k.pc = "complete" /\ k.cursor = worker[w].job /\ k.job = worker[w].job
          /\ k.todo = worker[w].todo /\ k.page = worker[w].page
      BY <2>1 DEF Worker, WorkerPc
    <2> HIDE DEF k
    <2>10. /\ worker' \in [Workers -> Worker] /\ worker'[w] = k
           /\ \A v \in Workers : v # w => worker'[v] = worker[v]
      BY <1>3, <2>1, <2>9, WorkerSet
    <2>11. worker[w].job <= hist /\ \A m \in 1..worker[w].job : Covered(m)
      BY <2>1, <2>2, <2>4, <2>7
    <2>12. Placed(w)'
      BY <1>1, <2>2, <2>4, <2>9, <2>10, <2>11, Numbers DEF Placed, Triaging, Messages
    <2>13. Reading(w)' /\ Recovering(w)' /\ Analyzing(w)'
      BY <2>5, <2>6, <2>9, <2>10, <2>11 DEF Reading, Recovering, Analyzing, Triaging
    <2>14. WorkerInv(w)'
      BY <2>12, <2>13 DEF WorkerInv
    <2> QED
      BY <1>1, <2>3, <2>5, <2>8, <2>10, <2>14, BoxMoves
  <1> QED
    BY <1>2, <1>3 DEF CompleteResync

\* A step of no worker.
LEMMA NoWorkerMoves ==
  ASSUME IInv, TypeOK', Forward, BoxStep, UNCHANGED worker,
         box'.sync = box.sync, box'.token = box.token, box'.gen = box.gen, box'.cursor = box.cursor,
         \A m \in Messages : triage'[m].state = triage[m].state /\ triage'[m].token = triage[m].token,
         BoxInv', JobInv'
  PROVE  IInv' /\ BoxStep
  <1>1. \A v \in Workers : HoldsResync(v)' <=> HoldsResync(v)
    BY DEF HoldsResync
  <1>2. \A v \in Workers, m \in Messages : HoldsTriage(v, m)' <=> HoldsTriage(v, m)
    BY DEF HoldsTriage
  <1>3. ASSUME NEW v \in Workers PROVE WorkerInv(v)'
    BY <1>1, <1>2, OthersKeep
  <1> QED
    BY <1>3 DEF IInv

\* A message arrives; during recovery it is noted.
LEMMA ArriveIInv == ASSUME IInv, Arrive PROVE IInv' /\ BoxStep
  <1>1. /\ hist < MaxHist /\ hist' = hist + 1 /\ UNCHANGED <<queue, job, box, triage, worker, faults>>
        /\ during' = IF box.sync = "idle" THEN during ELSE during \cup {hist + 1}
    BY DEF Arrive
  <1>2. hist \in Nat /\ hist + 1 \in Messages /\ hist' \in 0..MaxHist
    BY <1>1, TypeFacts, Numbers DEF IInv, Messages
  <1>3. during' \subseteq Messages /\ during \subseteq during'
    BY <1>1, <1>2 DEF IInv, TypeOK
  <1>4. TypeOK'
    BY <1>1, <1>2, <1>3 DEF IInv, TypeOK
  <1>5. \A m : Covered(m) => Covered(m)'
    BY <1>1, <1>3 DEF Covered
  <1>6. box.sync # "idle" => \A m : m = hist + 1 => Covered(m)'
    BY <1>1 DEF Covered
  <1>7. box.sync # "idle" => \A m \in Messages : hist < m /\ m <= hist' => Covered(m)'
    <2>1. \A m \in Messages : hist < m /\ m <= hist' => m = hist + 1
      BY <1>1, <1>2, Numbers DEF Messages
    <2> QED
      BY <1>6, <2>1
  <1>8. Forward
    BY <1>1, <1>2, <1>5, <1>7 DEF Forward
  <1>9. BoxStep
    BY <1>1, TypeFacts DEF IInv, BoxStep
  <1>10. BoxInv'
    <2>1. box.cursor \in Nat /\ BoxInv
      BY TypeFacts DEF IInv
    <2>2. box.sync \in {"required", "processing"} =>
            \A m \in 1..hist' : Covered(m)' \/ box.page = 0 \/ m < box.page
      <3>1. \A m \in 1..hist' : m \in 1..hist \/ (m \in Messages /\ hist < m /\ m <= hist')
        BY <1>1, <1>2, Numbers DEF Messages
      <3> QED
        BY <1>5, <1>7, <2>1, <3>1 DEF BoxInv
    <2>3. box.cursor <= hist' /\ \A m \in 1..box.cursor : Covered(m)'
      BY <1>1, <1>2, <1>5, <2>1 DEF BoxInv
    <2> QED
      BY <1>1, <2>1, <2>2, <2>3 DEF BoxInv
  <1>11. JobInv'
    BY <1>1, <1>2, Numbers DEF IInv, JobInv, Messages
  <1> QED
    BY <1>1, <1>4, <1>8, <1>9, <1>10, <1>11, NoWorkerMoves

\* A notification is committed as a job.
LEMMA DeliverIInv == ASSUME IInv, NEW m \in Messages, Deliver(m) PROVE IInv' /\ BoxStep
  <1>1. /\ m <= hist /\ job' = [job EXCEPT ![m] = Requeued(job[m], 0)] /\ queue' = Append(queue, m)
        /\ UNCHANGED <<hist, box, triage, worker, faults, during>>
    BY DEF Deliver
  <1>2. job[m] \in Job /\ queue \in Seq(Messages)
    BY DEF IInv, TypeOK
  <1>3. queue' \in Seq(Messages)
    BY <1>1, <1>2
  <1> DEFINE r == Requeued(job[m], 0)
  <1>4. r \in Job /\ r.state = "pending"
    <2>1. 0 \in 0..BACKOFF_MAX
      BY Numbers
    <2> QED
      BY <1>2, <2>1, JobRecords
  <1> HIDE DEF r
  <1>5. /\ box' \in Box /\ BoxInv' /\ BoxStep
    BY <1>1, BoxSame
  <1>6. job' \in [Messages -> Job] /\ JobInv'
    <2>1. job' \in {job, [job EXCEPT ![m] = r]}
      BY <1>1 DEF r
    <2> QED
      BY <1>1, <1>4, <1>5, <2>1, JobSet
  <1>7. TypeOK'
    BY <1>1, <1>3, <1>5, <1>6 DEF IInv, TypeOK
  <1>8. Forward
    <2>1. \A x \in Messages : ~(hist < x /\ x <= hist')
      BY <1>1, TypeFacts, Numbers DEF IInv, Messages
    <2> QED
      BY <1>1, <2>1, TypeFacts DEF IInv, Forward, Covered
  <1> QED
    BY <1>1, <1>5, <1>6, <1>7, <1>8, NoWorkerMoves

\* Time passes: only countdowns change.
LEMMA TickIInv == ASSUME IInv, Tick PROVE IInv' /\ BoxStep
  <1>1. /\ job' = [m \in Messages |-> [job[m] EXCEPT !.lease = Down(job[m].lease), !.next = Down(job[m].next)]]
        /\ triage' = [m \in Messages |->
                        [triage[m] EXCEPT !.lease = Down(triage[m].lease), !.next = Down(triage[m].next)]]
        /\ box' = [box EXCEPT !.lease = Down(box.lease), !.next = Down(box.next)]
        /\ UNCHANGED <<hist, queue, worker, faults, during>>
    BY DEF Tick
  <1>2. ASSUME NEW n \in Nat, NEW x \in 0..n PROVE Down(x) \in 0..n
    BY DEF Down
  <1>3. ASSUME NEW m \in Messages
        PROVE  job'[m] \in Job /\ job'[m].state = job[m].state
    <2>1. job[m] \in Job
      BY DEF IInv, TypeOK
    <2>2. Down(job[m].lease) \in 0..LEASE /\ Down(job[m].next) \in 0..BACKOFF_MAX
      BY <1>2, <2>1, Numbers DEF Job
    <2>3. job'[m] = [job[m] EXCEPT !.lease = Down(job[m].lease), !.next = Down(job[m].next)]
      BY <1>1
    <2> QED
      BY <2>1, <2>2, <2>3 DEF Job
  <1>4. ASSUME NEW m \in Messages
        PROVE  /\ triage'[m] \in Triage /\ triage'[m].state = triage[m].state
               /\ triage'[m].token = triage[m].token
    <2>1. triage[m] \in Triage
      BY DEF IInv, TypeOK
    <2>2. Down(triage[m].lease) \in 0..LEASE /\ Down(triage[m].next) \in 0..BACKOFF_MAX
      BY <1>2, <2>1, Numbers DEF Triage
    <2>3. triage'[m] = [triage[m] EXCEPT !.lease = Down(triage[m].lease), !.next = Down(triage[m].next)]
      BY <1>1
    <2> QED
      BY <2>1, <2>2, <2>3 DEF Triage
  <1>5. /\ box' \in Box /\ box'.cursor = box.cursor /\ box'.sync = box.sync /\ box'.gen = box.gen
        /\ box'.page = box.page /\ box'.count = box.count /\ box'.token = box.token
        /\ box'.lease = Down(box.lease) /\ box'.next = Down(box.next)
    <2>1. box \in Box
      BY DEF IInv, TypeOK
    <2>2. Down(box.lease) \in 0..LEASE /\ Down(box.next) \in 0..BACKOFF_MAX
      BY <1>2, <2>1, Numbers DEF Box
    <2> QED
      BY <1>1, <2>1, <2>2 DEF Box
  <1>6. TypeOK'
    <2>1. job' \in [Messages -> Job]
      BY <1>1, <1>3
    <2>2. triage' \in [Messages -> Triage]
      BY <1>1, <1>4
    <2> QED
      BY <1>1, <1>5, <2>1, <2>2 DEF IInv, TypeOK
  <1>7. \A m \in Messages : Covered(m)' <=> Covered(m)
    BY <1>1, <1>4 DEF Covered
  <1>8. Forward
    <2> hist' = hist /\ hist \in Nat
      BY TypeFacts DEF Tick, IInv
    <2>1. \A x \in Messages : ~(hist < x /\ x <= hist')
      BY Numbers DEF Messages
    <2>2. hist <= hist'
      OBVIOUS
    <2> QED
      BY <1>4, <1>7, <2>1, <2>2 DEF Forward
  <1>9. box.sync = "manual_required" => box' = box
    <2> SUFFICES ASSUME box.sync = "manual_required" PROVE box' = box
      OBVIOUS
    <2>1. box.lease = 0 /\ box.next = 0 /\ box \in Box
      BY DEF IInv, BoxInv, TypeOK
    <2>2. Down(box.lease) = box.lease /\ Down(box.next) = box.next
      BY <2>1 DEF Down
    <2>3. box' = [box EXCEPT !.lease = box.lease, !.next = box.next]
      BY <1>1, <2>2
    <2> QED
      BY <2>1, <2>3 DEF Box
  <1>10. BoxStep
    BY <1>5, <1>9, TypeFacts DEF IInv, BoxStep
  <1>11. BoxInv'
    <2>1. /\ \A m \in 1..hist : Covered(m)' <=> Covered(m)
          /\ \A m \in 1..box.cursor : Covered(m)' <=> Covered(m)
      BY <1>7, TypeFacts DEF IInv, BoxInv
    <2>2. box.sync = "manual_required" => box'.lease = 0 /\ box'.next = 0
      BY <1>9 DEF IInv, BoxInv
    <2> QED
      BY <1>1, <1>5, <2>1, <2>2 DEF IInv, BoxInv
  <1>12. JobInv'
    BY <1>1, <1>3, <1>5 DEF IInv, JobInv
  <1> QED
    BY <1>1, <1>4, <1>5, <1>6, <1>8, <1>10, <1>11, <1>12, NoWorkerMoves

------------------------------------------------------------------------------
(* The theorems *)

\* The invariant holds at first.
LEMMA InitIInv == Init => IInv
  <1> SUFFICES ASSUME Init PROVE IInv
    OBVIOUS
  <1> DEFINE row == [state |-> "absent", tries |-> 0, token |-> None, lease |-> 0, next |-> 0]
  <1>1. row \in Job /\ row \in Triage /\ row.state = "absent"
    BY Numbers DEF Job, Triage
  <1>2. job = [m \in Messages |-> row] /\ triage = [m \in Messages |-> row]
    BY DEF Init
  <1> HIDE DEF row
  <1>3. /\ box \in Box /\ box.cursor = 0 /\ box.sync = "idle" /\ box.page = 0 /\ box.count = 0
    BY Numbers DEF Init, Box
  <1>4. TypeOK
    BY <1>1, <1>2, <1>3, Numbers, AtRestFields DEF Init, TypeOK
  <1>5. BoxInv /\ JobInv
    BY <1>1, <1>2, <1>3, Numbers DEF Init, BoxInv, JobInv
  <1>6. ASSUME NEW w \in Workers PROVE WorkerInv(w)
    <2>1. worker[w] = AtRest /\ hist = 0
      BY DEF Init
    <2>2. worker[w].pc = "idle" /\ worker[w].cursor = 0 /\ worker[w].page = 0
      BY <2>1, AtRestFields
    <2> QED
      BY <2>1, <2>2 DEF WorkerInv, Placed, Reading, Recovering, Analyzing, Triaging
  <1> QED
    BY <1>4, <1>5, <1>6 DEF IInv

\* A step that changes nothing.
LEMMA StutterIInv == ASSUME IInv, UNCHANGED vars PROVE IInv' /\ BoxStep
  <1>1. UNCHANGED <<hist, queue, job, box, triage, worker, faults, during>>
    BY DEF vars
  <1>2. TypeOK'
    BY <1>1 DEF IInv, TypeOK
  <1>3. Forward
    <2>1. \A x \in Messages : ~(hist < x /\ x <= hist')
      BY <1>1, TypeFacts, Numbers DEF IInv, Messages
    <2> QED
      BY <1>1, <2>1, TypeFacts DEF IInv, Forward, Covered
  <1>4. BoxInv' /\ BoxStep
    BY <1>1, BoxSame
  <1>5. JobInv'
    BY <1>1 DEF IInv, JobInv
  <1> QED
    BY <1>1, <1>2, <1>3, <1>4, <1>5, NoWorkerMoves

\* Every step keeps the invariant, and does to the cursor and to recovery only
\* what it may.
LEMMA NextIInv == IInv /\ [Next]_vars => IInv' /\ BoxStep
  <1> SUFFICES ASSUME IInv, [Next]_vars PROVE IInv' /\ BoxStep
    OBVIOUS
  <1>1. ASSUME NEW w \in Workers, Claim(w) PROVE IInv' /\ BoxStep
    BY <1>1, ClaimTidiesIInv, ClaimJobIInv DEF Claim
  <1>2. ASSUME NEW w \in Workers, WorkerStep(w) PROVE IInv' /\ BoxStep
    BY <1>1, <1>2, ReadStateIInv, ListHistoryIInv, CompleteJobIInv, FailJobIInv, RequeueJobIInv,
       DeadLetterJobIInv, ClaimTriageIInv, CheckTriageIInv, FinalizeTriageIInv, ListTriagedIInv,
       ClaimResyncIInv, ListInboxIInv, PageDoneIInv, ReadProfileIInv, CompleteResyncIInv,
       ReleaseResyncIInv DEF WorkerStep
  <1>3. ASSUME NEW w \in Workers, FaultStep(w) PROVE IInv' /\ BoxStep
    BY <1>3, CallFailsIInv, ReleaseTriageIInv, CrashIInv DEF FaultStep
  <1> QED
    BY <1>2, <1>3, ArriveIInv, DeliverIInv, TickIInv, StutterIInv DEF Next

\* So the invariant always holds.
LEMMA Invariance == Spec => []IInv
  <1>1. IInv /\ [Next]_vars => IInv'
    BY NextIInv
  <1> QED
    BY <1>1, InitIInv, PTL DEF Spec

\* Every variable always holds a value of its type: counters, leases and backoffs
\* stay within their limits, and a recovery page within what is left of its limit.
THEOREM TypeCorrect == Spec => []TypeOK
  <1>1. IInv => TypeOK
    BY DEF IInv
  <1> QED
    BY <1>1, Invariance, PTL

\* The durable cursor never moves back, although complete_bounded_resync
\* overwrites it.
THEOREM CursorMonotone == Spec => CursorNeverMovesBack
  <1>1. IInv /\ [Next]_vars => [box'.cursor >= box.cursor]_vars
    BY NextIInv DEF BoxStep
  <1> QED
    BY <1>1, Invariance, PTL DEF Spec, CursorNeverMovesBack

\* While recovery is open only its completion moves the cursor, and manual
\* recovery is final.
THEOREM RecoveryHoldsCursor == Spec => RecoveryFreezesCursor
  <1>1. IInv /\ [Next]_vars =>
          [/\ box.sync # "idle" /\ box'.cursor # box.cursor
                 => box.sync = "processing" /\ box'.sync = "idle"
           /\ box.sync = "manual_required" => box' = box]_vars
    BY NextIInv DEF BoxStep
  <1> QED
    BY <1>1, Invariance, PTL DEF Spec, RecoveryFreezesCursor

\* A job reported as succeeded is behind the cursor.
THEOREM SuccessIsTrue == Spec => []SucceededIsCovered
  <1>1. IInv => SucceededIsCovered
    BY DEF IInv, JobInv, SucceededIsCovered
  <1> QED
    BY <1>1, Invariance, PTL

\* A job is given up only when the mailbox demands manual recovery.
THEOREM GivingUpIsReported == Spec => []DeadLetterIsFlagged
  <1>1. IInv => DeadLetterIsFlagged
    BY DEF IInv, JobInv, DeadLetterIsFlagged
  <1> QED
    BY <1>1, Invariance, PTL

\* What the cursor has passed is covered.
LEMMA PassedCovered == ASSUME IInv, NEW m \in Passed PROVE m \in Messages /\ Covered(m)
  <1>1. m \in Messages /\ m <= box.cursor
    BY DEF Passed
  <1>2. m \in 1..box.cursor
    BY <1>1, TypeFacts, Numbers DEF IInv, Messages
  <1> QED
    BY <1>1, <1>2 DEF IInv, BoxInv

\* Whatever the workers take over from each other, the cursor passes a message
\* that arrived outside recovery only after its triage has begun.
THEOREM PassingNeedsTriage == Spec => []PassedWasBegun
  <1>1. IInv => PassedWasBegun
    <2> SUFFICES ASSUME IInv, NEW m \in Passed
                 PROVE  m \in during \cup {x \in Messages : triage[x].state = "processing"}
      BY DEF PassedWasBegun
    <2>1. triage[m].state # "terminal"
      BY DEF Passed
    <2> QED
      BY <2>1, PassedCovered DEF Covered
  <1> QED
    BY <1>1, Invariance, PTL

\* A single worker's cursor passes only what is triaged or arrived during recovery.
THEOREM OneWorkerPassesOnlyInRecovery ==
  ASSUME \A v, w \in Workers : v = w
  PROVE  Spec => []OnlyRecoveryPasses
  <1>1. IInv => OnlyRecoveryPasses
    <2> SUFFICES ASSUME IInv, NEW m \in Passed PROVE m \in during
      BY DEF OnlyRecoveryPasses
    <2>1. triage[m].state # "terminal" /\ ~Several
      BY DEF Passed, Several
    <2> QED
      BY <2>1, PassedCovered DEF Covered
  <1> QED
    BY <1>1, Invariance, PTL

==============================================================================
