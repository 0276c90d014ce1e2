--------------------------- MODULE MailCache_proofs ---------------------------
(***************************************************************************)
(* Proofs about MailCache for every set of requests and every bound: the   *)
(* types, and that reads are fresh after an invalidation.                  *)
(***************************************************************************)
EXTENDS MailCache, TLAPS

------------------------------------------------------------------------------
(* The inductive invariant *)

\* Nothing is visible that has not happened, and nothing under generation 0.
VisibleHappened ==
    /\ visible <= version
    /\ \A w \in Writers : writer[w].own <= version
    /\ gen = 0 => visible = 0

\* The readers whose generation read succeeded.
Knows(r) == reader[r].pc # "idle" /\ ~reader[r].blind

\* A generation fixes what was visible while it was current.
GenerationFixesSince ==
    /\ \A r \in Readers : reader[r].since <= visible
    /\ \A r \in Readers : reader[r].blind => reader[r].gen = 0 /\ reader[r].pc # "idle"
    /\ \A r \in Readers : Knows(r) =>
          /\ reader[r].gen <= gen
          /\ reader[r].gen = gen => reader[r].since = visible
          /\ reader[r].gen = 0 => reader[r].since = 0
    /\ \A r, s \in Readers :
          Knows(r) /\ Knows(s) /\ reader[r].gen = reader[s].gen
          => reader[r].since = reader[s].since

\* An entry is no older than what was visible while its generation was current.
EntriesFresh ==
    /\ \A g \in Generations : g > gen => cache[g] = None
    /\ cache[gen] # None => cache[gen] >= visible
    /\ \A r \in Readers :
          Knows(r) /\ cache[reader[r].gen] # None => cache[reader[r].gen] >= reader[r].since

\* A response that is about to be stored is fresh, also of a blind reader.
ResponsesFresh ==
    /\ \A r \in Readers : reader[r].pc \in {"idle", "get", "fetch"} => reader[r].got = None
    /\ \A r \in Readers : reader[r].pc = "store" =>
          reader[r].got \in Versions /\ reader[r].got >= reader[r].since

\* The invariant that is preserved by every step.
IInv ==
    /\ TypeOK
    /\ VisibleHappened
    /\ GenerationFixesSince
    /\ EntriesFresh
    /\ ResponsesFresh
    /\ FreshAfterInvalidation

------------------------------------------------------------------------------

\* The initial states satisfy the invariant: nothing has been read or changed.
LEMMA InitIInv == Init => IInv
  BY BoundsAssumption, NoneAssumption
  DEF Init, IInv, TypeOK, VisibleHappened, GenerationFixesSince, EntriesFresh, ResponsesFresh,
      FreshAfterInvalidation, Fresh, Knows, Reader, Writer, Versions, Generations

\* A reader that has built its cache key is a reader.
LEMMA ReaderWithKey ==
  ASSUME NEW x \in Reader, NEW g \in Generations, NEW v \in Versions
  PROVE  [x EXCEPT !.pc = "get", !.gen = g, !.since = v] \in Reader
  <1> DEFINE x1 == [x EXCEPT !.pc = "get"]
  <1>1. x1 \in Reader
    BY DEF Reader
  <1> HIDE DEF x1
  <1> DEFINE x2 == [x1 EXCEPT !.gen = g]
  <1>2. x2 \in Reader
    BY <1>1 DEF Reader
  <1> HIDE DEF x2
  <1>3. [x2 EXCEPT !.since = v] \in Reader
    BY <1>2 DEF Reader
  <1> QED
    BY <1>3 DEF x1, x2

\* Every step of a read, of a mutation and of the environment keeps the types.
LEMMA NextTypeOK == TypeOK /\ [Next]_vars => TypeOK'
  <1> SUFFICES ASSUME TypeOK, [Next]_vars PROVE TypeOK'
    OBVIOUS
  <1>1. ASSUME NEW r \in Readers, ReadGeneration(r) PROVE TypeOK'
    <2>1. [reader[r] EXCEPT !.pc = "get", !.gen = gen, !.since = visible] \in Reader
      BY ReaderWithKey DEF TypeOK
    <2> QED
      BY <1>1, <2>1 DEF TypeOK, ReadGeneration, Mailbox
  <1>2. ASSUME NEW r \in Readers, ReadGenerationFails(r) PROVE TypeOK'
    <2> DEFINE known == [reader[r] EXCEPT !.pc = "get", !.gen = 0, !.since = visible]
    <2>a. 0 \in Generations /\ reader[r] \in Reader /\ visible \in Versions
      BY BoundsAssumption DEF TypeOK, Generations
    <2>0. known \in Reader
      BY <2>a, ReaderWithKey
    <2> HIDE DEF known
    <2>1. [known EXCEPT !.blind = TRUE] \in Reader
      BY <2>0 DEF Reader
    <2> QED
      BY <1>2, <2>1 DEF TypeOK, ReadGenerationFails, Mailbox, known
  <1>3. ASSUME NEW r \in Readers, CacheHit(r) PROVE TypeOK'
    <2>1. [reader[r] EXCEPT !.pc = "done", !.got = cache[reader[r].gen]] \in Reader
      BY DEF TypeOK, Reader
    <2> QED
      BY <1>3, <2>1 DEF TypeOK, CacheHit, Mailbox
  <1>4. ASSUME NEW r \in Readers, CacheMiss(r) PROVE TypeOK'
    <2>1. [reader[r] EXCEPT !.pc = "fetch"] \in Reader
      BY DEF TypeOK, Reader
    <2> QED
      BY <1>4, <2>1 DEF TypeOK, CacheMiss, Mailbox
  <1>5. ASSUME NEW r \in Readers, Fetch(r) PROVE TypeOK'
    <2>1. [reader[r] EXCEPT !.pc = "store", !.got = version] \in Reader
      BY DEF TypeOK, Reader
    <2> QED
      BY <1>5, <2>1 DEF TypeOK, Fetch, Mailbox
  <1>6. ASSUME NEW r \in Readers, FetchFails(r) \/ Store(r) PROVE TypeOK'
    <2>1. [reader[r] EXCEPT !.pc = "done"] \in Reader /\ reader[r].got \in Versions \cup {None}
      BY DEF TypeOK, Reader
    <2> QED
      BY <1>6, <2>1 DEF TypeOK, FetchFails, Store, Mailbox
  <1>7. ASSUME NEW w \in Writers, Mutate(w) \/ MutateFails(w) \/ LateEffect(w) PROVE TypeOK'
    <2>1. /\ [writer[w] EXCEPT !.pc = "failed"] \in Writer
          /\ [writer[w] EXCEPT !.pc = "done"] \in Writer
      BY DEF TypeOK, Writer
    <2>2. Change => version + 1 \in Versions /\ [pc |-> "invalidate", own |-> version + 1] \in Writer
      BY BoundsAssumption DEF TypeOK, Change, Versions, Writer
    <2> QED
      BY <1>7, <2>1, <2>2 DEF TypeOK, Mutate, MutateFails, LateEffect, Change
  <1>8. ASSUME NEW w \in Writers, Invalidate(w) \/ InvalidateFails(w) PROVE TypeOK'
    <2>1. [writer[w] EXCEPT !.pc = "done"] \in Writer /\ writer[w].own \in Versions
      BY DEF TypeOK, Writer
    <2>2. gen < MaxGen => gen + 1 \in Generations
      BY BoundsAssumption DEF TypeOK, Generations
    <2> QED
      BY <1>8, <2>1, <2>2 DEF TypeOK, Invalidate, InvalidateFails
  <1>9. CASE ChangeElsewhere
    BY <1>9, BoundsAssumption DEF TypeOK, ChangeElsewhere, Change, Versions
  <1>10. ASSUME NEW g \in Generations, Expire(g) PROVE TypeOK'
    BY <1>10 DEF TypeOK, Expire, Mailbox
  <1>11. CASE UNCHANGED vars
    BY <1>11 DEF TypeOK, vars
  <1> QED
    BY <1>1, <1>2, <1>3, <1>4, <1>5, <1>6, <1>7, <1>8, <1>9, <1>10, <1>11 DEF Next, ReadRequest, MutationRequest

------------------------------------------------------------------------------

\* A reader that goes on without touching its generation: the invariant is
\* kept if what it is about to store or to answer with is fresh.
LEMMA ReaderGoesOn ==
  ASSUME IInv, TypeOK', NEW r \in Readers, UNCHANGED <<version, gen, cache, writer, visible>>,
         \A s \in Readers : s # r => reader'[s] = reader[s],
         reader[r].pc # "idle", reader'[r].pc # "idle",
         reader'[r].gen = reader[r].gen, reader'[r].since = reader[r].since,
         reader'[r].blind = reader[r].blind,
         reader'[r].pc \in {"get", "fetch"} => reader'[r].got = None,
         reader'[r].pc = "store" => reader'[r].got \in Versions /\ reader'[r].got >= reader[r].since,
         ~reader[r].blind => Fresh(r)'
  PROVE  IInv'
  <1>1. VisibleHappened'
    BY DEF IInv, VisibleHappened
  <1>2. GenerationFixesSince'
    BY DEF IInv, GenerationFixesSince, Knows
  <1>3. EntriesFresh'
    BY DEF IInv, EntriesFresh, Knows
  <1>4. ResponsesFresh'
    BY DEF IInv, ResponsesFresh
  <1>5. FreshAfterInvalidation'
    BY DEF IInv, FreshAfterInvalidation, Fresh
  <1> QED
    BY <1>1, <1>2, <1>3, <1>4, <1>5 DEF IInv

\* A change of the mailbox alone keeps the invariant.
LEMMA MailboxChanges ==
  ASSUME IInv, TypeOK', UNCHANGED <<gen, cache, reader, visible>>, version' >= version,
         \A w \in Writers : writer'[w].own <= version'
  PROVE  IInv'
  <1>1. VisibleHappened'
    BY DEF IInv, VisibleHappened, TypeOK, Versions
  <1>2. GenerationFixesSince' /\ EntriesFresh'
    BY DEF IInv, GenerationFixesSince, EntriesFresh, Knows
  <1>3. ResponsesFresh' /\ FreshAfterInvalidation'
    BY DEF IInv, ResponsesFresh, FreshAfterInvalidation, Fresh
  <1> QED
    BY <1>1, <1>2, <1>3 DEF IInv

\* Every step keeps the whole invariant.
LEMMA NextIInv == IInv /\ [Next]_vars => IInv'
  <1> SUFFICES ASSUME IInv, [Next]_vars PROVE IInv'
    OBVIOUS
  <1>0. TypeOK /\ TypeOK'
    BY NextTypeOK DEF IInv
  <1>1. ASSUME NEW r \in Readers, ReadGeneration(r) PROVE IInv'
    <2>0. reader'[r] = [reader[r] EXCEPT !.pc = "get", !.gen = gen, !.since = visible]
      BY <1>0, <1>1 DEF TypeOK, ReadGeneration
    <2>1. /\ \A s \in Readers : s # r => reader'[s] = reader[s]
          /\ reader[r].pc = "idle"
          /\ UNCHANGED <<version, gen, cache, writer, visible>>
      BY <1>0, <1>1 DEF TypeOK, ReadGeneration, Mailbox
    <2>2. /\ reader'[r].pc = "get" /\ reader'[r].since = visible /\ reader'[r].got = reader[r].got
          /\ reader'[r].gen = gen /\ reader'[r].blind = reader[r].blind
      BY <1>0, <2>0 DEF TypeOK, Reader
    <2>3. VisibleHappened'
      BY <2>1 DEF IInv, VisibleHappened
    <2>a. ~reader[r].blind
      BY <2>1 DEF IInv, GenerationFixesSince
    <2>b. \A s \in Readers : reader'[s].since <= visible
      BY <1>0, <2>1, <2>2 DEF IInv, GenerationFixesSince, TypeOK, Versions
    <2>c. \A s \in Readers : reader'[s].blind => reader'[s].gen = 0 /\ reader'[s].pc # "idle"
      BY <2>1, <2>2, <2>a DEF IInv, GenerationFixesSince
    <2>d. \A s \in Readers : Knows(s)' =>
             /\ reader'[s].gen <= gen
             /\ reader'[s].gen = gen => reader'[s].since = visible
             /\ reader'[s].gen = 0 => reader'[s].since = 0
      BY <1>0, <2>1, <2>2 DEF IInv, VisibleHappened, GenerationFixesSince, Knows, TypeOK, Generations
    <2>e. \A s, t \in Readers :
             Knows(s)' /\ Knows(t)' /\ reader'[s].gen = reader'[t].gen
             => reader'[s].since = reader'[t].since
      BY <2>1, <2>2 DEF IInv, GenerationFixesSince, Knows
    <2>4. GenerationFixesSince'
      BY <2>1, <2>b, <2>c, <2>d, <2>e DEF GenerationFixesSince
    <2>5. EntriesFresh'
      BY <2>1, <2>2 DEF IInv, EntriesFresh, Knows
    <2>6. ResponsesFresh'
      BY <2>1, <2>2 DEF IInv, ResponsesFresh
    <2>7. FreshAfterInvalidation'
      BY <2>1, <2>2 DEF IInv, FreshAfterInvalidation, Fresh
    <2> QED
      BY <1>0, <2>3, <2>4, <2>5, <2>6, <2>7 DEF IInv
  <1>2. ASSUME NEW r \in Readers, ReadGenerationFails(r) PROVE IInv'
    <2>0. reader'[r] = [reader[r] EXCEPT !.pc = "get", !.gen = 0, !.since = visible, !.blind = TRUE]
      BY <1>0, <1>2 DEF TypeOK, ReadGenerationFails
    <2>1. /\ \A s \in Readers : s # r => reader'[s] = reader[s]
          /\ reader[r].pc = "idle"
          /\ UNCHANGED <<version, gen, cache, writer, visible>>
      BY <1>0, <1>2 DEF TypeOK, ReadGenerationFails, Mailbox
    <2>2. /\ reader'[r].pc = "get" /\ reader'[r].since = visible /\ reader'[r].got = reader[r].got
          /\ reader'[r].gen = 0 /\ reader'[r].blind
      BY <1>0, <2>0 DEF TypeOK, Reader
    <2>3. VisibleHappened'
      BY <2>1 DEF IInv, VisibleHappened
    <2>a. ~reader[r].blind
      BY <2>1 DEF IInv, GenerationFixesSince
    <2>b. \A s \in Readers : reader'[s].since <= visible
      BY <1>0, <2>1, <2>2 DEF IInv, GenerationFixesSince, TypeOK, Versions
    <2>c. \A s \in Readers : reader'[s].blind => reader'[s].gen = 0 /\ reader'[s].pc # "idle"
      BY <2>1, <2>2, <2>a DEF IInv, GenerationFixesSince
    <2>d. \A s \in Readers : Knows(s)' =>
             /\ reader'[s].gen <= gen
             /\ reader'[s].gen = gen => reader'[s].since = visible
             /\ reader'[s].gen = 0 => reader'[s].since = 0
      BY <1>0, <2>1, <2>2 DEF IInv, VisibleHappened, GenerationFixesSince, Knows, TypeOK, Generations
    <2>e. \A s, t \in Readers :
             Knows(s)' /\ Knows(t)' /\ reader'[s].gen = reader'[t].gen
             => reader'[s].since = reader'[t].since
      BY <2>1, <2>2 DEF IInv, GenerationFixesSince, Knows
    <2>4. GenerationFixesSince'
      BY <2>1, <2>b, <2>c, <2>d, <2>e DEF GenerationFixesSince
    <2>5. EntriesFresh'
      BY <2>1, <2>2 DEF IInv, EntriesFresh, Knows
    <2>6. ResponsesFresh'
      BY <2>1, <2>2 DEF IInv, ResponsesFresh
    <2>7. FreshAfterInvalidation'
      BY <2>1, <2>2 DEF IInv, FreshAfterInvalidation, Fresh
    <2> QED
      BY <1>0, <2>3, <2>4, <2>5, <2>6, <2>7 DEF IInv
  <1>3. ASSUME NEW r \in Readers, CacheHit(r) PROVE IInv'
    <2>1. /\ reader'[r] = [reader[r] EXCEPT !.pc = "done", !.got = cache[reader[r].gen]]
          /\ \A s \in Readers : s # r => reader'[s] = reader[s]
          /\ reader[r].pc = "get" /\ cache[reader[r].gen] # None
          /\ UNCHANGED <<version, gen, cache, writer, visible>>
      BY <1>0, <1>3 DEF TypeOK, CacheHit, Mailbox
    <2>2. /\ reader'[r].pc = "done" /\ reader'[r].got = cache[reader[r].gen] /\ reader'[r].gen = reader[r].gen
          /\ reader'[r].since = reader[r].since /\ reader'[r].blind = reader[r].blind
      BY <1>0, <2>1 DEF TypeOK, Reader
    <2>3. ~reader[r].blind => Fresh(r)'
      BY <2>1, <2>2 DEF IInv, EntriesFresh, Knows, Fresh
    <2> QED
      BY <1>0, <2>1, <2>2, <2>3, ReaderGoesOn
  <1>4. ASSUME NEW r \in Readers, CacheMiss(r) PROVE IInv'
    <2>1. /\ reader'[r] = [reader[r] EXCEPT !.pc = "fetch"]
          /\ \A s \in Readers : s # r => reader'[s] = reader[s]
          /\ reader[r].pc = "get"
          /\ UNCHANGED <<version, gen, cache, writer, visible>>
      BY <1>0, <1>4 DEF TypeOK, CacheMiss, Mailbox
    <2>2. /\ reader'[r].pc = "fetch" /\ reader'[r].gen = reader[r].gen
          /\ reader'[r].since = reader[r].since /\ reader'[r].blind = reader[r].blind
          /\ reader'[r].got = reader[r].got
      BY <1>0, <2>1 DEF TypeOK, Reader
    <2>3. reader[r].got = None
      BY <2>1 DEF IInv, ResponsesFresh
    <2> QED
      BY <1>0, <2>1, <2>2, <2>3, ReaderGoesOn DEF Fresh
  <1>5. ASSUME NEW r \in Readers, Fetch(r) PROVE IInv'
    <2>1. /\ reader'[r] = [reader[r] EXCEPT !.pc = "store", !.got = version]
          /\ \A s \in Readers : s # r => reader'[s] = reader[s]
          /\ reader[r].pc = "fetch"
          /\ UNCHANGED <<version, gen, cache, writer, visible>>
      BY <1>0, <1>5 DEF TypeOK, Fetch, Mailbox
    <2>2. /\ reader'[r].pc = "store" /\ reader'[r].got = version /\ reader'[r].gen = reader[r].gen
          /\ reader'[r].since = reader[r].since /\ reader'[r].blind = reader[r].blind
      BY <1>0, <2>1 DEF TypeOK, Reader
    <2>3. version \in Versions /\ version >= reader[r].since
      BY <1>0 DEF IInv, TypeOK, Reader, Versions, VisibleHappened, GenerationFixesSince
    <2> QED
      BY <1>0, <2>1, <2>2, <2>3, ReaderGoesOn DEF Fresh
  <1>6. ASSUME NEW r \in Readers, FetchFails(r) PROVE IInv'
    <2>1. /\ reader'[r] = [reader[r] EXCEPT !.pc = "done"]
          /\ \A s \in Readers : s # r => reader'[s] = reader[s]
          /\ reader[r].pc = "fetch"
          /\ UNCHANGED <<version, gen, cache, writer, visible>>
      BY <1>0, <1>6 DEF TypeOK, FetchFails, Mailbox
    <2>2. /\ reader'[r].pc = "done" /\ reader'[r].gen = reader[r].gen
          /\ reader'[r].since = reader[r].since /\ reader'[r].blind = reader[r].blind
          /\ reader'[r].got = reader[r].got
      BY <1>0, <2>1 DEF TypeOK, Reader
    <2>3. Fresh(r)'
      BY <2>1, <2>2 DEF IInv, ResponsesFresh, Fresh
    <2> QED
      BY <1>0, <2>1, <2>2, <2>3, ReaderGoesOn
  <1>7. ASSUME NEW r \in Readers, Store(r) PROVE IInv'
    <2>0. reader'[r] = [reader[r] EXCEPT !.pc = "done"]
      BY <1>0, <1>7 DEF TypeOK, Store
    <2>1. /\ \A s \in Readers : s # r => reader'[s] = reader[s]
          /\ reader[r].pc = "store"
          /\ UNCHANGED <<version, gen, writer, visible>>
      BY <1>0, <1>7 DEF TypeOK, Store, Mailbox
    <2>2. /\ reader'[r].pc = "done" /\ reader'[r].gen = reader[r].gen
          /\ reader'[r].since = reader[r].since /\ reader'[r].blind = reader[r].blind
          /\ reader'[r].got = reader[r].got
      BY <1>0, <2>0 DEF TypeOK, Reader
    <2>3. reader[r].got \in Versions /\ reader[r].got >= reader[r].since
      BY <2>1 DEF IInv, ResponsesFresh
    <2>4. Fresh(r)'
      BY <2>2, <2>3 DEF Fresh
    <2>5. CASE UNCHANGED cache
      BY <1>0, <2>1, <2>2, <2>3, <2>4, <2>5, ReaderGoesOn
    <2>6. CASE cache' = [cache EXCEPT ![reader[r].gen] = reader[r].got]
      <3>1. VisibleHappened' /\ GenerationFixesSince' /\ ResponsesFresh' /\ FreshAfterInvalidation'
        <4>1. VisibleHappened'
          BY <2>1 DEF IInv, VisibleHappened
        <4>2. GenerationFixesSince'
          BY <2>1, <2>2 DEF IInv, GenerationFixesSince, Knows
        <4>3. ResponsesFresh'
          BY <2>1, <2>2 DEF IInv, ResponsesFresh
        <4>4. FreshAfterInvalidation'
          BY <2>1, <2>2, <2>4 DEF IInv, FreshAfterInvalidation, Fresh
        <4> QED
          BY <4>1, <4>2, <4>3, <4>4
      <3>2. /\ reader[r].gen \in Generations
            /\ cache'[reader[r].gen] = reader[r].got
            /\ \A g \in Generations : g # reader[r].gen => cache'[g] = cache[g]
        BY <1>0, <2>6 DEF TypeOK, Reader
      <3>3. reader[r].gen <= gen
        <4>1. CASE reader[r].blind
          BY <1>0, <4>1 DEF IInv, GenerationFixesSince, TypeOK, Generations
        <4>2. CASE ~reader[r].blind
          BY <2>1, <4>2 DEF IInv, GenerationFixesSince, Knows
        <4> QED
          BY <4>1, <4>2
      <3>4. \A g \in Generations : g > gen => cache'[g] = None
        BY <1>0, <3>2, <3>3 DEF IInv, EntriesFresh, TypeOK, Generations
      <3>5. reader[r].gen = gen => reader[r].got >= visible
        <4>1. CASE reader[r].blind
          BY <1>0, <2>3, <4>1 DEF IInv, GenerationFixesSince, VisibleHappened, TypeOK, Versions
        <4>2. CASE ~reader[r].blind
          BY <2>1, <2>3, <4>2 DEF IInv, GenerationFixesSince, Knows
        <4> QED
          BY <4>1, <4>2
      <3>6. ASSUME NEW s \in Readers, Knows(s), reader[s].gen = reader[r].gen
            PROVE  reader[r].got >= reader[s].since
        <4>1. CASE reader[r].blind
          <5>1. reader[s].since = 0
            BY <3>6, <4>1 DEF IInv, GenerationFixesSince
          <5> QED
            BY <2>3, <5>1 DEF Versions
        <4>2. CASE ~reader[r].blind
          BY <2>1, <2>3, <3>6, <4>2 DEF IInv, GenerationFixesSince, Knows
        <4> QED
          BY <4>1, <4>2
      <3>7. \A s \in Readers : Knows(s)' =>
               /\ Knows(s)
               /\ reader'[s].gen = reader[s].gen /\ reader'[s].since = reader[s].since
               /\ reader[s].gen \in Generations
        BY <1>0, <2>1, <2>2 DEF Knows, TypeOK, Reader
      <3>8. cache'[gen] # None => cache'[gen] >= visible
        BY <1>0, <3>2, <3>5 DEF IInv, EntriesFresh, TypeOK
      <3>9. \A s \in Readers :
               Knows(s)' /\ cache'[reader'[s].gen] # None => cache'[reader'[s].gen] >= reader'[s].since
        BY <3>2, <3>6, <3>7 DEF IInv, EntriesFresh
      <3>10. EntriesFresh'
        BY <2>1, <3>4, <3>8, <3>9 DEF EntriesFresh
      <3> QED
        BY <1>0, <3>1, <3>10 DEF IInv
    <2> QED
      BY <1>7, <2>5, <2>6 DEF Store
  <1>8. ASSUME NEW w \in Writers, Mutate(w) \/ MutateFails(w) \/ LateEffect(w) PROVE IInv'
    <2>1. /\ UNCHANGED <<gen, cache, reader, visible>>
          /\ version' \in Versions /\ version \in Versions /\ version' >= version
          /\ \A x \in Writers : writer'[x].own <= version'
      <3>1. CASE Mutate(w)
        BY <1>0, <1>8, <3>1 DEF Mutate, Change, TypeOK, Writer, Versions, IInv, VisibleHappened
      <3>2. CASE MutateFails(w)
        <4>1. [writer[w] EXCEPT !.pc = "failed"].own = writer[w].own
          BY <1>0 DEF TypeOK, Writer
        <4> QED
          BY <1>0, <1>8, <3>2, <4>1 DEF MutateFails, TypeOK, Versions, IInv, VisibleHappened
      <3>3. CASE LateEffect(w)
        <4>1. [writer[w] EXCEPT !.pc = "done"].own = writer[w].own
          BY <1>0 DEF TypeOK, Writer
        <4>2. writer' = [writer EXCEPT ![w] = [writer[w] EXCEPT !.pc = "done"]]
          BY <3>3 DEF LateEffect
        <4>3. \A x \in Writers : writer'[x].own = writer[x].own /\ writer[x].own \in Versions
          BY <1>0, <4>1, <4>2 DEF TypeOK, Writer
        <4> QED
          BY <1>0, <3>3, <4>3 DEF LateEffect, Change, TypeOK, Versions, IInv, VisibleHappened
      <3> QED
        BY <1>8, <3>1, <3>2, <3>3
    <2> QED
      BY <1>0, <2>1, MailboxChanges
  <1>9. ASSUME NEW w \in Writers, Invalidate(w) \/ InvalidateFails(w) PROVE IInv'
    <2>1. [writer[w] EXCEPT !.pc = "done"].own = writer[w].own /\ writer[w].own \in Versions
      BY <1>0 DEF TypeOK, Writer
    <2>2. writer' = [writer EXCEPT ![w] = [writer[w] EXCEPT !.pc = "done"]]
      BY <1>9 DEF Invalidate, InvalidateFails
    <2>3. \A x \in Writers : writer'[x].own = writer[x].own
      BY <1>0, <2>1, <2>2 DEF TypeOK, Writer
    <2>4. CASE InvalidateFails(w)
      BY <1>0, <2>3, <2>4, MailboxChanges
      DEF InvalidateFails, TypeOK, Versions, IInv, VisibleHappened
    <2>5. CASE Invalidate(w)
      <3>1. /\ UNCHANGED <<version, cache, reader>>
            /\ gen' = gen + 1 /\ gen \in Nat
            /\ visible' \in Versions /\ visible' >= visible /\ visible' <= version
            /\ visible \in Nat
        BY <1>0, <2>1, <2>5 DEF Invalidate, TypeOK, Generations, Versions, IInv, VisibleHappened
      <3>2. VisibleHappened'
        BY <2>3, <3>1 DEF IInv, VisibleHappened
      <3>3. GenerationFixesSince'
        BY <1>0, <3>1 DEF IInv, GenerationFixesSince, Knows, TypeOK, Reader, Versions, Generations
      <3>4. EntriesFresh'
        BY <1>0, <3>1 DEF IInv, EntriesFresh, Knows, TypeOK, Generations
      <3>5. ResponsesFresh'
        BY <3>1 DEF IInv, ResponsesFresh
      <3>6. FreshAfterInvalidation'
        BY <3>1 DEF IInv, FreshAfterInvalidation, Fresh
      <3> QED
        BY <1>0, <3>2, <3>3, <3>4, <3>5, <3>6 DEF IInv
    <2> QED
      BY <1>9, <2>4, <2>5
  <1>10. CASE ChangeElsewhere
    <2>1. \A x \in Writers : writer[x].own \in Versions
      BY <1>0 DEF TypeOK, Writer
    <2> QED
      BY <1>0, <1>10, <2>1, MailboxChanges
      DEF ChangeElsewhere, Change, TypeOK, Versions, IInv, VisibleHappened
  <1>11. ASSUME NEW g \in Generations, Expire(g) PROVE IInv'
    <2>1. /\ UNCHANGED <<version, gen, reader, writer, visible>>
          /\ \A h \in Generations : cache'[h] \in {cache[h], None}
      BY <1>0, <1>11 DEF Expire, Mailbox, TypeOK
    <2>2. \A r \in Readers : reader[r].gen \in Generations
      BY <1>0 DEF TypeOK, Reader
    <2>3. VisibleHappened' /\ ResponsesFresh' /\ FreshAfterInvalidation'
      BY <2>1 DEF IInv, VisibleHappened, ResponsesFresh, FreshAfterInvalidation, Fresh
    <2>4. GenerationFixesSince'
      BY <2>1 DEF IInv, GenerationFixesSince, Knows
    <2>5. EntriesFresh'
      BY <1>0, <2>1, <2>2 DEF IInv, EntriesFresh, Knows, TypeOK
    <2> QED
      BY <1>0, <2>3, <2>4, <2>5 DEF IInv
  <1>12. CASE UNCHANGED vars
    BY <1>12 DEF vars, IInv, TypeOK, VisibleHappened, GenerationFixesSince, EntriesFresh,
        ResponsesFresh, FreshAfterInvalidation, Fresh, Knows
  <1> QED
    BY <1>1, <1>2, <1>3, <1>4, <1>5, <1>6, <1>7, <1>8, <1>9, <1>10, <1>11, <1>12 DEF Next, ReadRequest, MutationRequest

\* Every reachable state of the cache protocol is well typed.
THEOREM TypeCorrect == Spec => []TypeOK
  <1>1. Init => TypeOK
    BY InitIInv DEF IInv
  <1> QED
    BY <1>1, NextTypeOK, PTL DEF Spec

\* A read that took its generation after an invalidation is never answered
\* with an older view (FreshAfterInvalidation), for any number of requests.
THEOREM FreshReads == Spec => []FreshAfterInvalidation
  <1>1. IInv => FreshAfterInvalidation
    BY DEF IInv
  <1> QED
    BY <1>1, InitIInv, NextIInv, PTL DEF Spec
==============================================================================
