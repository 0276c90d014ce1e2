------------------------------ MODULE MailCache ------------------------------
(***************************************************************************)
(* The generational cache of mail responses (server/redis_cache.py over    *)
(* server/integrations/redis.py) as the mail routes use it                 *)
(* (server/routes/google_mail.py).                                         *)
(*                                                                         *)
(* A read takes the user's cache generation, looks its view up under that  *)
(* generation and, on a miss, fetches the view from Gmail and stores it    *)
(* under the generation it took.  A mutation first changes the mailbox and *)
(* then increments the generation.  Between any two of these awaits other  *)
(* requests run, and each Redis operation may fail; a failure never fails  *)
(* the request.                                                            *)
(*                                                                         *)
(* One user and one view.  A view is the number of mailbox changes it      *)
(* shows: of a page that is put together by several Gmail reads, the       *)
(* number at the first one.                                                *)
(***************************************************************************)
EXTENDS Integers

CONSTANTS Readers,      \* read requests
          Writers,      \* mutation requests
          MaxVersion,   \* bound on the changes of the mailbox
          MaxGen,       \* bound on the cache generation
          None

ASSUME BoundsAssumption == MaxVersion \in Nat /\ MaxGen \in Nat
ASSUME NoneAssumption == None \notin Nat

VARIABLES version,   \* changes the mailbox has seen
          gen,       \* user:<id>:mail:cache-generation in Redis; 0 when absent
          cache,     \* the entry of the view under each generation; None when absent
          reader,
          writer,
          visible    \* history: the last change whose invalidation took effect

vars == <<version, gen, cache, reader, writer, visible>>

Versions == 0..MaxVersion
Generations == 0..MaxGen

Reader == [pc    : {"idle", "get", "fetch", "store", "done"},
           gen   : Generations,              \* the generation in its cache key
           blind : BOOLEAN,                  \* its generation read failed
           got   : Versions \cup {None},     \* what it answers; None: an HTTP error
           since : Versions]                 \* visible when it took its generation

Writer == [pc  : {"idle", "invalidate", "failed", "done"},
           own : Versions]                   \* the change it made

TypeOK ==
    /\ version \in Versions
    /\ gen \in Generations
    /\ cache \in [Generations -> Versions \cup {None}]
    /\ reader \in [Readers -> Reader]
    /\ writer \in [Writers -> Writer]
    /\ visible \in Versions

Init ==
    /\ version = 0
    /\ gen = 0
    /\ cache = [g \in Generations |-> None]
    /\ reader = [r \in Readers |->
                    [pc |-> "idle", gen |-> 0, blind |-> FALSE, got |-> None, since |-> 0]]
    /\ writer = [w \in Writers |-> [pc |-> "idle", own |-> 0]]
    /\ visible = 0

------------------------------------------------------------------------------
(* Reads *)

Mailbox == <<version, gen, writer, visible>>

ReadGeneration(r) ==
    /\ reader[r].pc = "idle"
    /\ reader' = [reader EXCEPT ![r] = [@ EXCEPT !.pc = "get", !.gen = gen, !.since = visible]]
    /\ UNCHANGED <<Mailbox, cache>>

\* Faulty variant: without a value there is no generation.
ReadGenerationAsIs(r) ==
    /\ reader[r].pc = "idle"
    /\ reader' = [reader EXCEPT ![r] =
                     [@ EXCEPT !.pc = "get", !.gen = None, !.since = visible, !.blind = TRUE]]
    /\ UNCHANGED <<Mailbox, cache>>

\* get_user_mail_cache_generation: a failed read counts as generation 0.
ReadGenerationFails(r) ==
    /\ reader[r].pc = "idle"
    /\ reader' = [reader EXCEPT ![r] =
                     [@ EXCEPT !.pc = "get", !.gen = 0, !.since = visible, !.blind = TRUE]]
    /\ UNCHANGED <<Mailbox, cache>>

CacheHit(r) ==
    /\ reader[r].pc = "get"
    /\ cache[reader[r].gen] # None
    /\ reader' = [reader EXCEPT ![r] = [@ EXCEPT !.pc = "done", !.got = cache[reader[r].gen]]]
    /\ UNCHANGED <<Mailbox, cache>>

\* Nothing there, or the Redis read failed.
CacheMiss(r) ==
    /\ reader[r].pc = "get"
    /\ reader' = [reader EXCEPT ![r].pc = "fetch"]
    /\ UNCHANGED <<Mailbox, cache>>

Fetch(r) ==
    /\ reader[r].pc = "fetch"
    /\ reader' = [reader EXCEPT ![r] = [@ EXCEPT !.pc = "store", !.got = version]]
    /\ UNCHANGED <<Mailbox, cache>>

FetchFails(r) ==
    /\ reader[r].pc = "fetch"
    /\ reader' = [reader EXCEPT ![r].pc = "done"]
    /\ UNCHANGED <<Mailbox, cache>>

\* Faulty variant: the key is built when the response is there.
StoreUnderCurrent(r) ==
    /\ reader[r].pc = "store"
    /\ reader' = [reader EXCEPT ![r].pc = "done"]
    /\ cache' = [cache EXCEPT ![gen] = reader[r].got]
    /\ UNCHANGED Mailbox

\* cache_set under the key built at the start; when it fails the entry may or
\* may not be there, and the response is returned all the same.
Store(r) ==
    /\ reader[r].pc = "store"
    /\ reader' = [reader EXCEPT ![r].pc = "done"]
    /\ \/ cache' = [cache EXCEPT ![reader[r].gen] = reader[r].got]
       \/ UNCHANGED cache
    /\ UNCHANGED Mailbox

------------------------------------------------------------------------------
(* Mutations *)

Change ==
    /\ version < MaxVersion
    /\ version' = version + 1

Mutate(w) ==
    /\ writer[w].pc = "idle"
    /\ Change
    /\ writer' = [writer EXCEPT ![w] = [pc |-> "invalidate", own |-> version + 1]]
    /\ UNCHANGED <<gen, cache, reader, visible>>

\* Gmail refuses the mutation or does not answer in time: an HTTP error, and
\* no invalidation.
MutateFails(w) ==
    /\ writer[w].pc = "idle"
    /\ writer' = [writer EXCEPT ![w].pc = "failed"]
    /\ UNCHANGED <<version, gen, cache, reader, visible>>

\* The mutation that was not answered in time takes effect after all.
LateEffect(w) ==
    /\ writer[w].pc = "failed"
    /\ Change
    /\ writer' = [writer EXCEPT ![w].pc = "done"]
    /\ UNCHANGED <<gen, cache, reader, visible>>

\* invalidate_user_mail_cache; its result is ignored.
Invalidate(w) ==
    /\ writer[w].pc = "invalidate"
    /\ writer' = [writer EXCEPT ![w].pc = "done"]
    /\ gen < MaxGen
    /\ gen' = gen + 1
    /\ visible' = IF writer[w].own > visible THEN writer[w].own ELSE visible
    /\ UNCHANGED <<version, cache, reader>>

\* The increment fails, or the client disconnects before it.
InvalidateFails(w) ==
    /\ writer[w].pc = "invalidate"
    /\ writer' = [writer EXCEPT ![w].pc = "done"]
    /\ UNCHANGED <<version, gen, cache, reader, visible>>

------------------------------------------------------------------------------
(* Environment *)

\* New mail, another mail client, a draft or an agent's action: no invalidation.
ChangeElsewhere ==
    /\ Change
    /\ UNCHANGED <<gen, cache, reader, writer, visible>>

\* The time to live of an entry passes, or Redis evicts it.  The generation key
\* has no time to live; that Redis keeps it is assumed.
Expire(g) ==
    /\ cache[g] # None
    /\ cache' = [cache EXCEPT ![g] = None]
    /\ UNCHANGED <<Mailbox, reader>>

ReadRequest(r) ==
    \/ ReadGeneration(r) \/ ReadGenerationFails(r) \/ CacheHit(r) \/ CacheMiss(r)
    \/ Fetch(r) \/ FetchFails(r) \/ Store(r)

MutationRequest(w) ==
    \/ Mutate(w) \/ MutateFails(w) \/ LateEffect(w)
    \/ Invalidate(w) \/ InvalidateFails(w)

Next ==
    \/ \E r \in Readers : ReadRequest(r)
    \/ \E w \in Writers : MutationRequest(w)
    \/ ChangeElsewhere
    \/ \E g \in Generations : Expire(g)

Spec == Init /\ [][Next]_vars

------------------------------------------------------------------------------

Fresh(r) == reader[r].pc = "done" /\ reader[r].got # None => reader[r].got >= reader[r].since

\* A read that took its generation after a mutation was invalidated never
\* answers with an older view, whatever slow responses of earlier reads,
\* overlapping mutations and failing Redis operations leave in the cache --
\* unless the read of the generation itself failed.  That one falls back to
\* generation 0, a real generation whose entries may be outdated, although
\* redis_cache.py says that it "becomes a cache miss".
FreshAfterInvalidation == \A r \in Readers : ~reader[r].blind => Fresh(r)
==============================================================================
