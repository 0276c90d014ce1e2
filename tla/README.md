# A TLA+ model of OneBox

OneBox is a FastAPI service that puts an LLM agent in front of a user's Gmail,
Calendar and Tasks. The agent may read, but every mutation it wants is staged as
a row that the owner approves; inbound mail is triaged by a worker that Pub/Sub
notifications drive. The service runs as several asyncio processes over
PostgreSQL, Redis and the blocking Google SDK, so nearly all that is hard in it
is about what happens *between* two transactions or two awaits: a second
approval, a lapsed lease, a deadline that passes while an SDK thread runs on, a
process that dies. That is what this directory models, checks and proves.

Contents: [inventory](#inventory) · [modules](#modules-and-the-code) ·
[runs](#runs) · [bounds](#bounds) · [fairness](#fairness) · [proofs](#proofs) ·
[disagreements with the documentation](#where-code-and-documentation-disagree) ·
[not modelled](#what-is-not-modelled) · [plan](#plan).

Run a model with `tlc -workers 2 -config <run>.cfg MC<Module>`, check proofs with
`tlapm <Module>_proofs.tla`. `PROJECT.json` maps each definition to its source
lines and names, for each property, a plausible bug that breaks it.

## Inventory

| Component | State | Operations | What makes it correct |
|---|---|---|---|
| **Approval-gated actions** (`services/pending_actions.py`, `services/action_handlers.py`, `services/retention.py`, routes in `agent_router.py`) | `pending_actions` rows (status, command key, payload hash, attempt token, lease, expiry), audit events | create, reject, approve (claim / dispatch / finalize), reconcile (begin / lookup / apply), expiry sweep, retention | at most one write per command, only after an approval; a recorded verdict is true; the audit trail has no gap; a claimed row is settled |
| **Inbound automation jobs** (`services/notification_jobs.py`, `workers/mail_notifications.py`, `routes/push_router.py`) | jobs, per-message triage rows, the mailbox row (cursor, recovery state and generation), each with a lease | push delivery, claim, history listing, triage, complete / fail / requeue / dead-letter, recovery generations | no message falls behind the cursor untriaged; cursor monotone and frozen during recovery; every job settles |
| **Gmail watch renewal** (same files) | watch lease, expiry, retry schedule, baseline cursor | claim, Gmail `watch`, complete, fail | the recorded expiry is not later than Gmail's; renewing never moves the cursor; the watch comes back |
| **Provider runner and locks** (`integrations/provider.py`, `integrations/google.py`) | pool semaphore, one lock per API client, threads | acquire, run in a thread, deadline, cancellation, done-callback | pool limit holds for threads, not for callers; a client is used by one thread; nothing is leaked or released twice; callers always return |
| **Google retries** (`integrations/google.py`) | attempt count, overall deadline | retry by operation safety and error class | an ambiguous write is sent once |
| **Mail cache** (`redis_cache.py`, `integrations/redis.py`, `routes/google_mail.py`, `services/mailbox.py`) | a generation counter and entries per generation in Redis | read-through, mutate, invalidate | a read never shows less than the mutations invalidated before it |
| Task list selection (`action_handlers.py`) | the account's task lists | find or create | one list |
| **OAuth connection** (`routes/agent_oauth.py`, `oauth_state.py`) | one-time states in Redis, bound to an account | start, callback (consume, exchange, persist), expiry | a state is spent once; the tokens of one account are never stored for another |
| **Stored credentials** (`services/credentials.py`, `security/oauth_credentials.py`, `commands/backfill_oauth_credentials.py`) | the user's row of `onebox_tokens`: status, plaintext or encrypted payload, key id, account | create pending, load under the row lock, refresh, mark for reconnection, key rotation, backfill of plaintext | a connected row can be read and its refresh token was not replaced behind its back; a load always returns |
| **LLM adapter and streaming** (`integrations/llm.py`, `GeneralAgentStreamer` in `agents.py`, `/generate-stream/` in `agent_router.py`) | bounded queue, worker thread, producer task, prefetched event, frames sent | read, enqueue, deadlines, close, stage a tool call, disconnect | `done` only after a complete answer; a call staged for approval is whole; response and thread both end |
| Agent runs and tool policy (`agents.py`) | turn count, tool calls | tool dispatch, staging | every mutation tool stages, none executes |
| Stateless or text-only parts | — | push authentication, limits, MIME, parsing, schemas, configuration, readiness, migrations | outside this model |

How they interact. A tool call of an agent run becomes a
`create_pending_action` call with a server-issued command key. The approve route
claims the row, commits, and hands the write to the provider runner; the
runner's deadline may give the request an answer long before Google does.
Operators reconcile ambiguous rows by looking the command's marker up at Google.
On the inbound side Gmail publishes to Pub/Sub as long as a *watch* is live; the
push route commits a job before it acknowledges; workers turn jobs into history
reads and triage, and fall back on a recovery generation when history cannot be
used. The first watch answer is the cursor's baseline. The mail routes read
through Redis and invalidate after a mutation. Every Google call is preceded by a
load of the stored credentials, which may itself call Google for a refresh while
it holds the row lock; an OAuth callback writes the same row. A streamed agent
response crosses a thread, a queue and two coroutines before a tool call in it
is staged.

What is hard: leases that lapse under a living holder; verdicts, cursors,
profiles and generations read in one transaction and used in another; threads
that outlive the request which started them; refresh tokens that Google has
replaced while nobody was left to store the new one; duplicate and late deliveries;
crashes between a commit and the effect it announces. `PROJECT.json` lists these
hazards one by one, at their lines, with the property that watches each.

## Modules and the code

| Module | Models | Uses |
|---|---|---|
| `ActionLifecycle` | the promise: the lifecycle the repository's README draws, approval before effect, one effect per action | – |
| `PendingActions` | the approval-gated actions in full | `INSTANCE ActionLifecycle` (refinement) |
| `PendingActions_proofs` | theorems about it | `PendingActions`, TLAPS |
| `NotificationJobs` | push delivery, jobs, triage, recovery | – |
| `NotificationJobs_proofs` | theorems about it | `NotificationJobs`, TLAPS |
| `WatchRenewal` | the watch lease, renewal and baseline | – |
| `WatchRenewal_proofs` | theorems about it | `WatchRenewal`, TLAPS |
| `ProviderRunner` | pool, client locks, deadlines, cancellation, retries | – |
| `ProviderRunner_proofs` | theorems about it | `ProviderRunner`, TLAPS |
| `MailCache` | generational cache of mail responses | – |
| `MailCache_proofs` | theorems about it | `MailCache`, TLAPS |
| `Credentials` | the Google connection: OAuth flows, loads and refreshes, key rotation, backfill | – |
| `Credentials_proofs` | theorems about it | `Credentials`, TLAPS |
| `AgentStream` | one streamed agent response from SDK to client | – |
| `AgentStream_proofs` | theorems about it | `AgentStream`, TLAPS |
| `MC…` | constants' values and symmetry sets for TLC | the module named |

In all modules a database transaction is one step and an `await` between
transactions is a control state (`pc`), so anything may happen in between. A
definition preceded by "Faulty variant" is a plausible bug used to show that a
property can fail; no specification uses one.

**PendingActions.** `row` is the table, `audit` the set of status changes,
`attempt[t]` an approve request under attempt token `t` with the write it
dispatched, `creator` and `operator` the multi-transaction requests.
`create_pending_action` is `CreateSelect`, `CreateInsert`,
`CreateLosesRace` (the unique index refuses the INSERT) and `CreateRereads`, which
finds the row that won or, if retention was faster, fails; `claim_pending_action` is `Claim` and its early exits
`ClaimFindsLapsedLease`, `ClaimFindsExpired`, `ClaimFindsTampering`;
`execute_action` is `ServicesUnavailable`, `NotAdmitted`, `Dispatch`, `Answer`
and, on the provider's side, `Accept`, `Conflict`, `Refuse`, `Lose`;
`finalize_pending_action` is `Finalize`, fenced on status and token; `Abandon`
is a crash. `Answer` may be a timeout while the write stays `inflight`, and the
provider's steps need no living request. `Prune` is the retention pass; it takes
any subset of the stale rows because the query skips locked ones. Abstractions:
one owner (a row of somebody else is not found); a payload is a model value and
its hash a Boolean that `Tamper` falsifies; the two Google calls of a task write
are one write; marker lookups see what was accepted before them.

**NotificationJobs.** One mailbox with its baseline in place and one history id
per message. Timestamps are countdowns (0 = lapsed or due) which `Tick` lowers.
The queue keeps `received_at` order. A lease token is the worker's name, which is
sound because the code compares tokens only for equality and a worker begins
anew after a crash. Provider failures and crashes come from a budget
(`MaxFaults`), and `during` is a history variable. Attempt counters saturate at
their limit, beyond which the code does not distinguish them. Left out:
the heartbeat, retention of jobs and triage rows, messages deleted from the
mailbox, mail older than the baseline, and branches no caller can reach
(`remaining <= 0` on entry of a page, a cursor that is `None`, the dead letters for a
missing mailbox row, `mailbox_state_missing`: nothing deletes that row).

**WatchRenewal.** Countdowns again. `Complete` is fenced on the lease token and
sets the cursor only where there is none. The jobs are abstracted to
`JobsAdvance`: they deal with messages after the cursor and advance it.
A lease that lapses under a renewal which is still going on costs a fault
(`LeaseOverrun`): the default lease is 120 s, its provider calls have deadlines
of 20 s.

**ProviderRunner.** A call holds a client lock (if it uses a client) and a pool
slot; the thread is separate from the call. Deadlines may pass at any await, a
cancellation may come at any await, and a thread may run for ever; `FutureDone`
is the end of the thread together with its done-callback, which releases slot
and lock if the caller has detached. The FIFO order in which asyncio wakes
waiters is not modelled (every order is allowed). Shutdown is left out.

**MailCache.** One user and one view; a view is the number of mailbox changes it
shows (of a page that several Gmail reads put together, the oldest). Each Redis
operation may fail with or without having taken effect; a failed Gmail mutation
may still take effect later; an entry may expire at any time. Redis is assumed to keep
the generation key, which has no time to live. If it loses it (the local Redis of
`docker-compose.yaml` keeps nothing over a restart) the numbering begins again at 0, and a
response under way may be stored under a number that comes round again; the time to
live of the entry, 60 s or 5 min, is then the only limit.

**Credentials.** One user, so one row. A payload is the refresh token in it,
numbered in the order Google issues them, and `fate` says what Google makes of
each: `live`, `rotated` (replaced, and the replacement was answered to a request
that is to store it) or `lost` (replaced, and nobody received or stored the
replacement). `row.json` keeps SQL `NULL` and the JSON value `null` apart,
because the code writes one and asks for the other. `lock` is the
`FOR UPDATE` lock, held across the refresh:
`LoadRow` is the select and everything that follows unless Google is asked,
`GoogleRefreshes` / `RefreshCommits` / `RefreshRefused` / `RefreshTimesOut` the refresh
and its ends, `LateAnswer` what the thread of an abandoned request hears,
`CommitFails` a crash with the answer in hand and `AnswerInvalid` an answer that
fails validation: either way the replacement is lost. `ConsumeOAuthState`,
`ExchangeOAuthCode` and `PersistOAuthConnection` are the callback, each with its
failures; Redis may fail with or without having deleted the state.
`BackfillLegacyRow` is one look of the backfill at the row. `Init` is any row that
the migration could leave behind. Abstractions: every process has the full
keyring, with its own active key; what a load or a callback answers to its caller
is not distinguished; a revocation by the user is a `RefreshRefused`, which may
come at any time, as may an error of the token endpoint.

**AgentStream.** One response. `thread` is `_produce` in its worker thread,
`producer` the task waiting for it, `queue` and `stop` the bridge's fields,
`streamer` the generator `GeneralAgentStreamer.run` with the event it has ready
for the route, `route` the SSE generator. The route starts the next `anext`
before it sends an event, so the streamer runs while the client reads: `Driven`.
When the response is over or the client is gone, the route enters its `finally` clause
(`RouteCloses`): it cancels the task under way and waits for it (`RouteEnds`), unless the
lost connection cancels the waiting too. In between, or after, the cancelled
generator is `Finalised`, and a commit it had already sent may still land.
`PutTimesOut` has both outcomes of a put whose timeout races its landing;
`Finalised` is the clean-up of the generator however it comes about. Chunks are
numbered and are text or (part of) a tool call; a staged call is the set of chunks it
was chosen and put together from. The policy and the validity of arguments are one
choice in `GetsEnd`. The producer task may remain blocked on a
full queue after the consumer has closed; it then lasts until it is
garbage-collected and holds no slot of the runner, so no property is stated about it.

## Runs

| Run | Shows |
|---|---|
| `pending_actions` | Two deliveries of tool calls under one command key, two approvals, crashes, late provider answers, two operators, sweeps and retention: one write per command (`OncePerCommand`), only after an approval (`EffectNeedsApproval`), true verdicts (`SucceededMeansAccepted`, `ConfirmedFailureNotAccepted`), each creator is given its own command (`CreateReturnsItsCommand`), an unbroken audit trail (`AuditEndsAtStatus`), and each step one of the documented lifecycle (`LifecycleRefined`). |
| `pending_settles` | A living request settles what it claimed whatever the provider does (`ClaimSettlesItself`); after a crash the lapsed lease and an operator do (`NoActionStranded`). |
| `jobs_one_worker` | Three messages, one worker, a crash or a provider failure: the cursor leaves an untriaged message behind only if it arrived during recovery (`OnlyRecoveryPasses`), jobs are given up only under the manual-recovery flag (`DeadLetterIsFlagged`), and once failures cease every committed notification is completed or dead-lettered (`EveryJobSettles`). |
| `jobs_two_workers` | Leases may lapse under two workers: the fences keep the cursor monotone (`CursorNeverMovesBack`), keep jobs away from it during recovery (`RecoveryFreezesCursor`), no notification is reported done unless the cursor covers it (`SucceededIsCovered`), and even when leases are taken over a message the cursor has passed was at least begun, or arrived during recovery (`PassedWasBegun`). |
| `watch_renewal` | Two renewers, lapsing leases, failures, crashes: `BeliefWithinGrant`, `LapseLosesNothing`, `WatchComesBack`. |
| `provider_calls` | A read and a write on one client and a call without client, over a pool of two: `ThreadsWithinPool`, `OneThreadPerResource`, `NothingLeaked`, `WriteSentOnce`, `EveryCallReturns`. |
| `mail_cache` | Three reads and two mutations over a failing Redis: `FreshAfterInvalidation`. |
| `credentials` | Two loads, two callbacks, two OAuth states, accounts and keys, rotation of refresh tokens and the backfill: a connected row can be decrypted with the key it names (`ConnectionUsable`), and Google has not replaced its refresh token unless the replacement was lost with its request; a refresh takes effect only on the token it started from (`RefreshBuildsOnStored`), flows stay bound to the account they were started for and a state is spent once (`FlowsStayBound`), a load that waits for the lock or for Google returns (`LoadReturns`). |
| `agent_stream` | Answers of up to four chunks, with and without a tool call, over a queue of two, failing and hanging SDK, disconnects: `DoneMeansComplete`, no call is staged from a part of what the model sent (`StagedIsWhole`), `StreamEnds` even if the SDK never returns, `ThreadEnds` if it does. |
| `pending_late_write`, `jobs_recovery_jump`, `credentials_backfill` | Counterexamples to statements of the repository, [below](#where-code-and-documentation-disagree). |

All runs say `CHECK_DEADLOCK FALSE`: requests end, and a behaviour in which all
of them have ended and the bounds are used up is not a deadlock of the
program. That nobody waits for ever is what the liveness properties say.

## Bounds

* `pending_actions`: two action identifiers under one key, so that rows can
  collide and a key can be reused after deletion; one payload per provider, since
  the three differ in what a conflict and an empty lookup mean; two approvals,
  creators and operators, the least number that can race. `TTL`=2, `LEASE`=1,
  `RETENTION`=1, `MaxTime`=3 put an expiry, a lapsed lease and a retention
  deletion into one behaviour.
* `pending_settles`: one action and one token; liveness is per action. `MaxTime`=4
  lets a claim made at the last moment before expiry lapse.
* `jobs_*`: three messages with one worker (before, on and after a recovery
  page), two with two workers. A page holds one message, so recovery always
  spans transactions; `HISTORY_MAX` and `RESYNC_MAX` of 1 and 2 make both
  limits reachable with three messages. `MaxFaults` = 1 in both; a lapsed lease or a
  history over the limit needs no fault. With two workers, `MaxGen` = 2 generations let a stale holder
  meet a newer one. With one worker, where liveness is checked, it is 4, more than
  any behaviour of that instance opens (three), so that the bound itself never
  blocks progress.
* `watch_renewal`: `EXPIRY`=3 > `RENEWAL`=1, a cap of 2 that the
  second failure reaches, three faults: a failure, an overrun and a crash fit in
  one behaviour.
* `provider_calls`: two of the three calls compete for one client and three for two slots; two
  attempts. Nothing depends on more attempts than a first and a last one.
* `mail_cache`: three readers (one stores before, one across, one after an
  invalidation), two writers, one change from elsewhere.
* `credentials`: two requests of each kind race; one load and one callback run
  with the second key active, the others and the backfill with the first, so that
  each re-encrypts what the other wrote; three refresh tokens are one stored, one
  replacement and one more, by a second rotation or a reconnect.
* `agent_stream`: the empty answer, one twice as long as the queue, a call after text,
  and a call in two chunks with text between them, so that the queue is full, drained and
  full again, text follows a call, and a stream may fail with half a call read.

The proofs lift every invariant and every action property of these runs, and the
refinement, to all instances: sets of requests and workers of any size, any duration,
limit and bound. So the bounds matter for liveness and for the counterexamples only.
The clock (`MaxTime`), generation, message, token and version bounds are in the guards
of the actions that increase them.

## Fairness

* `RequestFairness`: weak fairness of each approve request's own steps. The event
  loop runs it until it answers; every await in it has a deadline or is a
  database call. A crash (`Abandon`) is not fair and ends the request.
* `OperatorFairness`: a reconciliation once begun runs to its end; an action that
  can be reconciled again and again is eventually taken up (strong, since
  another operator may be looking it up). This is the runbook of
  `docs/OPERATIONS.md`, an assumption on people, and only `NoActionStranded`
  rests on it — stated of `OperatedSpec`.
* `NotificationJobs`, `WatchRenewal`: weak fairness of each worker's loop and of
  time. Faults come from a finite budget: no liveness is claimed of a provider
  that fails for ever.
* `ProviderRunner`: weak fairness of `CallStep`, the coroutine's own steps, its
  deadlines included. Nothing is assumed of threads.
* `Credentials`: strong fairness of `LoadRow` (PostgreSQL hands a row lock to its
  waiters in turn), weak fairness of the provider deadline and of the commit.
  Google need not answer.
* `AgentStream`: weak fairness of streamer, route and producer, of the idle timeout and
  the timeout of a put; not of the SDK nor of the deadline of the whole stream.
  `ThreadEnds` has the fairness of the SDK's reads as a hypothesis: its transport
  timeout makes them return.

## Proofs

TLAPS proves the following for every value of the constants that satisfies the named
assumptions: durations, limits and the pool are positive numbers, bounds are natural
numbers, `None` is outside the other sets, each payload is for a known provider, a
call has one client or none, each process has an active key, a script consists of text
and calls. None of these excludes a configuration that the service accepts. Each
safety property of a passing run is stated by a theorem; `PROJECT.json` lists which.
Every inductive invariant `IInv` was checked by TLC on the instances of the runs
before it was proved. In each module one lemma per action (or per kind of step) shows
that `IInv` is preserved, after lemmas on what the model's operators do to a row,
a record or a sequence.

**`PendingActions_proofs`.** `TypeCorrect`, `SingleDispatch` (`OncePerCommand`),
`ApprovalPrecedesEffect` (`EffectNeedsApproval`), `SuccessIsTrue`
(`SucceededMeansAccepted`), `FailureIsTrue` (`ConfirmedFailureNotAccepted`),
`CreationAnswersItsCommand` (`CreateReturnsItsCommand`), `AuditTrailComplete`
(`AuditEndsAtStatus`) and `Refinement` (`LifecycleRefined`). `IInv` adds

* `AttemptShape`: what a request knows at each control point (a recorded
  `success` has an accepted write, a `confirmed_failure` a refused one);
* `ClaimedOnce`, `ClaimRecorded`, `ClaimHeld`: a row is leased at most once, the
  lease is audited and survives rejection and expiry, and a processing row names
  its request. From these follow single dispatch per row and the truth of a
  verdict at the time `Finalize` applies it;
* `OneRowPerCommand`: the unique index, which turns "once per row" into "once per
  command";
* `FindingHolds`: an operator's positive finding stays true until applied,
  although other requests and retention run in between;
* `CreatorHasCommand`, `ReturnedRowExists`: the row a creator was given is its
  own command's, and is never reused.

The audit trail has an invariant of its own, `AuditOf`: statuses have a `Rank` which
every recorded change increases, so a new event cannot lead back to a status that was
left before; `NextAuditStep` classifies what any step does to one row and its
events. The refinement is proved action by action from `IInv`, each step mapping to
one lifecycle step or a stutter.

**`NotificationJobs_proofs`.** `TypeCorrect`, `CursorMonotone`
(`CursorNeverMovesBack`), `RecoveryHoldsCursor` (`RecoveryFreezesCursor`),
`SuccessIsTrue` (`SucceededIsCovered`), `GivingUpIsReported` (`DeadLetterIsFlagged`),
`PassingNeedsTriage` (`PassedWasBegun`), and, for one worker,
`OneWorkerPassesOnlyInRecovery` (`OnlyRecoveryPasses`; the hypothesis is needed, see
[below](#where-code-and-documentation-disagree)). One invariant serves both cases:
`Covered(m)` says what the cursor may pass — a message that is triaged or arrived
during recovery, and with `Several` workers also one whose triage is in progress. Then

* `BoxInv`: all up to the cursor is covered; while recovery is open, so is all from its
  page on; the limit of a recovery is not used up;
* `JobInv`: succeeded jobs are behind the cursor, dead letters imply manual recovery;
* for each worker, `Placed` (what its control point says of its record), `Reading`
  (on normal history: everything up to the cursor it will write is covered or on its
  list), `Recovering` (*if it still holds the recovery lease*: everything from its page
  on is covered or on its list, and the profile it read is not behind the cursor) and
  `Analyzing` (a single worker does not lose its triage lease).

`Recovering` is conditional because a stale worker's record says nothing any more; the
fences on token and generation are exactly what keeps it from writing. That
`complete_bounded_resync` overwrites the cursor and still never moves it back is its last
conjunct.

**`ProviderRunner_proofs`.** `TypeCorrect`, `PoolBound` (`ThreadsWithinPool`),
`ClientExclusion` (`OneThreadPerResource`), `NoLeak` (`NothingLeaked`),
`AmbiguousWriteOnce` (`WriteSentOnce`). `AttemptShape` ties each thread to its call's
attempt; `SlotsCounted` is conservation, free slots and `Occupied` attempts add up to
the pool, where an attempt occupies a slot while its thread runs *or* its call has not
yet come back for the result; `LocksHeld` makes a locked client and the one attempt
that holds it the same thing; `OnlyReadsRetry` bounds a write to its first attempt. The
proof shows for each way out of a call who releases: the call, or the
callback of the thread it left behind, never both.

**`WatchRenewal_proofs`.** `TypeCorrect`, `ExpiryIsTrue` (`BeliefWithinGrant`),
`RenewalKeepsMessages` (`LapseLosesNothing`). `AnswersWithinGrant`: an answer that is
not yet recorded promises no more than Gmail has granted, since a later grant only
extends an earlier one; `HistoryKnown`: answers and cursor are about messages that have
arrived; `FailuresCounted` bounds the attempt counter by the fault budget.

**`Credentials_proofs`.** `TypeCorrect`, `ConnectionStaysUsable` (`ConnectionUsable`),
`RefreshActsOnStored` (`RefreshBuildsOnStored`), `FlowsKeepTheirAccount`
(`FlowsStayBound`). `LockOwner` is the heart: the row lock is held exactly from the read
to the end of a refresh, so that what is being refreshed is what is stored. With it,
`StoredToken` says that the stored token was replaced only for the refresh that is
about to store the replacement; `LoadTokens`, `CallbackTokens` and `IssuedInOrder` keep
the tokens in flight apart from each other and from the stored one; `FlowsBound` binds a
flow to its account and its state.

**`MailCache_proofs`.** `TypeCorrect` and `FreshReads` (`FreshAfterInvalidation`). The
idea of the invariant is that *a generation fixes what was visible while it was
current* (`GenerationFixesSince`): the increment that makes a change visible is
the one that ends the generation. Hence an entry under a generation is no older
than what its readers may expect (`EntriesFresh`), whoever stored it and however
late; `ResponsesFresh` carries this through the fetch, `VisibleHappened` says
that only changes that happened become visible.

**`AgentStream_proofs`.** `TypeCorrect`, `CompletionIsTrue` (`DoneMeansComplete`),
`StagedCallsAreWhole` (`StagedIsWhole`). `Output` is all that the streamer has
said, wherever it is on its way to the client. `InOrder` and `GoesOn` say that for the
number `c` of chunks read so far the queue holds the next ones, and perhaps the end after the
last one, *up to the first failure*, and that without a failure the thread goes on where
the queue ends: a chunk that was dropped is always followed by a failure. `SaidInv` says
for each control point of the streamer which shape `Output` has (text, text and the
call's outcome, text and an error), `EndedInv` the same of what was sent. `StagedInv`
is about calls: the streamer has collected those among the `c` chunks read (`CallsTo`), so at
the end of the stream, which `InOrder` puts after the last chunk, it has them all, and a
result that is on its way (`Told`) stands for a call that is staged.

Only model-checked, because the prover has no liveness under fairness and no `ENABLED`:
`ClaimSettlesItself`, `NoActionStranded`, `EveryJobSettles`, `EveryCallReturns`,
`WatchComesBack`, `LoadReturns`, `StreamEnds` and `ThreadEnds`. The three violated
statements are refuted by TLC's traces.

How the models were kept provable: no recursive operators; what could be a fold
is stated pointwise (the frames of a response, the shape of the queue); the capped
exponential backoff is its formula where that lies in `1..BACKOFF_MAX` and the cap
elsewhere, so that its range needs no induction over the exponent; functions of two
arguments are indexed by a pair, and `@` is not used at two levels of one `EXCEPT`,
which tlapm 1.4.5 expands wrongly.

## Where code and documentation disagree

Each is a run in which TLC finds the statement violated by what the code does;
`PROJECT.json` quotes lines.

1. `pending_late_write` — an operator's empty lookup settles an action as
   `failed`, "operator confirmed failure", while the timed-out SDK thread is
   still running; Google may accept the write afterwards.
2. `jobs_recovery_jump` — recovery ends with the profile's current history id; a
   message that arrived after the first page was listed is on no page and behind
   the new cursor, although a job is processed "without blind retries or cursor
   jumps".
3. `credentials_backfill` — `token_json` is a JSON column without `none_as_null`, so
   the `None` that encryption leaves in it is stored as JSON `null`, which
   `IS NOT NULL`. The backfill selects such a row, finds no payload in it and
   quarantines a connection that was encrypted and in use; a row once selected is
   selected for ever, although the command works "until no rows remain".

Two more statements do not hold as worded. They have no run of their own, because the
property next to them states exactly what remains:

* `_triage_message` promises to "return false if another lease owns it", and does so on
  entry only: a finalization that the fence refuses is silent, the cursor
  advances, and the message is untriaged if the new holder dies. (Check
  `OnlyRecoveryPasses` under `jobs_two_workers.cfg` to see it.) What
  holds is `PassedWasBegun`.
* A failed read of the generation is taken for generation 0, which is a real
  one: with the following GET working again the outage is not "a cache miss" but a hit
  on an outdated entry. (Drop the hypothesis `~blind` of `FreshAfterInvalidation`
  to see it.)

Next to 1 and 2, `ConfirmedFailureNotAccepted` and `OnlyRecoveryPasses` say what
does hold.

## What is not modelled

* MIME composition, inbound parsing, payload canonicalisation: text processing;
  no property here depends on the result.
* Configuration, schemas, logging, pagination, readiness, triage result queries:
  declarations and read-only queries.
* Push authentication, request limits, start-up: stateless checks of one request.
* Migrations: the constraints the code relies on (the unique indexes, the status
  CHECK) are part of the modules.
* The turn loop of the executive agent: it is sequential, and each of its mutation
  tools ends in the `create_pending_action` of `PendingActions`.
* The rollout of a keyring: the model gives every process the full keyring. A process that
  cached one without the new key marks rows of that key `reconnect_required`; only the
  order of a deployment prevents that.
* Not yet: task list selection, runner shutdown, the worker heartbeat, retention of
  jobs.

## Plan

Done, in the order of importance: approval-gated actions with their abstract
specification; notification jobs; provider runner with retries; mail cache; watch
renewal; the Google connection and its stored credentials; the streamed agent response;
for all of them, proofs of the safety properties.

Next modules:

1. `TaskDispatch` — the two-call task write: find-or-create of the list by
   concurrent approvals, and what reconciliation can know in between.
2. A composition of `WatchRenewal` with `NotificationJobs` over the shared
   mailbox row, replacing `JobsAdvance`.
3. Retention of jobs and triage rows, and the shutdown of the runner.

Next theorems: those of the modules above as they are written; the refinement of a
one-page summary of `NotificationJobs` (a cursor and a set of covered messages), which
the composition with `WatchRenewal` can then use in place of `JobsAdvance`.
