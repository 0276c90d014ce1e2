-------------------------- MODULE NotificationJobs --------------------------
(***************************************************************************)
(* Inbound automation: server/services/notification_jobs.py driven by      *)
(* server/workers/mail_notifications.py and the Pub/Sub push route.        *)
(*                                                                         *)
(* Gmail publishes a notification for every new message; the push route    *)
(* commits it as a job before acknowledging.  Workers lease jobs, read the *)
(* mailbox history after the durable cursor, triage every message listed   *)
(* there under a lease of its own, and advance the cursor.  When history   *)
(* cannot be used the mailbox enters a recovery generation: the inbox is   *)
(* listed page by page under a mailbox lease, and the cursor then jumps to *)
(* the mailbox's current history id.                                       *)
(*                                                                         *)
(* Each database transaction and each provider call is one step of its     *)
(* worker.  Timestamps are countdowns: 0 is a lease that lapsed or a       *)
(* retry that is due, and Tick brings every running countdown closer to 0. *)
(* History ids are counted from the watch baseline, one per message.       *)
(***************************************************************************)
EXTENDS Integers, Sequences, FiniteSets, FiniteSetsExt

CONSTANTS Workers,
          MaxHist,         \* bound on the messages that arrive
          MaxGen,          \* bound on recovery generations
          MaxFaults,       \* bound on crashes and failed provider calls
          LEASE,           \* GMAIL_NOTIFICATION_LEASE_SECONDS
          MAX_ATTEMPTS,    \* GMAIL_NOTIFICATION_MAX_ATTEMPTS
          BACKOFF_INITIAL, \* GMAIL_RETRY_BACKOFF_INITIAL_SECONDS
          BACKOFF_MAX,     \* GMAIL_RETRY_BACKOFF_MAX_SECONDS
          RESYNC_MAX,      \* GMAIL_RESYNC_MAX_MESSAGES
          HISTORY_MAX,     \* GMAIL_HISTORY_MAX_MESSAGES
          PAGE,            \* messages per page of an inbox listing
          None

ASSUME BoundsAssumption ==
    /\ {MaxHist, MaxGen, MaxFaults} \subseteq Nat
    /\ {LEASE, MAX_ATTEMPTS, BACKOFF_INITIAL, BACKOFF_MAX, RESYNC_MAX, HISTORY_MAX, PAGE}
          \subseteq Nat \ {0}
    /\ BACKOFF_INITIAL <= BACKOFF_MAX

ASSUME NoneAssumption == None \notin Workers

Messages == 1..MaxHist

VARIABLES hist,     \* the mailbox's newest history id: messages 1..hist arrived
          queue,    \* delivered notifications in received_at order
          job,      \* gmail_notification_jobs, by history id
          box,      \* the recovery columns of gmail_mailbox_states, and the cursor
          triage,   \* gmail_triage_work, by message
          worker,   \* run_notification_worker loops
          faults,   \* crashes and provider failures so far
          during    \* history: messages that arrived while recovery was open

vars == <<hist, queue, job, box, triage, worker, faults, during>>

------------------------------------------------------------------------------
(* Types *)

Job == [state : {"absent", "pending", "processing", "succeeded", "dead_letter"},
        tries : 0..MAX_ATTEMPTS,
        token : Workers \cup {None},
        lease : 0..LEASE,
        next  : 0..BACKOFF_MAX]

Box == [cursor : 0..MaxHist,
        sync   : {"idle", "required", "processing", "manual_required"},
        gen    : 0..MaxGen,
        page   : 0..MaxHist,       \* 0: from the newest message
        count  : 0..RESYNC_MAX,
        tries  : 0..MAX_ATTEMPTS,
        token  : Workers \cup {None},
        lease  : 0..LEASE,
        next   : 0..BACKOFF_MAX]

Triage == [state : {"absent", "processing", "terminal"},
           tries : 0..MAX_ATTEMPTS,
           token : Workers \cup {None},
           lease : 0..LEASE,
           next  : 0..BACKOFF_MAX]

WorkerPc == {"idle", "read", "history", "triage", "check", "analyze", "complete",
             "fail", "fail_resync", "resync", "list", "page_done", "profile",
             "resync_done", "release", "requeue", "requeue_now", "dead_letter"}

Worker == [pc     : WorkerPc,
           job    : 0..MaxHist,      \* 0: none
           gen    : 0..MaxGen,       \* generation when the job was leased
           cursor : 0..MaxHist,      \* cursor read, or to be recorded
           todo   : SUBSET Messages, \* messages listed and not yet triaged
           resync : BOOLEAN,         \* is this a recovery page?
           rgen   : 0..MaxGen,       \* generation of the recovery lease
           page   : 0..MaxHist,      \* page to list, then the page after it
           count  : 0..RESYNC_MAX]   \* recovered so far, this page included

TypeOK ==
    /\ hist \in 0..MaxHist
    /\ queue \in Seq(Messages)
    /\ job \in [Messages -> Job]
    /\ box \in Box
    /\ triage \in [Messages -> Triage]
    /\ worker \in [Workers -> Worker]
    /\ faults \in 0..MaxFaults
    /\ during \subseteq Messages

AtRest == [pc |-> "idle", job |-> 0, gen |-> 0, cursor |-> 0, todo |-> {},
           resync |-> FALSE, rgen |-> 0, page |-> 0, count |-> 0]

\* The watch baseline is in place and nothing has arrived since.
Init ==
    /\ hist = 0
    /\ queue = <<>>
    /\ job = [m \in Messages |->
                [state |-> "absent", tries |-> 0, token |-> None, lease |-> 0, next |-> 0]]
    /\ box = [cursor |-> 0, sync |-> "idle", gen |-> 0, page |-> 0, count |-> 0,
              tries |-> 0, token |-> None, lease |-> 0, next |-> 0]
    /\ triage = [m \in Messages |->
                   [state |-> "absent", tries |-> 0, token |-> None, lease |-> 0, next |-> 0]]
    /\ worker = [w \in Workers |-> AtRest]
    /\ faults = 0
    /\ during = {}

------------------------------------------------------------------------------
(* Helpers *)

\* Faulty variant: the backoff is not capped.
RetryDelayUncapped(tries) ==
    BACKOFF_INITIAL * 2 ^ (IF tries > 0 THEN tries - 1 ELSE 0)

\* _retry_at: capped exponential backoff.
RetryDelay(tries) ==
    LET delay == BACKOFF_INITIAL * 2 ^ (IF tries > 0 THEN tries - 1 ELSE 0)
    IN  IF delay \in 1..BACKOFF_MAX THEN delay ELSE BACKOFF_MAX

\* Attempt counters are compared with MAX_ATTEMPTS and feed the backoff; they
\* are kept only up to that limit.
Bump(tries) == IF tries < MAX_ATTEMPTS THEN tries + 1 ELSE tries

Goto(w, pc) == worker' = [worker EXCEPT ![w] = [@ EXCEPT !.pc = pc]]
Rest(w) == worker' = [worker EXCEPT ![w] = AtRest]

Fault == faults < MaxFaults /\ faults' = faults + 1

\* The rows a worker's fenced updates still find.
HoldsJob(w) ==
    LET j == job[worker[w].job] IN j.state = "processing" /\ j.token = w

\* Faulty variant: an open recovery is this worker's recovery.
HoldsResyncByState(w) == box.sync # "manual_required"

HoldsResync(w) ==
    box.sync = "processing" /\ box.token = w /\ box.gen = worker[w].rgen

\* A job goes back to the queue.
Requeued(j, delay) ==
    [state |-> "pending", tries |-> j.tries, token |-> None, lease |-> 0, next |-> delay]

\* A job or triage row reaches a final state; its lease columns, which the code
\* may leave behind, are not read again.
Finished(r, state) ==
    [state |-> state, tries |-> r.tries, token |-> None, lease |-> 0, next |-> 0]

\* Recovery lets go of its lease and waits for its next turn.
Waiting(b, tries, delay) ==
    [b EXCEPT !.sync = "required", !.token = None, !.lease = 0,
              !.tries = tries, !.next = delay]

\* A new recovery generation.
NewGeneration(b) ==
    [b EXCEPT !.sync = "required", !.gen = @ + 1, !.page = 0, !.count = 0,
              !.tries = 0, !.token = None, !.lease = 0, !.next = 0]

\* Faulty variant: only a recovery under way right now counts, not one waiting.
RecoveryProcessing(w) == box.sync = "processing"

\* Recovery was opened, or opened and finished, since the job was leased.
RecoveryChanged(w) == box.sync # "idle" \/ box.gen # worker[w].gen

------------------------------------------------------------------------------
(* Gmail and Pub/Sub *)

Arrive ==
    /\ hist < MaxHist
    /\ hist' = hist + 1
    /\ during' = IF box.sync = "idle" THEN during ELSE during \cup {hist + 1}
    /\ UNCHANGED <<queue, job, box, triage, worker, faults>>

\* receive_gmail_notification and enqueue_notification: deliveries may come in
\* any order and repeatedly; the unique message id makes a repeat a no-op.
Deliver(m) ==
    /\ m <= hist
    /\ job[m].state = "absent"
    /\ job' = [job EXCEPT ![m] = Requeued(@, 0)]
    /\ queue' = Append(queue, m)
    /\ UNCHANGED <<hist, box, triage, worker, faults, during>>

------------------------------------------------------------------------------
(* claim_notification_job *)

Due(m) == \/ job[m].state = "pending" /\ job[m].next = 0
          \/ job[m].state = "processing" /\ job[m].lease = 0

\* The oldest due job of the queue.
FirstDue(m) ==
    \E i \in 1..Len(queue) :
        /\ queue[i] = m
        /\ Due(m)
        /\ \A h \in 1..(i - 1) : ~Due(queue[h])

\* A lapsed job lease is only put back; so is a lapsed recovery lease.
ClaimFindsLapsedJob(w, m) ==
    /\ worker[w].pc = "idle"
    /\ FirstDue(m)
    /\ job[m].state = "processing"
    /\ job' = [job EXCEPT ![m] = Requeued(@, RetryDelay(@.tries))]
    /\ box' = IF box.sync = "processing" /\ box.lease = 0
              THEN Waiting(box, Bump(box.tries), RetryDelay(Bump(box.tries)))
              ELSE box
    /\ UNCHANGED <<hist, queue, triage, worker, faults, during>>

ClaimFindsManual(w, m) ==
    /\ worker[w].pc = "idle"
    /\ FirstDue(m)
    /\ job[m].state = "pending"
    /\ box.sync = "manual_required"
    /\ job' = [job EXCEPT ![m] = Finished(@, "dead_letter")]
    /\ UNCHANGED <<hist, queue, box, triage, worker, faults, during>>

ClaimFindsExhausted(w, m) ==
    /\ worker[w].pc = "idle"
    /\ FirstDue(m)
    /\ job[m].state = "pending"
    /\ job[m].tries >= MAX_ATTEMPTS
    /\ box.sync = "idle"
    /\ box.gen < MaxGen
    /\ box' = NewGeneration(box)
    /\ UNCHANGED <<hist, queue, job, triage, worker, faults, during>>

ClaimJob(w, m) ==
    /\ worker[w].pc = "idle"
    /\ FirstDue(m)
    /\ job[m].state = "pending"
    /\ box.sync # "manual_required"
    /\ job[m].tries < MAX_ATTEMPTS \/ box.sync # "idle"
    /\ job' = [job EXCEPT ![m] = [state |-> "processing", tries |-> Bump(@.tries),
                                  token |-> w, lease |-> LEASE, next |-> 0]]
    /\ worker' = [worker EXCEPT ![w] = [AtRest EXCEPT !.pc = "read", !.job = m, !.gen = box.gen]]
    /\ UNCHANGED <<hist, queue, box, triage, faults, during>>

------------------------------------------------------------------------------
(* process_notification_job: normal history *)

\* job_mailbox_state, and what the snapshot decides.
ReadState(w) ==
    /\ worker[w].pc = "read"
    /\ worker' = [worker EXCEPT ![w] = [@ EXCEPT
          !.cursor = box.cursor,
          !.pc = CASE box.sync = "manual_required" -> "dead_letter"
                   [] box.sync \in {"required", "processing"} -> "resync"
                   [] worker[w].job <= box.cursor -> "complete"
                   [] OTHER -> "history"]]
    /\ UNCHANGED <<hist, queue, job, box, triage, faults, during>>

\* Faulty variant: a long history is cut off, and the cursor set to its end.
ListHistoryTruncates(w) ==
    /\ worker[w].pc = "history"
    /\ worker' = [worker EXCEPT ![w] = [@ EXCEPT
          !.pc = "triage", !.cursor = hist,
          !.todo = (worker[w].cursor + 1)..Min({hist, worker[w].cursor + HISTORY_MAX})]]
    /\ UNCHANGED <<hist, queue, job, box, triage, faults, during>>

\* _history_message_ids: everything after the cursor, and the newest history id;
\* too much of it is left to recovery.
ListHistory(w) ==
    /\ worker[w].pc = "history"
    /\ LET listed == (worker[w].cursor + 1)..hist IN
       IF Cardinality(listed) > HISTORY_MAX
       THEN Goto(w, "fail_resync")
       ELSE worker' = [worker EXCEPT ![w] = [@ EXCEPT !.pc = "triage", !.todo = listed,
                                                      !.cursor = hist]]
    /\ UNCHANGED <<hist, queue, job, box, triage, faults, during>>

\* The provider is unavailable, or rejects the cursor (404) or the request.
HistoryFails(w) ==
    /\ worker[w].pc = "history"
    /\ Fault
    /\ \E pc \in {"fail", "fail_resync"} : Goto(w, pc)
    /\ UNCHANGED <<hist, queue, job, box, triage, during>>

\* Faulty variant: the cursor is set to what this job saw instead of raised to it.
CompleteJobOverwrites(w) ==
    LET m == worker[w].job IN
    /\ worker[w].pc = "complete"
    /\ IF ~HoldsJob(w)
       THEN UNCHANGED <<job, box>>
       ELSE IF RecoveryChanged(w)
       THEN /\ job' = [job EXCEPT ![m] = Requeued(@, RetryDelay(@.tries))]
            /\ UNCHANGED box
       ELSE /\ job' = [job EXCEPT ![m] = Finished(@, "succeeded")]
            /\ box' = [box EXCEPT !.cursor = Max({worker[w].cursor, m})]
    /\ Rest(w)
    /\ UNCHANGED <<hist, queue, triage, faults, during>>

\* complete_job_and_advance_cursor
CompleteJob(w) ==
    LET m == worker[w].job IN
    /\ worker[w].pc = "complete"
    /\ IF ~HoldsJob(w)
       THEN UNCHANGED <<job, box>>
       ELSE IF RecoveryChanged(w)
       THEN /\ job' = [job EXCEPT ![m] = Requeued(@, RetryDelay(@.tries))]
            /\ UNCHANGED box
       ELSE /\ job' = [job EXCEPT ![m] = Finished(@, "succeeded")]
            /\ box' = [box EXCEPT !.cursor = Max({@, worker[w].cursor, m})]
    /\ Rest(w)
    /\ UNCHANGED <<hist, queue, triage, faults, during>>

\* Faulty variant: the job is given up without opening recovery.
FailJobGivesUp(w) ==
    LET m == worker[w].job IN
    /\ worker[w].pc \in {"fail", "fail_resync"}
    /\ job' = IF ~HoldsJob(w) THEN job
              ELSE IF worker[w].pc = "fail_resync" \/ job[m].tries >= MAX_ATTEMPTS
              THEN [job EXCEPT ![m] = Finished(@, "dead_letter")]
              ELSE [job EXCEPT ![m] = Requeued(@, RetryDelay(@.tries))]
    /\ Rest(w)
    /\ UNCHANGED <<hist, queue, box, triage, faults, during>>

\* fail_job: retry later, or open a recovery generation.
FailJob(w) ==
    LET m == worker[w].job IN
    /\ worker[w].pc \in {"fail", "fail_resync"}
    /\ IF ~HoldsJob(w)
       THEN UNCHANGED <<job, box>>
       ELSE IF ~RecoveryChanged(w)
               /\ (worker[w].pc = "fail_resync" \/ job[m].tries >= MAX_ATTEMPTS)
       THEN /\ box.gen < MaxGen
            /\ box' = NewGeneration(box)
            /\ job' = [job EXCEPT ![m] = Requeued(@, 0)]
       ELSE /\ job' = [job EXCEPT ![m] = Requeued(@, RetryDelay(@.tries))]
            /\ UNCHANGED box
    /\ Rest(w)
    /\ UNCHANGED <<hist, queue, triage, faults, during>>

\* requeue_job
RequeueJob(w) ==
    LET m == worker[w].job IN
    /\ worker[w].pc \in {"requeue", "requeue_now"}
    /\ job' = IF HoldsJob(w)
              THEN [job EXCEPT ![m] =
                      Requeued(@, IF worker[w].pc = "requeue" THEN RetryDelay(@.tries) ELSE 0)]
              ELSE job
    /\ Rest(w)
    /\ UNCHANGED <<hist, queue, box, triage, faults, during>>

\* dead_letter_job
DeadLetterJob(w) ==
    /\ worker[w].pc = "dead_letter"
    /\ job' = IF HoldsJob(w) THEN [job EXCEPT ![worker[w].job] = Finished(@, "dead_letter")] ELSE job
    /\ Rest(w)
    /\ UNCHANGED <<hist, queue, box, triage, faults, during>>

------------------------------------------------------------------------------
(* _triage_message *)

\* History lists oldest first, the inbox newest first.
NextMessage(w) == IF worker[w].resync THEN Max(worker[w].todo) ELSE Min(worker[w].todo)

\* Where a message that could not be triaged leads.
GiveUp(w) == Goto(w, IF worker[w].resync THEN "release" ELSE "fail")

\* Where a triaged message leads.
TickOff(w) ==
    worker' = [worker EXCEPT ![w] = [@ EXCEPT !.pc = "triage",
                                              !.todo = worker[w].todo \ {NextMessage(w)}]]

\* claim_triage_work: lease the message's row unless it is terminal, leased or
\* waiting for its retry.
ClaimTriage(w) ==
    LET m == NextMessage(w) IN
    /\ worker[w].pc = "triage"
    /\ worker[w].todo # {}
    /\ IF \/ triage[m].state = "terminal"
          \/ triage[m].state = "processing" /\ (triage[m].lease > 0 \/ triage[m].next > 0)
       THEN Goto(w, "check") /\ UNCHANGED triage
       ELSE /\ triage' = [triage EXCEPT ![m] =
                            [state |-> "processing", tries |-> Bump(@.tries), token |-> w,
                             lease |-> LEASE, next |-> 0]]
            /\ Goto(w, "analyze")
    /\ UNCHANGED <<hist, queue, job, box, faults, during>>

\* Faulty variant: a row that exists is taken for a message that was triaged.
CheckTriageExists(w) ==
    /\ worker[w].pc = "check"
    /\ IF triage[NextMessage(w)].state # "absent" THEN TickOff(w) ELSE GiveUp(w)
    /\ UNCHANGED <<hist, queue, job, box, triage, faults, during>>

\* triage_work_is_terminal, for a message that could not be leased.
CheckTriage(w) ==
    /\ worker[w].pc = "check"
    /\ IF triage[NextMessage(w)].state = "terminal" THEN TickOff(w) ELSE GiveUp(w)
    /\ UNCHANGED <<hist, queue, job, box, triage, faults, during>>

HoldsTriage(w, m) == triage[m].state = "processing" /\ triage[m].token = w

\* The message was analysed, filtered out, malformed or deleted:
\* finalize_triage_work, whose fence the caller does not learn about.
FinalizeTriage(w) ==
    LET m == NextMessage(w) IN
    /\ worker[w].pc = "analyze"
    /\ triage' = IF HoldsTriage(w, m)
                 THEN [triage EXCEPT ![m] = Finished(@, "terminal")]
                 ELSE triage
    /\ TickOff(w)
    /\ UNCHANGED <<hist, queue, job, box, faults, during>>

\* Gmail or the LLM is unavailable: release_triage_work.
ReleaseTriage(w) ==
    LET m == NextMessage(w) IN
    /\ worker[w].pc = "analyze"
    /\ Fault
    /\ triage' = IF HoldsTriage(w, m)
                 THEN [triage EXCEPT ![m] =
                         [state |-> "processing", tries |-> @.tries, token |-> None,
                          lease |-> 0, next |-> RetryDelay(@.tries)]]
                 ELSE triage
    /\ GiveUp(w)
    /\ UNCHANGED <<hist, queue, job, box, during>>

ListTriaged(w) ==
    /\ worker[w].pc = "triage"
    /\ worker[w].todo = {}
    /\ Goto(w, IF worker[w].resync THEN "page_done" ELSE "complete")
    /\ UNCHANGED <<hist, queue, job, box, triage, faults, during>>

------------------------------------------------------------------------------
(* Bounded recovery *)

\* Faulty variant: a lapsed recovery lease is left to the worker that holds it.
ClaimResyncWaitsForHolder(w) ==
    /\ worker[w].pc = "resync"
    /\ \/ /\ box.sync = "required" /\ box.next = 0
          /\ box' = [box EXCEPT !.sync = "processing", !.token = w, !.lease = LEASE]
          /\ worker' = [worker EXCEPT ![w] = [@ EXCEPT
                !.pc = "list", !.resync = TRUE, !.rgen = box.gen,
                !.page = box.page, !.count = box.count]]
       \/ /\ box.sync # "required" \/ box.next > 0
          /\ UNCHANGED box
          /\ Goto(w, "requeue")
    /\ UNCHANGED <<hist, queue, job, triage, faults, during>>

\* claim_mailbox_resync
ClaimResync(w) ==
    /\ worker[w].pc = "resync"
    /\ \/ /\ box.sync = "required" /\ box.next = 0
          /\ box' = [box EXCEPT !.sync = "processing", !.token = w, !.lease = LEASE]
          /\ worker' = [worker EXCEPT ![w] = [@ EXCEPT
                !.pc = "list", !.resync = TRUE, !.rgen = box.gen,
                !.page = box.page, !.count = box.count]]
       \/ /\ box.sync = "processing" /\ box.lease = 0
          /\ box' = Waiting(box, Bump(box.tries), RetryDelay(Bump(box.tries)))
          /\ Goto(w, "requeue")
       \/ /\ \/ box.sync \in {"idle", "manual_required"}
             \/ box.sync = "processing" /\ box.lease > 0
             \/ box.sync = "required" /\ box.next > 0
          /\ UNCHANGED box
          /\ Goto(w, "requeue")
    /\ UNCHANGED <<hist, queue, job, triage, faults, during>>

\* The inbox from a page token on: the newest messages older than the token.
InboxPage(token, size) ==
    LET older == {m \in 1..hist : token = 0 \/ m < token}
    IN  {m \in older : Cardinality({n \in older : n > m}) < size}

\* The token of the page after it; 0 when there is none.
PageAfter(page) == IF page = {} \/ Min(page) = 1 THEN 0 ELSE Min(page)

\* _bounded_resync lists one page within what is left of the total limit.
ListInbox(w) ==
    LET size == Min({PAGE, RESYNC_MAX - worker[w].count})
        page == InboxPage(worker[w].page, size)
    IN
    /\ worker[w].pc = "list"
    /\ worker' = [worker EXCEPT ![w] = [@ EXCEPT
          !.pc = "triage", !.todo = page, !.page = PageAfter(page),
          !.count = worker[w].count + Cardinality(page)]]
    /\ UNCHANGED <<hist, queue, job, box, triage, faults, during>>

RecoveryFails(w) ==
    /\ worker[w].pc \in {"list", "profile"}
    /\ Fault
    /\ Goto(w, "release")
    /\ UNCHANGED <<hist, queue, job, box, triage, during>>

\* The page is triaged: checkpoint_bounded_resync, require_manual_resync at the
\* limit, or on to the profile when it was the last.
PageDone(w) ==
    LET this == worker[w] IN
    /\ this.pc = "page_done"
    /\ \/ /\ this.page = 0
          /\ Goto(w, "profile") /\ UNCHANGED box
       \/ /\ this.page # 0 /\ ~HoldsResync(w)
          /\ Goto(w, "requeue") /\ UNCHANGED box
       \/ /\ this.page # 0 /\ HoldsResync(w) /\ this.count < RESYNC_MAX
          /\ box' = [box EXCEPT !.sync = "required", !.token = None, !.lease = 0,
                                !.page = this.page, !.count = this.count, !.next = 0]
          /\ Goto(w, "requeue_now")
       \/ /\ this.page # 0 /\ HoldsResync(w) /\ this.count >= RESYNC_MAX
          /\ box' = [box EXCEPT !.sync = "manual_required", !.token = None, !.lease = 0,
                                !.next = 0]
          /\ Goto(w, "dead_letter")
    /\ UNCHANGED <<hist, queue, job, triage, faults, during>>

\* getProfile: the mailbox's history id now.
ReadProfile(w) ==
    /\ worker[w].pc = "profile"
    /\ worker' = [worker EXCEPT ![w] = [@ EXCEPT !.pc = "resync_done", !.cursor = hist]]
    /\ UNCHANGED <<hist, queue, job, box, triage, faults, during>>

\* complete_bounded_resync
CompleteResync(w) ==
    /\ worker[w].pc = "resync_done"
    /\ IF HoldsResync(w)
       THEN /\ box' = [cursor |-> worker[w].cursor, sync |-> "idle", gen |-> box.gen,
                       page |-> 0, count |-> 0, tries |-> 0, token |-> None,
                       lease |-> 0, next |-> 0]
            /\ worker' = [worker EXCEPT ![w] = [@ EXCEPT !.pc = "complete", !.cursor = worker[w].job]]
       ELSE UNCHANGED box /\ Goto(w, "requeue")
    /\ UNCHANGED <<hist, queue, job, triage, faults, during>>

\* release_mailbox_resync
ReleaseResync(w) ==
    /\ worker[w].pc = "release"
    /\ box' = IF HoldsResync(w)
              THEN Waiting(box, Bump(box.tries), RetryDelay(Bump(box.tries)))
              ELSE box
    /\ Goto(w, "requeue")
    /\ UNCHANGED <<hist, queue, job, triage, faults, during>>

------------------------------------------------------------------------------
(* Crashes and time *)

\* The worker process dies, or a database error ends the iteration; the loop
\* starts over and every row stays as it was.
Crash(w) ==
    /\ worker[w].pc # "idle"
    /\ Fault
    /\ Rest(w)
    /\ UNCHANGED <<hist, queue, job, box, triage, during>>

Down(n) == IF n > 0 THEN n - 1 ELSE 0

TimerRuns ==
    \/ box.lease > 0 \/ box.next > 0
    \/ \E m \in Messages : \/ job[m].lease > 0 \/ job[m].next > 0
                           \/ triage[m].lease > 0 \/ triage[m].next > 0

Tick ==
    /\ TimerRuns
    /\ job' = [m \in Messages |->
                 [job[m] EXCEPT !.lease = Down(@), !.next = Down(@)]]
    /\ triage' = [m \in Messages |->
                    [triage[m] EXCEPT !.lease = Down(@), !.next = Down(@)]]
    /\ box' = [box EXCEPT !.lease = Down(@), !.next = Down(@)]
    /\ UNCHANGED <<hist, queue, worker, faults, during>>

------------------------------------------------------------------------------

Claim(w) ==
    \E m \in Messages : \/ ClaimFindsLapsedJob(w, m) \/ ClaimFindsManual(w, m)
                        \/ ClaimFindsExhausted(w, m) \/ ClaimJob(w, m)

WorkerStep(w) ==
    \/ Claim(w)
    \/ ReadState(w) \/ ListHistory(w)
    \/ CompleteJob(w) \/ FailJob(w) \/ RequeueJob(w) \/ DeadLetterJob(w)
    \/ ClaimTriage(w) \/ CheckTriage(w) \/ FinalizeTriage(w) \/ ListTriaged(w)
    \/ ClaimResync(w) \/ ListInbox(w) \/ PageDone(w) \/ ReadProfile(w)
    \/ CompleteResync(w) \/ ReleaseResync(w)

FaultStep(w) ==
    HistoryFails(w) \/ ReleaseTriage(w) \/ RecoveryFails(w) \/ Crash(w)

Next ==
    \/ Arrive
    \/ \E m \in Messages : Deliver(m)
    \/ \E w \in Workers : WorkerStep(w) \/ FaultStep(w)
    \/ Tick

Spec == Init /\ [][Next]_vars

------------------------------------------------------------------------------
(* Safety *)

\* The durable cursor never moves back: complete_bounded_resync overwrites it
\* with a profile read earlier, which only the recovery fences make harmless.
CursorNeverMovesBack == [][box'.cursor >= box.cursor]_vars

\* While a recovery generation is open no job moves the cursor, and manual
\* recovery is final: OPERATIONS.md, "the cursor is intentionally not advanced".
RecoveryFreezesCursor ==
    [][/\ box.sync # "idle" /\ box'.cursor # box.cursor
            => box.sync = "processing" /\ box'.sync = "idle"
       /\ box.sync = "manual_required" => box' = box]_vars

\* A job reported as succeeded is behind the cursor.
SucceededIsCovered ==
    \A m \in Messages : job[m].state = "succeeded" => m <= box.cursor

\* A job is given up only when the mailbox demands manual recovery, which health
\* and readiness report.
DeadLetterIsFlagged ==
    \A m \in Messages : job[m].state = "dead_letter" => box.sync = "manual_required"

\* Messages the cursor has passed without a terminal triage row.
Passed == {m \in Messages : m <= box.cursor /\ triage[m].state # "terminal"}

\* With one worker, however often it crashes, the cursor passes an untriaged
\* message only if that message arrived while a recovery generation was open.
OnlyRecoveryPasses == Passed \subseteq during

\* Passed messages that no worker has on its list: no job will come back to
\* them, because a job behind the cursor completes at once.
Unattended == {m \in Passed : \A w \in Workers : m \notin worker[w].todo}

\* process_notification_job: a job is processed without "cursor jumps", so that the
\* cursor passes no message that nobody has dealt with or will.
NoCursorJump == Unattended = {}

\* Whatever the workers take over from each other, the cursor passes a message
\* that arrived outside recovery only after some worker has begun to triage it.
\* More does not hold: the worker that loses a triage lease is not told
\* (finalize_triage_work is fenced in silence), advances the cursor, and the
\* message stays untriaged if the new holder dies.
PassedWasBegun == Passed \subseteq during \cup {m \in Messages : triage[m].state = "processing"}

------------------------------------------------------------------------------
(* Liveness *)

\* The worker loop polls for ever, and time passes.
Fairness == WF_vars(Tick) /\ \A w \in Workers : WF_vars(WorkerStep(w))

LiveSpec == Spec /\ Fairness

\* Once failures cease, every committed notification is settled.
EveryJobSettles ==
    \A m \in Messages :
        job[m].state = "pending" ~> job[m].state \in {"succeeded", "dead_letter"}
==============================================================================
