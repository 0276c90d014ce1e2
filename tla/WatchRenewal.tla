---------------------------- MODULE WatchRenewal ----------------------------
(***************************************************************************)
(* Renewal of the Gmail watch that makes Pub/Sub notifications come at all *)
(* (renew_automation_watch in server/workers/mail_notifications.py, claim_,*)
(* complete_ and fail_watch_renewal in server/services/notification_jobs). *)
(*                                                                         *)
(* Workers, and operators through POST /renew-watch, take a lease on the   *)
(* mailbox row when renewal is due, call Gmail outside any transaction,    *)
(* and record the answer in a transaction fenced by the lease token.  The  *)
(* first answer also is the baseline of the history cursor.                *)
(*                                                                         *)
(* A point in time is the number of ticks until then, 0 when it has passed *)
(* or was never set.  A renewer's lease token is its own name: it holds at *)
(* most one lease, and after a crash it begins anew.  Faults are taken     *)
(* from a budget.  The mailbox belongs to the configured owner.            *)
(***************************************************************************)
EXTENDS Integers

CONSTANTS Renewers,      \* worker processes and operator requests
          EXPIRY,        \* lifetime Gmail gives a watch
          RENEWAL,       \* GMAIL_WATCH_RENEWAL_SECONDS
          LEASE,         \* GMAIL_NOTIFICATION_LEASE_SECONDS
          BACKOFF_INITIAL, BACKOFF_MAX,   \* GMAIL_RETRY_BACKOFF_*_SECONDS
          MaxHist,       \* bound on the mailbox's history id
          MaxFaults,     \* bound on failures and crashes
          None

ASSUME DurationAssumption ==
    {EXPIRY, RENEWAL, LEASE, BACKOFF_INITIAL, BACKOFF_MAX} \subseteq Nat \ {0}
ASSUME BoundAssumption == MaxHist \in Nat \ {0} /\ MaxFaults \in Nat
ASSUME RenewerAssumption == None \notin Renewers \cup Nat

VARIABLES box,       \* the watch columns of the mailbox row, and its cursor
          gmail,     \* ticks Gmail will go on publishing
          hist,      \* newest history id; each stands for one message
          renewer,
          triaged,   \* history: messages up to the baseline, and those jobs dealt with
          faults

vars == <<box, gmail, hist, renewer, triaged, faults>>

HistIds == 1..MaxHist
MaxTries == MaxFaults      \* every failed attempt is a fault

Box == [holder  : Renewers \cup {None},       \* watch_lease_token
        lease   : 0..LEASE,                   \* watch_lease_expires_at
        tries   : 0..MaxTries,                \* watch_renewal_attempt_count
        next    : 0..BACKOFF_MAX,             \* watch_renewal_next_attempt_at
        expires : 0..EXPIRY,                  \* watch_expires_at
        cursor  : HistIds \cup {None}]        \* history_cursor

Renewer == [pc      : {"idle", "claimed", "answered", "failing"},
            expires : 0..EXPIRY,              \* of Gmail's answer
            history : HistIds]

TypeOK ==
    /\ box \in Box
    /\ gmail \in 0..EXPIRY
    /\ hist \in HistIds
    /\ renewer \in [Renewers -> Renewer]
    /\ triaged \subseteq HistIds
    /\ faults \in 0..MaxFaults

Init ==
    /\ box = [holder |-> None, lease |-> 0, tries |-> 0, next |-> 0,
              expires |-> 0, cursor |-> None]
    /\ gmail = 0
    /\ hist = 1
    /\ renewer = [w \in Renewers |-> [pc |-> "idle", expires |-> 0, history |-> 1]]
    /\ triaged = {}
    /\ faults = MaxFaults

------------------------------------------------------------------------------

\* Faulty variant: the exponential delay is not capped.
RetryDelayUncapped(tries) == BACKOFF_INITIAL * 2 ^ (tries - 1)

\* _retry_at: exponential, up to the cap.
RetryDelay(tries) ==
    LET exponent == IF tries - 1 <= 30 THEN tries - 1 ELSE 30
        delay == BACKOFF_INITIAL * 2 ^ exponent
    IN  IF delay \in 1..BACKOFF_MAX THEN delay ELSE BACKOFF_MAX

Goto(w, pc) == renewer' = [renewer EXCEPT ![w].pc = pc]

Fault == faults > 0 /\ faults' = faults - 1

\* Faulty variant: a lease that is held blocks, lapsed or not.
ClaimRenewalUnheld(w) ==
    /\ renewer[w].pc = "idle"
    /\ box.next = 0
    /\ box.expires <= RENEWAL
    /\ box.holder = None
    /\ box' = [box EXCEPT !.holder = w, !.lease = LEASE]
    /\ Goto(w, "claimed")
    /\ UNCHANGED <<gmail, hist, triaged, faults>>

\* claim_watch_renewal: after the backoff, when the watch is about to expire,
\* and when nobody holds a lease that is still running.
ClaimRenewal(w) ==
    /\ renewer[w].pc = "idle"
    /\ box.next = 0
    /\ box.expires <= RENEWAL
    /\ box.lease = 0
    /\ box' = [box EXCEPT !.holder = w, !.lease = LEASE]
    /\ Goto(w, "claimed")
    /\ UNCHANGED <<gmail, hist, triaged, faults>>

\* Gmail starts a new watch and answers with its expiration and the newest
\* history id.
Watch(w) ==
    /\ renewer[w].pc = "claimed"
    /\ gmail' = EXPIRY
    /\ renewer' = [renewer EXCEPT ![w] = [pc |-> "answered", expires |-> EXPIRY, history |-> hist]]
    /\ UNCHANGED <<box, hist, triaged, faults>>

\* No credentials, an error, a deadline or an unusable answer: the watch may
\* have been started all the same.
WatchFails(w) ==
    /\ renewer[w].pc = "claimed"
    /\ Fault
    /\ gmail' \in {gmail, EXPIRY}
    /\ Goto(w, "failing")
    /\ UNCHANGED <<box, hist, triaged>>

\* The baseline is what the first recorded answer found in the mailbox.
Baseline(w) ==
    triaged' = IF box.holder = w /\ box.cursor = None THEN 1..renewer[w].history ELSE triaged

\* Faulty variant: every renewal sets the cursor.
CompleteRebases(w) ==
    /\ renewer[w].pc = "answered"
    /\ IF box.holder = w
       THEN box' = [holder |-> None, lease |-> 0, tries |-> 0, next |-> 0,
                    expires |-> renewer[w].expires, cursor |-> renewer[w].history]
       ELSE UNCHANGED box
    /\ Baseline(w)
    /\ Goto(w, "idle")
    /\ UNCHANGED <<gmail, hist, faults>>

\* Faulty variant: the lifetime is counted from when the answer is recorded.
CompleteFromNow(w) ==
    /\ renewer[w].pc = "answered"
    /\ IF box.holder = w
       THEN box' = [holder |-> None, lease |-> 0, tries |-> 0, next |-> 0, expires |-> EXPIRY,
                    cursor |-> IF box.cursor = None THEN renewer[w].history ELSE box.cursor]
       ELSE UNCHANGED box
    /\ Baseline(w)
    /\ Goto(w, "idle")
    /\ UNCHANGED <<gmail, hist, faults>>

\* complete_watch_renewal: only with the token of the lease, lapsed or not.
Complete(w) ==
    /\ renewer[w].pc = "answered"
    /\ IF box.holder = w
       THEN box' = [holder |-> None, lease |-> 0, tries |-> 0, next |-> 0,
                    expires |-> renewer[w].expires,
                    cursor |-> IF box.cursor = None THEN renewer[w].history ELSE box.cursor]
       ELSE UNCHANGED box
    /\ Baseline(w)
    /\ Goto(w, "idle")
    /\ UNCHANGED <<gmail, hist, faults>>

\* The recording transaction fails.
CompleteFails(w) ==
    /\ renewer[w].pc = "answered"
    /\ Fault
    /\ Goto(w, "failing")
    /\ UNCHANGED <<box, gmail, hist, triaged>>

\* fail_watch_renewal
RecordFailure(w) ==
    /\ renewer[w].pc = "failing"
    /\ IF box.holder = w
       THEN box' = [box EXCEPT !.holder = None, !.lease = 0, !.tries = @ + 1,
                               !.next = RetryDelay(box.tries + 1)]
       ELSE UNCHANGED box
    /\ Goto(w, "idle")
    /\ UNCHANGED <<gmail, hist, triaged, faults>>

\* The process dies, or recording the failure fails: the lease stays.
Crash(w) ==
    /\ renewer[w].pc # "idle"
    /\ Fault
    /\ Goto(w, "idle")
    /\ UNCHANGED <<box, gmail, hist, triaged>>

------------------------------------------------------------------------------
(* Environment *)

Arrive ==
    /\ hist < MaxHist
    /\ hist' = hist + 1
    /\ UNCHANGED <<box, gmail, renewer, triaged, faults>>

\* Notification jobs deal with the messages after the cursor and advance it.
JobsAdvance ==
    /\ box.cursor # None
    /\ \E h \in (box.cursor + 1)..hist :
          /\ triaged' = triaged \cup (box.cursor + 1)..h
          /\ box' = [box EXCEPT !.cursor = h]
    /\ UNCHANGED <<gmail, hist, renewer, faults>>

Less(n) == IF n = 0 THEN 0 ELSE n - 1

TimePasses ==
    /\ box' = [box EXCEPT !.lease = Less(@), !.next = Less(@), !.expires = Less(@)]
    /\ gmail' = Less(gmail)
    /\ renewer' = [w \in Renewers |-> [renewer[w] EXCEPT !.expires = Less(@)]]
    /\ UNCHANGED <<hist, triaged>>

\* The lease is about to lapse under a renewal that is still going on.
Overrun == box.lease = 1 /\ \E w \in Renewers : box.holder = w /\ renewer[w].pc # "idle"

Tick == TimePasses /\ ~Overrun /\ UNCHANGED faults

\* A fault, too: the default lease is longer than the deadlines of a
\* renewal's provider calls together.
LeaseOverrun == TimePasses /\ Overrun /\ Fault

RenewerStep(w) == ClaimRenewal(w) \/ Watch(w) \/ Complete(w) \/ RecordFailure(w)

FaultStep(w) == WatchFails(w) \/ CompleteFails(w) \/ Crash(w)

Next ==
    \/ \E w \in Renewers : RenewerStep(w) \/ FaultStep(w)
    \/ Arrive \/ JobsAdvance \/ Tick \/ LeaseOverrun

Spec == Init /\ [][Next]_vars

\* The worker loop calls renew_automation_watch for ever, and time passes.
LiveSpec == Spec /\ WF_vars(Tick) /\ \A w \in Renewers : WF_vars(RenewerStep(w))

------------------------------------------------------------------------------

\* The row never claims a longer watch than Gmail has granted: as long as
\* watch_valid is reported notifications do come, whichever of several
\* overlapping renewals was recorded and however late.
BeliefWithinGrant == box.expires <= gmail

\* However often the watch lapses and is renewed, each message since the
\* baseline is still after the cursor or was dealt with.
LapseLosesNothing ==
    box.cursor # None => 1..box.cursor \subseteq triaged

\* Through failures, backoffs and leases whose holder died, a lapsed watch is
\* always renewed again.
WatchComesBack == []<>(box.expires > 0)
==============================================================================
