--------------------------- MODULE PendingActions ---------------------------
(***************************************************************************)
(* server/services/pending_actions.py with the approve, reject and         *)
(* reconcile routes that drive it, the provider write of                   *)
(* server/services/action_handlers.py and the retention pass.              *)
(*                                                                         *)
(* An agent's tool call stages a command as a pending_actions row; the     *)
(* owner approves or rejects it; an approval leases the row under a fresh  *)
(* attempt token, commits, and only then hands one write to an SDK thread; *)
(* the request finalizes the row, fenced on status and token; a request    *)
(* that dies leaves the row processing until its lease lapses, and an      *)
(* operator settles ambiguous rows by looking the command's marker up.     *)
(*                                                                         *)
(* Each database transaction is one step.  A request that spans several    *)
(* transactions or awaits a provider has a control state (pc) between      *)
(* them, so everything else may happen in between.                         *)
(***************************************************************************)
EXTENDS Integers, FiniteSets

CONSTANTS Actions,     \* action identifiers (UUID primary keys)
          Keys,        \* command keys issued by agent runs
          Payloads,    \* canonical (action_type, payload) pairs
          KindOf,      \* the provider each payload is for
          Tokens,      \* attempt tokens, drawn at random and never twice
          Creators,    \* deliveries of a mutation tool call
          Operators,   \* authorised reconciliation requests
          TTL,         \* PENDING_ACTION_TTL
          LEASE,       \* PROCESSING_LEASE
          RETENTION,   \* PENDING_ACTION_RETENTION_DAYS
          MaxTime,     \* bound on the clock
          None

ASSUME ParametersAssumption ==
    /\ TTL \in Nat \ {0}
    /\ LEASE \in Nat \ {0}
    /\ RETENTION \in Nat \ {0}
    /\ MaxTime \in Nat

ASSUME NoneAssumption ==
    None \notin Actions \cup Keys \cup Payloads \cup Tokens

ASSUME KindAssumption ==
    \A p \in Payloads : KindOf[p] \in {"gmail", "calendar", "tasks"}

VARIABLES now,       \* the database server's clock
          row,       \* pending_actions
          audit,     \* pending_action_audit_events: <<old_status, new_status>>
          attempt,   \* approve requests from claim to response, by token
          creator,   \* create_pending_action calls
          operator   \* reconcile_pending_action calls

vars == <<now, row, audit, attempt, creator, operator>>

------------------------------------------------------------------------------
(* Types *)

NoTime == -1   \* a NULL timestamp

Stored == {"pending", "processing", "succeeded", "failed", "rejected",
           "expired", "reconciliation_required"}
Status == Stored \cup {"absent", "deleted"}
Resolved == {"succeeded", "failed", "rejected", "expired"}

\* error_code, up to the differences a property needs.
Errors == {"none", "payload_integrity_mismatch", "processing_lease_expired",
           "failed_before_dispatch", "provider_rejected",
           "provider_outcome_unknown", "provider_not_found",
           "lookup_inconclusive"}

Row == [status    : Status,
        key       : Keys \cup {None},
        payload   : Payloads \cup {None},
        intact    : BOOLEAN,           \* stored payload still matches its hash
        expires   : Int,
        token     : Tokens \cup {None},
        lease     : Int,
        processed : Int,
        error     : Errors]

\* The write a request handed to an SDK thread, as the provider sees it.
Writes == {"none", "inflight", "accepted", "rejected", "conflict", "lost"}

AttemptPc == {"unused", "claimed", "calling", "not_dispatched", "confirmed_failure",
              "ambiguous", "success", "done"}

Attempt == [act : Actions \cup {None}, pc : AttemptPc, write : Writes]

Creator == [pc      : {"idle", "insert", "reread", "conflict", "failed", "returned"},
            key     : Keys \cup {None},
            payload : Payloads \cup {None},
            got     : Actions \cup {None}]

Operator == [pc      : {"idle", "lookup", "apply"},
             act     : Actions \cup {None},
             outcome : {"none", "succeeded", "failed", "inconclusive"}]

TypeOK ==
    /\ now \in 0..MaxTime
    /\ row \in [Actions -> Row]
    /\ audit \in [Actions -> SUBSET (Status \X Status)]
    /\ attempt \in [Tokens -> Attempt]
    /\ creator \in [Creators -> Creator]
    /\ operator \in [Operators -> Operator]

Init ==
    /\ now = 0
    /\ row = [a \in Actions |->
                [status |-> "absent", key |-> None, payload |-> None,
                 intact |-> TRUE, expires |-> NoTime, token |-> None,
                 lease |-> NoTime, processed |-> NoTime, error |-> "none"]]
    /\ audit = [a \in Actions |-> {}]
    /\ attempt = [t \in Tokens |-> [act |-> None, pc |-> "unused", write |-> "none"]]
    /\ creator = [c \in Creators |->
                    [pc |-> "idle", key |-> None, payload |-> None, got |-> None]]
    /\ operator = [o \in Operators |->
                     [pc |-> "idle", act |-> None, outcome |-> "none"]]

------------------------------------------------------------------------------
(* Rows *)

Live(a) == row[a].status \in Stored

LeaseLapsed(a) == row[a].lease = NoTime \/ row[a].lease <= now

\* A row's status change, its timestamp and its audit event, in one transaction.
SetStatus(a, new, error) ==
    /\ row' = [row EXCEPT ![a] = [@ EXCEPT !.status = new,
                                           !.error = error,
                                           !.processed = now]]
    /\ audit' = [audit EXCEPT ![a] = @ \cup {<<row[a].status, new>>}]

\* Faulty variant: the reason ends up in the status column.
MarkReasonAsStatus(a, reason) == SetStatus(a, reason, reason)

MarkReconciliationRequired(a, reason) ==
    SetStatus(a, "reconciliation_required", reason)

------------------------------------------------------------------------------
(* create_pending_action *)

\* Faulty variant: the command key alone decides, whatever the payload.
AnswerExistingByKeyOnly(c, a, k, p) ==
    creator' = [creator EXCEPT ![c] =
        [pc |-> "returned", key |-> k, payload |-> p, got |-> a]]

\* What the SELECT by (owner, command_key) answers when it finds row a.
AnswerExisting(c, a, k, p) ==
    creator' = [creator EXCEPT ![c] =
        [pc      |-> IF row[a].payload = p THEN "returned" ELSE "conflict",
         key     |-> k,
         payload |-> p,
         got     |-> IF row[a].payload = p THEN a ELSE None]]

CreateSelect(c, k, p) ==
    /\ creator[c].pc = "idle"
    /\ \/ \E a \in Actions : /\ Live(a) /\ row[a].key = k
                             /\ AnswerExisting(c, a, k, p)
       \/ /\ \A a \in Actions : ~(Live(a) /\ row[a].key = k)
          /\ creator' = [creator EXCEPT ![c] =
                [pc |-> "insert", key |-> k, payload |-> p, got |-> None]]
    /\ UNCHANGED <<now, row, audit, attempt, operator>>

\* The INSERT commits and the new row is returned.
CreateInsert(c) ==
    /\ creator[c].pc = "insert"
    /\ \A a \in Actions : ~(Live(a) /\ row[a].key = creator[c].key)
    /\ \E a \in Actions :
          /\ row[a].status = "absent"
          /\ row' = [row EXCEPT ![a] = [@ EXCEPT !.status = "pending",
                                                 !.key = creator[c].key,
                                                 !.payload = creator[c].payload,
                                                 !.expires = now + TTL]]
          /\ creator' = [creator EXCEPT ![c] =
                [pc |-> "returned", key |-> @.key, payload |-> @.payload, got |-> a]]
    /\ UNCHANGED <<now, audit, attempt, operator>>

\* The unique (user_id, command_key) index refuses the INSERT: rollback.
CreateLosesRace(c) ==
    /\ creator[c].pc = "insert"
    /\ \E a \in Actions : Live(a) /\ row[a].key = creator[c].key
    /\ creator' = [creator EXCEPT ![c] = [@ EXCEPT !.pc = "reread"]]
    /\ UNCHANGED <<now, row, audit, attempt, operator>>

\* The row that won is read and compared; if retention has deleted it meanwhile,
\* the refusal is raised.
CreateRereads(c) ==
    /\ creator[c].pc = "reread"
    /\ \/ \E a \in Actions :
             /\ Live(a) /\ row[a].key = creator[c].key
             /\ AnswerExisting(c, a, creator[c].key, creator[c].payload)
       \/ /\ \A a \in Actions : ~(Live(a) /\ row[a].key = creator[c].key)
          /\ creator' = [creator EXCEPT ![c] = [@ EXCEPT !.pc = "failed"]]
    /\ UNCHANGED <<now, row, audit, attempt, operator>>

------------------------------------------------------------------------------
(* reject_pending_action; out-of-band edits of a stored payload *)

\* Faulty variant: an action whose write may be under way is rejected as well.
RejectUnlessResolved(a) ==
    /\ row[a].status \in {"pending", "processing"}
    /\ SetStatus(a, "rejected", "none")
    /\ UNCHANGED <<now, attempt, creator, operator>>

Reject(a) ==
    /\ row[a].status = "pending"
    /\ SetStatus(a, "rejected", "none")
    /\ UNCHANGED <<now, attempt, creator, operator>>

Tamper(a) ==
    /\ row[a].status = "pending"
    /\ row[a].intact
    /\ row' = [row EXCEPT ![a] = [@ EXCEPT !.intact = FALSE]]
    /\ UNCHANGED <<now, audit, attempt, creator, operator>>

------------------------------------------------------------------------------
(* claim_pending_action: the first transaction of an approve request *)

ClaimFindsLapsedLease(a) ==
    /\ row[a].status = "processing"
    /\ LeaseLapsed(a)
    /\ MarkReconciliationRequired(a, "processing_lease_expired")
    /\ UNCHANGED <<now, attempt, creator, operator>>

ClaimFindsExpired(a) ==
    /\ row[a].status = "pending"
    /\ row[a].expires <= now
    /\ SetStatus(a, "expired", "none")
    /\ UNCHANGED <<now, attempt, creator, operator>>

ClaimFindsTampering(a) ==
    /\ row[a].status = "pending"
    /\ row[a].expires > now
    /\ ~row[a].intact
    /\ MarkReconciliationRequired(a, "payload_integrity_mismatch")
    /\ UNCHANGED <<now, attempt, creator, operator>>

\* Faulty variant: a lapsed lease is taken over and the command run again.
ClaimTakingOver(a, t) ==
    /\ \/ row[a].status = "pending" /\ row[a].expires > now
       \/ row[a].status = "processing" /\ LeaseLapsed(a)
    /\ row[a].intact
    /\ attempt[t].pc = "unused"
    /\ row' = [row EXCEPT ![a] = [@ EXCEPT !.status = "processing",
                                           !.token = t,
                                           !.lease = now + LEASE]]
    /\ audit' = [audit EXCEPT ![a] = @ \cup {<<"pending", "processing">>}]
    /\ attempt' = [attempt EXCEPT ![t] = [act |-> a, pc |-> "claimed", write |-> "none"]]
    /\ UNCHANGED <<now, creator, operator>>

Claim(a, t) ==
    /\ row[a].status = "pending"
    /\ row[a].expires > now
    /\ row[a].intact
    /\ attempt[t].pc = "unused"
    /\ row' = [row EXCEPT ![a] = [@ EXCEPT !.status = "processing",
                                           !.token = t,
                                           !.lease = now + LEASE]]
    /\ audit' = [audit EXCEPT ![a] = @ \cup {<<"pending", "processing">>}]
    /\ attempt' = [attempt EXCEPT ![t] = [act |-> a, pc |-> "claimed", write |-> "none"]]
    /\ UNCHANGED <<now, creator, operator>>

------------------------------------------------------------------------------
(* The rest of the approve request: services, execute_action, finalize *)

\* Credentials or the API client could not be obtained, or the payload is not
\* one execute_action accepts: no write was built.
ServicesUnavailable(t) ==
    /\ attempt[t].pc = "claimed"
    /\ attempt' = [attempt EXCEPT ![t] = [@ EXCEPT !.pc = "not_dispatched"]]
    /\ UNCHANGED <<now, row, audit, creator, operator>>

\* The runner has no capacity before the deadline, or building the message
\* fails: reported as an unknown outcome although nothing was sent.
NotAdmitted(t) ==
    /\ attempt[t].pc = "claimed"
    /\ attempt' = [attempt EXCEPT ![t] = [@ EXCEPT !.pc = "ambiguous"]]
    /\ UNCHANGED <<now, row, audit, creator, operator>>

Dispatch(t) ==
    /\ attempt[t].pc = "claimed"
    /\ attempt' = [attempt EXCEPT ![t] =
                     [act |-> @.act, pc |-> "calling", write |-> "inflight"]]
    /\ UNCHANGED <<now, row, audit, creator, operator>>

\* Faulty variant: a deadline that passes is taken for a write that failed.
VerdictsTimeoutFails(w) ==
    CASE w = "accepted" -> {"success", "ambiguous"}
      [] w \in {"rejected", "inflight"} -> {"confirmed_failure", "ambiguous"}
      [] OTHER          -> {"ambiguous"}

\* What the awaiting request makes of the write: a definite answer, or -- lost
\* response, 5xx, exhausted quota, answer without an id, deadline passed while
\* the thread is still running -- an unknown one.
Verdicts(w) ==
    CASE w = "accepted" -> {"success", "ambiguous"}
      [] w = "rejected" -> {"confirmed_failure", "ambiguous"}
      [] OTHER          -> {"ambiguous"}

\* Faulty variant: the request waits for its thread without a deadline.
AnswerWithoutDeadline(t) ==
    /\ attempt[t].pc = "calling"
    /\ attempt[t].write # "inflight"
    /\ \E v \in Verdicts(attempt[t].write) :
          attempt' = [attempt EXCEPT ![t] = [@ EXCEPT !.pc = v]]
    /\ UNCHANGED <<now, row, audit, creator, operator>>

Answer(t) ==
    /\ attempt[t].pc = "calling"
    /\ \E v \in Verdicts(attempt[t].write) :
          attempt' = [attempt EXCEPT ![t] = [@ EXCEPT !.pc = v]]
    /\ UNCHANGED <<now, row, audit, creator, operator>>

HoldsClaim(t, a) == row[a].status = "processing" /\ row[a].token = t

\* What _finalize_claimed_action does to the row its request still holds.
RecordVerdict(t, a) ==
    IF LeaseLapsed(a)
    THEN MarkReconciliationRequired(a, "processing_lease_expired")
    ELSE CASE attempt[t].pc = "ambiguous" ->
                MarkReconciliationRequired(a, "provider_outcome_unknown")
           [] attempt[t].pc = "success" ->
                SetStatus(a, "succeeded", "none")
           [] attempt[t].pc = "confirmed_failure" ->
                SetStatus(a, "failed", "provider_rejected")
           [] OTHER ->
                SetStatus(a, "failed", "failed_before_dispatch")

Finalize(t) ==
    LET a == attempt[t].act IN
    /\ attempt[t].pc \in {"not_dispatched", "confirmed_failure", "ambiguous", "success"}
    /\ \/ HoldsClaim(t, a) /\ RecordVerdict(t, a)
       \/ ~HoldsClaim(t, a) /\ UNCHANGED <<row, audit>>
    /\ attempt' = [attempt EXCEPT ![t] = [@ EXCEPT !.pc = "done"]]
    /\ UNCHANGED <<now, creator, operator>>

\* The client disconnects or the process dies: the request ends where it is.
\* A write already handed over goes its own way.
Abandon(t) ==
    /\ attempt[t].pc \notin {"unused", "done"}
    /\ attempt' = [attempt EXCEPT ![t] = [@ EXCEPT !.pc = "done"]]
    /\ UNCHANGED <<now, row, audit, creator, operator>>

------------------------------------------------------------------------------
(* The provider *)

Key(t) == row[attempt[t].act].key
Kind(a) == KindOf[row[a].payload]

\* The marked objects the provider holds for a command key.
Accepted(k) == {t \in Tokens : attempt[t].write = "accepted" /\ Key(t) = k}

\* Calendar event ids are derived from the command key: a second insert conflicts.
IdTaken(t) == Kind(attempt[t].act) = "calendar" /\ Accepted(Key(t)) # {}

SetWrite(t, w) ==
    /\ attempt[t].write = "inflight"
    /\ attempt' = [attempt EXCEPT ![t] = [@ EXCEPT !.write = w]]
    /\ UNCHANGED <<now, row, audit, creator, operator>>

Accept(t) == SetWrite(t, "accepted") /\ ~IdTaken(t)
Conflict(t) == SetWrite(t, "conflict") /\ IdTaken(t)
Refuse(t) == SetWrite(t, "rejected")
Lose(t) == SetWrite(t, "lost")

------------------------------------------------------------------------------
(* reconcile_pending_action *)

\* Faulty variant: a processing row is nobody's business but its request's.
ReconcileBeginAmbiguousOnly(o, a) ==
    /\ operator[o].pc = "idle"
    /\ row[a].status = "reconciliation_required"
    /\ operator' = [operator EXCEPT ![o] =
                      [pc |-> "lookup", act |-> a, outcome |-> "none"]]
    /\ UNCHANGED <<now, row, audit, attempt, creator>>

\* First transaction: promote a lapsed lease; only ambiguous rows go on.
ReconcileBegin(o, a) ==
    /\ operator[o].pc = "idle"
    /\ \/ /\ row[a].status = "processing"
          /\ LeaseLapsed(a)
          /\ MarkReconciliationRequired(a, "processing_lease_expired")
       \/ /\ row[a].status = "reconciliation_required"
          /\ UNCHANGED <<row, audit>>
    /\ operator' = [operator EXCEPT ![o] =
                      [pc |-> "lookup", act |-> a, outcome |-> "none"]]
    /\ UNCHANGED <<now, attempt, creator>>

\* Faulty variant: anything but a plural result counts as the command's object.
FindingsWithoutMissing(a) ==
    LET found == Accepted(row[a].key) IN
    {"inconclusive"}
    \cup (IF Cardinality(found) <= 1 THEN {"succeeded"} ELSE {})

\* What a marker lookup may conclude.  Credentials, transport, a changed
\* payload or a foreign object always leave it inconclusive; a missing task is
\* inconclusive too, a missing message or event is a failure.
Findings(a) ==
    LET found == Accepted(row[a].key) IN
    {"inconclusive"}
    \cup (IF found = {} /\ Kind(a) # "tasks" THEN {"failed"} ELSE {})
    \cup (IF \E t \in Tokens : found = {t} THEN {"succeeded"} ELSE {})

ReconcileLookup(o) ==
    /\ operator[o].pc = "lookup"
    /\ \E f \in Findings(operator[o].act) :
          operator' = [operator EXCEPT ![o] = [pc |-> "apply", act |-> @.act, outcome |-> f]]
    /\ UNCHANGED <<now, row, audit, attempt, creator>>

\* Second transaction: apply the outcome to a row that is still ambiguous.
ApplyFinding(a, f) ==
    \/ f = "succeeded" /\ SetStatus(a, "succeeded", "none")
    \/ f = "failed" /\ SetStatus(a, "failed", "provider_not_found")
    \/ /\ f = "inconclusive"
       /\ row' = [row EXCEPT ![a] = [@ EXCEPT !.error = "lookup_inconclusive"]]
       /\ audit' = [audit EXCEPT ![a] = @ \cup {<<row[a].status, row[a].status>>}]

ReconcileApply(o) ==
    LET a == operator[o].act IN
    /\ operator[o].pc = "apply"
    /\ \/ /\ row[a].status = "reconciliation_required"
          /\ ApplyFinding(a, operator[o].outcome)
       \/ /\ row[a].status # "reconciliation_required"
          /\ UNCHANGED <<row, audit>>
    /\ operator' = [operator EXCEPT ![o] =
                      [pc |-> "idle", act |-> None, outcome |-> "none"]]
    /\ UNCHANGED <<now, attempt, creator>>

------------------------------------------------------------------------------
(* prune_retained_records, and time *)

\* Faulty variant: the sweep looks at the expiry time alone.
StaleWhateverItsStatus ==
    {a \in Actions : row[a].status \in {"pending", "processing"} /\ row[a].expires <= now}

Stale == {a \in Actions : row[a].status = "pending" /\ row[a].expires <= now}

Outdated == {a \in Actions : /\ row[a].status \in Resolved
                             /\ row[a].processed # NoTime
                             /\ row[a].processed < now - RETENTION}

\* Faulty variant: the bulk UPDATE leaves no audit events.
PruneUnaudited(swept) ==
    /\ swept \subseteq Stale
    /\ swept \cup Outdated # {}
    /\ row' = [a \in Actions |->
                 IF a \in swept
                 THEN [row[a] EXCEPT !.status = "expired", !.processed = now]
                 ELSE IF a \in Outdated THEN [row[a] EXCEPT !.status = "deleted"]
                 ELSE row[a]]
    /\ audit' = [a \in Actions |-> IF a \in Outdated THEN {} ELSE audit[a]]
    /\ UNCHANGED <<now, attempt, creator, operator>>

\* One transaction: expire_stale_actions sweeps the stale rows that no approval
\* holds locked (any subset), then resolved rows past the cutoff are deleted
\* with their audit events.
Prune(swept) ==
    /\ swept \subseteq Stale
    /\ swept \cup Outdated # {}
    /\ row' = [a \in Actions |->
                 IF a \in swept
                 THEN [row[a] EXCEPT !.status = "expired", !.processed = now]
                 ELSE IF a \in Outdated THEN [row[a] EXCEPT !.status = "deleted"]
                 ELSE row[a]]
    /\ audit' = [a \in Actions |->
                   IF a \in swept THEN audit[a] \cup {<<"pending", "expired">>}
                   ELSE IF a \in Outdated THEN {} ELSE audit[a]]
    /\ UNCHANGED <<now, attempt, creator, operator>>

Tick ==
    /\ now < MaxTime
    /\ now' = now + 1
    /\ UNCHANGED <<row, audit, attempt, creator, operator>>

------------------------------------------------------------------------------

RequestStep(t) ==
    ServicesUnavailable(t) \/ NotAdmitted(t) \/ Dispatch(t) \/ Answer(t) \/ Finalize(t)

ProviderStep(t) == Accept(t) \/ Conflict(t) \/ Refuse(t) \/ Lose(t)

Next ==
    \/ \E c \in Creators : \/ \E k \in Keys, p \in Payloads : CreateSelect(c, k, p)
                           \/ CreateInsert(c)
                           \/ CreateLosesRace(c) \/ CreateRereads(c)
    \/ \E a \in Actions : \/ Reject(a)
                          \/ Tamper(a)
                          \/ ClaimFindsLapsedLease(a)
                          \/ ClaimFindsExpired(a)
                          \/ ClaimFindsTampering(a)
                          \/ \E t \in Tokens : Claim(a, t)
                          \/ \E o \in Operators : ReconcileBegin(o, a)
    \/ \E t \in Tokens : RequestStep(t) \/ ProviderStep(t) \/ Abandon(t)
    \/ \E o \in Operators : ReconcileLookup(o) \/ ReconcileApply(o)
    \/ \E swept \in SUBSET Actions : Prune(swept)
    \/ Tick

Spec == Init /\ [][Next]_vars

------------------------------------------------------------------------------
(* Safety *)

Dispatched(t) == attempt[t].write # "none"

\* README "Single Dispatch": two writes never go out for the same command.  The
\* claim is taken once per row and the unique index keeps one row per command
\* key; only a key reused after retention deleted its row starts afresh.
OncePerCommand ==
    \A t, u \in Tokens :
        t # u /\ Dispatched(t) /\ Dispatched(u) /\ Key(t) = Key(u)
        => "deleted" \in {row[attempt[t].act].status, row[attempt[u].act].status}

\* claim_pending_action commits before any side effect: a write that left the
\* process belongs to an action that was claimed, and that neither a concurrent
\* rejection nor an expiry sweep can have turned back.
EffectNeedsApproval ==
    \A t \in Tokens : Dispatched(t) =>
        LET a == attempt[t].act IN
        \/ row[a].status = "deleted"
        \/ /\ row[a].status \notin {"absent", "pending", "rejected", "expired"}
           /\ <<"pending", "processing">> \in audit[a]

\* A succeeded action has an object at the provider that carries its command
\* key, whether its request or an operator's lookup recorded the success.
SucceededMeansAccepted ==
    \A a \in Actions : row[a].status = "succeeded" => Accepted(row[a].key) # {}

\* "A write that may have reached Google is never reported as safe to retry"
\* (action_handlers.py): a failure the approve request itself recorded is of a
\* write that was not and will not be accepted.
ConfirmedFailureNotAccepted ==
    \A a \in Actions :
        row[a].status = "failed" /\ row[a].error # "provider_not_found"
        => \A t \in Tokens : attempt[t].act = a =>
              attempt[t].pc = "done" /\ attempt[t].write \in {"none", "rejected"}

\* create_pending_action under concurrent duplicate deliveries: whoever is given
\* an action is given its own command, never another payload under the same key.
CreateReturnsItsCommand ==
    \A c \in Creators : creator[c].pc = "returned" =>
        /\ creator[c].got \in Actions
        /\ row[creator[c].got].key = creator[c].key
        /\ row[creator[c].got].payload = creator[c].payload

\* The audit events of a stored action form one chain of status changes from
\* "pending" to its present status: none is missing and none leads elsewhere.
AuditEndsAtStatus ==
    \A a \in Actions : Live(a) =>
        LET events == {e \in audit[a] : e[1] # e[2]} IN
        /\ \A e \in events : e[1] = "pending" \/ \E f \in events : f[2] = e[1]
        /\ row[a].status = "pending" \/ \E e \in events : e[2] = row[a].status
        /\ \A e \in events : e[1] # row[a].status
        /\ \A e, f \in events : e[1] = f[1] => e = f

\* OPERATIONS.md: reconciliation "changes state only when the outcome is known";
\* README: "reconciliation_required --> failed : operator confirmed failure".
\* A failed action has no object at the provider.
FailedNeverAccepted ==
    \A t \in Tokens :
        attempt[t].write = "accepted" => row[attempt[t].act].status # "failed"

------------------------------------------------------------------------------
(* The inductive invariant behind the properties above *)

\* What a request knows at each of its control points.
AttemptShape ==
    \A t \in Tokens :
        /\ attempt[t].pc = "unused" <=> attempt[t].act = None
        /\ attempt[t].pc \in {"unused", "claimed", "not_dispatched"} => attempt[t].write = "none"
        /\ attempt[t].pc = "success" => attempt[t].write = "accepted"
        /\ attempt[t].pc = "confirmed_failure" => attempt[t].write = "rejected"

\* No row is ever leased a second time.
ClaimedOnce ==
    \A t, u \in Tokens :
        attempt[t].act # None /\ attempt[t].act = attempt[u].act => t = u

\* A lease is recorded, and is not undone by rejection or expiry.
ClaimRecorded ==
    \A t \in Tokens : attempt[t].act # None =>
        LET a == attempt[t].act IN
        /\ row[a].status \notin {"absent", "pending", "rejected", "expired"}
        /\ row[a].status # "deleted" => <<"pending", "processing">> \in audit[a]

\* A processing row names the request that holds it.
ClaimHeld ==
    \A a \in Actions : row[a].status = "processing" =>
        row[a].token \in Tokens /\ attempt[row[a].token].act = a

\* The unique index on (user_id, command_key).
OneRowPerCommand ==
    \A a, b \in Actions : Live(a) /\ Live(b) /\ row[a].key = row[b].key => a = b

\* An operator's positive finding stays true until it is applied.
FindingHolds ==
    \A o \in Operators : operator[o].pc # "idle" =>
        /\ operator[o].act \in Actions
        /\ row[operator[o].act].status # "absent"
        /\ operator[o].outcome = "succeeded" => Accepted(row[operator[o].act].key) # {}

ReturnedRowExists ==
    \A c \in Creators : creator[c].pc = "returned" =>
        creator[c].got \in Actions /\ row[creator[c].got].status # "absent"

\* A create call works for the command it was made with.
CreatorHasCommand ==
    \A c \in Creators : creator[c].pc # "idle" =>
        creator[c].key \in Keys /\ creator[c].payload \in Payloads

IInv ==
    /\ TypeOK
    /\ AttemptShape
    /\ CreatorHasCommand
    /\ ClaimedOnce
    /\ ClaimRecorded
    /\ ClaimHeld
    /\ OneRowPerCommand
    /\ FindingHolds
    /\ ReturnedRowExists
    /\ SucceededMeansAccepted
    /\ ConfirmedFailureNotAccepted
    /\ CreateReturnsItsCommand

------------------------------------------------------------------------------
(* The lifecycle promised to users *)

EffectsOf(a) == {t \in Tokens : attempt[t].act = a /\ attempt[t].write = "accepted"}

Lifecycle == INSTANCE ActionLifecycle WITH
    Effects  <- Tokens,
    status   <- [a \in Actions |-> row[a].status],
    command  <- [a \in Actions |-> row[a].key],
    approved <- {a \in Actions : \E t \in Tokens : attempt[t].act = a},
    effects  <- [a \in Actions |-> EffectsOf(a)]

\* Every step of every request, operator, sweep and provider thread is a step of
\* the documented lifecycle: resolved states are final, an effect follows an
\* approval and happens at most once, success is recorded only of an effect.
LifecycleRefined == Lifecycle!LifecycleSpec

------------------------------------------------------------------------------
(* Liveness *)

\* The event loop keeps running a request until it has answered: every await in
\* it is bounded by PROVIDER_TIMEOUT_SECONDS or is a database call.
RequestFairness == \A t \in Tokens : WF_vars(RequestStep(t))

\* Operators follow the runbook: a request once begun runs to its end, and an
\* action that can be reconciled is eventually taken up.
OperatorFairness ==
    /\ \A o \in Operators : WF_vars(ReconcileLookup(o) \/ ReconcileApply(o))
    /\ \A a \in Actions : SF_vars(\E o \in Operators : ReconcileBegin(o, a))

OperatedSpec == Spec /\ RequestFairness /\ WF_vars(Tick) /\ OperatorFairness

\* While its request lives nobody else is needed: a claimed action leaves
\* "processing" because the request always reaches its finalizer, even past a
\* dead provider and whether or not the lease ever lapses -- unless it crashes
\* (a request that is done and still holds its claim never finalized it).
ClaimSettlesItself ==
    \A t \in Tokens, a \in Actions :
        HoldsClaim(t, a) /\ attempt[t].pc # "done" ~> ~HoldsClaim(t, a) \/ attempt[t].pc = "done"

\* With crashes the lease is what frees the row: if its lapse lies within the
\* clock's bound and operators do their work, no action stays "processing".
NoActionStranded ==
    \A a \in Actions : (row[a].status = "processing" /\ row[a].lease <= MaxTime)
                           ~> row[a].status # "processing"
==============================================================================
