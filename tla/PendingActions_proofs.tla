------------------------ MODULE PendingActions_proofs ------------------------
(***************************************************************************)
(* Proofs about PendingActions for every set of actions, keys, payloads,   *)
(* requests and operators and every TTL, lease, retention and clock bound. *)
(***************************************************************************)
EXTENDS PendingActions, TLAPS

------------------------------------------------------------------------------
(* What each kind of transaction does to a row. *)

\* Overwriting several columns of a row leaves a row (SetStatus).
LEMMA RowWithStatus ==
  ASSUME NEW r \in Row, NEW s \in Status, NEW e \in Errors, NEW n \in Int
  PROVE  [r EXCEPT !.status = s, !.error = e, !.processed = n] \in Row
  <1> DEFINE r1 == [r EXCEPT !.status = s]
  <1>1. r1 \in Row
    BY DEF Row
  <1> HIDE DEF r1
  <1> DEFINE r2 == [r1 EXCEPT !.error = e]
  <1>2. r2 \in Row
    BY <1>1 DEF Row
  <1> HIDE DEF r2
  <1>3. [r2 EXCEPT !.processed = n] \in Row
    BY <1>2 DEF Row
  <1> QED
    BY <1>3 DEF r1, r2

\* The same for the columns a claim writes.
LEMMA RowWithLease ==
  ASSUME NEW r \in Row, NEW s \in Status, NEW t \in Tokens, NEW n \in Int
  PROVE  [r EXCEPT !.status = s, !.token = t, !.lease = n] \in Row
  <1> DEFINE r1 == [r EXCEPT !.status = s]
  <1>1. r1 \in Row
    BY DEF Row
  <1> HIDE DEF r1
  <1> DEFINE r2 == [r1 EXCEPT !.token = t]
  <1>2. r2 \in Row
    BY <1>1 DEF Row
  <1> HIDE DEF r2
  <1>3. [r2 EXCEPT !.lease = n] \in Row
    BY <1>2 DEF Row
  <1> QED
    BY <1>3 DEF r1, r2

\* The same for the columns an insert writes.
LEMMA RowWithCommand ==
  ASSUME NEW r \in Row, NEW s \in Status, NEW k \in Keys \cup {None},
         NEW p \in Payloads \cup {None}, NEW n \in Int
  PROVE  [r EXCEPT !.status = s, !.key = k, !.payload = p, !.expires = n] \in Row
  <1> DEFINE r1 == [r EXCEPT !.status = s]
  <1>1. r1 \in Row
    BY DEF Row
  <1> HIDE DEF r1
  <1> DEFINE r2 == [r1 EXCEPT !.key = k]
  <1>2. r2 \in Row
    BY <1>1 DEF Row
  <1> HIDE DEF r2
  <1> DEFINE r3 == [r2 EXCEPT !.payload = p]
  <1>3. r3 \in Row
    BY <1>2 DEF Row
  <1> HIDE DEF r3
  <1>4. [r3 EXCEPT !.expires = n] \in Row
    BY <1>3 DEF Row
  <1> QED
    BY <1>4 DEF r1, r2, r3

\* The same for the columns the expiry sweep writes.
LEMMA RowExpired ==
  ASSUME NEW r \in Row, NEW n \in Int
  PROVE  [r EXCEPT !.status = "expired", !.processed = n] \in Row
  <1> DEFINE r1 == [r EXCEPT !.status = "expired"]
  <1>1. r1 \in Row
    BY DEF Row, Status, Stored
  <1> HIDE DEF r1
  <1>2. [r1 EXCEPT !.processed = n] \in Row
    BY <1>1 DEF Row
  <1> QED
    BY <1>2 DEF r1

\* SetStatus: status, error and timestamp of one row, and one audit event.
LEMMA SetStatusEffect ==
  ASSUME TypeOK, NEW a \in Actions, NEW s \in Status, NEW e \in Errors,
         SetStatus(a, s, e)
  PROVE  /\ row' \in [Actions -> Row]
         /\ audit' \in [Actions -> SUBSET (Status \X Status)]
         /\ row'[a].status = s
         /\ row'[a].error = e
         /\ row'[a].key = row[a].key
         /\ row'[a].payload = row[a].payload
         /\ row'[a].token = row[a].token
         /\ \A b \in Actions : b # a => row'[b] = row[b]
         /\ \A b \in Actions : audit[b] \subseteq audit'[b]
  <1> DEFINE r == [row[a] EXCEPT !.status = s, !.error = e, !.processed = now]
  <1>0. row[a] \in Row /\ now \in Int
    BY ParametersAssumption DEF TypeOK
  <1>1. r \in Row
    BY <1>0, RowWithStatus, Zenon
  <1>2. /\ r.status = s /\ r.error = e /\ r.key = row[a].key
        /\ r.payload = row[a].payload /\ r.token = row[a].token
    BY DEF TypeOK, Row
  <1>3. row' = [row EXCEPT ![a] = r]
    BY DEF SetStatus
  <1> HIDE DEF r
  <1>4. /\ row' \in [Actions -> Row] /\ row'[a] = r
        /\ \A b \in Actions : b # a => row'[b] = row[b]
    BY <1>1, <1>3 DEF TypeOK
  <1>5. row[a].status \in Status
    BY DEF TypeOK, Row
  <1>6. /\ audit' \in [Actions -> SUBSET (Status \X Status)]
        /\ \A b \in Actions : audit[b] \subseteq audit'[b]
    BY <1>5 DEF SetStatus, TypeOK
  <1> QED
    BY <1>2, <1>4, <1>6

\* An inconclusive lookup: the error column and one audit event.
LEMMA InconclusiveEffect ==
  ASSUME TypeOK, NEW a \in Actions, ApplyFinding(a, "inconclusive")
  PROVE  /\ row' \in [Actions -> Row]
         /\ audit' \in [Actions -> SUBSET (Status \X Status)]
         /\ row'[a].status = row[a].status
         /\ row'[a].key = row[a].key
         /\ row'[a].payload = row[a].payload
         /\ row'[a].token = row[a].token
         /\ \A b \in Actions : b # a => row'[b] = row[b]
         /\ \A b \in Actions : audit[b] \subseteq audit'[b]
  <1> DEFINE r == [row[a] EXCEPT !.error = "lookup_inconclusive"]
  <1>1. r \in Row
    BY DEF TypeOK, Row, Errors
  <1>2. /\ r.status = row[a].status /\ r.key = row[a].key
        /\ r.payload = row[a].payload /\ r.token = row[a].token
    BY DEF TypeOK, Row
  <1>3. row' = [row EXCEPT ![a] = r]
    BY DEF ApplyFinding
  <1> HIDE DEF r
  <1>4. /\ row' \in [Actions -> Row] /\ row'[a] = r
        /\ \A b \in Actions : b # a => row'[b] = row[b]
    BY <1>1, <1>3 DEF TypeOK
  <1>5. row[a].status \in Status
    BY DEF TypeOK, Row
  <1>6. audit' = [audit EXCEPT ![a] = @ \cup {<<row[a].status, row[a].status>>}]
    BY DEF ApplyFinding
  <1>7. /\ audit' \in [Actions -> SUBSET (Status \X Status)]
        /\ \A b \in Actions : audit[b] \subseteq audit'[b]
    BY <1>5, <1>6 DEF TypeOK
  <1> QED
    BY <1>2, <1>4, <1>7

\* Claim: one pending row becomes processing under token t.
LEMMA ClaimEffect ==
  ASSUME TypeOK, NEW a \in Actions, NEW t \in Tokens, Claim(a, t)
  PROVE  /\ row' \in [Actions -> Row]
         /\ audit' \in [Actions -> SUBSET (Status \X Status)]
         /\ attempt' \in [Tokens -> Attempt]
         /\ row'[a].status = "processing"
         /\ row'[a].key = row[a].key
         /\ row'[a].payload = row[a].payload
         /\ row'[a].token = t
         /\ \A b \in Actions : b # a => row'[b] = row[b]
         /\ \A b \in Actions : audit[b] \subseteq audit'[b]
         /\ <<"pending", "processing">> \in audit'[a]
  <1> DEFINE r == [row[a] EXCEPT !.status = "processing", !.token = t, !.lease = now + LEASE]
  <1>0. row[a] \in Row /\ now + LEASE \in Int /\ "processing" \in Status
    BY ParametersAssumption DEF TypeOK, Status, Stored
  <1>1. r \in Row
    BY <1>0, RowWithLease, Zenon
  <1>2. /\ r.status = "processing" /\ r.key = row[a].key
        /\ r.payload = row[a].payload /\ r.token = t
    BY DEF TypeOK, Row
  <1>3. row' = [row EXCEPT ![a] = r]
    BY DEF Claim
  <1> HIDE DEF r
  <1>4. /\ row' \in [Actions -> Row] /\ row'[a] = r
        /\ \A b \in Actions : b # a => row'[b] = row[b]
    BY <1>1, <1>3 DEF TypeOK
  <1>5. /\ audit' \in [Actions -> SUBSET (Status \X Status)]
        /\ \A b \in Actions : audit[b] \subseteq audit'[b]
        /\ <<"pending", "processing">> \in audit'[a]
    BY DEF Claim, TypeOK, Status, Stored
  <1>6. attempt' \in [Tokens -> Attempt]
    BY DEF Claim, TypeOK, Attempt, AttemptPc, Writes
  <1> QED
    BY <1>2, <1>4, <1>5, <1>6

\* Insert: an absent row becomes pending under the creator's key and payload.
LEMMA InsertEffect ==
  ASSUME TypeOK, NEW c \in Creators, CreateInsert(c)
  PROVE  \E a \in Actions :
           /\ row[a].status = "absent"
           /\ row' \in [Actions -> Row]
           /\ creator' \in [Creators -> Creator]
           /\ row'[a].status = "pending"
           /\ row'[a].key = creator[c].key
           /\ row'[a].payload = creator[c].payload
           /\ \A b \in Actions : b # a => row'[b] = row[b]
           /\ creator' = [creator EXCEPT ![c] =
                [pc |-> "returned", key |-> creator[c].key,
                 payload |-> creator[c].payload, got |-> a]]
  <1>1. PICK a \in Actions :
          /\ row[a].status = "absent"
          /\ row' = [row EXCEPT ![a] = [row[a] EXCEPT !.status = "pending",
                                                      !.key = creator[c].key,
                                                      !.payload = creator[c].payload,
                                                      !.expires = now + TTL]]
          /\ creator' = [creator EXCEPT ![c] =
                [pc |-> "returned", key |-> creator[c].key,
                 payload |-> creator[c].payload, got |-> a]]
    BY DEF CreateInsert
  <1> DEFINE r == [row[a] EXCEPT !.status = "pending", !.key = creator[c].key,
                                 !.payload = creator[c].payload, !.expires = now + TTL]
  <1>0. /\ row[a] \in Row /\ now + TTL \in Int /\ "pending" \in Status
        /\ creator[c].key \in Keys \cup {None}
        /\ creator[c].payload \in Payloads \cup {None}
    BY ParametersAssumption DEF TypeOK, Creator, Status, Stored
  <1>2. r \in Row
    BY <1>0, RowWithCommand, Zenon
  <1>3. r.status = "pending" /\ r.key = creator[c].key /\ r.payload = creator[c].payload
    BY DEF TypeOK, Row
  <1>4. row' = [row EXCEPT ![a] = r]
    BY <1>1
  <1> HIDE DEF r
  <1>5. /\ row' \in [Actions -> Row] /\ row'[a] = r
        /\ \A b \in Actions : b # a => row'[b] = row[b]
    BY <1>2, <1>4 DEF TypeOK
  <1>6. creator' \in [Creators -> Creator]
    BY <1>1 DEF TypeOK, Creator
  <1> QED
    BY <1>1, <1>3, <1>5, <1>6

\* Retention: swept rows are expired, outdated rows deleted, the rest kept.
LEMMA PruneEffect ==
  ASSUME TypeOK, NEW swept \in SUBSET Actions, Prune(swept)
  PROVE  /\ row' \in [Actions -> Row]
         /\ audit' \in [Actions -> SUBSET (Status \X Status)]
         /\ \A a \in Actions :
              /\ row'[a].key = row[a].key
              /\ row'[a].payload = row[a].payload
              /\ row'[a].error = row[a].error
              /\ row'[a].token = row[a].token
              /\ a \in swept => row'[a].status = "expired"
              /\ a \in Outdated => row'[a].status = "deleted"
              /\ a \notin swept \cup Outdated => row'[a] = row[a]
              /\ a \notin Outdated => audit[a] \subseteq audit'[a]
  <1>1. \A a \in swept : row[a].status = "pending"
    BY DEF Prune, Stale
  <1>2. \A a \in Outdated : row[a].status \in Resolved
    BY DEF Outdated
  <1>3. swept \cap Outdated = {}
    BY <1>1, <1>2 DEF Resolved
  <1>4. ASSUME NEW a \in Actions
        PROVE  /\ row'[a] \in Row
               /\ row'[a].key = row[a].key
               /\ row'[a].payload = row[a].payload
               /\ row'[a].error = row[a].error
               /\ row'[a].token = row[a].token
               /\ a \in swept => row'[a].status = "expired"
               /\ a \in Outdated => row'[a].status = "deleted"
               /\ a \notin swept \cup Outdated => row'[a] = row[a]
    <2>1. row[a] \in Row
      BY DEF TypeOK
    <2>2. CASE a \in swept
      <3>1. row'[a] = [row[a] EXCEPT !.status = "expired", !.processed = now]
        BY <2>2 DEF Prune
      <3>2. now \in Int
        BY ParametersAssumption DEF TypeOK
      <3>3. row'[a] \in Row
        BY <2>1, <3>1, <3>2, RowExpired, Zenon
      <3> QED
        BY <1>3, <2>1, <2>2, <3>1, <3>3 DEF Row
    <2>3. CASE a \in Outdated /\ a \notin swept
      <3>1. row'[a] = [row[a] EXCEPT !.status = "deleted"]
        BY <2>3 DEF Prune
      <3> QED
        BY <2>1, <2>3, <3>1 DEF Row, Status
    <2>4. CASE a \notin swept \cup Outdated
      BY <2>1, <2>4 DEF Prune
    <2> QED
      BY <2>2, <2>3, <2>4
  <1>5. row' = [a \in Actions |-> row'[a]]
    BY DEF Prune
  <1>6. row' \in [Actions -> Row]
    BY <1>4, <1>5
  <1>7. ASSUME NEW a \in Actions
        PROVE  /\ audit'[a] \in SUBSET (Status \X Status)
               /\ a \notin Outdated => audit[a] \subseteq audit'[a]
    <2>1. audit[a] \in SUBSET (Status \X Status)
      BY DEF TypeOK
    <2>2. <<"pending", "expired">> \in Status \X Status
      BY DEF Status, Stored
    <2>3. audit'[a] = IF a \in swept THEN audit[a] \cup {<<"pending", "expired">>}
                      ELSE IF a \in Outdated THEN {} ELSE audit[a]
      BY DEF Prune
    <2> QED
      BY <2>1, <2>2, <2>3
  <1>8. audit' \in [Actions -> SUBSET (Status \X Status)]
    BY <1>7 DEF Prune
  <1> QED
    BY <1>4, <1>6, <1>7, <1>8

------------------------------------------------------------------------------
(* Type correctness *)

\* An empty table and idle requests are well typed.
LEMMA InitTypeOK == Init => TypeOK
  BY ParametersAssumption
  DEF Init, TypeOK, Row, Attempt, Creator, Operator, Status, Stored, Errors,
      Writes, AttemptPc, NoTime

\* A finalizer and an operator act on the action they name, which the invariant
\* says is a real one: types alone are not inductive.
LEMMA NextTypeOK == IInv /\ [Next]_vars => TypeOK'
  <1> SUFFICES ASSUME TypeOK, AttemptShape, FindingHolds, [Next]_vars PROVE TypeOK'
    BY DEF IInv
  <1> USE ParametersAssumption
  <1>1. ASSUME NEW c \in Creators, NEW k \in Keys, NEW p \in Payloads, CreateSelect(c, k, p)
        PROVE TypeOK'
    BY <1>1 DEF TypeOK, CreateSelect, AnswerExisting, Creator
  <1>2. ASSUME NEW c \in Creators, CreateInsert(c)
        PROVE TypeOK'
    BY <1>2, InsertEffect DEF TypeOK, CreateInsert
  <1>3. ASSUME NEW c \in Creators, CreateLosesRace(c) \/ CreateRereads(c)
        PROVE TypeOK'
    BY <1>3 DEF TypeOK, CreateLosesRace, CreateRereads, AnswerExisting, Creator
  <1>4. ASSUME NEW a \in Actions, Reject(a) \/ ClaimFindsExpired(a)
        PROVE TypeOK'
    BY <1>4, SetStatusEffect DEF TypeOK, Reject, ClaimFindsExpired, Status, Stored, Errors
  <1>5. ASSUME NEW a \in Actions, Tamper(a)
        PROVE TypeOK'
    <2> DEFINE r == [row[a] EXCEPT !.intact = FALSE]
    <2>1. r \in Row
      BY DEF TypeOK, Row
    <2>2. row' = [row EXCEPT ![a] = r] /\ UNCHANGED <<now, audit, attempt, creator, operator>>
      BY <1>5 DEF Tamper
    <2> HIDE DEF r
    <2> QED
      BY <2>1, <2>2 DEF TypeOK
  <1>6. ASSUME NEW a \in Actions, ClaimFindsLapsedLease(a) \/ ClaimFindsTampering(a)
        PROVE TypeOK'
    BY <1>6, SetStatusEffect
       DEF TypeOK, ClaimFindsLapsedLease, ClaimFindsTampering,
           MarkReconciliationRequired, Status, Stored, Errors
  <1>7. ASSUME NEW a \in Actions, NEW t \in Tokens, Claim(a, t)
        PROVE TypeOK'
    BY <1>7, ClaimEffect DEF TypeOK, Claim
  <1>8. ASSUME NEW t \in Tokens, ServicesUnavailable(t) \/ NotAdmitted(t) \/ Abandon(t)
        PROVE TypeOK'
    BY <1>8 DEF TypeOK, ServicesUnavailable, NotAdmitted, Abandon, Attempt, AttemptPc
  <1>9. ASSUME NEW t \in Tokens, Dispatch(t)
        PROVE TypeOK'
    BY <1>9 DEF TypeOK, Dispatch, Attempt, AttemptPc, Writes
  <1>10. ASSUME NEW t \in Tokens, Answer(t)
         PROVE TypeOK'
    <2>1. Verdicts(attempt[t].write) \subseteq AttemptPc
      BY DEF Verdicts, AttemptPc
    <2> QED
      BY <1>10, <2>1 DEF TypeOK, Answer, Attempt
  <1>11. ASSUME NEW t \in Tokens, Finalize(t)
         PROVE TypeOK'
    <2>1. attempt' \in [Tokens -> Attempt] /\ UNCHANGED <<now, creator, operator>>
      BY <1>11 DEF TypeOK, Finalize, Attempt, AttemptPc
    <2>2. CASE UNCHANGED <<row, audit>>
      BY <2>1, <2>2 DEF TypeOK
    <2>3. CASE attempt[t].act \in Actions /\ RecordVerdict(t, attempt[t].act)
      BY <2>1, <2>3, SetStatusEffect
         DEF RecordVerdict, MarkReconciliationRequired, TypeOK, Status, Stored, Errors
    <2>4. attempt[t].act \in Actions
      BY <1>11 DEF Finalize, AttemptShape, TypeOK, Attempt
    <2> QED
      BY <1>11, <2>2, <2>3, <2>4 DEF Finalize
  <1>12. ASSUME NEW t \in Tokens, ProviderStep(t)
         PROVE TypeOK'
    BY <1>12 DEF TypeOK, ProviderStep, Accept, Conflict, Refuse, Lose, SetWrite, Attempt, Writes
  <1>13. ASSUME NEW o \in Operators, NEW a \in Actions, ReconcileBegin(o, a)
         PROVE TypeOK'
    BY <1>13, SetStatusEffect
       DEF TypeOK, ReconcileBegin, MarkReconciliationRequired, Operator, Status, Stored, Errors
  <1>14. ASSUME NEW o \in Operators, ReconcileLookup(o)
         PROVE TypeOK'
    BY <1>14 DEF TypeOK, ReconcileLookup, Findings, Operator
  <1>15. ASSUME NEW o \in Operators, ReconcileApply(o)
         PROVE TypeOK'
    <2>1. operator[o].act \in Actions
      BY <1>15 DEF ReconcileApply, FindingHolds
    <2>2. operator' \in [Operators -> Operator] /\ UNCHANGED <<now, attempt, creator>>
      BY <1>15 DEF TypeOK, ReconcileApply, Operator
    <2>3. CASE UNCHANGED <<row, audit>>
      BY <2>2, <2>3 DEF TypeOK
    <2>4. CASE ApplyFinding(operator[o].act, operator[o].outcome)
      <3>1. CASE operator[o].outcome # "inconclusive"
        BY <2>1, <2>2, <2>4, <3>1, SetStatusEffect
           DEF TypeOK, ApplyFinding, Status, Stored, Errors
      <3>2. CASE operator[o].outcome = "inconclusive"
        BY <2>1, <2>2, <2>4, <3>2, InconclusiveEffect DEF TypeOK
      <3> QED
        BY <3>1, <3>2
    <2> QED
      BY <1>15, <2>3, <2>4 DEF ReconcileApply
  <1>16. ASSUME NEW swept \in SUBSET Actions, Prune(swept)
         PROVE TypeOK'
    BY <1>16, PruneEffect DEF TypeOK, Prune
  <1>17. CASE Tick
    BY <1>17 DEF TypeOK, Tick
  <1>18. CASE UNCHANGED vars
    BY <1>18 DEF TypeOK, vars
  <1> QED
    BY <1>1, <1>2, <1>3, <1>4, <1>5, <1>6, <1>7, <1>8, <1>9, <1>10, <1>11, <1>12,
       <1>13, <1>14, <1>15, <1>16, <1>17, <1>18 DEF Next, RequestStep

------------------------------------------------------------------------------
(* The inductive invariant *)

\* With no row and no request the invariant holds trivially.
LEMMA InitIInv == Init => IInv
  <1> SUFFICES ASSUME Init PROVE IInv
    OBVIOUS
  <1>1. TypeOK
    BY InitTypeOK
  <1>2. /\ AttemptShape /\ ClaimedOnce /\ ClaimRecorded /\ ClaimHeld
        /\ OneRowPerCommand /\ FindingHolds /\ ReturnedRowExists /\ CreatorHasCommand
    BY NoneAssumption
       DEF Init, AttemptShape, CreatorHasCommand, ClaimedOnce, ClaimRecorded, ClaimHeld, OneRowPerCommand,
           FindingHolds, ReturnedRowExists, Live, Stored
  <1>3. SucceededMeansAccepted /\ ConfirmedFailureNotAccepted /\ CreateReturnsItsCommand
    BY DEF Init, SucceededMeansAccepted, ConfirmedFailureNotAccepted, CreateReturnsItsCommand
  <1> QED
    BY <1>1, <1>2, <1>3 DEF IInv

\* The conjuncts that relate rows to requests, operators and creators.
RowsInv ==
    /\ ClaimedOnce
    /\ ClaimRecorded
    /\ ClaimHeld
    /\ OneRowPerCommand
    /\ FindingHolds
    /\ ReturnedRowExists
    /\ SucceededMeansAccepted
    /\ ConfirmedFailureNotAccepted
    /\ CreateReturnsItsCommand

\* Requests go on for the same action, an accepted write stays accepted, and a
\* finished request without a write in flight is over.
AttemptsEvolve ==
    \A t \in Tokens :
        /\ attempt'[t].act = attempt[t].act
        /\ attempt[t].write = "accepted" => attempt'[t].write = "accepted"
        /\ attempt[t].pc = "done" /\ attempt[t].write \in {"none", "rejected"}
             => attempt'[t].pc = "done" /\ attempt'[t].write = attempt[t].write

\* An operator goes on for the same action or starts with a sound finding.
OperatorsEvolve ==
    \A o \in Operators : operator'[o].pc # "idle" =>
        \/ operator'[o] = operator[o]
        \/ /\ operator'[o].act \in Actions
           /\ row[operator'[o].act].status # "absent"
           /\ operator'[o].outcome = "succeeded" => Accepted(row[operator'[o].act].key) # {}

\* A creator keeps what it was given, or is given a row with its command.
CreatorsEvolve ==
    \A c \in Creators : creator'[c].pc = "returned" =>
        \/ creator'[c] = creator[c]
        \/ /\ creator'[c].got \in Actions
           /\ row[creator'[c].got].status # "absent"
           /\ row[creator'[c].got].key = creator'[c].key
           /\ row[creator'[c].got].payload = creator'[c].payload

\* Row a goes to status s with error e; no other row changes.
RowMoves(a, s, e) ==
    /\ row'[a].status = s
    /\ row'[a].error = e
    /\ row'[a].key = row[a].key
    /\ row'[a].payload = row[a].payload
    /\ row'[a].token = row[a].token
    /\ \A b \in Actions : b # a => row'[b] = row[b]
    /\ \A b \in Actions : audit[b] \subseteq audit'[b]

\* Evidence of acceptance is never lost while keys and requests stay put.
LEMMA AcceptedGrows ==
  ASSUME IInv, AttemptsEvolve, NEW k,
         \A b \in Actions : row[b].status # "absent" => row'[b].key = row[b].key,
         Accepted(k) # {}
  PROVE  Accepted(k)' # {}
  <1>1. PICK t \in Tokens : attempt[t].write = "accepted" /\ Key(t) = k
    BY DEF Accepted
  <1>2. attempt[t].act # None
    BY <1>1 DEF IInv, AttemptShape
  <1>3. attempt[t].act \in Actions /\ row[attempt[t].act].status # "absent"
    BY <1>2 DEF IInv, TypeOK, Attempt, ClaimRecorded
  <1>4. attempt'[t].write = "accepted" /\ row'[attempt'[t].act].key = k
    BY <1>1, <1>3 DEF AttemptsEvolve, Key
  <1> QED
    BY <1>4 DEF Accepted, Key

\* Steps that leave the table alone.
LEMMA SameRows ==
  ASSUME IInv, AttemptsEvolve, OperatorsEvolve, CreatorsEvolve, UNCHANGED <<row, audit>>
  PROVE  RowsInv'
  <1>1. ASSUME NEW k, Accepted(k) # {} PROVE Accepted(k)' # {}
    BY <1>1, AcceptedGrows
  <1>2. ClaimedOnce' /\ ClaimRecorded' /\ ClaimHeld' /\ OneRowPerCommand'
    <2>1. ClaimedOnce'
      BY DEF IInv, AttemptsEvolve, ClaimedOnce
    <2>2. ClaimRecorded'
      BY DEF IInv, AttemptsEvolve, ClaimRecorded
    <2>3. ClaimHeld'
      BY DEF IInv, AttemptsEvolve, ClaimHeld
    <2>4. OneRowPerCommand'
      BY DEF IInv, OneRowPerCommand, Live
    <2> QED
      BY <2>1, <2>2, <2>3, <2>4
  <1>3. FindingHolds'
    BY <1>1 DEF IInv, OperatorsEvolve, FindingHolds
  <1>4. ReturnedRowExists' /\ CreateReturnsItsCommand'
    BY DEF IInv, CreatorsEvolve, ReturnedRowExists, CreateReturnsItsCommand
  <1>5. SucceededMeansAccepted'
    BY <1>1 DEF IInv, SucceededMeansAccepted
  <1>6. ConfirmedFailureNotAccepted'
    BY DEF IInv, AttemptsEvolve, ConfirmedFailureNotAccepted
  <1> QED
    BY <1>2, <1>3, <1>4, <1>5, <1>6 DEF RowsInv

\* Steps that move one stored row along the lifecycle.
LEMMA OneRowMoves ==
  ASSUME IInv, AttemptsEvolve, OperatorsEvolve, CreatorsEvolve,
         NEW a \in Actions, NEW s \in Stored, NEW e, RowMoves(a, s, e),
         row[a].status \in Stored,
         s # "processing",
         s \in {"pending", "rejected", "expired"} => row[a].status = "pending",
         s = "succeeded" => Accepted(row[a].key) # {},
         s = "failed" =>
            \/ e = "provider_not_found"
            \/ \A t \in Tokens : attempt[t].act = a =>
                  attempt'[t].pc = "done" /\ attempt'[t].write \in {"none", "rejected"}
  PROVE  RowsInv'
  <1> USE DEF RowMoves
  <1>0. \A b \in Actions : /\ row'[b].key = row[b].key
                          /\ row'[b].payload = row[b].payload
                          /\ row'[b].token = row[b].token
                          /\ row[b].status # "absent" => row'[b].status # "absent"
                          /\ row'[b].status \in Stored <=> row[b].status \in Stored
    BY DEF Stored
  <1>1. ASSUME NEW k, Accepted(k) # {} PROVE Accepted(k)' # {}
    BY <1>0, <1>1, AcceptedGrows
  <1>2. ClaimedOnce'
    BY DEF IInv, AttemptsEvolve, ClaimedOnce
  <1>3. ClaimRecorded'
    <2> SUFFICES ASSUME NEW t \in Tokens, attempt'[t].act # None
                 PROVE  /\ row'[attempt'[t].act].status \notin {"absent", "pending", "rejected", "expired"}
                        /\ row'[attempt'[t].act].status # "deleted"
                             => <<"pending", "processing">> \in audit'[attempt'[t].act]
      BY DEF ClaimRecorded
    <2>1. attempt[t].act \in Actions /\ attempt'[t].act = attempt[t].act
      BY DEF AttemptsEvolve, IInv, TypeOK, Attempt
    <2>2. /\ row[attempt[t].act].status \notin {"absent", "pending", "rejected", "expired"}
          /\ row[attempt[t].act].status # "deleted"
               => <<"pending", "processing">> \in audit[attempt[t].act]
      BY <2>1 DEF IInv, ClaimRecorded
    <2>3. CASE attempt[t].act = a
      BY <2>1, <2>2, <2>3 DEF Stored
    <2>4. CASE attempt[t].act # a
      BY <2>1, <2>2, <2>4
    <2> QED
      BY <2>3, <2>4
  <1>4. ClaimHeld'
    BY DEF IInv, AttemptsEvolve, ClaimHeld
  <1>5. OneRowPerCommand'
    BY <1>0 DEF IInv, OneRowPerCommand, Live
  <1>6. FindingHolds'
    BY <1>0, <1>1 DEF IInv, OperatorsEvolve, FindingHolds
  <1>7. ReturnedRowExists' /\ CreateReturnsItsCommand'
    BY <1>0 DEF IInv, CreatorsEvolve, ReturnedRowExists, CreateReturnsItsCommand
  <1>8. SucceededMeansAccepted'
    BY <1>0, <1>1 DEF IInv, SucceededMeansAccepted
  <1>9. ConfirmedFailureNotAccepted'
    BY DEF IInv, AttemptsEvolve, ConfirmedFailureNotAccepted
  <1> QED
    BY <1>2, <1>3, <1>4, <1>5, <1>6, <1>7, <1>8, <1>9 DEF RowsInv

\* An approval leases a row that no request has claimed before.
LEMMA ClaimKeepsRowsInv ==
  ASSUME IInv, NEW a \in Actions, NEW t \in Tokens, Claim(a, t)
  PROVE  RowsInv'
  <1>1. TypeOK
    BY DEF IInv
  <1>2. /\ row[a].status = "pending" /\ attempt[t].pc = "unused"
        /\ attempt' = [attempt EXCEPT ![t] = [act |-> a, pc |-> "claimed", write |-> "none"]]
        /\ UNCHANGED <<creator, operator>>
    BY DEF Claim
  <1>3. /\ row'[a].status = "processing" /\ row'[a].key = row[a].key
        /\ row'[a].payload = row[a].payload /\ row'[a].token = t
        /\ \A b \in Actions : b # a => row'[b] = row[b]
        /\ \A b \in Actions : audit[b] \subseteq audit'[b]
        /\ <<"pending", "processing">> \in audit'[a]
    BY <1>1, ClaimEffect
  <1>4. attempt[t].act = None /\ attempt[t].write = "none"
    BY <1>2 DEF IInv, AttemptShape
  <1>5. \A u \in Tokens : attempt[u].act # a
    BY <1>2, NoneAssumption DEF IInv, ClaimRecorded
  <1>6. /\ attempt'[t].act = a /\ attempt'[t].write = "none"
        /\ \A u \in Tokens : u # t => attempt'[u] = attempt[u]
    BY <1>1, <1>2 DEF TypeOK
  <1>7. ASSUME NEW k, Accepted(k) # {} PROVE Accepted(k)' # {}
    <2>1. PICK u \in Tokens : attempt[u].write = "accepted" /\ Key(u) = k
      BY <1>7 DEF Accepted
    <2>2. u # t
      BY <1>4, <2>1
    <2>3. attempt[u].act \in Actions
      BY <1>1, <2>1 DEF IInv, AttemptShape, TypeOK, Attempt
    <2>4. attempt'[u].write = "accepted" /\ row'[attempt'[u].act].key = k
      BY <1>3, <1>6, <2>1, <2>2, <2>3 DEF Key
    <2> QED
      BY <2>4 DEF Accepted, Key
  <1>8. ClaimedOnce'
    BY <1>5, <1>6 DEF IInv, ClaimedOnce
  <1>9. ClaimRecorded'
    BY <1>1, <1>3, <1>5, <1>6 DEF IInv, ClaimRecorded, TypeOK, Attempt
  <1>10. ClaimHeld'
    BY <1>3, <1>4, <1>6, NoneAssumption DEF IInv, ClaimHeld
  <1>11. OneRowPerCommand'
    BY <1>2, <1>3 DEF IInv, OneRowPerCommand, Live, Stored
  <1>12. FindingHolds'
    BY <1>2, <1>3, <1>7 DEF IInv, FindingHolds
  <1>13. ReturnedRowExists' /\ CreateReturnsItsCommand'
    BY <1>2, <1>3 DEF IInv, ReturnedRowExists, CreateReturnsItsCommand
  <1>14. SucceededMeansAccepted'
    BY <1>3, <1>7 DEF IInv, SucceededMeansAccepted
  <1>15. ConfirmedFailureNotAccepted'
    BY <1>3, <1>6 DEF IInv, ConfirmedFailureNotAccepted
  <1> QED
    BY <1>8, <1>9, <1>10, <1>11, <1>12, <1>13, <1>14, <1>15 DEF RowsInv

\* The unique index lets an insert through only for a key without a row.
LEMMA InsertKeepsRowsInv ==
  ASSUME IInv, NEW c \in Creators, CreateInsert(c)
  PROVE  RowsInv'
  <1>1. TypeOK
    BY DEF IInv
  <1>2. PICK a \in Actions :
          /\ row[a].status = "absent"
          /\ row'[a].status = "pending"
          /\ row'[a].key = creator[c].key
          /\ row'[a].payload = creator[c].payload
          /\ \A b \in Actions : b # a => row'[b] = row[b]
          /\ creator' = [creator EXCEPT ![c] =
               [pc |-> "returned", key |-> creator[c].key,
                payload |-> creator[c].payload, got |-> a]]
    BY <1>1, InsertEffect
  <1>3. /\ \A b \in Actions : ~(Live(b) /\ row[b].key = creator[c].key)
        /\ UNCHANGED <<audit, attempt, operator>>
    BY DEF CreateInsert
  <1>4. AttemptsEvolve
    BY <1>3 DEF AttemptsEvolve
  <1>5. ASSUME NEW k, Accepted(k) # {} PROVE Accepted(k)' # {}
    BY <1>2, <1>4, <1>5, AcceptedGrows
  <1>6. \A t \in Tokens : attempt[t].act # a
    BY <1>2, NoneAssumption DEF IInv, ClaimRecorded
  <1>7. ClaimedOnce'
    BY <1>3 DEF IInv, ClaimedOnce
  <1>8. ClaimRecorded'
    BY <1>1, <1>2, <1>3, <1>6 DEF IInv, ClaimRecorded, TypeOK, Attempt
  <1>9. ClaimHeld'
    BY <1>2, <1>3 DEF IInv, ClaimHeld
  <1>10. OneRowPerCommand'
    BY <1>2, <1>3 DEF IInv, OneRowPerCommand, Live
  <1>11. FindingHolds'
    BY <1>2, <1>3, <1>5 DEF IInv, FindingHolds
  <1>12. ReturnedRowExists' /\ CreateReturnsItsCommand'
    BY <1>1, <1>2 DEF IInv, TypeOK, ReturnedRowExists, CreateReturnsItsCommand
  <1>13. SucceededMeansAccepted'
    BY <1>2, <1>5 DEF IInv, SucceededMeansAccepted
  <1>14. ConfirmedFailureNotAccepted'
    BY <1>2, <1>3 DEF IInv, ConfirmedFailureNotAccepted
  <1> QED
    BY <1>7, <1>8, <1>9, <1>10, <1>11, <1>12, <1>13, <1>14 DEF RowsInv

\* Retention touches neither a claimed row nor an ambiguous one.
LEMMA PruneKeepsRowsInv ==
  ASSUME IInv, NEW swept \in SUBSET Actions, Prune(swept)
  PROVE  RowsInv'
  <1>1. TypeOK
    BY DEF IInv
  <1>2. UNCHANGED <<attempt, creator, operator>>
    BY DEF Prune
  <1>3. \A a \in Actions :
           /\ row'[a].key = row[a].key
           /\ row'[a].payload = row[a].payload
           /\ row'[a].error = row[a].error
           /\ row'[a].token = row[a].token
           /\ a \in swept => row'[a].status = "expired"
           /\ a \in Outdated => row'[a].status = "deleted"
           /\ a \notin swept \cup Outdated => row'[a] = row[a]
           /\ a \notin Outdated => audit[a] \subseteq audit'[a]
    BY <1>1, PruneEffect
  <1>4. \A a \in swept : row[a].status = "pending"
    BY DEF Prune, Stale
  <1>5. \A a \in Outdated : row[a].status \in Resolved
    BY DEF Outdated
  <1>6. AttemptsEvolve
    BY <1>2 DEF AttemptsEvolve
  <1>7. ASSUME NEW k, Accepted(k) # {} PROVE Accepted(k)' # {}
    BY <1>3, <1>6, <1>7, AcceptedGrows
  <1>8. ClaimedOnce'
    BY <1>2 DEF IInv, ClaimedOnce
  <1>9. ClaimRecorded'
    BY <1>1, <1>2, <1>3, <1>4 DEF IInv, ClaimRecorded, TypeOK, Attempt
  <1>10. ClaimHeld'
    BY <1>2, <1>3 DEF IInv, ClaimHeld
  <1>11. OneRowPerCommand'
    <2>1. \A b \in Actions : row'[b].status \in Stored => row[b].status \in Stored
      BY <1>3, <1>4 DEF Stored
    <2> QED
      BY <1>3, <2>1 DEF IInv, OneRowPerCommand, Live
  <1>12. FindingHolds'
    BY <1>2, <1>3, <1>7 DEF IInv, FindingHolds
  <1>13. ReturnedRowExists' /\ CreateReturnsItsCommand'
    BY <1>2, <1>3 DEF IInv, ReturnedRowExists, CreateReturnsItsCommand
  <1>14. SucceededMeansAccepted'
    BY <1>3, <1>7 DEF IInv, SucceededMeansAccepted
  <1>15. ConfirmedFailureNotAccepted'
    BY <1>2, <1>3 DEF IInv, ConfirmedFailureNotAccepted
  <1> QED
    BY <1>8, <1>9, <1>10, <1>11, <1>12, <1>13, <1>14, <1>15 DEF RowsInv

\* An out-of-band edit of a stored payload changes no column a property reads.
LEMMA TamperEffect ==
  ASSUME TypeOK, NEW a \in Actions, Tamper(a)
  PROVE  RowMoves(a, row[a].status, row[a].error)
  <1> DEFINE r == [row[a] EXCEPT !.intact = FALSE]
  <1>1. /\ r.status = row[a].status /\ r.error = row[a].error /\ r.key = row[a].key
        /\ r.payload = row[a].payload /\ r.token = row[a].token
    BY DEF TypeOK, Row
  <1>2. row' = [row EXCEPT ![a] = r] /\ audit' = audit
    BY DEF Tamper
  <1> HIDE DEF r
  <1>3. row'[a] = r /\ \A b \in Actions : b # a => row'[b] = row[b]
    BY <1>2 DEF TypeOK
  <1> QED
    BY <1>1, <1>2, <1>3 DEF RowMoves

\* A status change is a move of its row.
LEMMA SetStatusMoves ==
  ASSUME TypeOK, NEW a \in Actions, NEW s \in Status, NEW e \in Errors, SetStatus(a, s, e)
  PROVE  RowMoves(a, s, e)
  BY SetStatusEffect DEF RowMoves

\* What a request's own step, or its provider thread's, does to the requests.
LEMMA RequestsKeepShape ==
  ASSUME IInv, NEW t \in Tokens, RequestStep(t) \/ ProviderStep(t) \/ Abandon(t)
  PROVE  AttemptShape' /\ AttemptsEvolve
  <1>1. TypeOK /\ AttemptShape
    BY DEF IInv
  <1>2. CASE ServicesUnavailable(t) \/ NotAdmitted(t) \/ Dispatch(t) \/ Abandon(t)
    BY <1>1, <1>2
       DEF TypeOK, Attempt, AttemptShape, AttemptsEvolve, ServicesUnavailable, NotAdmitted,
           Dispatch, Abandon
  <1>3. CASE Answer(t)
    <2>1. PICK v \in Verdicts(attempt[t].write) :
             attempt' = [attempt EXCEPT ![t] = [attempt[t] EXCEPT !.pc = v]]
      BY <1>3 DEF Answer
    <2>2. /\ v \in {"success", "confirmed_failure", "ambiguous"}
          /\ v = "success" => attempt[t].write = "accepted"
          /\ v = "confirmed_failure" => attempt[t].write = "rejected"
      BY <2>1 DEF Verdicts
    <2>3. attempt[t].pc = "calling"
      BY <1>3 DEF Answer
    <2> QED
      BY <1>1, <2>1, <2>2, <2>3 DEF TypeOK, Attempt, AttemptShape, AttemptsEvolve
  <1>4. CASE Finalize(t)
    BY <1>1, <1>4 DEF TypeOK, Attempt, AttemptShape, AttemptsEvolve, Finalize
  <1>5. CASE ProviderStep(t)
    BY <1>1, <1>5
       DEF TypeOK, Attempt, AttemptShape, AttemptsEvolve, ProviderStep, Accept, Conflict,
           Refuse, Lose, SetWrite
  <1> QED
    BY <1>2, <1>3, <1>4, <1>5 DEF RequestStep

\* Recording a verdict: success only of an accepted write, failure only of a
\* write that never left or was refused.
LEMMA FinalizeKeepsRowsInv ==
  ASSUME IInv, NEW t \in Tokens, Finalize(t)
  PROVE  RowsInv'
  <1> DEFINE a == attempt[t].act
  <1>1. TypeOK /\ AttemptShape /\ ClaimedOnce /\ AttemptsEvolve
    BY RequestsKeepShape DEF IInv, RequestStep
  <1>2. OperatorsEvolve /\ CreatorsEvolve
    BY DEF Finalize, OperatorsEvolve, CreatorsEvolve
  <1>3. a \in Actions
    BY <1>1 DEF Finalize, AttemptShape, TypeOK, Attempt
  <1>4. /\ attempt[t].pc \in {"not_dispatched", "confirmed_failure", "ambiguous", "success"}
        /\ attempt'[t].pc = "done" /\ attempt'[t].write = attempt[t].write
    BY <1>1 DEF Finalize, TypeOK, Attempt
  <1>5. CASE ~HoldsClaim(t, a)
    BY <1>1, <1>2, <1>5, SameRows DEF Finalize
  <1>6. CASE HoldsClaim(t, a)
    <2>1. row[a].status = "processing" /\ RecordVerdict(t, a)
      BY <1>6 DEF Finalize, HoldsClaim
    <2> HIDE DEF a
    <2>2. CASE LeaseLapsed(a)
      <3>1. RowMoves(a, "reconciliation_required", "processing_lease_expired")
        BY <1>1, <1>3, <2>1, <2>2, SetStatusMoves
           DEF RecordVerdict, MarkReconciliationRequired, Status, Stored, Errors
      <3> QED
        BY <1>1, <1>2, <1>3, <2>1, <3>1, OneRowMoves DEF Stored
    <2>3. CASE ~LeaseLapsed(a) /\ attempt[t].pc = "ambiguous"
      <3>1. RowMoves(a, "reconciliation_required", "provider_outcome_unknown")
        BY <1>1, <1>3, <2>1, <2>3, SetStatusMoves
           DEF RecordVerdict, MarkReconciliationRequired, Status, Stored, Errors
      <3> QED
        BY <1>1, <1>2, <1>3, <2>1, <3>1, OneRowMoves DEF Stored
    <2>4. CASE ~LeaseLapsed(a) /\ attempt[t].pc = "success"
      <3>1. RowMoves(a, "succeeded", "none")
        BY <1>1, <1>3, <2>1, <2>4, SetStatusMoves DEF RecordVerdict, Status, Stored, Errors
      <3>2. Accepted(row[a].key) # {}
        BY <1>1, <2>4 DEF AttemptShape, Accepted, Key, a
      <3> QED
        BY <1>1, <1>2, <1>3, <2>1, <3>1, <3>2, OneRowMoves DEF Stored
    <2>5. CASE ~LeaseLapsed(a) /\ attempt[t].pc \in {"confirmed_failure", "not_dispatched"}
      <3>1. \/ RowMoves(a, "failed", "provider_rejected")
            \/ RowMoves(a, "failed", "failed_before_dispatch")
        <4>1. CASE attempt[t].pc = "confirmed_failure"
          BY <1>1, <1>3, <2>1, <2>5, <4>1, SetStatusMoves
             DEF RecordVerdict, Status, Stored, Errors
        <4>2. CASE attempt[t].pc = "not_dispatched"
          BY <1>1, <1>3, <2>1, <2>5, <4>2, SetStatusMoves
             DEF RecordVerdict, Status, Stored, Errors
        <4> QED
          BY <2>5, <4>1, <4>2
      <3>2. attempt[t].write \in {"none", "rejected"}
        BY <1>1, <2>5 DEF AttemptShape
      <3>3. ASSUME NEW u \in Tokens, attempt[u].act = a
            PROVE  attempt'[u].pc = "done" /\ attempt'[u].write \in {"none", "rejected"}
        <4>1. u = t
          BY <1>1, <1>3, <3>3, NoneAssumption DEF ClaimedOnce, a
        <4> QED
          BY <1>4, <3>2, <4>1
      <3>4. PICK e \in {"provider_rejected", "failed_before_dispatch"} : RowMoves(a, "failed", e)
        BY <3>1
      <3> QED
        BY <1>1, <1>2, <1>3, <2>1, <3>3, <3>4, OneRowMoves DEF Stored
    <2> QED
      BY <1>4, <2>2, <2>3, <2>4, <2>5
  <1> QED
    BY <1>5, <1>6

\* Applying an operator's finding to a row that is still ambiguous.
LEMMA ApplyKeepsRowsInv ==
  ASSUME IInv, NEW o \in Operators, ReconcileApply(o)
  PROVE  RowsInv'
  <1> DEFINE a == operator[o].act
  <1>1. TypeOK
    BY DEF IInv
  <1>2. AttemptsEvolve /\ CreatorsEvolve
    BY DEF ReconcileApply, AttemptsEvolve, CreatorsEvolve
  <1>3. OperatorsEvolve
    BY <1>1 DEF ReconcileApply, OperatorsEvolve, TypeOK
  <1>4. /\ a \in Actions
        /\ operator[o].outcome = "succeeded" => Accepted(row[a].key) # {}
    BY DEF IInv, FindingHolds, ReconcileApply
  <1>5. CASE UNCHANGED <<row, audit>>
    BY <1>2, <1>3, <1>5, SameRows
  <1>6. CASE row[a].status = "reconciliation_required" /\ ApplyFinding(a, operator[o].outcome)
    <2> HIDE DEF a
    <2>1. CASE operator[o].outcome = "succeeded"
      <3>1. RowMoves(a, "succeeded", "none")
        BY <1>1, <1>4, <1>6, <2>1, SetStatusMoves DEF ApplyFinding, Status, Stored, Errors
      <3> QED
        BY <1>2, <1>3, <1>4, <1>6, <2>1, <3>1, OneRowMoves DEF Stored
    <2>2. CASE operator[o].outcome = "failed"
      <3>1. RowMoves(a, "failed", "provider_not_found")
        BY <1>1, <1>4, <1>6, <2>2, SetStatusMoves DEF ApplyFinding, Status, Stored, Errors
      <3> QED
        BY <1>2, <1>3, <1>4, <1>6, <2>2, <3>1, OneRowMoves DEF Stored
    <2>3. CASE operator[o].outcome = "inconclusive"
      <3>1. RowMoves(a, "reconciliation_required", row'[a].error)
        BY <1>1, <1>4, <1>6, <2>3, InconclusiveEffect DEF RowMoves
      <3> QED
        BY <1>2, <1>3, <1>4, <1>6, <2>3, <3>1, OneRowMoves DEF Stored
    <2> QED
      BY <1>6, <2>1, <2>2, <2>3 DEF ApplyFinding
  <1> QED
    BY <1>5, <1>6 DEF ReconcileApply

\* Only its own SELECT gives a create call a command.
LEMMA NextCreatorHasCommand == IInv /\ [Next]_vars => CreatorHasCommand'
  <1> SUFFICES ASSUME TypeOK, CreatorHasCommand, [Next]_vars PROVE CreatorHasCommand'
    BY DEF IInv
  <1>1. ASSUME NEW c \in Creators, NEW k \in Keys, NEW p \in Payloads, CreateSelect(c, k, p)
        PROVE  CreatorHasCommand'
    BY <1>1 DEF CreateSelect, AnswerExisting, CreatorHasCommand, TypeOK
  <1>2. ASSUME NEW c \in Creators, CreateInsert(c)
        PROVE  CreatorHasCommand'
    <2>1. creator[c].key \in Keys /\ creator[c].payload \in Payloads
      BY <1>2 DEF CreateInsert, CreatorHasCommand
    <2>2. PICK a \in Actions :
             creator' = [creator EXCEPT ![c] =
                [pc |-> "returned", key |-> creator[c].key,
                 payload |-> creator[c].payload, got |-> a]]
      BY <1>2, InsertEffect
    <2> QED
      BY <2>1, <2>2 DEF CreatorHasCommand, TypeOK
  <1>3. ASSUME NEW c \in Creators, CreateLosesRace(c) \/ CreateRereads(c)
        PROVE  CreatorHasCommand'
    <2>1. creator[c].key \in Keys /\ creator[c].payload \in Payloads
      BY <1>3 DEF CreateLosesRace, CreateRereads, CreatorHasCommand
    <2>2. CASE CreateLosesRace(c)
      BY <2>1, <2>2 DEF CreateLosesRace, CreatorHasCommand, TypeOK, Creator
    <2>3. CASE CreateRereads(c) /\ creator' = [creator EXCEPT ![c] = [@ EXCEPT !.pc = "failed"]]
      BY <2>1, <2>3 DEF CreatorHasCommand, TypeOK, Creator
    <2>4. ASSUME NEW a \in Actions,
                 AnswerExisting(c, a, creator[c].key, creator[c].payload)
          PROVE  CreatorHasCommand'
      BY <2>1, <2>4 DEF AnswerExisting, CreatorHasCommand, TypeOK
    <2> QED
      BY <1>3, <2>2, <2>3, <2>4 DEF CreateRereads
  <1>4. CASE UNCHANGED creator
    BY <1>4 DEF CreatorHasCommand
  <1>5. ASSUME NEW a \in Actions,
               \/ Reject(a) \/ Tamper(a) \/ ClaimFindsLapsedLease(a) \/ ClaimFindsExpired(a)
               \/ ClaimFindsTampering(a) \/ \E t \in Tokens : Claim(a, t)
               \/ \E o \in Operators : ReconcileBegin(o, a)
        PROVE  UNCHANGED creator
    BY <1>5, Zenon DEF Reject, Tamper, ClaimFindsLapsedLease, ClaimFindsExpired,
                       ClaimFindsTampering, Claim, ReconcileBegin
  <1>6. ASSUME NEW t \in Tokens, RequestStep(t) \/ ProviderStep(t) \/ Abandon(t)
        PROVE  UNCHANGED creator
    BY <1>6, Zenon
       DEF RequestStep, ProviderStep, ServicesUnavailable, NotAdmitted, Dispatch, Answer,
           Finalize, Abandon, Accept, Conflict, Refuse, Lose, SetWrite
  <1>7. ASSUME NEW o \in Operators, ReconcileLookup(o) \/ ReconcileApply(o)
        PROVE  UNCHANGED creator
    BY <1>7, Zenon DEF ReconcileLookup, ReconcileApply
  <1>8. CASE (\E swept \in SUBSET Actions : Prune(swept)) \/ Tick \/ UNCHANGED vars
    BY <1>4, <1>8, Zenon DEF Prune, Tick, vars
  <1> QED
    BY <1>1, <1>2, <1>3, <1>4, <1>5, <1>6, <1>7, <1>8 DEF Next

\* A create call whose INSERT was refused is given a row with its command, or none.
LEMMA LosesRaceEvolves ==
    ASSUME TypeOK, NEW c \in Creators, CreateLosesRace(c) \/ CreateRereads(c)
    PROVE  CreatorsEvolve
  <1>1. creator[c] \in Creator /\ DOMAIN creator = Creators
    BY DEF TypeOK
  <1>2. ASSUME NEW pc \in {"reread", "failed"},
               creator' = [creator EXCEPT ![c] = [@ EXCEPT !.pc = pc]]
        PROVE  CreatorsEvolve
    <2>1. creator'[c].pc = pc
      BY <1>1, <1>2 DEF Creator
    <2>2. \A d \in Creators : d # c => creator'[d] = creator[d]
      BY <1>1, <1>2
    <2> QED
      BY <2>1, <2>2 DEF CreatorsEvolve
  <1>3. ASSUME NEW a \in Actions, Live(a), row[a].key = creator[c].key,
               AnswerExisting(c, a, creator[c].key, creator[c].payload)
        PROVE  CreatorsEvolve
    BY <1>1, <1>3 DEF AnswerExisting, CreatorsEvolve, Live, Stored
  <1> QED
    BY <1>2, <1>3 DEF CreateLosesRace, CreateRereads

\* Every step preserves the inductive invariant.
LEMMA NextIInv == IInv /\ [Next]_vars => IInv'
  <1> SUFFICES ASSUME IInv, [Next]_vars PROVE IInv'
    OBVIOUS
  <1>0. TypeOK /\ AttemptShape
    BY DEF IInv
  <1>a. TypeOK' /\ CreatorHasCommand'
    BY NextTypeOK, NextCreatorHasCommand
  <1>b. SUFFICES AttemptShape' /\ RowsInv'
    BY <1>a DEF IInv, RowsInv
  <1>c. ASSUME UNCHANGED attempt PROVE AttemptShape' /\ AttemptsEvolve
    BY <1>0, <1>c DEF AttemptShape, AttemptsEvolve
  <1>d. ASSUME UNCHANGED operator PROVE OperatorsEvolve
    BY <1>d DEF OperatorsEvolve
  <1>e. ASSUME UNCHANGED creator PROVE CreatorsEvolve
    BY <1>e DEF CreatorsEvolve
  <1>1. ASSUME NEW c \in Creators, NEW k \in Keys, NEW p \in Payloads,
               CreateSelect(c, k, p)
        PROVE  AttemptShape' /\ RowsInv'
    <2>1. UNCHANGED <<row, audit, attempt, operator>>
      BY <1>1 DEF CreateSelect
    <2>2. CreatorsEvolve
      BY <1>0, <1>1 DEF CreateSelect, AnswerExisting, CreatorsEvolve, TypeOK, Live, Stored
    <2> QED
      BY <1>c, <1>d, <2>1, <2>2, SameRows
  <1>2. ASSUME NEW c \in Creators, CreateLosesRace(c) \/ CreateRereads(c)
        PROVE  AttemptShape' /\ RowsInv'
    <2>1. UNCHANGED <<row, audit, attempt, operator>>
      BY <1>2 DEF CreateLosesRace, CreateRereads
    <2>2. CreatorsEvolve
      BY <1>0, <1>2, LosesRaceEvolves
    <2> QED
      BY <1>c, <1>d, <2>1, <2>2, SameRows
  <1>3. ASSUME NEW c \in Creators, CreateInsert(c)
        PROVE  AttemptShape' /\ RowsInv'
    BY <1>3, <1>c, InsertKeepsRowsInv DEF CreateInsert
  <1>4. ASSUME NEW a \in Actions,
               Reject(a) \/ ClaimFindsExpired(a) \/ ClaimFindsLapsedLease(a) \/ ClaimFindsTampering(a)
        PROVE  AttemptShape' /\ RowsInv'
    <2>1. UNCHANGED <<attempt, creator, operator>>
      BY <1>4 DEF Reject, ClaimFindsExpired, ClaimFindsLapsedLease, ClaimFindsTampering
    <2>2. \/ row[a].status = "pending" /\ RowMoves(a, "rejected", "none")
          \/ row[a].status = "pending" /\ RowMoves(a, "expired", "none")
          \/ /\ row[a].status = "processing"
             /\ RowMoves(a, "reconciliation_required", "processing_lease_expired")
          \/ /\ row[a].status = "pending"
             /\ RowMoves(a, "reconciliation_required", "payload_integrity_mismatch")
      BY <1>0, <1>4, SetStatusMoves
         DEF Reject, ClaimFindsExpired, ClaimFindsLapsedLease, ClaimFindsTampering,
             MarkReconciliationRequired, Status, Stored, Errors
    <2> QED
      BY <1>c, <1>d, <1>e, <2>1, <2>2, OneRowMoves DEF Stored
  <1>5. ASSUME NEW a \in Actions, Tamper(a)
        PROVE  AttemptShape' /\ RowsInv'
    <2>1. UNCHANGED <<attempt, creator, operator>> /\ row[a].status = "pending"
      BY <1>5 DEF Tamper
    <2>2. RowMoves(a, "pending", row[a].error)
      BY <1>0, <1>5, <2>1, TamperEffect
    <2> QED
      BY <1>c, <1>d, <1>e, <2>1, <2>2, OneRowMoves DEF Stored
  <1>6. ASSUME NEW a \in Actions, NEW t \in Tokens, Claim(a, t)
        PROVE  AttemptShape' /\ RowsInv'
    <2>1. AttemptShape'
      BY <1>0, <1>6, NoneAssumption DEF Claim, AttemptShape, TypeOK
    <2> QED
      BY <1>6, <2>1, ClaimKeepsRowsInv
  <1>7. ASSUME NEW o \in Operators, NEW a \in Actions, ReconcileBegin(o, a)
        PROVE  AttemptShape' /\ RowsInv'
    <2>1. UNCHANGED <<attempt, creator>>
      BY <1>7 DEF ReconcileBegin
    <2>2. OperatorsEvolve
      BY <1>0, <1>7 DEF ReconcileBegin, OperatorsEvolve, TypeOK
    <2>3. CASE UNCHANGED <<row, audit>>
      BY <1>c, <1>e, <2>1, <2>2, <2>3, SameRows
    <2>4. CASE row[a].status = "processing"
               /\ MarkReconciliationRequired(a, "processing_lease_expired")
      <3>1. RowMoves(a, "reconciliation_required", "processing_lease_expired")
        BY <1>0, <2>4, SetStatusMoves DEF MarkReconciliationRequired, Status, Stored, Errors
      <3> QED
        BY <1>c, <1>e, <2>1, <2>2, <2>4, <3>1, OneRowMoves DEF Stored
    <2> QED
      BY <1>7, <2>3, <2>4 DEF ReconcileBegin
  <1>8. ASSUME NEW t \in Tokens, RequestStep(t) \/ ProviderStep(t) \/ Abandon(t)
        PROVE  AttemptShape' /\ RowsInv'
    <2>1. AttemptShape' /\ AttemptsEvolve
      BY <1>8, RequestsKeepShape
    <2>2. CASE Finalize(t)
      BY <2>1, <2>2, FinalizeKeepsRowsInv
    <2>3. CASE ~Finalize(t)
      <3>1. UNCHANGED <<row, audit, creator, operator>>
        BY <1>8, <2>3
           DEF RequestStep, ProviderStep, ServicesUnavailable, NotAdmitted, Dispatch, Answer,
               Abandon, Accept, Conflict, Refuse, Lose, SetWrite
      <3> QED
        BY <1>d, <1>e, <2>1, <3>1, SameRows
    <2> QED
      BY <2>2, <2>3
  <1>9. ASSUME NEW o \in Operators, ReconcileLookup(o)
        PROVE  AttemptShape' /\ RowsInv'
    <2>1. UNCHANGED <<row, audit, attempt, creator>>
      BY <1>9 DEF ReconcileLookup
    <2>2. PICK f \in Findings(operator[o].act) :
             operator' = [operator EXCEPT ![o] =
                            [pc |-> "apply", act |-> operator[o].act, outcome |-> f]]
      BY <1>9 DEF ReconcileLookup
    <2>3. f = "succeeded" => Accepted(row[operator[o].act].key) # {}
      BY <2>2 DEF Findings
    <2>4. operator[o].act \in Actions /\ row[operator[o].act].status # "absent"
      BY <1>9 DEF IInv, FindingHolds, ReconcileLookup
    <2>5. OperatorsEvolve
      BY <1>0, <2>2, <2>3, <2>4 DEF OperatorsEvolve, TypeOK
    <2> QED
      BY <1>c, <1>e, <2>1, <2>5, SameRows
  <1>10. ASSUME NEW o \in Operators, ReconcileApply(o)
         PROVE  AttemptShape' /\ RowsInv'
    BY <1>10, <1>c, ApplyKeepsRowsInv DEF ReconcileApply
  <1>11. ASSUME NEW swept \in SUBSET Actions, Prune(swept)
         PROVE  AttemptShape' /\ RowsInv'
    BY <1>11, <1>c, PruneKeepsRowsInv DEF Prune
  <1>12. CASE Tick \/ UNCHANGED vars
    <2>1. UNCHANGED <<row, audit, attempt, creator, operator>>
      BY <1>12 DEF Tick, vars
    <2> QED
      BY <1>c, <1>d, <1>e, <2>1, SameRows
  <1> QED
    BY <1>1, <1>2, <1>3, <1>4, <1>5, <1>6, <1>7, <1>8, <1>9, <1>10, <1>11, <1>12 DEF Next

------------------------------------------------------------------------------
(* Safety, for every instance *)

\* The inductive invariant holds in every reachable state of the service.
THEOREM Invariance == Spec => []IInv
  <1>1. Init => IInv
    BY InitIInv
  <1>2. IInv /\ [Next]_vars => IInv'
    BY NextIInv
  <1> QED
    BY <1>1, <1>2, PTL DEF Spec

\* Rows, requests, create calls and operators always have the shape the code's
\* column types and control flow give them.
THEOREM TypeCorrect == Spec => []TypeOK
  <1>1. IInv => TypeOK
    BY DEF IInv
  <1> QED
    BY <1>1, Invariance, PTL

\* Single dispatch: because a row is leased at most once (claim_pending_action)
\* and the unique index keeps one stored row per command key, no two writes are
\* ever handed to a provider for the same stored command.
THEOREM SingleDispatch == Spec => []OncePerCommand
  <1>1. IInv => OncePerCommand
    <2> SUFFICES ASSUME IInv, NEW t \in Tokens, NEW u \in Tokens, t # u,
                        Dispatched(t), Dispatched(u), Key(t) = Key(u),
                        row[attempt[t].act].status # "deleted",
                        row[attempt[u].act].status # "deleted"
                 PROVE  FALSE
      BY DEF OncePerCommand
    <2>1. attempt[t].act # None /\ attempt[u].act # None
      BY DEF IInv, AttemptShape, Dispatched
    <2>2. attempt[t].act \in Actions /\ attempt[u].act \in Actions
      BY <2>1 DEF IInv, TypeOK, Attempt
    <2>3. Live(attempt[t].act) /\ Live(attempt[u].act)
      BY <2>1, <2>2 DEF IInv, ClaimRecorded, Live, TypeOK, Row, Status
    <2>4. attempt[t].act = attempt[u].act
      BY <2>2, <2>3 DEF IInv, OneRowPerCommand, Key
    <2> QED
      BY <2>1, <2>4 DEF IInv, ClaimedOnce
  <1> QED
    BY <1>1, Invariance, PTL

\* Approval first: a write that left the process belongs to an action whose
\* claim was committed and which no rejection or expiry turned back.
THEOREM ApprovalPrecedesEffect == Spec => []EffectNeedsApproval
  <1>1. IInv => EffectNeedsApproval
    BY DEF IInv, AttemptShape, ClaimRecorded, EffectNeedsApproval, Dispatched
  <1> QED
    BY <1>1, Invariance, PTL

\* A recorded success is true: the provider holds an object under the action's
\* command key, whether its request or an operator's lookup recorded it.
THEOREM SuccessIsTrue == Spec => []SucceededMeansAccepted
  <1>1. IInv => SucceededMeansAccepted
    BY DEF IInv
  <1> QED
    BY <1>1, Invariance, PTL

\* A failure the approve request itself recorded is true: its write was not and
\* will not be accepted, so the command is safe to issue again.
THEOREM FailureIsTrue == Spec => []ConfirmedFailureNotAccepted
  <1>1. IInv => ConfirmedFailureNotAccepted
    BY DEF IInv
  <1> QED
    BY <1>1, Invariance, PTL

\* create_pending_action never answers one command with another's action.
THEOREM CreationAnswersItsCommand == Spec => []CreateReturnsItsCommand
  <1>1. IInv => CreateReturnsItsCommand
    BY DEF IInv
  <1> QED
    BY <1>1, Invariance, PTL

------------------------------------------------------------------------------
(* The audit trail *)

\* The audit events of an action that changed its status.
Changes(a) == {e \in audit[a] : e[1] # e[2]}

\* How far along an action with a status is.
Rank(s) == IF s = "pending" THEN 0
           ELSE IF s = "processing" THEN 1
           ELSE IF s = "reconciliation_required" THEN 2
           ELSE 3

\* AuditEndsAtStatus for one action, and what makes it inductive: statuses only
\* move on, so a new event never leads back to a status that was left before,
\* and an action starts without events.
AuditOf(a) ==
    /\ row[a].status = "absent" => audit[a] = {}
    /\ Live(a) =>
         /\ \A e \in Changes(a) : Rank(e[1]) < Rank(e[2]) /\ Rank(e[2]) <= Rank(row[a].status)
         /\ \A e \in Changes(a) : e[1] = "pending" \/ \E f \in Changes(a) : f[2] = e[1]
         /\ row[a].status = "pending" \/ \E e \in Changes(a) : e[2] = row[a].status
         /\ \A e \in Changes(a) : e[1] # row[a].status
         /\ \A e, f \in Changes(a) : e[1] = f[1] => e = f

\* What a step may do to the status and the events of an action: nothing, a
\* status change with its event, a note without one, an insert, a delete.
Kept(a) == row'[a].status = row[a].status /\ audit'[a] = audit[a]
Moved(a) == /\ Live(a) /\ row'[a].status \in Stored
            /\ Rank(row[a].status) < Rank(row'[a].status)
            /\ audit'[a] = audit[a] \cup {<<row[a].status, row'[a].status>>}
Noted(a) == /\ row'[a].status = row[a].status
            /\ row[a].status # "absent"
            /\ audit'[a] = audit[a] \cup {<<row[a].status, row[a].status>>}
Born(a) == row[a].status = "absent" /\ row'[a].status = "pending" /\ audit'[a] = audit[a]
Gone(a) == row'[a].status = "deleted"

\* Any of these.
AuditStep(a) == Kept(a) \/ Moved(a) \/ Noted(a) \/ Born(a) \/ Gone(a)

\* A status change with its event extends the chain by one link.
LEMMA MovedKeepsAudit ==
  ASSUME NEW a \in Actions, AuditOf(a), Moved(a)
  PROVE  AuditOf(a)'
  <1> DEFINE s == row[a].status
             n == row'[a].status
             C == Changes(a)
             D == Changes(a)'
             x == <<s, n>>
  <1>1. s \in Stored /\ n \in Stored /\ Rank(s) < Rank(n) /\ audit'[a] = audit[a] \cup {x}
    BY DEF Moved, Live
  <1>2. s # n /\ Rank(s) \in Nat /\ Rank(n) \in Nat /\ n # "pending" /\ n # "absent"
    BY <1>1 DEF Rank, Stored
  <1>3. /\ \A e \in C : Rank(e[1]) < Rank(e[2]) /\ Rank(e[2]) <= Rank(s)
        /\ \A e \in C : e[1] = "pending" \/ \E f \in C : f[2] = e[1]
        /\ s = "pending" \/ \E e \in C : e[2] = s
        /\ \A e \in C : e[1] # s
        /\ \A e, f \in C : e[1] = f[1] => e = f
    BY <1>1 DEF AuditOf, Live
  <1>4. D = C \cup {x} /\ x[1] = s /\ x[2] = n
    BY <1>1, <1>2 DEF Changes
  <1>5. \A e \in C : Rank(e[1]) < Rank(n) /\ Rank(e[2]) <= Rank(n) /\ e[1] # n
    <2>1. \A r : Rank(r) \in Nat
      BY DEF Rank
    <2> TAKE e \in C
    <2>2. Rank(e[1]) < Rank(n) /\ Rank(e[2]) <= Rank(n)
      BY <1>1, <1>3, <2>1
    <2> QED
      BY <2>1, <2>2
  <1> HIDE DEF s, n, C, D, x
  <1>6. \A e \in D : Rank(e[1]) < Rank(e[2]) /\ Rank(e[2]) <= Rank(n)
    BY <1>1, <1>2, <1>3, <1>4, <1>5
  <1>7. \A e \in D : e[1] = "pending" \/ \E f \in D : f[2] = e[1]
    BY <1>3, <1>4
  <1>8. /\ \E e \in D : e[2] = n
        /\ \A e \in D : e[1] # n
        /\ \A e, f \in D : e[1] = f[1] => e = f
    BY <1>2, <1>3, <1>4, <1>5
  <1> QED
    BY <1>2, <1>6, <1>7, <1>8 DEF AuditOf, n, D

\* No other effect of a step breaks the chain.
LEMMA AuditStepKeeps ==
  ASSUME NEW a \in Actions, AuditOf(a), AuditStep(a)
  PROVE  AuditOf(a)'
  <1>1. CASE Kept(a)
    BY <1>1 DEF Kept, AuditOf, Changes, Live
  <1>2. CASE Moved(a)
    BY <1>2, MovedKeepsAudit
  <1>3. CASE Noted(a)
    <2>1. Changes(a)' = Changes(a)
      BY <1>3 DEF Noted, Changes
    <2> QED
      BY <1>3, <2>1 DEF Noted, AuditOf, Live
  <1>4. CASE Born(a)
    <2>1. Changes(a)' = {}
      BY <1>4 DEF Born, AuditOf, Changes
    <2> QED
      BY <1>4, <2>1 DEF Born, AuditOf
  <1>5. CASE Gone(a)
    BY <1>5 DEF Gone, AuditOf, Live, Stored
  <1> QED
    BY <1>1, <1>2, <1>3, <1>4, <1>5 DEF AuditStep

\* SetStatus records the change it makes.
LEMMA SetStatusAudits ==
  ASSUME TypeOK, NEW a \in Actions, NEW s \in Stored, NEW e \in Errors, SetStatus(a, s, e),
         Live(a), Rank(row[a].status) < Rank(s)
  PROVE  \A b \in Actions : AuditStep(b)
  <1>1. row'[a].status = s /\ \A b \in Actions : b # a => row'[b] = row[b]
    BY SetStatusEffect DEF Status
  <1>2. /\ audit'[a] = audit[a] \cup {<<row[a].status, s>>}
        /\ \A b \in Actions : b # a => audit'[b] = audit[b]
    BY DEF SetStatus, TypeOK
  <1>3. Moved(a)
    BY <1>1, <1>2 DEF Moved
  <1> QED
    BY <1>1, <1>2, <1>3 DEF AuditStep, Kept

\* Every step treats every action in one of these ways.
LEMMA NextAuditStep ==
  ASSUME IInv, [Next]_vars
  PROVE  \A b \in Actions : AuditStep(b)
  <1>0. TypeOK /\ AttemptShape /\ FindingHolds
    BY DEF IInv
  <1>a. ASSUME UNCHANGED <<row, audit>> PROVE \A b \in Actions : AuditStep(b)
    BY <1>a DEF AuditStep, Kept
  <1>b. /\ Rank("pending") = 0 /\ Rank("processing") = 1 /\ Rank("reconciliation_required") = 2
        /\ \A s \in Resolved : Rank(s) = 3
    BY DEF Rank, Resolved
  <1>c. ASSUME NEW a \in Actions, NEW s \in Stored, NEW e \in Errors, SetStatus(a, s, e),
               \/ row[a].status = "pending" /\ s # "pending"
               \/ row[a].status = "processing" /\ s \notin {"pending", "processing"}
               \/ row[a].status = "reconciliation_required" /\ s \in Resolved
        PROVE  \A b \in Actions : AuditStep(b)
    <2>1. Live(a) /\ Rank(row[a].status) < Rank(s)
      BY <1>c, <1>b DEF Live, Stored, Resolved
    <2> QED
      BY <1>0, <1>c, <2>1, SetStatusAudits
  <1>1. ASSUME NEW c \in Creators, NEW k \in Keys, NEW p \in Payloads, CreateSelect(c, k, p)
        PROVE  \A b \in Actions : AuditStep(b)
    BY <1>1, <1>a DEF CreateSelect
  <1>2. ASSUME NEW c \in Creators, CreateLosesRace(c) \/ CreateRereads(c)
        PROVE  \A b \in Actions : AuditStep(b)
    BY <1>2, <1>a DEF CreateLosesRace, CreateRereads
  <1>3. ASSUME NEW c \in Creators, CreateInsert(c)
        PROVE  \A b \in Actions : AuditStep(b)
    <2>1. PICK a \in Actions : /\ row[a].status = "absent" /\ row'[a].status = "pending"
                               /\ \A b \in Actions : b # a => row'[b] = row[b]
      BY <1>0, <1>3, InsertEffect
    <2>2. audit' = audit
      BY <1>3 DEF CreateInsert
    <2> QED
      BY <2>1, <2>2 DEF AuditStep, Born, Kept
  <1>4. ASSUME NEW a \in Actions,
               Reject(a) \/ ClaimFindsExpired(a) \/ ClaimFindsLapsedLease(a) \/ ClaimFindsTampering(a)
        PROVE  \A b \in Actions : AuditStep(b)
    BY <1>4, <1>c DEF Reject, ClaimFindsExpired, ClaimFindsLapsedLease, ClaimFindsTampering,
                      MarkReconciliationRequired, Stored, Errors
  <1>5. ASSUME NEW a \in Actions, Tamper(a)
        PROVE  \A b \in Actions : AuditStep(b)
    <2>1. RowMoves(a, row[a].status, row[a].error) /\ audit' = audit
      BY <1>0, <1>5, TamperEffect DEF Tamper
    <2> QED
      BY <2>1 DEF RowMoves, AuditStep, Kept
  <1>6. ASSUME NEW a \in Actions, NEW t \in Tokens, Claim(a, t)
        PROVE  \A b \in Actions : AuditStep(b)
    <2>1. /\ row[a].status = "pending" /\ row'[a].status = "processing"
          /\ \A b \in Actions : b # a => row'[b] = row[b]
      BY <1>0, <1>6, ClaimEffect DEF Claim
    <2>2. /\ audit'[a] = audit[a] \cup {<<"pending", "processing">>}
          /\ \A b \in Actions : b # a => audit'[b] = audit[b]
      BY <1>0, <1>6 DEF Claim, TypeOK
    <2>3. Moved(a)
      BY <1>b, <2>1, <2>2 DEF Moved, Live, Stored
    <2> QED
      BY <2>1, <2>2, <2>3 DEF AuditStep, Kept
  <1>7. ASSUME NEW o \in Operators, NEW a \in Actions, ReconcileBegin(o, a)
        PROVE  \A b \in Actions : AuditStep(b)
    BY <1>7, <1>a, <1>c DEF ReconcileBegin, MarkReconciliationRequired, Stored, Errors
  <1>8. ASSUME NEW t \in Tokens, Finalize(t)
        PROVE  \A b \in Actions : AuditStep(b)
    <2>1. PICK a \in Actions : a = attempt[t].act
      BY <1>0, <1>8 DEF Finalize, AttemptShape, TypeOK, Attempt
    <2>2. CASE UNCHANGED <<row, audit>>
      BY <1>a, <2>2
    <2>3. CASE HoldsClaim(t, a) /\ RecordVerdict(t, a)
      <3>1. row[a].status = "processing"
        BY <2>3 DEF HoldsClaim
      <3>2. \E s \in {"reconciliation_required", "succeeded", "failed"}, e \in Errors : SetStatus(a, s, e)
        BY <1>8, <2>3 DEF Finalize, RecordVerdict, MarkReconciliationRequired, Errors
      <3> QED
        BY <1>c, <3>1, <3>2 DEF Stored
    <2> QED
      BY <1>8, <2>1, <2>2, <2>3 DEF Finalize
  <1>9. ASSUME NEW t \in Tokens,
               \/ ServicesUnavailable(t) \/ NotAdmitted(t) \/ Dispatch(t) \/ Answer(t)
               \/ ProviderStep(t) \/ Abandon(t)
        PROVE  \A b \in Actions : AuditStep(b)
    BY <1>9, <1>a DEF ServicesUnavailable, NotAdmitted, Dispatch, Answer, ProviderStep, Accept,
                      Conflict, Refuse, Lose, SetWrite, Abandon
  <1>10. ASSUME NEW o \in Operators, ReconcileLookup(o)
         PROVE  \A b \in Actions : AuditStep(b)
    BY <1>10, <1>a DEF ReconcileLookup
  <1>11. ASSUME NEW o \in Operators, ReconcileApply(o)
         PROVE  \A b \in Actions : AuditStep(b)
    <2>1. PICK a \in Actions : a = operator[o].act
      BY <1>0, <1>11 DEF ReconcileApply, FindingHolds
    <2>2. CASE UNCHANGED <<row, audit>>
      BY <1>a, <2>2
    <2>3. CASE row[a].status = "reconciliation_required" /\ ApplyFinding(a, "inconclusive")
      <3>1. row'[a].status = row[a].status /\ \A b \in Actions : b # a => row'[b] = row[b]
        BY <1>0, <2>3, InconclusiveEffect
      <3>2. audit' = [audit EXCEPT ![a] = audit[a] \cup {<<row[a].status, row[a].status>>}]
        BY <2>3 DEF ApplyFinding
      <3>3. /\ audit'[a] = audit[a] \cup {<<row[a].status, row[a].status>>}
            /\ \A b \in Actions : b # a => audit'[b] = audit[b]
        BY <1>0, <3>2 DEF TypeOK
      <3>4. Noted(a)
        BY <2>3, <3>1, <3>3 DEF Noted
      <3> QED
        BY <3>1, <3>3, <3>4 DEF AuditStep, Kept
    <2>4. CASE /\ row[a].status = "reconciliation_required"
               /\ \E s \in {"succeeded", "failed"}, e \in Errors : SetStatus(a, s, e)
      BY <1>c, <2>4 DEF Stored, Resolved
    <2>5. \/ UNCHANGED <<row, audit>>
          \/ row[a].status = "reconciliation_required" /\ ApplyFinding(a, operator[o].outcome)
      BY <1>11, <2>1 DEF ReconcileApply
    <2>6. ASSUME ApplyFinding(a, operator[o].outcome)
          PROVE  \/ ApplyFinding(a, "inconclusive")
                 \/ \E s \in {"succeeded", "failed"}, e \in Errors : SetStatus(a, s, e)
      <3>1. "none" \in Errors /\ "provider_not_found" \in Errors
        BY DEF Errors
      <3> QED
        BY <2>6, <3>1 DEF ApplyFinding
    <2> QED
      BY <2>2, <2>3, <2>4, <2>5, <2>6
  <1>12. ASSUME NEW swept \in SUBSET Actions, Prune(swept)
         PROVE  \A b \in Actions : AuditStep(b)
    <2> SUFFICES ASSUME NEW b \in Actions PROVE AuditStep(b)
      OBVIOUS
    <2>1. /\ b \in swept => row'[b].status = "expired"
          /\ b \in Outdated => row'[b].status = "deleted"
          /\ b \notin swept \cup Outdated => row'[b] = row[b]
      BY <1>0, <1>12, PruneEffect
    <2>2. /\ b \in swept => row[b].status = "pending"
          /\ audit'[b] = IF b \in swept THEN audit[b] \cup {<<"pending", "expired">>}
                         ELSE IF b \in Outdated THEN {} ELSE audit[b]
      BY <1>12 DEF Prune, Stale
    <2>3. CASE b \in swept
      <3>1. Rank("expired") = 3
        BY DEF Rank
      <3>2. Moved(b)
        BY <1>b, <2>1, <2>2, <2>3, <3>1 DEF Moved, Live, Stored
      <3> QED
        BY <3>2 DEF AuditStep
    <2> QED
      BY <2>1, <2>2, <2>3 DEF AuditStep, Gone, Kept
  <1>13. CASE Tick \/ UNCHANGED vars
    BY <1>13, <1>a DEF Tick, vars
  <1> QED
    BY <1>1, <1>2, <1>3, <1>4, <1>5, <1>6, <1>7, <1>8, <1>9, <1>10, <1>11, <1>12, <1>13
       DEF Next, RequestStep

\* Whatever requests, operators and sweeps do, the events of a stored action are
\* one chain of status changes from "pending" to its present status: every change
\* was recorded in its own transaction, and no status was ever entered twice.
THEOREM AuditTrailComplete == Spec => []AuditEndsAtStatus
  <1> DEFINE Trails == \A a \in Actions : AuditOf(a)
  <1>1. Init => Trails
    BY DEF Init, AuditOf, Live, Stored
  <1>2. Trails /\ IInv /\ [Next]_vars => Trails'
    BY NextAuditStep, AuditStepKeeps
  <1>3. Trails => AuditEndsAtStatus
    BY DEF AuditOf, AuditEndsAtStatus, Changes
  <1> QED
    BY <1>1, <1>2, <1>3, Invariance, PTL DEF Spec

------------------------------------------------------------------------------
(* The lifecycle is implemented *)

\* The refinement mapping, column by column.
StatusMap == [a \in Actions |-> row[a].status]
CommandMap == [a \in Actions |-> row[a].key]
ApprovedMap == {a \in Actions : \E t \in Tokens : attempt[t].act = a}
EffectsMap == [a \in Actions |-> EffectsOf(a)]

\* A row's move is the same move of its status.
LEMMA MoveMaps ==
  ASSUME NEW a \in Actions, NEW s, NEW e, RowMoves(a, s, e)
  PROVE  StatusMap' = [StatusMap EXCEPT ![a] = s] /\ CommandMap' = CommandMap
  <1>1. \A b \in Actions : row'[b].status = IF b = a THEN s ELSE row[b].status
    BY DEF RowMoves
  <1>2. \A b \in Actions : row'[b].key = row[b].key
    BY DEF RowMoves
  <1> QED
    BY <1>1, <1>2 DEF StatusMap, CommandMap

\* Requests that neither claim nor have a write accepted change nothing mapped.
QuietAttempts ==
    \A t \in Tokens : /\ attempt'[t].act = attempt[t].act
                      /\ attempt'[t].write = "accepted" <=> attempt[t].write = "accepted"

\* Such steps leave approvals and effects as they are.
LEMMA QuietMaps ==
  ASSUME QuietAttempts
  PROVE  ApprovedMap' = ApprovedMap /\ EffectsMap' = EffectsMap
  BY DEF QuietAttempts, ApprovedMap, EffectsMap, EffectsOf

\* Any request step but the provider's acceptance is quiet.
LEMMA RequestsAreQuiet ==
  ASSUME TypeOK, AttemptShape, NEW t \in Tokens,
         RequestStep(t) \/ Conflict(t) \/ Refuse(t) \/ Lose(t) \/ Abandon(t)
  PROVE  QuietAttempts
  <1>1. CASE ServicesUnavailable(t) \/ NotAdmitted(t) \/ Abandon(t)
    BY <1>1 DEF ServicesUnavailable, NotAdmitted, Abandon, QuietAttempts, TypeOK, Attempt
  <1>2. CASE Dispatch(t)
    <2>1. attempt[t].write = "none"
      BY <1>2 DEF Dispatch, AttemptShape
    <2> QED
      BY <1>2, <2>1 DEF Dispatch, QuietAttempts, TypeOK, Attempt
  <1>3. CASE Answer(t)
    <2>1. PICK v : attempt' = [attempt EXCEPT ![t] = [attempt[t] EXCEPT !.pc = v]]
      BY <1>3 DEF Answer
    <2> QED
      BY <2>1 DEF QuietAttempts, TypeOK, Attempt
  <1>4. CASE Finalize(t)
    BY <1>4 DEF Finalize, QuietAttempts, TypeOK, Attempt
  <1>5. CASE Conflict(t) \/ Refuse(t) \/ Lose(t)
    BY <1>5 DEF Conflict, Refuse, Lose, SetWrite, QuietAttempts, TypeOK, Attempt
  <1> QED
    BY <1>1, <1>2, <1>3, <1>4, <1>5 DEF RequestStep

\* Steps that leave statuses, keys, claims and acceptances alone are stutters.
LEMMA QuietStutters ==
  ASSUME StatusMap' = StatusMap, CommandMap' = CommandMap, QuietAttempts
  PROVE  UNCHANGED Lifecycle!lifecycleVars
  BY QuietMaps DEF Lifecycle!lifecycleVars, StatusMap, CommandMap, ApprovedMap, EffectsMap

\* The abstract steps, in terms of the mapping.
LEMMA LifecycleSteps ==
  ASSUME ApprovedMap' = ApprovedMap, EffectsMap' = EffectsMap,
         NEW a \in Actions, NEW s, NEW e, RowMoves(a, s, e),
         \/ row[a].status = "pending" /\ s \in {"rejected", "expired"}
         \/ row[a].status \in {"pending", "processing"} /\ s = "reconciliation_required"
         \/ /\ row[a].status \in {"processing", "reconciliation_required"}
            /\ s = "succeeded"
            /\ \E b \in Actions : row[b].key = row[a].key /\ EffectsOf(b) # {}
         \/ /\ row[a].status \in {"processing", "reconciliation_required"}
            /\ s = "failed"
            /\ row[a].status = "processing" => EffectsOf(a) = {}
  PROVE  Lifecycle!LifecycleNext
  <1>1. StatusMap' = [StatusMap EXCEPT ![a] = s] /\ CommandMap' = CommandMap
    BY MoveMaps
  <1>2. StatusMap[a] = row[a].status
    BY DEF StatusMap
  <1>3. CASE row[a].status = "pending" /\ s = "rejected"
    <2>1. Lifecycle!Decline(a)
      BY <1>1, <1>2, <1>3
         DEF Lifecycle!Decline, Lifecycle!Move, StatusMap, CommandMap, ApprovedMap, EffectsMap
    <2> QED
      BY <2>1 DEF Lifecycle!LifecycleNext
  <1>4. CASE row[a].status = "pending" /\ s = "expired"
    <2>1. \A b \in Actions : row'[b].status = IF b = a THEN "expired" ELSE row[b].status
      BY <1>4 DEF RowMoves
    <2>2. Lifecycle!Housekeep({a}, {})
      BY <1>1, <1>4, <2>1
         DEF Lifecycle!Housekeep, StatusMap, CommandMap, ApprovedMap, EffectsMap
    <2> QED
      BY <2>2 DEF Lifecycle!LifecycleNext
  <1>5. CASE row[a].status \in {"pending", "processing"} /\ s = "reconciliation_required"
    <2>1. Lifecycle!MarkAmbiguous(a)
      BY <1>1, <1>2, <1>5
         DEF Lifecycle!MarkAmbiguous, Lifecycle!Move, StatusMap, CommandMap, ApprovedMap, EffectsMap
    <2> QED
      BY <2>1 DEF Lifecycle!LifecycleNext
  <1>6. CASE /\ row[a].status \in {"processing", "reconciliation_required"}
             /\ s = "succeeded"
             /\ \E b \in Actions : row[b].key = row[a].key /\ EffectsOf(b) # {}
    <2>1. Lifecycle!EffectKnown(a)
      BY <1>6 DEF Lifecycle!EffectKnown
    <2>2. Lifecycle!RecordSuccess(a)
      BY <1>1, <1>2, <1>6, <2>1
         DEF Lifecycle!RecordSuccess, Lifecycle!Move, StatusMap, CommandMap, ApprovedMap, EffectsMap
    <2> QED
      BY <2>2 DEF Lifecycle!LifecycleNext
  <1>7. CASE /\ row[a].status \in {"processing", "reconciliation_required"}
             /\ s = "failed"
             /\ row[a].status = "processing" => EffectsOf(a) = {}
    <2>1. Lifecycle!RecordFailure(a)
      BY <1>1, <1>2, <1>7
         DEF Lifecycle!RecordFailure, Lifecycle!Move, StatusMap, CommandMap, ApprovedMap, EffectsMap
    <2> QED
      BY <2>1 DEF Lifecycle!LifecycleNext
  <1> QED
    BY <1>3, <1>4, <1>5, <1>6, <1>7

\* An accepted write under a command key is an effect of some action with it.
LEMMA AcceptedIsEffect ==
  ASSUME IInv, NEW k, Accepted(k) # {}
  PROVE  \E b \in Actions : row[b].key = k /\ EffectsOf(b) # {}
  <1>1. PICK t \in Tokens : attempt[t].write = "accepted" /\ Key(t) = k
    BY DEF Accepted
  <1>2. attempt[t].act \in Actions
    BY <1>1 DEF IInv, AttemptShape, TypeOK, Attempt
  <1>3. t \in EffectsOf(attempt[t].act)
    BY <1>1 DEF EffectsOf
  <1> QED
    BY <1>1, <1>2, <1>3 DEF Key

\* Finalizing: a verdict on a row the request still holds is a lifecycle step.
LEMMA FinalizeMaps ==
  ASSUME IInv, NEW t \in Tokens, Finalize(t)
  PROVE  Lifecycle!LifecycleNext \/ UNCHANGED Lifecycle!lifecycleVars
  <1> DEFINE a == attempt[t].act
  <1>1. TypeOK /\ AttemptShape /\ ClaimedOnce
    BY DEF IInv
  <1>2. QuietAttempts
    BY <1>1, RequestsAreQuiet DEF RequestStep
  <1>3. ApprovedMap' = ApprovedMap /\ EffectsMap' = EffectsMap
    BY <1>2, QuietMaps
  <1>4. a \in Actions
    BY <1>1 DEF Finalize, AttemptShape, TypeOK, Attempt
  <1>5. CASE ~HoldsClaim(t, a)
    BY <1>2, <1>5, QuietStutters DEF Finalize, StatusMap, CommandMap
  <1>6. CASE HoldsClaim(t, a)
    <2>1. /\ row[a].status = "processing" /\ RecordVerdict(t, a)
          /\ attempt[t].pc \in {"not_dispatched", "confirmed_failure", "ambiguous", "success"}
      BY <1>6 DEF Finalize, HoldsClaim
    <2>2. attempt[t].pc = "success" => Accepted(row[a].key) # {}
      BY <1>1 DEF AttemptShape, Accepted, Key
    <2>3. attempt[t].pc \in {"not_dispatched", "confirmed_failure"} => EffectsOf(a) = {}
      BY <1>1, <1>4, NoneAssumption DEF AttemptShape, ClaimedOnce, EffectsOf
    <2> HIDE DEF a
    <2>4. CASE LeaseLapsed(a) \/ attempt[t].pc = "ambiguous"
      <3>1. PICK e \in Errors : RowMoves(a, "reconciliation_required", e)
        BY <1>1, <1>4, <2>1, <2>4, SetStatusMoves
           DEF RecordVerdict, MarkReconciliationRequired, Status, Stored, Errors
      <3> QED
        BY <1>3, <1>4, <2>1, <3>1, LifecycleSteps
    <2>5. CASE ~LeaseLapsed(a) /\ attempt[t].pc = "success"
      <3>1. RowMoves(a, "succeeded", "none")
        BY <1>1, <1>4, <2>1, <2>5, SetStatusMoves DEF RecordVerdict, Status, Stored, Errors
      <3>2. \E b \in Actions : row[b].key = row[a].key /\ EffectsOf(b) # {}
        BY <2>2, <2>5, AcceptedIsEffect
      <3> QED
        BY <1>3, <1>4, <2>1, <3>1, <3>2, LifecycleSteps
    <2>6. CASE ~LeaseLapsed(a) /\ attempt[t].pc = "confirmed_failure"
      <3>1. RowMoves(a, "failed", "provider_rejected")
        BY <1>1, <1>4, <2>1, <2>6, SetStatusMoves DEF RecordVerdict, Status, Stored, Errors
      <3> QED
        BY <1>3, <1>4, <2>1, <2>3, <2>6, <3>1, LifecycleSteps
    <2>7. CASE ~LeaseLapsed(a) /\ attempt[t].pc = "not_dispatched"
      <3>1. RowMoves(a, "failed", "failed_before_dispatch")
        BY <1>1, <1>4, <2>1, <2>7, SetStatusMoves DEF RecordVerdict, Status, Stored, Errors
      <3> QED
        BY <1>3, <1>4, <2>1, <2>3, <2>7, <3>1, LifecycleSteps
    <2> QED
      BY <2>1, <2>4, <2>5, <2>6, <2>7
  <1> QED
    BY <1>5, <1>6

\* The provider's acceptance is the action's one effect.
LEMMA AcceptMaps ==
  ASSUME IInv, NEW t \in Tokens, Accept(t)
  PROVE  Lifecycle!LifecycleNext
  <1>1. TypeOK /\ AttemptShape /\ ClaimedOnce
    BY DEF IInv
  <1>2. /\ attempt[t].write = "inflight"
        /\ attempt' = [attempt EXCEPT ![t] = [attempt[t] EXCEPT !.write = "accepted"]]
        /\ UNCHANGED row
    BY DEF Accept, SetWrite
  <1>3. PICK a \in Actions : a = attempt[t].act
    BY <1>1, <1>2 DEF AttemptShape, TypeOK, Attempt
  <1>4. \A u \in Tokens : attempt[u].act = a => u = t
    BY <1>1, <1>3, NoneAssumption DEF ClaimedOnce
  <1>5. /\ attempt'[t].act = a /\ attempt'[t].write = "accepted"
        /\ \A u \in Tokens : u # t => attempt'[u] = attempt[u]
    BY <1>1, <1>2, <1>3 DEF TypeOK, Attempt
  <1>6. EffectsOf(a) = {} /\ EffectsOf(a)' = {t}
    BY <1>2, <1>4, <1>5 DEF EffectsOf
  <1>7. \A b \in Actions : b # a => EffectsOf(b)' = EffectsOf(b)
    BY <1>3, <1>4, <1>5 DEF EffectsOf
  <1>8. EffectsMap' = [EffectsMap EXCEPT ![a] = {t}] /\ EffectsMap[a] = {}
    BY <1>3, <1>6, <1>7 DEF EffectsMap
  <1>9. ApprovedMap' = ApprovedMap /\ a \in ApprovedMap
    BY <1>3, <1>5 DEF ApprovedMap
  <1>10. Lifecycle!TakeEffect(a, t)
    BY <1>2, <1>8, <1>9 DEF Lifecycle!TakeEffect, ApprovedMap, EffectsMap
  <1> QED
    BY <1>3, <1>10 DEF Lifecycle!LifecycleNext

\* An approval and an insert are the lifecycle's own.
LEMMA ClaimMaps ==
  ASSUME IInv, NEW a \in Actions, NEW t \in Tokens, Claim(a, t)
  PROVE  Lifecycle!LifecycleNext
  <1>1. TypeOK /\ AttemptShape
    BY DEF IInv
  <1>2. /\ row[a].status = "pending" /\ attempt[t].pc = "unused"
        /\ attempt' = [attempt EXCEPT ![t] = [act |-> a, pc |-> "claimed", write |-> "none"]]
    BY DEF Claim
  <1>3. /\ row'[a].status = "processing" /\ row'[a].key = row[a].key
        /\ \A b \in Actions : b # a => row'[b] = row[b]
    BY <1>1, ClaimEffect
  <1>4. \A b \in Actions : /\ row'[b].status = IF b = a THEN "processing" ELSE row[b].status
                           /\ row'[b].key = row[b].key
    BY <1>3
  <1>5. StatusMap' = [StatusMap EXCEPT ![a] = "processing"] /\ CommandMap' = CommandMap
    BY <1>4 DEF StatusMap, CommandMap
  <1>6. attempt[t].act = None /\ attempt[t].write = "none"
    BY <1>1, <1>2 DEF AttemptShape
  <1>7. /\ attempt'[t].act = a /\ attempt'[t].write = "none"
        /\ \A u \in Tokens : u # t => attempt'[u] = attempt[u]
    BY <1>1, <1>2 DEF TypeOK
  <1>8. ApprovedMap' = ApprovedMap \cup {a}
    BY <1>6, <1>7, NoneAssumption DEF ApprovedMap
  <1>9. EffectsMap' = EffectsMap
    <2>1. \A b \in Actions : EffectsOf(b)' = EffectsOf(b)
      BY <1>6, <1>7 DEF EffectsOf
    <2> QED
      BY <2>1 DEF EffectsMap
  <1>10. Lifecycle!Approve(a)
    BY <1>2, <1>5, <1>8, <1>9
       DEF Lifecycle!Approve, Lifecycle!Move, StatusMap, CommandMap, ApprovedMap, EffectsMap
  <1> QED
    BY <1>10 DEF Lifecycle!LifecycleNext

\* An insert is the proposal of its command.
LEMMA InsertMaps ==
  ASSUME IInv, NEW c \in Creators, CreateInsert(c)
  PROVE  Lifecycle!LifecycleNext
  <1>1. TypeOK /\ creator[c].key \in Keys
    BY DEF IInv, CreatorHasCommand, CreateInsert
  <1>2. PICK a \in Actions :
          /\ row[a].status = "absent"
          /\ row'[a].status = "pending"
          /\ row'[a].key = creator[c].key
          /\ \A b \in Actions : b # a => row'[b] = row[b]
    BY <1>1, InsertEffect
  <1>3. \A b \in Actions : /\ row'[b].status = IF b = a THEN "pending" ELSE row[b].status
                           /\ row'[b].key = IF b = a THEN creator[c].key ELSE row[b].key
    BY <1>2
  <1>4. /\ StatusMap' = [StatusMap EXCEPT ![a] = "pending"]
        /\ CommandMap' = [CommandMap EXCEPT ![a] = creator[c].key]
    BY <1>3 DEF StatusMap, CommandMap
  <1>5. attempt' = attempt
    BY DEF CreateInsert
  <1>6. ApprovedMap' = ApprovedMap /\ EffectsMap' = EffectsMap
    BY <1>5, QuietMaps DEF QuietAttempts
  <1>k. PICK k \in Keys : k = creator[c].key
    BY <1>1
  <1>7. Lifecycle!Propose(a, k)
    BY <1>2, <1>4, <1>6, <1>k
       DEF Lifecycle!Propose, Lifecycle!Move, StatusMap, CommandMap, ApprovedMap, EffectsMap
  <1> QED
    BY <1>7 DEF Lifecycle!LifecycleNext

\* Retention is housekeeping.
LEMMA PruneMaps ==
  ASSUME IInv, NEW swept \in SUBSET Actions, Prune(swept)
  PROVE  Lifecycle!LifecycleNext
  <1>1. TypeOK /\ attempt' = attempt
    BY DEF IInv, Prune
  <1>2. \A a \in Actions :
           /\ row'[a].key = row[a].key
           /\ a \in swept => row'[a].status = "expired"
           /\ a \in Outdated => row'[a].status = "deleted"
           /\ a \notin swept \cup Outdated => row'[a] = row[a]
    BY <1>1, PruneEffect
  <1>3. /\ swept \cup Outdated # {}
        /\ \A a \in swept : row[a].status = "pending"
        /\ \A a \in Outdated : row[a].status \in Resolved
        /\ Outdated \in SUBSET Actions
    BY DEF Prune, Stale, Outdated
  <1>4. ApprovedMap' = ApprovedMap /\ EffectsMap' = EffectsMap
    BY <1>1, QuietMaps DEF QuietAttempts
  <1>5. CommandMap' = CommandMap
    BY <1>2 DEF CommandMap
  <1>6. StatusMap' = [a \in Actions |-> IF a \in swept THEN "expired"
                                        ELSE IF a \in Outdated THEN "deleted" ELSE StatusMap[a]]
    BY <1>2 DEF StatusMap
  <1>d. PICK D \in SUBSET Actions : D = Outdated
    BY <1>3
  <1>7. Lifecycle!Housekeep(swept, D)
    BY <1>d, <1>3, <1>4, <1>5, <1>6
       DEF Lifecycle!Housekeep, Lifecycle!Resolved, Resolved, StatusMap, CommandMap,
           ApprovedMap, EffectsMap
  <1> QED
    BY <1>7 DEF Lifecycle!LifecycleNext

\* An operator's applied finding is a lifecycle step or changes nothing mapped.
LEMMA ApplyMaps ==
  ASSUME IInv, NEW o \in Operators, ReconcileApply(o)
  PROVE  Lifecycle!LifecycleNext \/ UNCHANGED Lifecycle!lifecycleVars
  <1>1. TypeOK /\ attempt' = attempt
    BY DEF IInv, ReconcileApply
  <1>2. QuietAttempts
    BY <1>1 DEF QuietAttempts
  <1>3. ApprovedMap' = ApprovedMap /\ EffectsMap' = EffectsMap
    BY <1>2, QuietMaps
  <1>4. PICK a \in Actions : a = operator[o].act
    BY DEF IInv, FindingHolds, ReconcileApply
  <1>5. operator[o].outcome = "succeeded" => Accepted(row[a].key) # {}
    BY <1>4 DEF IInv, FindingHolds, ReconcileApply
  <1>6. CASE UNCHANGED <<row, audit>>
    BY <1>2, <1>6, QuietStutters DEF StatusMap, CommandMap
  <1>7. CASE row[a].status = "reconciliation_required" /\ ApplyFinding(a, operator[o].outcome)
    <2>1. CASE operator[o].outcome = "succeeded"
      <3>1. RowMoves(a, "succeeded", "none")
        BY <1>1, <1>7, <2>1, SetStatusMoves DEF ApplyFinding, Status, Stored, Errors
      <3>2. \E b \in Actions : row[b].key = row[a].key /\ EffectsOf(b) # {}
        BY <1>5, <2>1, AcceptedIsEffect
      <3> QED
        BY <1>3, <1>7, <3>1, <3>2, LifecycleSteps
    <2>2. CASE operator[o].outcome = "failed"
      <3>1. RowMoves(a, "failed", "provider_not_found")
        BY <1>1, <1>7, <2>2, SetStatusMoves DEF ApplyFinding, Status, Stored, Errors
      <3> QED
        BY <1>3, <1>7, <3>1, LifecycleSteps
    <2>3. CASE operator[o].outcome = "inconclusive"
      <3>1. /\ row'[a].status = row[a].status /\ row'[a].key = row[a].key
            /\ \A b \in Actions : b # a => row'[b] = row[b]
        BY <1>1, <1>7, <2>3, InconclusiveEffect
      <3>2. \A b \in Actions : row'[b].status = row[b].status /\ row'[b].key = row[b].key
        BY <3>1
      <3>3. StatusMap' = StatusMap /\ CommandMap' = CommandMap
        BY <3>2 DEF StatusMap, CommandMap
      <3> QED
        BY <1>2, <3>3, QuietStutters
    <2> QED
      BY <1>7, <2>1, <2>2, <2>3 DEF ApplyFinding
  <1> QED
    BY <1>4, <1>6, <1>7 DEF ReconcileApply

\* Every step of the service is a step of the lifecycle, or invisible in it.
LEMMA NextMaps ==
  ASSUME IInv, [Next]_vars
  PROVE  Lifecycle!LifecycleNext \/ UNCHANGED Lifecycle!lifecycleVars
  <1>0. TypeOK /\ AttemptShape
    BY DEF IInv
  <1>a. ASSUME UNCHANGED row, QuietAttempts PROVE UNCHANGED Lifecycle!lifecycleVars
    BY <1>a, QuietStutters DEF StatusMap, CommandMap
  <1>b. ASSUME UNCHANGED attempt PROVE QuietAttempts
    BY <1>b DEF QuietAttempts
  <1>c. ASSUME UNCHANGED attempt PROVE ApprovedMap' = ApprovedMap /\ EffectsMap' = EffectsMap
    BY <1>b, <1>c, QuietMaps
  <1>1. ASSUME NEW c \in Creators, NEW k \in Keys, NEW p \in Payloads, CreateSelect(c, k, p)
        PROVE  UNCHANGED Lifecycle!lifecycleVars
    BY <1>1, <1>a, <1>b DEF CreateSelect
  <1>2. ASSUME NEW c \in Creators, CreateLosesRace(c) \/ CreateRereads(c)
        PROVE  UNCHANGED Lifecycle!lifecycleVars
    BY <1>2, <1>a, <1>b DEF CreateLosesRace, CreateRereads
  <1>3. ASSUME NEW c \in Creators, CreateInsert(c)
        PROVE  Lifecycle!LifecycleNext
    BY <1>3, InsertMaps
  <1>4. ASSUME NEW a \in Actions,
               Reject(a) \/ ClaimFindsExpired(a) \/ ClaimFindsLapsedLease(a) \/ ClaimFindsTampering(a)
        PROVE  Lifecycle!LifecycleNext
    <2>1. UNCHANGED attempt
      BY <1>4 DEF Reject, ClaimFindsExpired, ClaimFindsLapsedLease, ClaimFindsTampering
    <2>2. \/ row[a].status = "pending" /\ RowMoves(a, "rejected", "none")
          \/ row[a].status = "pending" /\ RowMoves(a, "expired", "none")
          \/ /\ row[a].status = "processing"
             /\ RowMoves(a, "reconciliation_required", "processing_lease_expired")
          \/ /\ row[a].status = "pending"
             /\ RowMoves(a, "reconciliation_required", "payload_integrity_mismatch")
      BY <1>0, <1>4, SetStatusMoves
         DEF Reject, ClaimFindsExpired, ClaimFindsLapsedLease, ClaimFindsTampering,
             MarkReconciliationRequired, Status, Stored, Errors
    <2> QED
      BY <1>c, <2>1, <2>2, LifecycleSteps
  <1>5. ASSUME NEW a \in Actions, Tamper(a)
        PROVE  UNCHANGED Lifecycle!lifecycleVars
    <2>1. RowMoves(a, row[a].status, row[a].error) /\ attempt' = attempt
      BY <1>0, <1>5, TamperEffect DEF Tamper
    <2>2. \A b \in Actions : row'[b].status = row[b].status /\ row'[b].key = row[b].key
      BY <2>1 DEF RowMoves
    <2>3. StatusMap' = StatusMap /\ CommandMap' = CommandMap
      BY <2>2 DEF StatusMap, CommandMap
    <2> QED
      BY <1>b, <2>1, <2>3, QuietStutters
  <1>6. ASSUME NEW a \in Actions, NEW t \in Tokens, Claim(a, t)
        PROVE  Lifecycle!LifecycleNext
    BY <1>6, ClaimMaps
  <1>7. ASSUME NEW o \in Operators, NEW a \in Actions, ReconcileBegin(o, a)
        PROVE  Lifecycle!LifecycleNext \/ UNCHANGED Lifecycle!lifecycleVars
    <2>1. UNCHANGED attempt
      BY <1>7 DEF ReconcileBegin
    <2>2. CASE UNCHANGED <<row, audit>>
      BY <1>a, <1>b, <2>1, <2>2
    <2>3. CASE row[a].status = "processing"
               /\ MarkReconciliationRequired(a, "processing_lease_expired")
      <3>1. RowMoves(a, "reconciliation_required", "processing_lease_expired")
        BY <1>0, <2>3, SetStatusMoves DEF MarkReconciliationRequired, Status, Stored, Errors
      <3> QED
        BY <1>c, <2>1, <2>3, <3>1, LifecycleSteps
    <2> QED
      BY <1>7, <2>2, <2>3 DEF ReconcileBegin
  <1>8. ASSUME NEW t \in Tokens, RequestStep(t) \/ ProviderStep(t) \/ Abandon(t)
        PROVE  Lifecycle!LifecycleNext \/ UNCHANGED Lifecycle!lifecycleVars
    <2>1. CASE Finalize(t)
      BY <2>1, FinalizeMaps
    <2>2. CASE Accept(t)
      BY <2>2, AcceptMaps
    <2>3. CASE ~Finalize(t) /\ ~Accept(t)
      <3>1. QuietAttempts
        BY <1>0, <1>8, <2>3, RequestsAreQuiet DEF ProviderStep
      <3>2. UNCHANGED row
        BY <1>8, <2>3
           DEF RequestStep, ProviderStep, ServicesUnavailable, NotAdmitted, Dispatch, Answer,
               Abandon, Conflict, Refuse, Lose, SetWrite
      <3> QED
        BY <1>a, <3>1, <3>2
    <2> QED
      BY <2>1, <2>2, <2>3
  <1>9. ASSUME NEW o \in Operators, ReconcileLookup(o)
        PROVE  UNCHANGED Lifecycle!lifecycleVars
    BY <1>9, <1>a, <1>b DEF ReconcileLookup
  <1>10. ASSUME NEW o \in Operators, ReconcileApply(o)
         PROVE  Lifecycle!LifecycleNext \/ UNCHANGED Lifecycle!lifecycleVars
    BY <1>10, ApplyMaps
  <1>11. ASSUME NEW swept \in SUBSET Actions, Prune(swept)
         PROVE  Lifecycle!LifecycleNext
    BY <1>11, PruneMaps
  <1>12. CASE Tick \/ UNCHANGED vars
    BY <1>12, <1>a, <1>b DEF Tick, vars
  <1> QED
    BY <1>1, <1>2, <1>3, <1>4, <1>5, <1>6, <1>7, <1>8, <1>9, <1>10, <1>11, <1>12 DEF Next

\* The service implements the lifecycle README.md documents: leases, tokens,
\* provider threads, crashes and operator lookups never make an action leave a
\* resolved status, take effect twice or without approval, or be recorded as
\* succeeded without an effect.
THEOREM Refinement == Spec => LifecycleRefined
  <1>1. Init => Lifecycle!LifecycleInit
    <2> SUFFICES ASSUME Init PROVE Lifecycle!LifecycleInit
      OBVIOUS
    <2>1. \A a \in Actions : row[a].status = "absent" /\ row[a].key = None
      BY DEF Init
    <2>2. \A t \in Tokens : attempt[t].act = None /\ attempt[t].write = "none"
      BY DEF Init
    <2> QED
      BY <2>1, <2>2, NoneAssumption DEF Lifecycle!LifecycleInit, EffectsOf
  <1>2. IInv /\ [Next]_vars => [Lifecycle!LifecycleNext]_(Lifecycle!lifecycleVars)
    BY NextMaps
  <1> QED
    BY <1>1, <1>2, Invariance, PTL DEF Spec, LifecycleRefined, Lifecycle!LifecycleSpec
==============================================================================
