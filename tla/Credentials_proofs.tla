------------------------- MODULE Credentials_proofs -------------------------
(***************************************************************************)
(* Proofs about Credentials for every set of requests, states, accounts    *)
(* and keys and every number of refresh tokens: stored connections stay    *)
(* usable, refreshes act on the token they started from, and OAuth flows   *)
(* stay bound to their account.                                            *)
(***************************************************************************)
EXTENDS Credentials, FiniteSetTheorems, TLAPS

------------------------------------------------------------------------------
(* The inductive invariant *)

\* What can be read from the row alone: an encrypted payload names its key, and
\* a payload has a refresh token; before the row exists it names no account.
RowShape ==
    /\ row.sealed # None => row.key = row.sealed /\ row.token # 0
    /\ row.json = "valid" => row.token # 0
    /\ row.status = "absent" => row.email = None

\* The load has read the row and waits for Google, or has its answer.
Refreshing(l) == load[l].pc \in {"refreshing", "granted"}

\* The lock is held exactly during a refresh, and what is refreshed is stored.
LockOwner ==
    /\ \A l \in Loads : Refreshing(l) <=> lock = l
    /\ \A l \in Loads : Refreshing(l) =>
          row.status = "connected" /\ row.token = load[l].token

\* Google numbers the tokens in the order it issues them.
IssuedInOrder ==
    \E k \in 0..MaxToken : \A t \in Tokens : fate[t] # "unissued" <=> t <= k

\* Some load has an answer of Google that it has not stored yet.
Granted == \E l \in Loads : load[l].pc = "granted"

\* The stored token was issued, and replaced only for the refresh that holds the lock.
StoredToken ==
    row.token # 0 => /\ fate[row.token] # "unissued"
                     /\ fate[row.token] = "rotated" => Granted

\* What a load refreshes was issued, and what it is about to store is not replaced.
LoadTokens ==
    \A l \in Loads :
        /\ load[l].pc \in {"refreshing", "granted", "late"} => load[l].token \in Tokens
        /\ load[l].pc = "granted" => /\ load[l].merged \in Tokens
                                     /\ fate[load[l].merged] \in {"live", "lost"}

\* The tokens of a callback are its own until they are stored.
CallbackTokens ==
    \A c \in Callbacks : callback[c].pc = "exchanged" =>
        /\ callback[c].token \in Tokens
        /\ fate[callback[c].token] \in {"live", "lost"}
        /\ callback[c].token # row.token
        /\ \A l \in Loads : load[l].pc = "granted" => load[l].merged # callback[c].token
        /\ \A d \in Callbacks : callback[d].pc = "exchanged" /\ d # c =>
              callback[d].token # callback[c].token

\* A flow under way has its account, and its state cannot be used again.
FlowsBound ==
    /\ \A c \in Callbacks : callback[c].pc \in {"consumed", "exchanged"} => callback[c].email \in Emails
    /\ \A c \in Callbacks : callback[c].state # None => state[callback[c].state] = "gone"
    /\ \A c \in Callbacks : callback[c].pc = "idle" => callback[c].state = None
    /\ StateSpentOnce

\* The invariant that is preserved by every step.
IInv ==
    /\ TypeOK /\ RowShape /\ LockOwner
    /\ IssuedInOrder /\ StoredToken /\ LoadTokens /\ CallbackTokens
    /\ FlowsBound

------------------------------------------------------------------------------
(* Facts about the operators *)

\* What encryption makes of a row.
LEMMA WriteEncryptedRow ==
  ASSUME NEW r \in Row, NEW k \in Keys, NEW t \in Tokens \cup {0}, NEW e \in Emails \cup {None}
  PROVE  LET s == WriteEncrypted(r, k, t, e) IN
         /\ s \in Row /\ s.status = "connected" /\ s.json = "json_null"
         /\ s.sealed = k /\ s.key = k /\ s.token = t /\ s.email = e
  <1> DEFINE s1 == [r EXCEPT !.status = "connected", !.json = "json_null"]
             s2 == [s1 EXCEPT !.sealed = k, !.key = k]
             s3 == [s2 EXCEPT !.token = t, !.email = e]
  <1>1. s1 \in Row /\ s1.status = "connected" /\ s1.json = "json_null"
    BY DEF Row, Json
  <1> HIDE DEF s1
  <1>2. /\ s2 \in Row /\ s2.status = "connected" /\ s2.json = "json_null"
        /\ s2.sealed = k /\ s2.key = k
    BY <1>1 DEF Row
  <1> HIDE DEF s2
  <1>3. /\ s3 \in Row /\ s3.status = "connected" /\ s3.json = "json_null"
        /\ s3.sealed = k /\ s3.key = k /\ s3.token = t /\ s3.email = e
    BY <1>2 DEF Row
  <1> HIDE DEF s3
  <1>4. WriteEncrypted(r, k, t, e) = s3
    BY DEF WriteEncrypted, s1, s2, s3
  <1> QED
    BY <1>3, <1>4

\* What marking a row for reconnection makes of it.
LEMMA MarkedRow ==
  ASSUME TypeOK, MarkReconnectRequired
  PROVE  /\ row' \in Row /\ row'.status = "reconnect_required" /\ row'.json = row.json
         /\ row'.sealed = row.sealed /\ row'.key = row.key /\ row'.token = row.token
         /\ row'.email = row.email
  BY DEF TypeOK, MarkReconnectRequired, Row

\* The number after the last token issued; it is issued next, if there is one.
LEMMA NextTokenUnissued ==
  ASSUME TypeOK, IssuedInOrder
  PROVE  /\ NextToken \in Nat
         /\ NextToken \in Tokens => fate[NextToken] = "unissued"
         /\ \A t \in Tokens : fate[t] # "unissued" <=> t < NextToken
  <1>1. PICK k \in 0..MaxToken : \A t \in Tokens : fate[t] # "unissued" <=> t <= k
    BY DEF IssuedInOrder
  <1>2. {t \in Tokens : fate[t] # "unissued"} = 1..k
    BY <1>1, TokenAssumption DEF Tokens
  <1>3. Cardinality(1..k) = k
    BY FS_Interval, TokenAssumption
  <1>4. NextToken = k + 1
    <2>1. NextToken = 1 + k
      BY <1>2, <1>3, Zenon DEF NextToken
    <2> QED
      BY <2>1
  <1> QED
    BY <1>1, <1>4, TokenAssumption DEF Tokens

\* The initial states satisfy the invariant: whatever the migration left.
LEMMA InitIInv == Init => IInv
  <1> SUFFICES ASSUME Init PROVE IInv
    OBVIOUS
  <1>1. PICK e \in Emails : row \in Migrated(e)
    BY DEF Init
  <1>2. /\ row \in Row /\ row.sealed = None /\ row.token \in {0, 1}
        /\ row.json = "valid" => row.token # 0
        /\ row.status = "absent" => row.email = None
    <2> DEFINE Fits(r) == /\ r \in Row /\ r.sealed = None /\ r.token \in {0, 1}
                          /\ r.json = "valid" => r.token # 0
                          /\ r.status = "absent" => r.email = None
    <2>1. 1 \in Tokens /\ 1 \in {0, 1} /\ 1 # 0
      BY TokenAssumption DEF Tokens
    <2>2. Fits(NoRow) /\ NoRow.token = 0
      BY DEF NoRow, Row, Json
    <2>3. /\ Fits([NoRow EXCEPT !.status = "pending", !.json = "marker"])
          /\ Fits([NoRow EXCEPT !.status = "pending", !.json = "marker", !.email = e])
      BY <2>2 DEF Row, Json
    <2>4. ASSUME NEW x \in Tokens, x \in {0, 1}, x # 0
          PROVE  /\ Fits([NoRow EXCEPT !.status = "connected", !.json = "valid", !.token = x, !.email = e])
                 /\ Fits([NoRow EXCEPT !.status = "reconnect_required", !.json = "valid", !.token = x])
      BY <2>2, <2>4 DEF Row, Json
    <2>5. Fits([NoRow EXCEPT !.status = "connected", !.json = "invalid", !.email = e])
      BY <2>2 DEF Row, Json
    <2>6. /\ Fits([NoRow EXCEPT !.status = "reconnect_required", !.json = "invalid"])
          /\ Fits([NoRow EXCEPT !.status = "reconnect_required", !.json = "invalid", !.email = e])
      BY <2>2 DEF Row, Json
    <2> HIDE DEF Fits
    <2>7. /\ Fits([NoRow EXCEPT !.status = "connected", !.json = "valid", !.token = 1, !.email = e])
          /\ Fits([NoRow EXCEPT !.status = "reconnect_required", !.json = "valid", !.token = 1])
      BY <2>1, <2>4, Zenon
    <2>8. Fits(row)
      BY <1>1, <2>2, <2>3, <2>5, <2>6, <2>7 DEF Migrated
    <2> QED
      BY <2>8 DEF Fits
  <1>3. TypeOK
    BY <1>2, TokenAssumption DEF Init, TypeOK, Load, Callback, Tokens
  <1>4. RowShape /\ LockOwner
    BY <1>2, NamesAssumption DEF Init, RowShape, LockOwner, Refreshing
  <1>5. IssuedInOrder /\ StoredToken
    <2>1. row.token \in 0..MaxToken /\ \A t \in Tokens : fate[t] # "unissued" <=> t <= row.token
      BY <1>2, TokenAssumption DEF Init, Tokens
    <2>2. row.token # 0 => fate[row.token] = "live"
      BY <1>2, TokenAssumption DEF Init, Tokens
    <2> QED
      BY <2>1, <2>2 DEF IssuedInOrder, StoredToken
  <1>6. LoadTokens /\ CallbackTokens /\ FlowsBound
    BY DEF Init, LoadTokens, CallbackTokens, FlowsBound, StateSpentOnce
  <1> QED
    BY <1>3, <1>4, <1>5, <1>6 DEF IInv

------------------------------------------------------------------------------
(* Kinds of steps *)

\* The row changes, its token staying or going, outside every refresh; loads may
\* begin or return without one.
LEMMA RowSettles ==
  ASSUME IInv, UNCHANGED <<lock, state, callback, fate>>,
         row' \in Row, RowShape', row'.token \in {0, row.token},
         lock # None => row'.status = row.status /\ row'.token = row.token,
         load' \in [Loads -> Load],
         \A l \in Loads : \/ load'[l] = load[l]
                          \/ load[l].pc \in {"idle", "waiting"} /\ load'[l].pc \in {"waiting", "done"}
  PROVE  IInv'
  <1>1. TypeOK'
    BY DEF IInv, TypeOK
  <1>2. \A l \in Loads : /\ Refreshing(l)' <=> Refreshing(l)
                         /\ load'[l].pc = "granted" <=> load[l].pc = "granted"
                         /\ Refreshing(l) => load'[l] = load[l]
                         /\ load'[l].pc = "late" => load'[l] = load[l]
    BY DEF Refreshing
  <1>3. LockOwner'
    BY <1>2, NamesAssumption DEF IInv, LockOwner
  <1>4. IssuedInOrder'
    BY DEF IInv, IssuedInOrder
  <1>5. StoredToken'
    BY <1>2 DEF IInv, StoredToken, Granted
  <1>6. LoadTokens'
    BY <1>2 DEF IInv, LoadTokens, Refreshing
  <1>7. CallbackTokens'
    <2>1. 0 \notin Tokens
      BY DEF Tokens
    <2>2. \A l \in Loads : load'[l].pc = "granted" => load'[l] = load[l] /\ load[l].pc = "granted"
      BY <1>2 DEF Refreshing
    <2> QED
      BY <2>1, <2>2 DEF IInv, CallbackTokens
  <1>8. FlowsBound'
    BY DEF IInv, FlowsBound, StateSpentOnce
  <1> QED
    BY <1>1, <1>3, <1>4, <1>5, <1>6, <1>7, <1>8 DEF IInv

\* The load that holds the lock stores what it got, or gives up.
LEMMA RefreshLeaves ==
  ASSUME IInv, NEW l \in Loads, Refreshing(l), lock' = None, UNCHANGED <<state, callback>>,
         load' \in [Loads -> Load], \A m \in Loads : m # l => load'[m] = load[m],
         \/ load'[l].pc = "done"
         \/ load'[l].pc = "late" /\ load'[l].token = load[l].token,
         row' \in Row, RowShape',
         fate' \in [Tokens -> {"unissued", "live", "rotated", "lost"}],
         \A t \in Tokens : fate'[t] = fate[t] \/ (fate[t] = "rotated" /\ fate'[t] = "lost"),
         row'.token = row.token \/ (load[l].pc = "granted" /\ row'.token = load[l].merged),
         fate'[row'.token] # "rotated"
  PROVE  IInv'
  <1>1. TypeOK'
    BY DEF IInv, TypeOK
  <1>2. lock = l /\ load[l].token \in Tokens /\ row.token = load[l].token
    BY DEF IInv, LockOwner, LoadTokens, Refreshing
  <1>3. \A m \in Loads : ~Refreshing(m)'
    BY <1>2 DEF IInv, LockOwner, Refreshing
  <1>4. LockOwner'
    BY <1>3, NamesAssumption DEF LockOwner
  <1>5. IssuedInOrder'
    BY DEF IInv, IssuedInOrder
  <1>6. StoredToken'
    <2>1. row'.token \in Tokens /\ fate[row'.token] # "unissued"
      BY <1>2 DEF IInv, LoadTokens, StoredToken, Tokens
    <2> QED
      BY <2>1 DEF StoredToken
  <1>7. LoadTokens'
    BY <1>2, <1>3 DEF IInv, LoadTokens, Refreshing
  <1>8. CallbackTokens'
    BY <1>3 DEF IInv, CallbackTokens, Refreshing
  <1>9. FlowsBound'
    BY DEF IInv, FlowsBound, StateSpentOnce
  <1> QED
    BY <1>1, <1>4, <1>5, <1>6, <1>7, <1>8, <1>9 DEF IInv

\* A callback goes on without tokens, or ends.
LEMMA FlowMoves ==
  ASSUME IInv, NEW c \in Callbacks, UNCHANGED <<row, lock, load, fate>>,
         state' \in [States -> {"fresh", "gone"} \cup Emails],
         callback' \in [Callbacks -> Callback],
         \A d \in Callbacks : d # c => callback'[d] = callback[d],
         callback'[c].pc # "exchanged", FlowsBound'
  PROVE  IInv'
  <1>1. TypeOK'
    BY DEF IInv, TypeOK
  <1>2. RowShape' /\ LockOwner' /\ IssuedInOrder'
    BY DEF IInv, RowShape, LockOwner, IssuedInOrder, Refreshing
  <1>3. StoredToken' /\ LoadTokens'
    BY DEF IInv, StoredToken, LoadTokens, Granted
  <1>4. CallbackTokens'
    BY DEF IInv, CallbackTokens
  <1> QED
    BY <1>1, <1>2, <1>3, <1>4 DEF IInv

\* A callback that ends keeps its state.
LEMMA FinishEnds ==
  ASSUME TypeOK, NEW c \in Callbacks, Finish(c)
  PROVE  /\ callback' \in [Callbacks -> Callback]
         /\ \A d \in Callbacks : d # c => callback'[d] = callback[d]
         /\ callback'[c].pc = "done" /\ callback'[c].state = callback[c].state
  <1>1. callback[c] \in Callback /\ callback \in [Callbacks -> Callback]
    BY DEF TypeOK
  <1>2. \A d \in Callbacks : d # c => callback'[d] = callback[d]
    BY <1>1 DEF Finish
  <1>3. callback'[c] = [pc |-> "done", state |-> callback[c].state,
                        email |-> None, token |-> 0]
    BY <1>1 DEF Finish, Callback
  <1>4. callback'[c] \in Callback
    BY <1>1, <1>3 DEF Callback
  <1>5. callback' \in [Callbacks -> Callback]
    <2>1. DOMAIN callback' = Callbacks /\ callback' = [d \in Callbacks |-> callback'[d]]
      BY <1>1 DEF Finish
    <2> QED
      BY <2>1, <1>1, <1>2, <1>4
  <1> QED
    BY <1>2, <1>3, <1>5

\* So the other flows stay bound, if states are only used up.
LEMMA FinishKeepsFlows ==
  ASSUME IInv, NEW c \in Callbacks, Finish(c),
         \A s \in States : state[s] = "gone" => state'[s] = "gone"
  PROVE  FlowsBound'
  <1>1. /\ \A d \in Callbacks : d # c => callback'[d] = callback[d]
        /\ callback'[c].pc = "done" /\ callback'[c].state = callback[c].state
    BY FinishEnds DEF IInv
  <1>2. \A d \in Callbacks : callback'[d].state = callback[d].state
    BY <1>1
  <1>3. \A d \in Callbacks : callback[d].state \in States \cup {None}
    BY DEF IInv, TypeOK, Callback
  <1>4. StateSpentOnce'
    BY <1>2 DEF IInv, FlowsBound, StateSpentOnce
  <1> QED
    BY <1>1, <1>2, <1>3, <1>4 DEF IInv, FlowsBound

------------------------------------------------------------------------------
(* One lemma per action *)

\* A pending row is made where there was none.
LEMMA CreatePendingIInv == ASSUME IInv, CreatePending PROVE IInv'
  <1>1. /\ row' \in Row /\ row'.status = "pending" /\ row'.json = "json_null"
        /\ row'.sealed = None /\ row'.token = 0
    BY DEF CreatePending, NoRow, Row, Json
  <1>2. row.status = "absent" /\ UNCHANGED <<lock, state, load, callback, fate>>
    BY DEF CreatePending
  <1>3. RowShape'
    BY <1>1 DEF RowShape
  <1>4. lock = None
    BY <1>2 DEF IInv, TypeOK, LockOwner
  <1> QED
    BY <1>1, <1>2, <1>3, <1>4, RowSettles DEF IInv, TypeOK

\* The backfill encrypts, resets or quarantines, and keeps the token.
LEMMA BackfillLegacyRowIInv == ASSUME IInv, BackfillLegacyRow PROVE IInv'
  <1>0. /\ row \in Row /\ ActiveKey[Backfill] \in Keys /\ row.token \in Tokens \cup {0}
        /\ row.email \in Emails \cup {None} /\ None \notin Keys
    BY KeyAssumption, NamesAssumption DEF IInv, TypeOK, Row
  <1>1. lock = None /\ UNCHANGED <<lock, state, load, callback, fate>>
    BY DEF BackfillLegacyRow, Selected
  <1>2. row' \in Row /\ row'.token = row.token /\ RowShape'
    <2>1. CASE row.json = "marker"
      <3>1. row' = [row EXCEPT !.status = "pending", !.json = "json_null"]
        BY <2>1 DEF BackfillLegacyRow
      <3>2. /\ row' \in Row /\ row'.status = "pending" /\ row'.json = "json_null"
            /\ row'.sealed = row.sealed /\ row'.key = row.key /\ row'.token = row.token
        BY <1>0, <3>1 DEF Row, Json
      <3> QED
        BY <3>2 DEF IInv, RowShape
    <2>2. CASE row.json = "valid" /\ row.email # None
      <3>1. row' = WriteEncrypted(row, ActiveKey[Backfill], row.token, row.email)
        BY <2>2 DEF BackfillLegacyRow
      <3>2. /\ row' \in Row /\ row'.status = "connected" /\ row'.json = "json_null"
            /\ row'.sealed = row'.key /\ row'.token = row.token
        BY <1>0, <3>1, WriteEncryptedRow
      <3> QED
        BY <2>2, <3>2 DEF IInv, RowShape
    <2>3. CASE row.json # "marker" /\ ~(row.json = "valid" /\ row.email # None)
      <3>1. row' = [row EXCEPT !.status = "quarantined", !.json = "json_null"]
        BY <2>3 DEF BackfillLegacyRow
      <3>2. /\ row' \in Row /\ row'.status = "quarantined" /\ row'.json = "json_null"
            /\ row'.sealed = row.sealed /\ row'.key = row.key /\ row'.token = row.token
        BY <1>0, <3>1 DEF Row, Json
      <3> QED
        BY <3>2 DEF IInv, RowShape
    <2> QED
      BY <2>1, <2>2, <2>3
  <1> QED
    BY <1>1, <1>2, RowSettles DEF IInv, TypeOK

\* The access token expires, perhaps during a refresh.
LEMMA AccessTokenExpiresIInv == ASSUME IInv, AccessTokenExpires PROVE IInv'
  <1>1. row' = [row EXCEPT !.expired = TRUE] /\ UNCHANGED <<lock, state, load, callback, fate>>
    BY DEF AccessTokenExpires
  <1>2. /\ row' \in Row /\ row'.status = row.status /\ row'.json = row.json /\ row'.key = row.key
        /\ row'.sealed = row.sealed /\ row'.token = row.token /\ row'.email = row.email
    BY <1>1 DEF IInv, TypeOK, Row
  <1>3. RowShape'
    BY <1>2 DEF IInv, RowShape
  <1> QED
    BY <1>1, <1>2, <1>3, RowSettles DEF IInv, TypeOK

\* A load begins to wait, or gives up waiting.
LEMMA LoadWaitsIInv == ASSUME IInv, NEW l \in Loads, LoadBegin(l) \/ LoadFails(l) PROVE IInv'
  <1>1. /\ load' \in [Loads -> Load] /\ load'[l].pc \in {"waiting", "done"}
        /\ \A m \in Loads : m # l => load'[m] = load[m]
    <2>1. CASE LoadBegin(l)
      BY <2>1 DEF IInv, TypeOK, LoadBegin, Load
    <2>2. CASE LoadFails(l)
      BY <2>2 DEF IInv, TypeOK, LoadFails, Return, Load
    <2> QED
      BY <2>1, <2>2
  <1>2. load[l].pc \in {"idle", "waiting"} /\ UNCHANGED <<row, lock, state, callback, fate>>
    BY DEF LoadBegin, LoadFails
  <1>3. RowShape' /\ row' \in Row
    BY <1>2 DEF IInv, TypeOK, RowShape
  <1> QED
    BY <1>1, <1>2, <1>3, RowSettles

\* A load returns.
LEMMA ReturnEnds ==
  ASSUME TypeOK, NEW l \in Loads, Return(l)
  PROVE  /\ load' \in [Loads -> Load] /\ load'[l].pc = "done"
         /\ \A m \in Loads : m # l => load'[m] = load[m]
  BY DEF TypeOK, Return, Load

\* A load takes the row: it returns, or keeps the lock for a refresh.
LEMMA LoadRowIInv == ASSUME IInv, NEW l \in Loads, LoadRow(l) PROVE IInv'
  <1>0. /\ TypeOK /\ row \in Row /\ ActiveKey[l] \in Keys /\ row.token \in Tokens \cup {0}
        /\ row.email \in Emails \cup {None} /\ None \notin Keys
    BY KeyAssumption, NamesAssumption DEF IInv, TypeOK, Row
  <1>1. load[l].pc = "waiting" /\ lock = None /\ UNCHANGED <<state, callback, fate>>
    BY DEF LoadRow
  <1>2. CASE Return(l) /\ UNCHANGED lock /\ row' \in Row /\ RowShape' /\ row'.token = row.token
    BY <1>0, <1>1, <1>2, ReturnEnds, RowSettles
  <1>3. CASE Return(l) /\ UNCHANGED <<row, lock>>
    BY <1>0, <1>2, <1>3 DEF IInv, RowShape
  <1>4. CASE MarkReconnectRequired /\ Return(l) /\ UNCHANGED lock
    <2>1. RowShape'
      BY <1>0, <1>4, MarkedRow DEF IInv, RowShape
    <2> QED
      BY <1>0, <1>2, <1>4, <2>1, MarkedRow
  <1>5. CASE /\ row.status = "connected" /\ Readable(row)
             /\ row' = IF row.sealed # None THEN row
                       ELSE WriteEncrypted(row, ActiveKey[l], row.token, row.email)
             /\ Return(l) /\ UNCHANGED lock
    <2>1. CASE row.sealed # None
      BY <1>3, <1>5, <2>1
    <2>2. CASE row.sealed = None
      <3>1. row.token # 0
        BY <1>5, <2>2 DEF Readable, IInv, RowShape
      <3>2. /\ row' \in Row /\ row'.status = "connected" /\ row'.json = "json_null"
            /\ row'.sealed = row'.key /\ row'.token = row.token
        BY <1>0, <1>5, <2>2, WriteEncryptedRow
      <3>3. RowShape'
        BY <3>1, <3>2 DEF RowShape
      <3> QED
        BY <1>2, <1>5, <3>2, <3>3
    <2> QED
      BY <2>1, <2>2
  <1>6. CASE row.status = "connected" /\ Readable(row) /\ StartRefresh(l)
    <2>1. row.token \in Tokens
      BY <1>0, <1>6 DEF Readable, IInv, RowShape
    <2>2. /\ load' \in [Loads -> Load] /\ load'[l].pc = "refreshing" /\ load'[l].token = row.token
          /\ \A m \in Loads : m # l => load'[m] = load[m]
      BY <1>0, <1>6 DEF TypeOK, StartRefresh, Load
    <2>3. lock' = l /\ UNCHANGED row
      BY <1>6 DEF StartRefresh
    <2>4. \A m \in Loads : ~Refreshing(m) /\ (Refreshing(m)' <=> m = l)
      BY <1>1, <2>2, NamesAssumption DEF IInv, LockOwner, Refreshing
    <2>5. TypeOK' /\ RowShape' /\ IssuedInOrder'
      BY <1>1, <2>2, <2>3 DEF IInv, TypeOK, RowShape, IssuedInOrder
    <2>6. LockOwner'
      BY <1>6, <2>2, <2>3, <2>4 DEF LockOwner
    <2>7. StoredToken'
      BY <1>1, <2>3, <2>4 DEF IInv, StoredToken, Granted, Refreshing
    <2>8. LoadTokens'
      BY <1>1, <2>1, <2>2 DEF IInv, LoadTokens
    <2>9. CallbackTokens'
      BY <1>1, <2>2, <2>3 DEF IInv, CallbackTokens
    <2>10. FlowsBound'
      BY <1>1 DEF IInv, FlowsBound, StateSpentOnce
    <2> QED
      BY <2>5, <2>6, <2>7, <2>8, <2>9, <2>10 DEF IInv
  <1> QED
    BY <1>3, <1>4, <1>5, <1>6 DEF LoadRow

\* A refresh token is issued, in order, and the one it replaces gets its fate.
LEMMA GrantIssues ==
  ASSUME IInv, NEW t \in Tokens, NEW returned \in 0..MaxToken,
         NEW outcome \in {"rotated", "lost"}, Grant(t, returned, outcome)
  PROVE  /\ fate' \in [Tokens -> {"unissued", "live", "rotated", "lost"}]
         /\ IssuedInOrder'
         /\ fate[t] = "live" /\ fate'[t] \in {"live", outcome}
         /\ \A u \in Tokens : u # t /\ fate[u] # "unissued" => fate'[u] = fate[u]
         /\ returned = 0 => fate'[t] = "live"
         /\ returned # 0 => /\ returned \in Tokens /\ fate[returned] = "unissued"
                            /\ fate'[returned] = "live"
  <1>1. fate[t] = "live" /\ fate \in [Tokens -> {"unissued", "live", "rotated", "lost"}]
    BY DEF Grant, IInv, TypeOK
  <1>2. CASE returned = 0 /\ UNCHANGED fate
    BY <1>1, <1>2 DEF IInv, IssuedInOrder
  <1>3. CASE /\ returned = NextToken /\ returned \in Tokens
             /\ fate' = [fate EXCEPT ![t] = outcome, ![returned] = "live"]
    <2>1. /\ fate[returned] = "unissued" /\ \A u \in Tokens : fate[u] # "unissued" <=> u < returned
      BY <1>3, NextTokenUnissued DEF IInv
    <2>2. returned # t
      BY <1>1, <2>1
    <2>3. /\ fate'[t] = outcome /\ fate'[returned] = "live"
          /\ \A u \in Tokens : u # t /\ u # returned => fate'[u] = fate[u]
          /\ fate' \in [Tokens -> {"unissued", "live", "rotated", "lost"}]
      BY <1>1, <1>3, <2>2
    <2>4. \A u \in Tokens : fate'[u] # "unissued" <=> fate[u] # "unissued" \/ u = returned
      BY <1>1, <2>3
    <2>5. \A u \in Tokens : fate'[u] # "unissued" <=> u <= returned
      BY <2>1, <2>4 DEF Tokens
    <2>6. IssuedInOrder'
      BY <2>5 DEF IssuedInOrder
    <2>7. returned # 0
      BY <1>3 DEF Tokens
    <2> QED
      BY <1>1, <1>3, <2>1, <2>2, <2>3, <2>6, <2>7
  <1> QED
    BY <1>2, <1>3 DEF Grant

\* Google answers a refresh: the replaced token is the stored one, and only the
\* load that holds the lock has the replacement.
LEMMA GoogleRefreshesIInv == ASSUME IInv, NEW l \in Loads, GoogleRefreshes(l) PROVE IInv'
  <1>1. PICK returned \in 0..MaxToken :
          /\ Grant(load[l].token, returned, "rotated")
          /\ load' = [load EXCEPT ![l].pc = "granted",
                                  ![l].merged = Merge(load[l].token, returned)]
    BY DEF GoogleRefreshes
  <1> DEFINE t == load[l].token
             m == Merge(t, returned)
  <1>2. load[l].pc = "refreshing" /\ UNCHANGED <<row, lock, state, callback>>
    BY DEF GoogleRefreshes
  <1>3. /\ t \in Tokens /\ lock = l /\ row.token = t
        /\ \A n \in Loads : n # l => ~Refreshing(n)
    BY <1>2 DEF IInv, LoadTokens, LockOwner, Refreshing
  <1>4. /\ fate' \in [Tokens -> {"unissued", "live", "rotated", "lost"}]
        /\ IssuedInOrder'
        /\ fate[t] = "live" /\ fate'[t] \in {"live", "rotated"}
        /\ \A u \in Tokens : u # t /\ fate[u] # "unissued" => fate'[u] = fate[u]
        /\ returned = 0 => fate'[t] = "live"
        /\ returned # 0 => /\ returned \in Tokens /\ fate[returned] = "unissued"
                           /\ fate'[returned] = "live"
    BY <1>1, <1>3, GrantIssues
  <1>5. m \in Tokens /\ fate'[m] = "live" /\ (m = t \/ fate[m] = "unissued")
    BY <1>3, <1>4 DEF Merge
  <1> HIDE DEF m, t
  <1>6. /\ load' \in [Loads -> Load] /\ load'[l].pc = "granted" /\ load'[l].merged = m
        /\ load'[l].token = t /\ \A n \in Loads : n # l => load'[n] = load[n]
    BY <1>1, <1>5 DEF IInv, TypeOK, Load, m, t
  <1>7. TypeOK' /\ RowShape' /\ FlowsBound'
    BY <1>2, <1>4, <1>6 DEF IInv, TypeOK, RowShape, FlowsBound, StateSpentOnce
  <1>8. LockOwner'
    <2>1. Refreshing(l) /\ Refreshing(l)'
      BY <1>2, <1>6 DEF Refreshing
    <2>2. \A n \in Loads : n # l => ~Refreshing(n)'
      BY <1>3, <1>6 DEF Refreshing
    <2> QED
      BY <1>2, <1>3, <1>6, <2>1, <2>2 DEF IInv, LockOwner
  <1>9. StoredToken'
    BY <1>2, <1>3, <1>4, <1>6 DEF StoredToken, Granted
  <1>10. LoadTokens'
    BY <1>3, <1>5, <1>6 DEF IInv, LoadTokens, Refreshing
  <1>11. CallbackTokens'
    <2>1. \A c \in Callbacks : callback[c].pc = "exchanged" =>
             /\ callback[c].token # t /\ callback[c].token \in Tokens
             /\ fate[callback[c].token] \in {"live", "lost"}
      BY <1>3 DEF IInv, CallbackTokens
    <2>2. \A c \in Callbacks : callback[c].pc = "exchanged" =>
             /\ fate'[callback[c].token] \in {"live", "lost"} /\ callback[c].token # m
      BY <1>4, <1>5, <2>1
    <2>3. \A n \in Loads : load'[n].pc = "granted" => n = l
      BY <1>3, <1>6 DEF Refreshing
    <2> QED
      BY <1>2, <1>6, <2>1, <2>2, <2>3 DEF IInv, CallbackTokens
  <1> QED
    BY <1>4, <1>7, <1>8, <1>9, <1>10, <1>11 DEF IInv

\* The answer to a thread nobody waits for: its token may be the stored one still.
LEMMA LateAnswerIInv == ASSUME IInv, NEW l \in Loads, LateAnswer(l) PROVE IInv'
  <1>1. load[l].pc = "late" /\ Return(l) /\ UNCHANGED <<row, lock, state, callback>>
    BY DEF LateAnswer
  <1>2. /\ load' \in [Loads -> Load] /\ load'[l].pc = "done"
        /\ \A n \in Loads : n # l => load'[n] = load[n]
    BY <1>1, ReturnEnds DEF IInv
  <1>3. /\ fate' \in [Tokens -> {"unissued", "live", "rotated", "lost"}]
        /\ IssuedInOrder'
        /\ \A u \in Tokens : fate[u] # "unissued" =>
              fate'[u] = fate[u] \/ (fate[u] = "live" /\ fate'[u] = "lost")
    <2>1. CASE UNCHANGED fate
      BY <2>1 DEF IInv, TypeOK, IssuedInOrder
    <2>2. CASE \E returned \in 0..MaxToken : Grant(load[l].token, returned, "lost")
      <3>1. load[l].token \in Tokens
        BY <1>1 DEF IInv, LoadTokens
      <3> QED
        BY <2>2, <3>1, GrantIssues
    <2> QED
      BY <2>1, <2>2 DEF LateAnswer
  <1>4. \A n \in Loads : /\ Refreshing(n)' <=> Refreshing(n)
                         /\ load'[n].pc = "granted" <=> load[n].pc = "granted"
                         /\ load'[n].pc # "done" => load'[n] = load[n]
    BY <1>1, <1>2 DEF Refreshing
  <1>5. TypeOK' /\ RowShape' /\ FlowsBound'
    BY <1>1, <1>2, <1>3 DEF IInv, TypeOK, RowShape, FlowsBound, StateSpentOnce
  <1>6. LockOwner'
    <2>1. \A n \in Loads : Refreshing(n)' => load'[n] = load[n]
      BY <1>4 DEF Refreshing
    <2> QED
      BY <1>1, <1>4, <2>1 DEF IInv, LockOwner
  <1>7. StoredToken'
    <2>1. row.token \in Tokens \cup {0}
      BY DEF IInv, TypeOK, Row
    <2>2. Granted' <=> Granted
      BY <1>4 DEF Granted
    <2> QED
      BY <1>1, <1>3, <2>1, <2>2 DEF IInv, StoredToken
  <1>8. LoadTokens'
    BY <1>3, <1>4 DEF IInv, LoadTokens
  <1>9. CallbackTokens'
    <2>1. \A n \in Loads : load'[n].pc = "granted" => load'[n] = load[n] /\ load[n].pc = "granted"
      BY <1>4
    <2>2. \A c \in Callbacks : callback[c].pc = "exchanged" =>
             callback[c].token \in Tokens /\ fate'[callback[c].token] \in {"live", "lost"}
      BY <1>3 DEF IInv, CallbackTokens
    <2> QED
      BY <1>1, <2>1, <2>2 DEF IInv, CallbackTokens
  <1> QED
    BY <1>3, <1>5, <1>6, <1>7, <1>8, <1>9 DEF IInv

\* A row encrypted with a new access token in it.
Freshened(r, k, t, e) == [WriteEncrypted(r, k, t, e) EXCEPT !.expired = FALSE]

\* What encryption with a new access token makes of a row.
LEMMA FreshRow ==
  ASSUME NEW r \in Row, NEW k \in Keys, NEW t \in Tokens, NEW e \in Emails \cup {None},
         row' = Freshened(r, k, t, e)
  PROVE  row' \in Row /\ RowShape' /\ row'.token = t /\ row'.email = e /\ row'.status = "connected"
  <1> DEFINE s == WriteEncrypted(r, k, t, e)
  <1>1. /\ s \in Row /\ s.status = "connected" /\ s.json = "json_null"
        /\ s.sealed = k /\ s.key = k /\ s.token = t /\ s.email = e
    BY WriteEncryptedRow DEF Tokens
  <1> HIDE DEF s
  <1>2. row' = [s EXCEPT !.expired = FALSE]
    BY DEF s, Freshened
  <1>3. /\ row' \in Row /\ row'.status = "connected" /\ row'.json = "json_null"
        /\ row'.sealed = k /\ row'.key = k /\ row'.token = t /\ row'.email = e
    BY <1>1, <1>2 DEF Row
  <1>4. t # 0
    BY DEF Tokens
  <1> QED
    BY <1>3, <1>4 DEF RowShape

\* A load that refreshes holds the lock, and its token is stored; the token is
\* not replaced before Google has answered.
LEMMA RefreshHolds ==
  ASSUME IInv, NEW l \in Loads, Refreshing(l), Unlock(l)
  PROVE  /\ lock' = None /\ load[l].token \in Tokens /\ row.token = load[l].token
         /\ load[l].pc = "refreshing" => fate[row.token] # "rotated"
  <1>1. lock = l /\ load[l].token \in Tokens /\ row.token = load[l].token
    BY DEF IInv, LockOwner, LoadTokens, Refreshing
  <1>2. load[l].pc = "refreshing" => ~Granted
    BY <1>1 DEF IInv, LockOwner, Refreshing, Granted
  <1> QED
    BY <1>1, <1>2 DEF IInv, StoredToken, Unlock, Tokens

\* The refreshed connection is stored.
LEMMA RefreshCommitsIInv == ASSUME IInv, NEW l \in Loads, RefreshCommits(l) PROVE IInv'
  <1>1. /\ load[l].pc = "granted" /\ Unlock(l) /\ Return(l) /\ UNCHANGED <<state, callback, fate>>
        /\ row' = Freshened(row, ActiveKey[l], load[l].merged, row.email)
    BY DEF RefreshCommits, Freshened
  <1>2. /\ TypeOK /\ row \in Row /\ ActiveKey[l] \in Keys /\ row.email \in Emails \cup {None}
    BY KeyAssumption DEF IInv, TypeOK, Row
  <1>3. Refreshing(l) /\ load[l].merged \in Tokens /\ fate[load[l].merged] \in {"live", "lost"}
    BY <1>1 DEF IInv, LoadTokens, Refreshing
  <1>4. row' \in Row /\ RowShape' /\ row'.token = load[l].merged
    BY <1>1, <1>2, <1>3, FreshRow
  <1>5. /\ fate' \in [Tokens -> {"unissued", "live", "rotated", "lost"}]
        /\ \A t \in Tokens : fate'[t] = fate[t]
        /\ fate'[row'.token] # "rotated"
    BY <1>1, <1>2, <1>3, <1>4 DEF TypeOK
  <1>6. /\ load' \in [Loads -> Load] /\ load'[l].pc = "done"
        /\ \A m \in Loads : m # l => load'[m] = load[m]
    BY <1>1, <1>2, ReturnEnds
  <1>7. lock' = None
    BY <1>1, <1>3, RefreshHolds
  <1> QED
    BY <1>1, <1>3, <1>4, <1>5, <1>6, <1>7, RefreshLeaves

\* Google refuses the refresh: the row it was made for is marked.
LEMMA RefreshRefusedIInv == ASSUME IInv, NEW l \in Loads, RefreshRefused(l) PROVE IInv'
  <1>1. /\ load[l].pc = "refreshing" /\ MarkReconnectRequired /\ Unlock(l) /\ Return(l)
        /\ UNCHANGED <<state, callback, fate>>
    BY DEF RefreshRefused
  <1>2. Refreshing(l) /\ TypeOK
    BY <1>1 DEF Refreshing, IInv
  <1>3. row' \in Row /\ RowShape' /\ row'.token = row.token
    BY <1>1, <1>2, MarkedRow DEF IInv, RowShape
  <1>4. lock' = None /\ fate'[row'.token] # "rotated"
    BY <1>1, <1>2, <1>3, RefreshHolds
  <1>5. /\ load' \in [Loads -> Load] /\ load'[l].pc = "done"
        /\ \A m \in Loads : m # l => load'[m] = load[m]
    BY <1>1, <1>2, ReturnEnds
  <1>6. /\ fate' \in [Tokens -> {"unissued", "live", "rotated", "lost"}]
        /\ \A t \in Tokens : fate'[t] = fate[t]
    BY <1>1, <1>2 DEF TypeOK
  <1> QED
    BY <1>1, <1>2, <1>3, <1>4, <1>5, <1>6, RefreshLeaves

\* The deadline passes: the row is unlocked, and the thread keeps its token.
LEMMA RefreshTimesOutIInv == ASSUME IInv, NEW l \in Loads, RefreshTimesOut(l) PROVE IInv'
  <1>1. /\ load[l].pc = "refreshing" /\ Unlock(l) /\ load' = [load EXCEPT ![l].pc = "late"]
        /\ UNCHANGED <<row, state, callback, fate>>
    BY DEF RefreshTimesOut
  <1>2. Refreshing(l) /\ TypeOK
    BY <1>1 DEF Refreshing, IInv
  <1>3. row' \in Row /\ RowShape' /\ row'.token = row.token
    BY <1>1, <1>2 DEF IInv, RowShape, TypeOK
  <1>4. lock' = None /\ fate'[row'.token] # "rotated"
    BY <1>1, <1>2, RefreshHolds
  <1>5. /\ load' \in [Loads -> Load] /\ load'[l].pc = "late" /\ load'[l].token = load[l].token
        /\ \A m \in Loads : m # l => load'[m] = load[m]
    BY <1>1, <1>2 DEF TypeOK, Load
  <1>6. /\ fate' \in [Tokens -> {"unissued", "live", "rotated", "lost"}]
        /\ \A t \in Tokens : fate'[t] = fate[t]
    BY <1>1, <1>2 DEF TypeOK
  <1> QED
    BY <1>1, <1>2, <1>3, <1>4, <1>5, <1>6, RefreshLeaves

\* The answer is lost: the stored token stays, as one whose replacement is lost.
LEMMA AnswerLostIInv ==
  ASSUME IInv, NEW l \in Loads, CommitFails(l) \/ AnswerInvalid(l)
  PROVE  IInv'
  <1>1. /\ load[l].pc = "granted" /\ Unlock(l) /\ Return(l) /\ UNCHANGED <<state, callback>>
        /\ UNCHANGED row \/ MarkReconnectRequired
        /\ fate' = [t \in Tokens |->
                      IF t = load[l].token /\ fate[t] = "rotated" THEN "lost" ELSE fate[t]]
    BY DEF CommitFails, AnswerInvalid, LoseAnswer
  <1>2. Refreshing(l) /\ TypeOK
    BY <1>1 DEF Refreshing, IInv
  <1>3. row' \in Row /\ RowShape' /\ row'.token = row.token
    <2>1. CASE UNCHANGED row
      BY <1>2, <2>1 DEF IInv, RowShape, TypeOK
    <2>2. CASE MarkReconnectRequired
      BY <1>2, <2>2, MarkedRow DEF IInv, RowShape
    <2> QED
      BY <1>1, <2>1, <2>2
  <1>4. lock' = None /\ load[l].token \in Tokens /\ row.token = load[l].token
    BY <1>1, <1>2, RefreshHolds
  <1>5. /\ load' \in [Loads -> Load] /\ load'[l].pc = "done"
        /\ \A m \in Loads : m # l => load'[m] = load[m]
    BY <1>1, <1>2, ReturnEnds
  <1>6. /\ fate' \in [Tokens -> {"unissued", "live", "rotated", "lost"}]
        /\ \A t \in Tokens : fate'[t] = fate[t] \/ (fate[t] = "rotated" /\ fate'[t] = "lost")
        /\ fate'[load[l].token] # "rotated"
    BY <1>1, <1>2, <1>4 DEF TypeOK
  <1> QED
    BY <1>1, <1>2, <1>3, <1>4, <1>5, <1>6, RefreshLeaves

\* A state is made for an account, or expires; no flow under way uses it.
LEMMA StateMovesIInv ==
  ASSUME IInv, NEW s \in States,
         StateExpires(s) \/ \E e \in Emails : StartOAuth(s, e)
  PROVE  IInv'
  <1>1. UNCHANGED <<row, lock, load, callback, fate>>
    BY DEF StateExpires, StartOAuth
  <1>2. /\ state' \in [States -> {"fresh", "gone"} \cup Emails]
        /\ \A r \in States : state[r] = "gone" => state'[r] = "gone"
    <2>1. CASE StateExpires(s)
      BY <2>1 DEF IInv, TypeOK, StateExpires
    <2>2. CASE \E e \in Emails : StartOAuth(s, e)
      BY <2>2 DEF IInv, TypeOK, StartOAuth
    <2> QED
      BY <2>1, <2>2
  <1>3. TypeOK' /\ RowShape' /\ LockOwner' /\ IssuedInOrder'
    BY <1>1, <1>2 DEF IInv, TypeOK, RowShape, LockOwner, IssuedInOrder, Refreshing
  <1>4. StoredToken' /\ LoadTokens' /\ CallbackTokens'
    BY <1>1 DEF IInv, StoredToken, LoadTokens, Granted, CallbackTokens
  <1>5. FlowsBound'
    <2>1. \A c \in Callbacks : callback[c].state \in States \cup {None}
      BY DEF IInv, TypeOK, Callback
    <2> QED
      BY <1>1, <1>2, <2>1 DEF IInv, FlowsBound, StateSpentOnce
  <1> QED
    BY <1>3, <1>4, <1>5 DEF IInv

\* A callback takes a state, which nobody else has then, or fails.
LEMMA ConsumeOAuthStateIInv ==
  ASSUME IInv, NEW c \in Callbacks, NEW s \in States, ConsumeOAuthState(c, s) PROVE IInv'
  <1>1. callback[c].pc = "idle" /\ TypeOK /\ UNCHANGED <<row, lock, load, fate>>
    BY DEF ConsumeOAuthState, IInv
  <1>2. CASE /\ TakeState(s)
             /\ callback' = [callback EXCEPT ![c].pc = "consumed", ![c].state = s,
                                             ![c].email = state[s]]
    <2>1. /\ state[s] \in Emails /\ state[s] # "gone" /\ s # None
          /\ state' \in [States -> {"fresh", "gone"} \cup Emails] /\ state'[s] = "gone"
          /\ \A r \in States : state[r] = "gone" => state'[r] = "gone"
      BY <1>1, <1>2, NamesAssumption DEF TypeOK, TakeState
    <2>2. /\ callback' \in [Callbacks -> Callback]
          /\ \A d \in Callbacks : d # c => callback'[d] = callback[d]
          /\ callback'[c].pc = "consumed" /\ callback'[c].state = s /\ callback'[c].email \in Emails
      BY <1>1, <1>2, <2>1 DEF TypeOK, Callback
    <2>3. \A d \in Callbacks : callback[d].state \in States \cup {None} /\ callback[d].state # s
      BY <1>1, <2>1 DEF TypeOK, Callback, IInv, FlowsBound
    <2>4. StateSpentOnce'
      BY <2>2, <2>3 DEF IInv, FlowsBound, StateSpentOnce
    <2>5. FlowsBound'
      BY <2>1, <2>2, <2>3, <2>4 DEF IInv, FlowsBound
    <2> QED
      BY <1>1, <2>1, <2>2, <2>5, FlowMoves
  <1>3. CASE /\ state' \in {state, [state EXCEPT ![s] = "gone"]} /\ Finish(c)
    <2>1. /\ state' \in [States -> {"fresh", "gone"} \cup Emails]
          /\ \A r \in States : state[r] = "gone" => state'[r] = "gone"
      BY <1>1, <1>3 DEF TypeOK
    <2>2. FlowsBound'
      BY <1>3, <2>1, FinishKeepsFlows
    <2> QED
      BY <1>1, <1>3, <2>1, <2>2, FinishEnds, FlowMoves
  <1> QED
    BY <1>2, <1>3 DEF ConsumeOAuthState

\* A callback fails after its state is consumed.
LEMMA CallbackFailsIInv ==
  ASSUME IInv, NEW c \in Callbacks, AuthorizationFails(c) \/ PersistFails(c) PROVE IInv'
  <1>1. Finish(c) /\ TypeOK /\ UNCHANGED <<row, lock, state, load, fate>>
    BY DEF AuthorizationFails, PersistFails, IInv
  <1>2. /\ state' \in [States -> {"fresh", "gone"} \cup Emails]
        /\ \A r \in States : state[r] = "gone" => state'[r] = "gone"
    BY <1>1 DEF TypeOK
  <1>3. FlowsBound'
    BY <1>1, <1>2, FinishKeepsFlows
  <1> QED
    BY <1>1, <1>2, <1>3, FinishEnds, FlowMoves

\* The code is exchanged: the callback's token is new, so that nobody has it.
LEMMA ExchangeOAuthCodeIInv ==
  ASSUME IInv, NEW c \in Callbacks, NEW chosen \in Emails, ExchangeOAuthCode(c, chosen)
  PROVE  IInv'
  <1> DEFINE n == NextToken
  <1>1. /\ callback[c].pc = "consumed" /\ n \in Tokens /\ fate' = [fate EXCEPT ![n] = "live"]
        /\ TypeOK /\ UNCHANGED <<row, lock, state, load>>
    BY DEF ExchangeOAuthCode, IInv
  <1>2. fate[n] = "unissued" /\ \A t \in Tokens : fate[t] # "unissued" <=> t < n
    BY <1>1, NextTokenUnissued DEF IInv
  <1>3. \/ callback' = [callback EXCEPT ![c].pc = "exchanged", ![c].token = n]
        \/ Finish(c)
    BY DEF ExchangeOAuthCode
  <1> HIDE DEF n
  <1>4. /\ fate' \in [Tokens -> {"unissued", "live", "rotated", "lost"}]
        /\ fate'[n] = "live" /\ \A t \in Tokens : fate[t] # "unissued" => fate'[t] = fate[t]
    BY <1>1, <1>2 DEF TypeOK
  <1>5. IssuedInOrder'
    <2>1. \A t \in Tokens : fate'[t] # "unissued" <=> fate[t] # "unissued" \/ t = n
      BY <1>1, <1>2 DEF TypeOK
    <2>2. \A t \in Tokens : fate'[t] # "unissued" <=> t <= n
      BY <1>1, <1>2, <2>1 DEF Tokens
    <2>3. n \in 0..MaxToken
      BY <1>1, TokenAssumption DEF Tokens
    <2> QED
      BY <2>2, <2>3 DEF IssuedInOrder
  <1>6. /\ callback' \in [Callbacks -> Callback]
        /\ \A d \in Callbacks : d # c => callback'[d] = callback[d]
        /\ callback'[c].state = callback[c].state
        /\ \/ callback'[c].pc = "done"
           \/ callback'[c].pc = "exchanged" /\ callback'[c].token = n /\ callback'[c].email = callback[c].email
    <2>1. CASE callback' = [callback EXCEPT ![c].pc = "exchanged", ![c].token = n]
      BY <1>1, <2>1 DEF TypeOK, Callback
    <2>2. CASE Finish(c)
      BY <1>1, <2>2, FinishEnds
    <2> QED
      BY <1>3, <2>1, <2>2
  <1>7. TypeOK' /\ RowShape' /\ LockOwner'
    BY <1>1, <1>4, <1>6 DEF IInv, TypeOK, RowShape, LockOwner, Refreshing
  <1>8. StoredToken' /\ LoadTokens'
    <2>1. row.token \in Tokens \cup {0}
      BY <1>1 DEF TypeOK, Row
    <2> QED
      BY <1>1, <1>4, <2>1 DEF IInv, StoredToken, LoadTokens, Granted
  <1>9. CallbackTokens'
    <2>1. n # row.token
      <3>1. row.token # 0 => fate[row.token] # "unissued"
        BY DEF IInv, StoredToken
      <3>2. n # 0
        BY <1>1 DEF Tokens
      <3> QED
        BY <1>2, <3>1, <3>2
    <2>2. \A l \in Loads : load[l].pc = "granted" => load[l].merged # n
      BY <1>2 DEF IInv, LoadTokens
    <2>3. \A d \in Callbacks : callback[d].pc = "exchanged" =>
             /\ callback[d].token \in Tokens /\ callback[d].token # n
             /\ fate'[callback[d].token] \in {"live", "lost"}
      BY <1>2, <1>4 DEF IInv, CallbackTokens
    <2> QED
      BY <1>1, <1>4, <1>6, <2>1, <2>2, <2>3 DEF IInv, CallbackTokens
  <1>10. FlowsBound'
    <2>1. \A d \in Callbacks : callback'[d].state = callback[d].state
      BY <1>6
    <2>2. StateSpentOnce'
      BY <2>1 DEF IInv, FlowsBound, StateSpentOnce
    <2> QED
      BY <1>1, <1>6, <2>1, <2>2 DEF IInv, FlowsBound
  <1> QED
    BY <1>5, <1>7, <1>8, <1>9, <1>10 DEF IInv

\* A connection is stored under no lock: its token replaces whatever was there.
LEMMA PersistOAuthConnectionIInv ==
  ASSUME IInv, NEW c \in Callbacks, PersistOAuthConnection(c)
  PROVE  IInv' /\ (row.email # None => row'.email = row.email)
  <1> DEFINE n == callback[c].token
  <1>1. /\ callback[c].pc = "exchanged" /\ lock = None /\ Finish(c) /\ TypeOK
        /\ UNCHANGED <<lock, state, load, fate>>
    BY DEF PersistOAuthConnection, IInv
  <1>2. /\ n \in Tokens /\ fate[n] \in {"live", "lost"} /\ n # row.token
        /\ callback[c].email \in Emails /\ ActiveKey[c] \in Keys /\ row \in Row
    BY <1>1, KeyAssumption DEF IInv, CallbackTokens, FlowsBound, TypeOK
  <1>3. Merge(row.token, n) = n
    BY <1>2 DEF Merge, Tokens
  <1>4. /\ row' \in Row /\ RowShape' /\ (row.email # None => row'.email = row.email)
        /\ row'.token \in {row.token, n}
    <2>1. CASE MayConnect(callback[c].email)
      <3>1. row' = Freshened(row, ActiveKey[c], n, callback[c].email)
        BY <1>3, <2>1 DEF PersistOAuthConnection, Freshened
      <3>2. row' \in Row /\ RowShape' /\ row'.token = n /\ row'.email = callback[c].email
        <4>1. callback[c].email \in Emails \cup {None}
          BY <1>2
        <4> HIDE DEF n
        <4> QED
          BY <1>2, <3>1, <4>1, FreshRow
      <3> QED
        BY <2>1, <3>2 DEF MayConnect
    <2>2. CASE ~MayConnect(callback[c].email)
      <3>1. UNCHANGED row
        BY <2>2 DEF PersistOAuthConnection
      <3> QED
        BY <1>2, <3>1 DEF IInv, RowShape
    <2> QED
      BY <2>1, <2>2
  <1>5. /\ callback' \in [Callbacks -> Callback]
        /\ \A d \in Callbacks : d # c => callback'[d] = callback[d]
        /\ callback'[c].pc = "done"
    BY <1>1, FinishEnds
  <1>6. \A l \in Loads : ~Refreshing(l) /\ ~Refreshing(l)'
    BY <1>1, NamesAssumption DEF IInv, LockOwner, Refreshing
  <1>7. TypeOK' /\ LockOwner' /\ IssuedInOrder'
    BY <1>1, <1>4, <1>5, <1>6, NamesAssumption DEF IInv, TypeOK, LockOwner, IssuedInOrder
  <1>8. StoredToken'
    <2>1. ~Granted
      BY <1>6 DEF Granted, Refreshing
    <2> QED
      BY <1>1, <1>2, <1>4, <2>1 DEF IInv, StoredToken
  <1>9. LoadTokens'
    BY <1>1 DEF IInv, LoadTokens
  <1>10. CallbackTokens'
    <2>1. \A d \in Callbacks : callback'[d].pc = "exchanged" =>
             /\ d # c /\ callback'[d] = callback[d] /\ callback[d].token # n
             /\ callback[d].token # row.token
      BY <1>1, <1>5 DEF IInv, CallbackTokens
    <2> QED
      BY <1>1, <1>4, <2>1 DEF IInv, CallbackTokens
  <1>11. FlowsBound'
    BY <1>1, FinishKeepsFlows
  <1> QED
    BY <1>4, <1>7, <1>8, <1>9, <1>10, <1>11 DEF IInv

------------------------------------------------------------------------------
(* The theorems *)

\* Every step keeps the invariant.
LEMMA NextIInv == IInv /\ [Next]_vars => IInv'
  <1> SUFFICES ASSUME IInv, [Next]_vars PROVE IInv'
    OBVIOUS
  <1>1. ASSUME NEW l \in Loads, LoadNext(l) PROVE IInv'
    BY <1>1, LoadWaitsIInv, LoadRowIInv, GoogleRefreshesIInv, RefreshCommitsIInv,
       RefreshRefusedIInv, RefreshTimesOutIInv, LateAnswerIInv, AnswerLostIInv DEF LoadNext
  <1>2. ASSUME NEW c \in Callbacks, CallbackNext(c) PROVE IInv'
    BY <1>2, ConsumeOAuthStateIInv, ExchangeOAuthCodeIInv, CallbackFailsIInv,
       PersistOAuthConnectionIInv DEF CallbackNext
  <1>3. CASE CreatePending
    BY <1>3, CreatePendingIInv
  <1>4. CASE BackfillLegacyRow
    BY <1>4, BackfillLegacyRowIInv
  <1>5. CASE AccessTokenExpires
    BY <1>5, AccessTokenExpiresIInv
  <1>6. CASE UNCHANGED vars
    <2>1. UNCHANGED <<row, lock, state, load, callback, fate>>
      BY <1>6 DEF vars
    <2>2. RowShape' /\ row' \in Row
      BY <2>1 DEF IInv, TypeOK, RowShape
    <2> QED
      BY <2>1, <2>2, RowSettles DEF IInv, TypeOK
  <1> QED
    BY <1>1, <1>2, <1>3, <1>4, <1>5, <1>6, StateMovesIInv DEF Next

\* So the invariant always holds.
LEMMA Invariance == Spec => []IInv
  BY InitIInv, NextIInv, PTL DEF Spec

\* Every variable always holds a value of its type.
THEOREM TypeCorrect == Spec => []TypeOK
  <1>1. IInv => TypeOK
    BY DEF IInv
  <1> QED
    BY <1>1, Invariance, PTL

\* A connection stored encrypted can be decrypted and refreshed, however loads,
\* reconnects, lost answers and key changes interleave.
THEOREM ConnectionStaysUsable == Spec => []ConnectionUsable
  <1>1. IInv => ConnectionUsable
    <2> SUFFICES ASSUME IInv, row.status = "connected", row.sealed # None
                 PROVE  /\ Readable(row) /\ row.token # 0
                        /\ \/ fate[row.token] \in {"live", "lost"}
                           \/ \E l \in Loads : lock = l /\ load[l].pc = "granted"
      BY DEF ConnectionUsable
    <2>1. row.key = row.sealed /\ row.token # 0
      BY DEF IInv, RowShape
    <2>2. row.token \in Tokens
      BY <2>1 DEF IInv, TypeOK, Row
    <2>3. fate[row.token] \in {"live", "lost"} \/ Granted
      BY <2>1, <2>2 DEF IInv, TypeOK, StoredToken
    <2>4. Granted => \E l \in Loads : lock = l /\ load[l].pc = "granted"
      BY DEF Granted, IInv, LockOwner, Refreshing
    <2> QED
      BY <2>1, <2>3, <2>4 DEF Readable
  <1> QED
    BY <1>1, Invariance, PTL

\* A refresh changes the row only while the token it started from is stored: the
\* lock is kept from the read to the commit.
THEOREM RefreshActsOnStored == Spec => RefreshBuildsOnStored
  <1>1. IInv /\ [Next]_vars =>
          [\A l \in Loads :
             load[l].pc \in {"refreshing", "granted"} /\ load'[l] # load[l] /\ row' # row
                => row.token = load[l].token]_vars
    BY DEF IInv, LockOwner, Refreshing
  <1> QED
    BY <1>1, Invariance, PTL DEF Spec, RefreshBuildsOnStored

\* A row keeps its account, except that a reconnect may give it one.
LEMMA AccountKept ==
  ASSUME IInv, [Next]_vars
  PROVE  row.email # None => row'.email = row.email
  <1>0. row \in Row /\ row.token \in Tokens \cup {0} /\ row.email \in Emails \cup {None}
    BY DEF IInv, TypeOK, Row
  <1>1. CASE UNCHANGED row
    BY <1>1
  <1>2. CASE CreatePending
    BY <1>2 DEF CreatePending, IInv, RowShape
  <1>3. CASE MarkReconnectRequired
    BY <1>3, MarkedRow DEF IInv
  <1>4. ASSUME NEW k \in Keys, NEW t \in Tokens \cup {0}, row' = WriteEncrypted(row, k, t, row.email)
        PROVE  row'.email = row.email
    BY <1>0, <1>4, WriteEncryptedRow
  <1>5. CASE BackfillLegacyRow
    <2>1. ActiveKey[Backfill] \in Keys
      BY KeyAssumption
    <2>2. CASE row' = WriteEncrypted(row, ActiveKey[Backfill], row.token, row.email)
      BY <1>0, <1>4, <2>1, <2>2
    <2>3. CASE \/ row' = [row EXCEPT !.status = "pending", !.json = "json_null"]
               \/ row' = [row EXCEPT !.status = "quarantined", !.json = "json_null"]
      BY <1>0, <2>3 DEF Row
    <2> QED
      BY <1>5, <2>2, <2>3 DEF BackfillLegacyRow
  <1>6. CASE AccessTokenExpires
    BY <1>0, <1>6 DEF AccessTokenExpires, Row
  <1>7. ASSUME NEW l \in Loads, LoadNext(l) PROVE row.email # None => row'.email = row.email
    <2>1. ActiveKey[l] \in Keys
      BY KeyAssumption
    <2>2. CASE LoadRow(l)
      BY <1>0, <1>1, <1>3, <1>4, <2>1, <2>2 DEF LoadRow, StartRefresh
    <2>3. CASE RefreshCommits(l)
      <3>1. /\ load[l].pc = "granted"
            /\ row' = Freshened(row, ActiveKey[l], load[l].merged, row.email)
        BY <2>3 DEF RefreshCommits, Freshened
      <3>2. load[l].merged \in Tokens
        BY <3>1 DEF IInv, LoadTokens
      <3> QED
        BY <1>0, <2>1, <3>1, <3>2, FreshRow
    <2>4. CASE RefreshRefused(l) \/ AnswerInvalid(l)
      BY <1>3, <2>4 DEF RefreshRefused, AnswerInvalid
    <2> QED
      BY <1>1, <1>7, <2>2, <2>3, <2>4
      DEF LoadNext, LoadBegin, LoadFails, GoogleRefreshes, RefreshTimesOut, LateAnswer, CommitFails
  <1>8. ASSUME NEW c \in Callbacks, CallbackNext(c) PROVE row.email # None => row'.email = row.email
    BY <1>1, <1>8, PersistOAuthConnectionIInv
    DEF CallbackNext, ConsumeOAuthState, ExchangeOAuthCode, AuthorizationFails, PersistFails
  <1> QED
    BY <1>1, <1>2, <1>5, <1>6, <1>7, <1>8 DEF Next, vars, StateExpires, StartOAuth

\* However flows overlap and callbacks repeat, a state lets one callback pass and
\* no step moves a row from one Google account to another.
THEOREM FlowsKeepTheirAccount == Spec => FlowsStayBound
  <1>1. IInv /\ [Next]_vars =>
          [StateSpentOnce' /\ (row.email # None => row'.email = row.email)]_vars
    <2>1. IInv' => StateSpentOnce'
      BY DEF IInv, FlowsBound
    <2> QED
      BY <2>1, NextIInv, AccountKept
  <1> QED
    BY <1>1, Invariance, PTL DEF Spec, FlowsStayBound

==============================================================================
