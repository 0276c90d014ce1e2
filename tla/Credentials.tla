----------------------------- MODULE Credentials -----------------------------
(***************************************************************************)
(* A user's Google connection: server/services/credentials.py, the OAuth   *)
(* routes (server/routes/agent_oauth.py, server/oauth_state.py), the       *)
(* encrypted storage (server/security/oauth_credentials.py) and the        *)
(* backfill of plaintext rows (server/commands).                           *)
(*                                                                         *)
(* The user starts OAuth flows; Google redirects the browser to the        *)
(* callback, perhaps more than once, and the callback consumes the state,  *)
(* exchanges the code and stores the tokens.  Requests load the            *)
(* connection under a row lock, which they keep while Google refreshes an  *)
(* expired access token.  Meanwhile the encryption key is rotated, and the *)
(* backfill command encrypts what older releases stored in plaintext.      *)
(*                                                                         *)
(* One user, so one row of onebox_tokens.  A payload is the refresh token  *)
(* in it, numbered in the order Google issues them.                        *)
(***************************************************************************)
EXTENDS Integers, FiniteSets

CONSTANTS Loads,       \* load_connected_google_connection calls
          Callbacks,   \* requests to the OAuth callback
          States,      \* opaque OAuth states
          Emails,      \* Google accounts
          Keys,        \* keys of the keyring, which every process holds in full
          ActiveKey,   \* the active key of the process each request runs in
          MaxToken,    \* bound on the refresh tokens Google issues
          Backfill,    \* the process of the backfill command
          None

ASSUME TokenAssumption == MaxToken \in Nat \ {0}
ASSUME KeyAssumption == ActiveKey \in [Loads \cup Callbacks \cup {Backfill} -> Keys]
ASSUME NamesAssumption ==
    /\ None \notin Emails \cup Keys \cup States \cup Loads
    /\ Emails \cap {"fresh", "gone"} = {}

VARIABLES row,      \* the user's row of onebox_tokens
          lock,     \* the load that holds the row FOR UPDATE
          state,    \* oauth_state:<state> in Redis: the expected email
          load,
          callback,
          fate      \* what Google makes of each refresh token

vars == <<row, lock, state, load, callback, fate>>

Tokens == 1..MaxToken

\* token_json: SQL NULL, the JSON value null, the marker of an unfinished
\* connection, or a plaintext payload.  The column is JSON without
\* none_as_null, so that the None the code assigns is stored as JSON null.
Json == {"sql_null", "json_null", "marker", "valid", "invalid"}

Row == [status  : {"absent", "pending", "connected", "reconnect_required", "quarantined"},
        json    : Json,
        sealed  : Keys \cup {None},      \* the key encrypted_token_payload was made with
        key     : Keys \cup {None},      \* credential_key_id
        token   : Tokens \cup {0},       \* the refresh token in either payload
        expired : BOOLEAN,               \* its access token has expired
        email   : Emails \cup {None}]    \* google_email_normalized, else user_email

Load == [pc     : {"idle", "waiting", "refreshing", "granted", "late", "done"},
         token  : Tokens \cup {0},       \* the one it refreshes
         merged : Tokens \cup {0}]       \* the one it stores

Callback == [pc     : {"idle", "consumed", "exchanged", "done"},
             state  : States \cup {None},
             email  : Emails \cup {None},    \* expected_email
             token  : Tokens \cup {0}]

\* Every variable holds a value of its type.
TypeOK ==
    /\ row \in Row
    /\ lock \in Loads \cup {None}
    /\ state \in [States -> {"fresh", "gone"} \cup Emails]
    /\ load \in [Loads -> Load]
    /\ callback \in [Callbacks -> Callback]
    /\ fate \in [Tokens -> {"unissued", "live", "rotated", "lost"}]

NoRow == [status |-> "absent", json |-> "sql_null", sealed |-> None, key |-> None,
          token |-> 0, expired |-> FALSE, email |-> None]

\* What the migration that added encrypted storage left: no row, an unfinished
\* connection with or without the account, a payload with a refresh token that is
\* usable or not, a payload without an account, a payload without a refresh token.
Migrated(e) ==
    {NoRow,
     [NoRow EXCEPT !.status = "pending", !.json = "marker"],
     [NoRow EXCEPT !.status = "pending", !.json = "marker", !.email = e],
     [NoRow EXCEPT !.status = "connected", !.json = "valid", !.token = 1, !.email = e],
     [NoRow EXCEPT !.status = "connected", !.json = "invalid", !.email = e],
     [NoRow EXCEPT !.status = "reconnect_required", !.json = "valid", !.token = 1],
     [NoRow EXCEPT !.status = "reconnect_required", !.json = "invalid"],
     [NoRow EXCEPT !.status = "reconnect_required", !.json = "invalid", !.email = e]}

Init ==
    /\ \E e \in Emails : row \in Migrated(e)
    /\ lock = None
    /\ state = [s \in States |-> "fresh"]
    /\ load = [l \in Loads |-> [pc |-> "idle", token |-> 0, merged |-> 0]]
    /\ callback = [c \in Callbacks |-> [pc |-> "idle", state |-> None, email |-> None,
                                        token |-> 0]]
    /\ fate = [t \in Tokens |-> IF t = row.token THEN "live" ELSE "unissued"]

------------------------------------------------------------------------------
(* Stored credentials *)

\* Decryption needs the key the payload was made with.
Readable(r) == IF r.sealed # None THEN r.key = r.sealed ELSE r.json = "valid"

\* Faulty variant: the key identifier of an earlier encryption stays.
WriteEncryptedKeepsKey(r, key, token, email) ==
    [r EXCEPT !.status = "connected", !.json = "json_null", !.sealed = key,
              !.key = IF r.key = None THEN key ELSE r.key,
              !.token = token, !.email = email]

WriteEncrypted(r, key, token, email) ==
    [r EXCEPT !.status = "connected", !.json = "json_null", !.sealed = key, !.key = key,
              !.token = token, !.email = email]

\* Faulty variant: a status the table's check constraint does not know.
MarkDisconnected == row' = [row EXCEPT !.status = "disconnected"]

MarkReconnectRequired == row' = [row EXCEPT !.status = "reconnect_required"]

\* Faulty variant: the replacement Google returned is dropped.
MergeKeepsExisting(existing, returned) == IF existing = 0 THEN returned ELSE existing

\* merge_oauth_token_payload: a refresh answer may omit the refresh token.
Merge(existing, returned) == IF returned = 0 THEN existing ELSE returned

\* POST /verify_and_create_entry.
CreatePending ==
    /\ row.status = "absent"
    /\ row' = [NoRow EXCEPT !.status = "pending", !.json = "json_null"]
    /\ UNCHANGED <<lock, state, load, callback, fate>>

\* The backfill selects the rows whose token_json IS NOT NULL, locked ones
\* skipped, and looks at one after the other.
Selected == row.json # "sql_null" /\ lock = None

BackfillLegacyRow ==
    /\ Selected
    /\ row' = CASE row.json = "marker" ->
                     [row EXCEPT !.status = "pending", !.json = "json_null"]
                [] row.json = "valid" /\ row.email # None ->
                     WriteEncrypted(row, ActiveKey[Backfill], row.token, row.email)
                [] OTHER ->
                     [row EXCEPT !.status = "quarantined", !.json = "json_null"]
    /\ UNCHANGED <<lock, state, load, callback, fate>>

------------------------------------------------------------------------------
(* Google (external) *)

NextToken == 1 + Cardinality({t \in Tokens : fate[t] # "unissued"})

AccessTokenExpires ==
    /\ row.token # 0 /\ ~row.expired
    /\ row' = [row EXCEPT !.expired = TRUE]
    /\ UNCHANGED <<lock, state, load, callback, fate>>

\* Google accepts the refresh token t and answers with the refresh token
\* `returned' (0: none), which replaces t.  `outcome' says whether the caller is
\* still there to see the answer.
Grant(t, returned, outcome) ==
    /\ fate[t] = "live"
    /\ \/ returned = 0 /\ UNCHANGED fate
       \/ /\ returned = NextToken /\ returned \in Tokens
          /\ fate' = [fate EXCEPT ![t] = outcome, ![returned] = "live"]

------------------------------------------------------------------------------
(* load_connected_google_connection *)

LoadBegin(l) ==
    /\ load[l].pc = "idle"
    /\ load' = [load EXCEPT ![l].pc = "waiting"]
    /\ UNCHANGED <<row, lock, state, callback, fate>>

\* A connection, GoogleReconnectRequired or GoogleCredentialsUnavailable.
Return(l) == load' = [load EXCEPT ![l] = [pc |-> "done", token |-> 0, merged |-> 0]]

\* Faulty variant of StartRefresh: the transaction ends before the refresh.
StartRefreshUnlocked(l) ==
    /\ load' = [load EXCEPT ![l].pc = "refreshing", ![l].token = row.token]
    /\ UNCHANGED <<row, lock>>

\* credentials.refresh runs in a provider thread while the transaction keeps the
\* row locked.
StartRefresh(l) ==
    /\ lock' = l
    /\ load' = [load EXCEPT ![l].pc = "refreshing", ![l].token = row.token]
    /\ UNCHANGED row

\* SELECT ... FOR UPDATE, and all that follows unless Google is asked.
LoadRow(l) ==
    /\ load[l].pc = "waiting" /\ lock = None
    /\ \/ /\ row.status # "connected"
          /\ Return(l) /\ UNCHANGED <<row, lock>>
       \/ /\ row.status = "connected" /\ (row.email = None \/ ~Readable(row))
          /\ MarkReconnectRequired
          /\ Return(l) /\ UNCHANGED lock
       \/ /\ row.status = "connected" /\ row.email # None /\ Readable(row) /\ ~row.expired
          /\ row' = IF row.sealed # None THEN row
                    ELSE WriteEncrypted(row, ActiveKey[l], row.token, row.email)
          /\ Return(l) /\ UNCHANGED lock
       \/ /\ row.status = "connected" /\ row.email # None /\ Readable(row) /\ row.expired
          /\ StartRefresh(l)
    /\ UNCHANGED <<state, callback, fate>>

\* No keyring, no database, or the request is cancelled while it waits.
LoadFails(l) ==
    /\ load[l].pc = "waiting"
    /\ Return(l)
    /\ UNCHANGED <<row, lock, state, callback, fate>>

Unlock(l) == lock' = IF lock = l THEN None ELSE lock

GoogleRefreshes(l) ==
    /\ load[l].pc = "refreshing"
    /\ \E returned \in 0..MaxToken :
          /\ Grant(load[l].token, returned, "rotated")
          /\ load' = [load EXCEPT ![l].pc = "granted",
                                  ![l].merged = Merge(load[l].token, returned)]
    /\ UNCHANGED <<row, lock, state, callback>>

RefreshCommits(l) ==
    /\ load[l].pc = "granted"
    /\ row' = [WriteEncrypted(row, ActiveKey[l], load[l].merged, row.email)
                 EXCEPT !.expired = FALSE]
    /\ Unlock(l) /\ Return(l)
    /\ UNCHANGED <<state, callback, fate>>

\* RefreshError: the user revoked the token, Google replaced it, or its token
\* endpoint fails.
RefreshRefused(l) ==
    /\ load[l].pc = "refreshing"
    /\ MarkReconnectRequired
    /\ Unlock(l) /\ Return(l)
    /\ UNCHANGED <<state, callback, fate>>

\* Faulty variant: the refresh has no deadline.
RefreshNeverTimesOut(l) == FALSE /\ UNCHANGED vars

\* The provider deadline, or the request is cancelled: the transaction ends
\* and the row is unlocked, while the thread may still be talking to Google.
RefreshTimesOut(l) ==
    /\ load[l].pc = "refreshing"
    /\ load' = [load EXCEPT ![l].pc = "late"]
    /\ Unlock(l)
    /\ UNCHANGED <<row, state, callback, fate>>

\* What Google answers to such a thread, nobody stores.
LateAnswer(l) ==
    /\ load[l].pc = "late"
    /\ \/ UNCHANGED fate
       \/ \E returned \in 0..MaxToken : Grant(load[l].token, returned, "lost")
    /\ Return(l)
    /\ UNCHANGED <<row, lock, state, callback>>

\* The load ends without storing the replacement Google gave it.
LoseAnswer(l) ==
    /\ load[l].pc = "granted"
    /\ fate' = [t \in Tokens |-> IF t = load[l].token /\ fate[t] = "rotated" THEN "lost" ELSE fate[t]]
    /\ Unlock(l) /\ Return(l)
    /\ UNCHANGED <<state, callback>>

\* The process dies, or the commit fails, with Google's answer in hand.
CommitFails(l) == LoseAnswer(l) /\ UNCHANGED row

\* Google's answer does not make a valid payload.
AnswerInvalid(l) == LoseAnswer(l) /\ MarkReconnectRequired

------------------------------------------------------------------------------
(* The OAuth routes *)

\* The redirect to the frontend, with success or failure.
Finish(c) ==
    callback' = [callback EXCEPT ![c].pc = "done", ![c].email = None, ![c].token = 0]

\* GET /oauth/start: create_oauth_state.
StartOAuth(s, email) ==
    /\ state[s] = "fresh"
    /\ state' = [state EXCEPT ![s] = email]
    /\ UNCHANGED <<row, lock, load, callback, fate>>

StateExpires(s) ==
    /\ state[s] \in Emails
    /\ state' = [state EXCEPT ![s] = "gone"]
    /\ UNCHANGED <<row, lock, load, callback, fate>>

\* Faulty variant of TakeState: the binding is read and left in Redis.
ReadState(s) == state[s] \in Emails /\ UNCHANGED state

\* The script reads and deletes the binding in one step.
TakeState(s) == state[s] \in Emails /\ state' = [state EXCEPT ![s] = "gone"]

ConsumeOAuthState(c, s) ==
    /\ callback[c].pc = "idle"
    /\ \/ /\ TakeState(s)
          /\ callback' = [callback EXCEPT ![c].pc = "consumed", ![c].state = s,
                                          ![c].email = state[s]]
       \/ /\ state[s] \notin Emails
          /\ Finish(c) /\ UNCHANGED state
       \/ /\ state' \in {state, [state EXCEPT ![s] = "gone"]}   \* Redis fails
          /\ state[s] \in Emails
          /\ Finish(c)
    /\ UNCHANGED <<row, lock, load, fate>>

\* The user declined, or the code or the identity could not be had.
AuthorizationFails(c) ==
    /\ callback[c].pc = "consumed"
    /\ Finish(c)
    /\ UNCHANGED <<row, lock, state, load, fate>>

\* exchange_oauth_code: the tokens of the account the user chose at Google.
ExchangeOAuthCode(c, chosen) ==
    /\ callback[c].pc = "consumed" /\ NextToken \in Tokens
    /\ fate' = [fate EXCEPT ![NextToken] = "live"]
    /\ IF chosen = callback[c].email
         THEN callback' = [callback EXCEPT ![c].pc = "exchanged", ![c].token = NextToken]
         ELSE Finish(c)
    /\ UNCHANGED <<row, lock, state, load>>

\* Faulty variant: persist_oauth_connection does not look at the stored account.
MayConnectAny(email) == TRUE

MayConnect(email) == row.email \in {None, email}

PersistOAuthConnection(c) ==
    /\ callback[c].pc = "exchanged" /\ lock = None
    /\ IF MayConnect(callback[c].email)
         THEN row' = [WriteEncrypted(row, ActiveKey[c], Merge(row.token, callback[c].token),
                                     callback[c].email) EXCEPT !.expired = FALSE]
         ELSE UNCHANGED row
    /\ Finish(c)
    /\ UNCHANGED <<lock, state, load, fate>>

PersistFails(c) ==
    /\ callback[c].pc = "exchanged"
    /\ Finish(c)
    /\ UNCHANGED <<row, lock, state, load, fate>>

------------------------------------------------------------------------------
LoadNext(l) ==
    \/ LoadBegin(l) \/ LoadRow(l) \/ LoadFails(l) \/ GoogleRefreshes(l)
    \/ RefreshCommits(l) \/ RefreshRefused(l) \/ RefreshTimesOut(l)
    \/ LateAnswer(l) \/ CommitFails(l) \/ AnswerInvalid(l)

CallbackNext(c) ==
    \/ \E s \in States : ConsumeOAuthState(c, s)
    \/ \E e \in Emails : ExchangeOAuthCode(c, e)
    \/ AuthorizationFails(c) \/ PersistOAuthConnection(c) \/ PersistFails(c)

Next ==
    \/ \E l \in Loads : LoadNext(l)
    \/ \E c \in Callbacks : CallbackNext(c)
    \/ \E s \in States : StateExpires(s) \/ \E e \in Emails : StartOAuth(s, e)
    \/ CreatePending \/ BackfillLegacyRow \/ AccessTokenExpires

\* Postgres hands a row lock to the waiting transactions in turn; the runner's
\* deadline ends a refresh and the event loop runs what the answer wakes up.
\* Nothing obliges Google to answer.
Fairness ==
    \A l \in Loads : /\ SF_vars(LoadRow(l))
                     /\ WF_vars(RefreshTimesOut(l))
                     /\ WF_vars(RefreshCommits(l))

Spec == Init /\ [][Next]_vars /\ Fairness

------------------------------------------------------------------------------
(* Properties *)

\* A refresh takes effect on the row only while the token it started from is
\* still the stored one: neither its answer nor its refusal is ever applied to
\* a connection that another load or a reconnect has stored meanwhile.
RefreshBuildsOnStored ==
    [][\A l \in Loads :
         load[l].pc \in {"refreshing", "granted"} /\ load'[l] # load[l] /\ row' # row
            => row.token = load[l].token]_vars

\* A connected, encrypted row can be decrypted, whichever process and key wrote it
\* last; it holds a refresh token, and Google has not replaced that token, unless
\* the refresh that got the replacement is about to commit, or the replacement
\* was lost with the request that asked for it.
ConnectionUsable ==
    row.status = "connected" /\ row.sealed # None =>
        /\ Readable(row)
        /\ row.token # 0
        /\ \/ fate[row.token] \in {"live", "lost"}
           \/ \E l \in Loads : lock = l /\ load[l].pc = "granted"

\* Of all the callbacks that bring a state, at most one passes the check.
StateSpentOnce ==
    \A c, d \in Callbacks :
        callback[c].state = callback[d].state /\ callback[c].state # None => c = d

\* However flows overlap and callbacks are repeated: a state is spent once, and
\* once a row names a Google account nothing moves it to another one.
FlowsStayBound ==
    [][StateSpentOnce' /\ (row.email # None => row'.email = row.email)]_vars

\* A load that waits for the row gets an answer, even if Google never gives one.
LoadReturns ==
    \A l \in Loads : load[l].pc = "waiting" ~> load[l].pc \in {"late", "done"}

\* "Process plaintext rows ... until no rows remain": the backfill takes no
\* row out of service that is connected and encrypted already.
BackfillLeavesEncrypted ==
    [][row.status = "connected" /\ row.sealed # None => row'.status # "quarantined"]_vars

==============================================================================
