--------------------------- MODULE ServerSessions ---------------------------
(***************************************************************************)
(* The server's sessions and how a client gets an identity: a session per  *)
(* connected peer, numbered and never reused, a player per session, and    *)
(* the requests Login, LoginByToken and Register.  A request travels       *)
(* between threads: the main thread handles the packet, the database pool  *)
(* runs its statements, a GameWorker hashes the password, and every        *)
(* callback finds its way back by the session id it captured, because the  *)
(* session may have ended and its peer id may belong to someone else.      *)
(*                                                                         *)
(* External: the database (tables accounts and account_tokens; the writes  *)
(* of a transaction happen at its COMMIT), the pool (RequestService: each  *)
(* request is run and answered once, in any order), argon2, the client.    *)
(* A token is named by the request that generated it.                      *)
(***************************************************************************)
EXTENDS Naturals, Sequences

CONSTANTS
  Peers,        \* peer ids of the reactors
  Accounts,
  NoPeer, NoSession, NoAccount,
  MaxSessions,  \* bound: sessions, numbered from 0
  MaxRequests   \* bound: requests, numbered from 1

ASSUME PeersAssumption == NoPeer \notin Peers
ASSUME AccountsAssumption == NoAccount \notin Accounts
ASSUME SessionsAssumption ==
  MaxSessions \in Nat /\ MaxRequests \in Nat /\ NoSession \notin Nat

VARIABLES
  sessions,         \* m_sessions: the session of a peer
  sessionIdToPeer,  \* m_sessionIdToPeer
  nextSessionId,    \* m_nextSessionId
  player,           \* per session: m_databaseId, m_login, m_authenticated
  request, asked,   \* the requests, and how many there are
  registered,       \* database: the accounts that exist
  stored,           \* database: the account a token is stored for
  replies,          \* per request: the sessions a reply was sent to
  proved,           \* per session: the accounts its client gave credentials of
  overlapped,       \* sessions that logged in again before the first reply
  raced             \* a worker's lookup met a change of the session maps

sessionVars == <<sessions, sessionIdToPeer, nextSessionId>>
databaseVars == <<registered, stored>>
historyVars == <<proved, overlapped>>
vars == <<sessionVars, player, request, asked, databaseVars, replies,
          historyVars, raced>>

SessionIds == 0..(MaxSessions - 1)
Requests == 1..MaxRequests
NewPlayer == [account |-> NoAccount, login |-> NoAccount, authenticated |-> FALSE]
NoRequest ==
  [kind |-> "none", stage |-> "done", result |-> "none",
   asker |-> NoSession, session |-> NoSession, account |-> NoAccount,
   valid |-> FALSE, token |-> 0, renew |-> FALSE, given |-> FALSE, torn |-> FALSE]
\* All that is left of a request that ended: who asked, and whether a token was
\* given.
Ended(asker, given) == [NoRequest EXCEPT !.asker = asker, !.given = given]

Init ==
  /\ sessions = [p \in Peers |-> NoSession]
  /\ sessionIdToPeer = [s \in SessionIds |-> NoPeer]
  /\ nextSessionId = 0
  /\ player = [s \in SessionIds |-> NewPlayer]
  /\ request = [r \in Requests |-> NoRequest] /\ asked = 0
  /\ registered \in SUBSET Accounts
  /\ stored = [r \in Requests |-> NoAccount]
  /\ replies = [r \in Requests |-> <<>>]
  /\ proved = [s \in SessionIds |-> {}]
  /\ overlapped = {} /\ raced = FALSE

-----------------------------------------------------------------------------
(* Connections *)

\* A worker that looks a session up now sees the maps change under it.
Tear == request' = [r \in Requests |->
          [request[r] EXCEPT !.torn = @ \/ request[r].stage = "lookup"]]

HandlePeerConnection(p) ==
  /\ sessions[p] = NoSession
  /\ nextSessionId < MaxSessions
  /\ sessionIdToPeer' = [sessionIdToPeer EXCEPT ![nextSessionId] = p]
  /\ nextSessionId' = nextSessionId + 1
  /\ sessions' = [sessions EXCEPT ![p] = nextSessionId]
  /\ Tear
  /\ UNCHANGED <<player, asked, databaseVars, replies, historyVars, raced>>

\* Mutant: the id of the session that ended still leads to its peer.
HandlePeerDisconnection_IdKept(p) ==
  /\ sessions[p] # NoSession
  /\ sessions' = [sessions EXCEPT ![p] = NoSession]
  /\ player' = [player EXCEPT ![sessions[p]] = NewPlayer]
  /\ Tear
  /\ UNCHANGED <<sessionIdToPeer, nextSessionId, asked, databaseVars,
                 replies, historyVars, raced>>

HandlePeerDisconnection(p) ==
  /\ sessions[p] # NoSession
  /\ sessionIdToPeer' = [sessionIdToPeer EXCEPT ![sessions[p]] = NoPeer]
  /\ sessions' = [sessions EXCEPT ![p] = NoSession]
  /\ player' = [player EXCEPT ![sessions[p]] = NewPlayer]
  /\ Tear
  /\ UNCHANGED <<nextSessionId, asked, databaseVars, replies,
                 historyVars, raced>>

\* GetPlayerBySession: whether it finds a player, and of which session.
Found(s) == sessionIdToPeer[s] # NoPeer
PlayerOf(s) == sessions[sessionIdToPeer[s]]

-----------------------------------------------------------------------------
(* Requests.  A handler returns at once for a player who is authenticated. *)

LoggingIn(s) ==
  \E r \in Requests :
    request[r].asker = s /\ request[r].kind \in {"login", "token"}

Ask(p, new) ==
  /\ sessions[p] # NoSession
  /\ ~player[sessions[p]].authenticated
  /\ asked < MaxRequests
  /\ asked' = asked + 1
  /\ request' = [request EXCEPT ![asked'] =
                   [new EXCEPT !.asker = sessions[p], !.session = sessions[p],
                               !.result = "pending"]]
  /\ overlapped' = IF new.kind \in {"login", "token"} /\ LoggingIn(sessions[p])
                     THEN overlapped \cup {sessions[p]} ELSE overlapped
  /\ UNCHANGED <<sessionVars, player, databaseVars, raced>>

Prove(p, accounts) ==
  proved' = [proved EXCEPT ![sessions[p]] = @ \cup accounts]

\* HandleLogin asks for the account's salt and hash; valid: the password is
\* the account's.
HandleLogin(p, account, valid, renew) ==
  /\ Ask(p, [NoRequest EXCEPT !.kind = "login", !.stage = "query",
               !.account = account, !.valid = valid, !.renew = renew])
  /\ Prove(p, IF valid THEN {account} ELSE {})
  /\ UNCHANGED replies

\* HandleLoginByToken: a token some client was given, or 0 for another one.
HandleLoginByToken(p, token, renew) ==
  /\ token # 0 => request[token].given
  /\ Ask(p, [NoRequest EXCEPT !.kind = "token", !.stage = "find",
               !.token = token, !.renew = renew])
  /\ Prove(p, IF token = 0 THEN {} ELSE proved[request[token].asker])
  /\ UNCHANGED replies

\* HandleRegister: without random numbers for the salt it answers at once.
HandleRegister(p, account) ==
  /\ \/ /\ Ask(p, [NoRequest EXCEPT !.kind = "register", !.stage = "hash",
                       !.account = account])
        /\ UNCHANGED replies
     \/ /\ Ask(p, NoRequest)
        /\ replies' = [replies EXCEPT ![asked'] = Append(@, sessions[p])]
  /\ UNCHANGED proved

-----------------------------------------------------------------------------
(* Database: a request to the pool is run *)

Runs(r, stage, from, to) ==
  /\ request[r].stage = stage /\ request[r].result = from
  /\ request' = [request EXCEPT ![r].result = to]
  /\ UNCHANGED <<sessionVars, player, asked, replies, historyVars, raced>>

\* Accounts_QueryConnectionInfoByLogin and Accounts_SelectById.
ReadAccount(r, stage) ==
  /\ \/ Runs(r, stage, "pending", "failed")
     \/ Runs(r, stage, "pending",
             IF request[r].account \in registered THEN "row" ELSE "empty")
  /\ UNCHANGED <<registered, stored>>

\* RegisterAccount: a login is unique; a connection that breaks leaves open
\* whether the account exists.
InsertAccount(r) ==
  /\ LET new == registered \cup {request[r].account}
     IN  \/ Runs(r, "insert", "pending", "failed") /\ registered' \in {registered, new}
         \/ /\ request[r].account \notin registered
            /\ Runs(r, "insert", "pending", "row")
            /\ registered' = new
  /\ UNCHANGED stored

\* FindAccountByToken; its operator appends the deletion of the account's
\* tokens, which happens with the COMMIT.
FindAccountByToken(r) ==
  /\ request[r].stage = "find" /\ request[r].result = "pending"
  /\ LET owner == IF request[r].token = 0 THEN NoAccount ELSE stored[request[r].token]
     IN  request' = [request EXCEPT ![r].account = owner,
           ![r].result = IF owner = NoAccount THEN "empty" ELSE "read"]
  /\ UNCHANGED <<sessionVars, player, asked, databaseVars, replies, historyVars,
                 raced>>

WithoutTokensOf(account) ==
  [t \in Requests |-> IF stored[t] = account THEN NoAccount ELSE stored[t]]

CommitFind(r) ==
  /\ LET deleted == WithoutTokensOf(request[r].account)
     IN  \/ Runs(r, "find", "read", "failed") /\ stored' \in {stored, deleted}
         \/ Runs(r, "find", "read", "row") /\ stored' = deleted
  /\ UNCHANGED registered

\* DeleteAccountTokenByAccountId and CreateAccountToken.
SaveToken(r) ==
  /\ LET saved == [WithoutTokensOf(request[r].account) EXCEPT
                     ![r] = request[r].account]
     IN  \/ Runs(r, "save", "pending", "failed") /\ stored' \in {stored, saved}
         \/ Runs(r, "save", "pending", "row") /\ stored' = saved
  /\ UNCHANGED registered

DatabaseStep(r) ==
  \/ ReadAccount(r, "query") \/ ReadAccount(r, "select") \/ InsertAccount(r)
  \/ FindAccountByToken(r) \/ CommitFind(r) \/ SaveToken(r)

\* The callbacks of a request are gone, with what they captured.
Ends(r, given) == request' = [request EXCEPT ![r] = Ended(request[r].asker, given)]

-----------------------------------------------------------------------------
(* GameWorker: the job of a request *)

WorkerTakes(r, kind, stage) ==
  /\ request[r].stage = "hash" /\ request[r].kind = kind
  /\ request' = [request EXCEPT ![r].stage = stage]
  /\ UNCHANGED <<sessionVars, player, asked, databaseVars, replies, historyVars,
                 raced>>

\* Mutant: the outcome of the comparison is not used.
HashLogin_AnyPassword(r) ==
  WorkerTakes(r, "login", "lookup") \/ WorkerTakes(r, "login", "refuse")

\* The password matches, or differs, or argon2 fails.  When it matches, the
\* worker itself starts to look the session up.
HashLogin(r) ==
  \/ request[r].valid /\ WorkerTakes(r, "login", "lookup")
  \/ WorkerTakes(r, "login", "refuse")

\* argon2 succeeds, and the worker submits the statement, or fails.
HashRegister(r) ==
  WorkerTakes(r, "register", "insert") \/ WorkerTakes(r, "register", "refuse")

\* GetPlayerBySession, GetSession and HandleLoginSucceeded on the worker,
\* which registers a callback for the session it finds.  The maps, the session
\* and the player are the main thread's: if one of them changed meanwhile, the
\* worker may miss the session or read another one's id (or crash).
EndLookup(r) ==
  /\ request[r].stage = "lookup"
  /\ raced' = (raced \/ request[r].torn)
  /\ LET s == request[r].session
         torn == request[r].torn
         Sees(t) == request' = [request EXCEPT ![r].torn = FALSE,
                      ![r].session = t, ![r].stage = "succeeded"]
     IN  \/ (torn \/ ~Found(s)) /\ Ends(r, FALSE)
         \/ torn /\ \E t \in 0..(nextSessionId - 1) : Sees(t)
         \/ ~torn /\ Found(s) /\ Sees(PlayerOf(s))
  /\ UNCHANGED <<sessionVars, player, asked, databaseVars, replies, historyVars>>

WorkerStep(r) == HashLogin(r) \/ HashRegister(r) \/ EndLookup(r)

-----------------------------------------------------------------------------
(* Main thread: the callbacks of a request *)

Goes(r, stage) ==
  request' = [request EXCEPT ![r].stage = stage, ![r].result = "pending"]

Reply(r) == replies' = [replies EXCEPT ![r] = Append(@, PlayerOf(request[r].session))]

\* A callback that finds no player returns; otherwise it answers, or it sends
\* the request to its next stage.
Callback(r, stage, answers, next) ==
  /\ request[r].stage = stage
  /\ LET found == Found(request[r].session)
     IN  /\ IF found /\ ~answers THEN Goes(r, next) ELSE Ends(r, FALSE)
         /\ IF found /\ answers THEN Reply(r) ELSE UNCHANGED replies
  /\ UNCHANGED <<sessionVars, asked, databaseVars, historyVars, raced>>

\* The statement's result: a server error, no such account, or a job.
LoginQueried(r) ==
  /\ request[r].result \in {"failed", "empty", "row"}
  /\ Callback(r, "query", request[r].result # "row", "hash")
  /\ UNCHANGED player

\* The token's account, if the transaction succeeded and found one, goes on to
\* HandleLoginSucceeded.
TokenFound(r) ==
  /\ request[r].result \in {"failed", "empty", "row"}
  /\ Callback(r, "find", request[r].result # "row", "succeeded")
  /\ UNCHANGED player

\* Mutant: a login that fails in the worker is only logged.
Refused_Silent(r) ==
  /\ Callback(r, "refuse", FALSE, "done")
  /\ UNCHANGED player

Refused(r) ==
  /\ Callback(r, "refuse", TRUE, "done")
  /\ UNCHANGED player

Registered(r) ==
  /\ request[r].result \in {"failed", "row"}
  /\ Callback(r, "insert", TRUE, "done")
  /\ UNCHANGED player

\* Mutant: Authenticate keeps the id of an earlier attempt.
Authenticate_KeepsId(r) ==
  /\ Callback(r, "succeeded", FALSE, "select")
  /\ player' = IF ~Found(request[r].session) THEN player
               ELSE [player EXCEPT ![PlayerOf(request[r].session)].account =
                       IF @ = NoAccount THEN request[r].account ELSE @]

\* The callback of HandleLoginSucceeded: Player::Authenticate sets the
\* identity at once and asks for the account.
Authenticate(r) ==
  /\ Callback(r, "succeeded", FALSE, "select")
  /\ player' = IF ~Found(request[r].session) THEN player
               ELSE [player EXCEPT ![PlayerOf(request[r].session)].account =
                       request[r].account]

\* The account's data, for a player who still exists: a failure is answered;
\* with a row the player is authenticated (OnAuthenticated), the login is
\* answered or, with a new token (which the generator may refuse), the token is
\* saved first.  The last login date, which nothing reads, is left out.
AccountLoaded(r) ==
  /\ request[r].stage = "select" /\ request[r].result \in {"failed", "empty", "row"}
  /\ LET s == request[r].session
         exists == \E p \in Peers : sessions[p] = s
         loaded == exists /\ request[r].result = "row"
     IN  /\ player' = IF ~loaded THEN player
                      ELSE [player EXCEPT ![s].login = request[r].account,
                                          ![s].authenticated = TRUE]
         /\ \/ /\ loaded /\ request[r].renew
               /\ request' = [request EXCEPT ![r].stage = "save",
                    ![r].result = "pending", ![r].account = player[s].account]
               /\ UNCHANGED replies
            \/ /\ Ends(r, FALSE)
               /\ replies' = IF exists THEN [replies EXCEPT ![r] = Append(@, s)]
                             ELSE replies
  /\ UNCHANGED <<sessionVars, asked, databaseVars, historyVars, raced>>

\* The login succeeded whether or not the token could be saved; the reply
\* holds the token if it could.
TokenSaved(r) ==
  /\ request[r].stage = "save" /\ request[r].result \in {"failed", "row"}
  /\ LET found == Found(request[r].session)
     IN  /\ Ends(r, found /\ request[r].result = "row")
         /\ IF found THEN Reply(r) ELSE UNCHANGED replies
  /\ UNCHANGED <<sessionVars, player, asked, databaseVars, historyVars, raced>>

MainStep(r) ==
  \/ LoginQueried(r) \/ TokenFound(r) \/ Refused(r) \/ Registered(r)
  \/ Authenticate(r) \/ AccountLoaded(r) \/ TokenSaved(r)

-----------------------------------------------------------------------------

Next ==
  \/ \E p \in Peers :
       \/ HandlePeerConnection(p) \/ HandlePeerDisconnection(p)
       \/ \E account \in Accounts, valid, renew \in BOOLEAN :
            HandleLogin(p, account, valid, renew)
       \/ \E token \in 0..asked, renew \in BOOLEAN : HandleLoginByToken(p, token, renew)
       \/ \E account \in Accounts : HandleRegister(p, account)
  \/ \E r \in Requests : DatabaseStep(r) \/ WorkerStep(r) \/ MainStep(r)

Spec == Init /\ [][Next]_vars

\* The pool runs and answers every request (RequestService), the workers keep
\* working and the main thread keeps polling; clients owe nothing.
Fairness ==
  \A r \in Requests :
    WF_vars(DatabaseStep(r)) /\ WF_vars(WorkerStep(r)) /\ WF_vars(MainStep(r))

FairSpec == Spec /\ Fairness

-----------------------------------------------------------------------------
(* Properties *)

Stages == {"query", "hash", "lookup", "refuse", "succeeded", "select", "save",
           "find", "insert", "done"}
RequestRecords ==
  [kind : {"none", "login", "token", "register"}, stage : Stages,
   result : {"none", "pending", "failed", "empty", "read", "row"},
   asker : SessionIds \cup {NoSession}, session : SessionIds \cup {NoSession},
   account : Accounts \cup {NoAccount}, valid : BOOLEAN,
   token : 0..MaxRequests, renew : BOOLEAN, given : BOOLEAN, torn : BOOLEAN]

\* The type of every variable (ServerApplication, Player and request captures).
TypeOK ==
  /\ sessions \in [Peers -> SessionIds \cup {NoSession}]
  /\ sessionIdToPeer \in [SessionIds -> Peers \cup {NoPeer}]
  /\ nextSessionId \in 0..MaxSessions
  /\ player \in [SessionIds -> [account : Accounts \cup {NoAccount},
                     login : Accounts \cup {NoAccount}, authenticated : BOOLEAN]]
  /\ request \in [Requests -> RequestRecords] /\ asked \in 0..MaxRequests
  /\ registered \subseteq Accounts
  /\ stored \in [Requests -> Accounts \cup {NoAccount}]
  /\ replies \in [Requests -> Seq(SessionIds)]
  /\ proved \in [SessionIds -> SUBSET Accounts]
  /\ overlapped \subseteq SessionIds /\ raced \in BOOLEAN

\* Whatever sessions end and peer ids are reused while a request is under way,
\* it is answered at most once and only to the session that asked, unless a
\* worker's lookup raced (the session ids captured by every callback).
AnswersReachTheAsker ==
  raced \/ \A r \in Requests : replies[r] \in {<<>>, <<request[r].asker>>}

\* A player acts under an account its client gave the credentials of, although
\* they were checked on another thread and several requests ago: a password,
\* or a token handed to a client who had given the password.
IdentityIsProved ==
  raced \/ \A s \in SessionIds :
             player[s].authenticated => player[s].account \in proved[s]

\* An authenticated player has one identity: the id its data is stored under is
\* that of the account whose name it bears, unless its client logged in again
\* before the first login was answered (Authenticate sets the id, the answer
\* to its query sets the name).
IdentityIsOne ==
  raced \/ \A s \in SessionIds \ overlapped :
             player[s].authenticated => player[s].account = player[s].login

EndedSessions == {s \in SessionIds : s < nextSessionId /\ sessionIdToPeer[s] = NoPeer}
Service == INSTANCE PeerSessions WITH
  Ids <- SessionIds, None <- NoSession, held <- sessions, ended <- EndedSessions

\* A session id names one session for ever, although it is found through two
\* maps that are changed one after the other: what callbacks capture it for.
ImplementsSessions == Service!Spec

Left(r) == request[r].asker \in {s \in SessionIds : sessionIdToPeer[s] = NoPeer}

\* Every request is answered in the end while its session lasts: no stage of
\* it, on any thread, forgets its client.
EveryRequestAnswered ==
  \A r \in Requests :
    asked >= r ~> replies[r] # <<>> \/ raced \/ Left(r)
=============================================================================
