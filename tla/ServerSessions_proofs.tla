------------------------- MODULE ServerSessions_proofs -------------------------
(***************************************************************************)
(* Theorems of ServerSessions, for any number of peers, accounts, sessions *)
(* and requests: the types, who is answered, and whose account a player    *)
(* acts under.                                                             *)
(*                                                                         *)
(* The inductive invariant says that the two maps of the sessions agree    *)
(* (Maps), that a request knows its session as long as no lookup raced     *)
(* (Captures), that what it carries from one stage to the next was proved  *)
(* by the client that asked (Credits), and that a session which did not    *)
(* overlap two logins has one of them under way at most (OneLogin).        *)
(***************************************************************************)
EXTENDS ServerSessions, TLAPS

Live(s) == sessionIdToPeer[s] # NoPeer
Active(r) == request[r].stage # "done"
Logins == {"login", "token"}

\* The two maps are inverses of each other, on the sessions that were created.
Maps ==
  /\ \A p \in Peers : sessions[p] # NoSession =>
       sessions[p] < nextSessionId /\ sessionIdToPeer[sessions[p]] = p
  /\ \A s \in SessionIds : Live(s) => sessions[sessionIdToPeer[s]] = s

\* Which requests are at which stage.
StageFits(q) ==
  /\ q.stage = "query" => q.kind = "login"
  /\ q.stage = "hash" => q.kind \in {"login", "register"}
  /\ q.stage = "refuse" => q.kind \in {"login", "register"}
  /\ q.stage = "lookup" => q.kind = "login" /\ q.valid
  /\ q.stage \in {"succeeded", "select", "save"} => q.kind \in Logins
  /\ q.stage = "find" => q.kind = "token"
  /\ q.stage = "insert" => q.kind = "register"
  /\ q.given => q.stage = "done"
  /\ q.valid => q.kind = "login"
  /\ q.kind = "none" <=> q.stage = "done"
  /\ q.kind = "register" => q.account \in Accounts

\* A request that was made has an asker; while it is under way it has a session
\* and no answer.
CaptureOf(r) ==
  /\ StageFits(request[r])
  /\ r > asked => /\ request[r].kind = "none" /\ ~request[r].given
                  /\ replies[r] = <<>> /\ stored[r] = NoAccount
  /\ r <= asked => request[r].asker \in 0..(nextSessionId - 1)
  /\ Active(r) => request[r].session \in 0..(nextSessionId - 1) /\ replies[r] = <<>>
  /\ ~raced => /\ Active(r) => request[r].session = request[r].asker
               /\ replies[r] \in {<<>>, <<request[r].asker>>}
  /\ stored[r] # NoAccount => request[r].stage \in {"save", "done"}
Captures == \A r \in Requests : CaptureOf(r)

\* What a request carries was proved by its client.
CreditOf(q) ==
  /\ q.valid => q.account \in proved[q.asker]
  /\ q.stage = "find" /\ q.result \in {"read", "row"} => q.account \in proved[q.asker]
  /\ q.stage \in {"succeeded", "select", "save"} => q.account \in proved[q.asker]
  /\ q.stage = "find" /\ q.token # 0 =>
       /\ q.token \in Requests /\ q.token <= asked /\ request[q.token].stage = "done"
       /\ stored[q.token] # NoAccount => stored[q.token] \in proved[q.asker]
Credits ==
  ~raced =>
    \A r \in Requests :
      /\ Active(r) => CreditOf(request[r])
      /\ stored[r] # NoAccount => stored[r] \in proved[request[r].asker]

\* The account a player has was proved; it is set before its data is asked for.
PlayerCredits ==
  ~raced =>
    /\ \A s \in SessionIds :
         /\ player[s].account # NoAccount => player[s].account \in proved[s]
         /\ player[s].authenticated => player[s].account # NoAccount
    /\ \A r \in Requests :
         request[r].stage = "select" /\ Live(request[r].asker) =>
           player[request[r].asker].account # NoAccount

\* Two logins of a session overlap only if it is marked; else the one under
\* way is the one its player's account comes from.
OneLogin ==
  /\ \A q, r \in Requests :
       q # r /\ request[q].kind \in Logins /\ request[r].kind \in Logins
         /\ request[q].asker = request[r].asker => request[r].asker \in overlapped
  /\ ~raced =>
       \A r \in Requests :
         request[r].kind \in Logins /\ request[r].asker \notin overlapped =>
           /\ Active(r) /\ request[r].stage # "save" =>
                ~player[request[r].asker].authenticated
           /\ request[r].stage = "select" /\ Live(request[r].asker) =>
                player[request[r].asker].account = request[r].account

IInv ==
  /\ TypeOK /\ Maps /\ Captures /\ Credits /\ PlayerCredits /\ OneLogin
  /\ IdentityIsOne

-----------------------------------------------------------------------------
(* A step of one request *)

\* What every step of a request under way has in common: it changes that
\* request only, into one with the same asker; a reply ends it; of the tokens
\* it may delete some, and save its own.
RequestStep(r, new) ==
  /\ Active(r) /\ new \in RequestRecords
  /\ request' = [request EXCEPT ![r] = new]
  /\ new.asker = request[r].asker /\ new.kind \in {request[r].kind, "none"}
  /\ StageFits(new)
  /\ request[r].stage = "save" => new.stage \in {"save", "done"}
  /\ new.stage # "done" =>
       /\ new.session \in 0..(nextSessionId - 1)
       /\ ~raced' => new.session = new.asker /\ CreditOf(new)
  /\ \/ replies' = replies
     \/ /\ new.stage = "done"
        /\ replies' = [replies EXCEPT ![r] = Append(@, request[r].session)]
  /\ stored' \in [Requests -> Accounts \cup {NoAccount}]
  /\ \A t \in Requests :
       \/ stored'[t] \in {stored[t], NoAccount}
       \/ t = r /\ request[r].stage = "save" /\ stored'[t] = request[r].account
  /\ registered' \subseteq Accounts
  /\ raced' \in BOOLEAN /\ (raced => raced')
  /\ UNCHANGED <<sessionVars, asked, historyVars>>

\* Such a step keeps everything that is not about players.
LEMMA RequestStepKeeps ==
  ASSUME IInv, NEW r \in Requests, NEW new, RequestStep(r, new),
         player' \in [SessionIds -> [account : Accounts \cup {NoAccount},
                        login : Accounts \cup {NoAccount}, authenticated : BOOLEAN]]
  PROVE  TypeOK' /\ Maps' /\ Captures' /\ Credits'
  <1>1. /\ request[r].session \in SessionIds /\ request[r].asker \in SessionIds
        /\ request[r].asker \in 0..(nextSessionId - 1) /\ r <= asked
        /\ replies[r] = <<>>
    <2>1. request[r].kind # "none" /\ Active(r) /\ CaptureOf(r)
      BY DEF IInv, RequestStep, Captures, CaptureOf, StageFits, Active
    <2>2. asked \in Nat /\ r \in Nat /\ nextSessionId \in 0..MaxSessions
      BY SessionsAssumption DEF IInv, TypeOK, Requests
    <2> QED BY <2>1, <2>2, SessionsAssumption DEF CaptureOf, SessionIds
  <1>2. /\ r \in DOMAIN request /\ request'[r] = new
        /\ \A q \in Requests : q # r => request'[q] = request[q]
    BY DEF IInv, RequestStep, TypeOK
  <1>3. /\ replies' \in [Requests -> Seq(SessionIds)]
        /\ \A q \in Requests : q # r => replies'[q] = replies[q]
        /\ replies'[r] = <<>> \/ (replies'[r] = <<request[r].session>> /\ new.stage = "done")
    <2>1. /\ Append(<<>>, request[r].session) = <<request[r].session>>
          /\ <<request[r].session>> \in Seq(SessionIds)
      BY <1>1
    <2>2. replies \in [Requests -> Seq(SessionIds)]
      BY DEF IInv, TypeOK
    <2>3. CASE replies' = replies
      BY <1>1, <2>2, <2>3
    <2>4. CASE /\ new.stage = "done"
               /\ replies' = [replies EXCEPT ![r] = <<request[r].session>>]
      BY <2>1, <2>2, <2>4
    <2> QED BY <1>1, <2>1, <2>2, <2>3, <2>4 DEF RequestStep
  <1>4. TypeOK'
    BY <1>3 DEF IInv, TypeOK, RequestStep, sessionVars, historyVars
  <1>5. Maps'
    BY DEF IInv, Maps, Live, RequestStep, sessionVars
  <1>6. ASSUME NEW q \in Requests
        PROVE  CaptureOf(q)'
    <2>1. CaptureOf(q) /\ CaptureOf(r)
      BY DEF IInv, Captures
    <2>2. CASE q = r
      BY <1>1, <1>2, <1>3, <2>1, <2>2
      DEF CaptureOf, RequestStep, sessionVars, Active, StageFits
    <2>3. CASE q # r
      BY <1>1, <1>2, <1>3, <2>1, <2>3
      DEF CaptureOf, RequestStep, sessionVars, Active
    <2> QED BY <2>2, <2>3
  <1>7. Credits'
    BY <1>1, <1>2, <1>3 DEF IInv, Credits, CreditOf, Captures, CaptureOf, RequestStep, sessionVars, historyVars, Active
  <1> QED BY <1>4, <1>5, <1>6, <1>7 DEF Captures

\* The facts about the request a step is about, and about its session.
LEMMA RequestUnderWay ==
  ASSUME IInv, NEW r \in Requests, Active(r)
  PROVE  /\ request[r] \in RequestRecords /\ StageFits(request[r])
         /\ r <= asked /\ replies[r] = <<>>
         /\ request[r].session \in SessionIds /\ request[r].asker \in SessionIds
         /\ request[r].session \in 0..(nextSessionId - 1)
         /\ request[r].asker \in 0..(nextSessionId - 1)
         /\ Found(request[r].session) =>
              PlayerOf(request[r].session) = request[r].session
         /\ ~raced => request[r].session = request[r].asker /\ CreditOf(request[r])
  <1>1. CaptureOf(r) /\ request[r].kind # "none" /\ request[r] \in RequestRecords
    BY DEF IInv, TypeOK, Captures, CaptureOf, StageFits, Active
  <1>2. /\ asked \in Nat /\ r \in Nat /\ nextSessionId \in 0..MaxSessions
        /\ MaxSessions \in Nat
    BY SessionsAssumption DEF IInv, TypeOK, Requests
  <1>3. r <= asked /\ request[r].session \in SessionIds /\ request[r].asker \in SessionIds
    BY <1>1, <1>2 DEF CaptureOf, SessionIds, Active
  <1>4. Found(request[r].session) => PlayerOf(request[r].session) = request[r].session
    BY <1>3 DEF IInv, Maps, Live, Found, PlayerOf
  <1> QED BY <1>1, <1>3, <1>4 DEF IInv, CaptureOf, Credits

\* A step that changes no player and does not load an account keeps what is
\* known of players.
LEMMA PlayersKept ==
  ASSUME IInv, NEW r \in Requests, NEW new, RequestStep(r, new), UNCHANGED player,
         new.stage = "select" =>
           request[r].stage = "select" /\ new.account = request[r].account
  PROVE  IInv'
  <1>1. TypeOK' /\ Maps' /\ Captures' /\ Credits'
    BY RequestStepKeeps DEF IInv, TypeOK
  <1>2. /\ request'[r] = new
        /\ \A q \in Requests : q # r => request'[q] = request[q]
    BY DEF IInv, RequestStep, TypeOK
  <1>3. /\ PlayerCredits'
    BY <1>2 DEF IInv, PlayerCredits, RequestStep, sessionVars, historyVars, Live
  <1>4. OneLogin'
    BY <1>2 DEF IInv, OneLogin, RequestStep, sessionVars, historyVars, Live, Active, Logins
  <1>5. IdentityIsOne'
    BY DEF IInv, IdentityIsOne, RequestStep, sessionVars, historyVars
  <1> QED BY <1>1, <1>3, <1>4, <1>5 DEF IInv

-----------------------------------------------------------------------------
(* The database and the workers *)

\* The result of a statement is one more thing a request carries.
LEMMA ReadAccountKeeps ==
  ASSUME IInv, NEW r \in Requests, NEW stage \in {"query", "select"}, ReadAccount(r, stage)
  PROVE  IInv'
  <1>1. Active(r) /\ request[r].stage = stage /\ request[r].result = "pending"
    BY DEF ReadAccount, Runs, Active
  <1>2. PICK result \in {"failed", "row", "empty"} : Runs(r, stage, "pending", result)
    BY DEF ReadAccount
  <1> DEFINE new == [request[r] EXCEPT !.result = result]
  <1>3. RequestStep(r, new)
    <2>1. request' = [request EXCEPT ![r] = new]
      BY <1>2 DEF Runs
    <2>2. new \in RequestRecords
      BY <1>1, RequestUnderWay DEF RequestRecords
    <2>3. StageFits(new)
      BY <1>1, RequestUnderWay DEF StageFits, RequestRecords
    <2>4. ~raced => CreditOf(new)
      BY <1>1, RequestUnderWay DEF CreditOf, RequestRecords
    <2> QED
      BY <1>1, <1>2, <2>1, <2>2, <2>3, <2>4, RequestUnderWay
      DEF IInv, TypeOK, RequestStep, ReadAccount, Runs, RequestRecords, sessionVars, historyVars
  <1> QED BY <1>1, <1>2, <1>3, PlayersKept, RequestUnderWay DEF Runs, RequestRecords

LEMMA InsertAccountKeeps ==
  ASSUME IInv, NEW r \in Requests, InsertAccount(r)
  PROVE  IInv'
  <1>1. Active(r) /\ request[r].stage = "insert" /\ request[r].result = "pending"
    BY DEF InsertAccount, Runs, Active
  <1>2. PICK result \in {"failed", "row"} : Runs(r, "insert", "pending", result)
    BY DEF InsertAccount
  <1> DEFINE new == [request[r] EXCEPT !.result = result]
  <1>3. RequestStep(r, new)
    <2>1. request' = [request EXCEPT ![r] = new]
      BY <1>2 DEF Runs
    <2>2. new \in RequestRecords /\ StageFits(new)
      BY <1>1, RequestUnderWay DEF RequestRecords, StageFits
    <2>3. ~raced => CreditOf(new)
      BY <1>1, RequestUnderWay DEF CreditOf, RequestRecords
    <2>4. registered' \subseteq Accounts
      BY <1>1, RequestUnderWay DEF IInv, TypeOK, InsertAccount, StageFits
    <2> QED
      BY <1>1, <1>2, <2>1, <2>2, <2>3, <2>4, RequestUnderWay
      DEF IInv, TypeOK, RequestStep, InsertAccount, Runs, RequestRecords, sessionVars, historyVars
  <1> QED BY <1>1, <1>2, <1>3, PlayersKept, RequestUnderWay DEF Runs, RequestRecords

\* What is read of a token is the account it is stored for, which the client
\* that shows it has proved.
LEMMA FindAccountByTokenKeeps ==
  ASSUME IInv, NEW r \in Requests, FindAccountByToken(r)
  PROVE  IInv'
  <1> DEFINE q == request[r]
             owner == IF q.token = 0 THEN NoAccount ELSE stored[q.token]
             new == [q EXCEPT !.account = owner,
                              !.result = IF owner = NoAccount THEN "empty" ELSE "read"]
  <1>1. Active(r) /\ q.stage = "find" /\ q.result = "pending"
    BY DEF FindAccountByToken, Active
  <1>2. /\ q \in RequestRecords /\ StageFits(q)
        /\ q.session \in 0..(nextSessionId - 1)
        /\ ~raced => q.session = q.asker /\ CreditOf(q)
    BY <1>1, RequestUnderWay
  <1>3. owner \in Accounts \cup {NoAccount}
    BY <1>2, SessionsAssumption DEF IInv, TypeOK, RequestRecords, Requests
  <1>4. new \in RequestRecords /\ StageFits(new)
    BY <1>1, <1>2, <1>3 DEF RequestRecords, StageFits
  <1>5. ~raced => CreditOf(new)
    BY <1>1, <1>2, <1>3 DEF RequestRecords, CreditOf, StageFits
  <1>6. request' = [request EXCEPT ![r] = new]
    BY <1>1 DEF FindAccountByToken
  <1>7. RequestStep(r, new)
    BY <1>1, <1>2, <1>4, <1>5, <1>6
    DEF IInv, TypeOK, RequestStep, FindAccountByToken, RequestRecords, sessionVars,
        historyVars, databaseVars
  <1> QED BY <1>1, <1>2, <1>7, PlayersKept DEF FindAccountByToken, RequestRecords

\* Deleting tokens keeps the others.
LEMMA TokensDeleted ==
  ASSUME IInv, NEW account
  PROVE  /\ WithoutTokensOf(account) \in [Requests -> Accounts \cup {NoAccount}]
         /\ \A t \in Requests : WithoutTokensOf(account)[t] \in {stored[t], NoAccount}
  BY DEF IInv, TypeOK, WithoutTokensOf

LEMMA CommitFindKeeps ==
  ASSUME IInv, NEW r \in Requests, CommitFind(r)
  PROVE  IInv'
  <1>1. Active(r) /\ request[r].stage = "find" /\ request[r].result = "read"
    BY DEF CommitFind, Runs, Active
  <1>2. PICK result \in {"failed", "row"} : Runs(r, "find", "read", result)
    BY DEF CommitFind
  <1> DEFINE new == [request[r] EXCEPT !.result = result]
  <1>3. RequestStep(r, new)
    <2>1. request' = [request EXCEPT ![r] = new]
      BY <1>2 DEF Runs
    <2>2. new \in RequestRecords /\ StageFits(new)
      BY <1>1, RequestUnderWay DEF RequestRecords, StageFits
    <2>3. ~raced => CreditOf(new)
      BY <1>1, RequestUnderWay DEF CreditOf, RequestRecords
    <2>4. /\ stored' \in [Requests -> Accounts \cup {NoAccount}]
          /\ \A t \in Requests : stored'[t] \in {stored[t], NoAccount}
      BY TokensDeleted DEF IInv, TypeOK, CommitFind
    <2> QED
      BY <1>1, <1>2, <2>1, <2>2, <2>3, <2>4, RequestUnderWay
      DEF IInv, TypeOK, RequestStep, CommitFind, Runs, RequestRecords, sessionVars, historyVars
  <1> QED BY <1>1, <1>2, <1>3, PlayersKept, RequestUnderWay DEF Runs, RequestRecords

LEMMA SaveTokenKeeps ==
  ASSUME IInv, NEW r \in Requests, SaveToken(r)
  PROVE  IInv'
  <1>1. Active(r) /\ request[r].stage = "save" /\ request[r].result = "pending"
    BY DEF SaveToken, Runs, Active
  <1>2. PICK result \in {"failed", "row"} : Runs(r, "save", "pending", result)
    BY DEF SaveToken
  <1> DEFINE new == [request[r] EXCEPT !.result = result]
  <1>3. RequestStep(r, new)
    <2>1. request' = [request EXCEPT ![r] = new]
      BY <1>2 DEF Runs
    <2>2. new \in RequestRecords /\ StageFits(new)
      BY <1>1, RequestUnderWay DEF RequestRecords, StageFits
    <2>3. ~raced => CreditOf(new)
      BY <1>1, RequestUnderWay DEF CreditOf, RequestRecords
    <2>4. /\ stored' \in [Requests -> Accounts \cup {NoAccount}]
          /\ \A t \in Requests :
               stored'[t] \in {stored[t], NoAccount} \/ (t = r /\ stored'[t] = request[r].account)
      <3>1. request[r].account \in Accounts \cup {NoAccount}
        BY <1>1, RequestUnderWay DEF RequestRecords
      <3> QED BY <3>1, TokensDeleted DEF IInv, TypeOK, SaveToken
    <2> QED
      BY <1>1, <1>2, <2>1, <2>2, <2>3, <2>4, RequestUnderWay
      DEF IInv, TypeOK, RequestStep, SaveToken, Runs, RequestRecords, sessionVars, historyVars
  <1> QED BY <1>1, <1>2, <1>3, PlayersKept, RequestUnderWay DEF Runs, RequestRecords

\* A worker that takes a job moves its request on.
LEMMA WorkerTakesKeeps ==
  ASSUME IInv, NEW r \in Requests, NEW kind, NEW stage \in {"lookup", "refuse", "insert"},
         WorkerTakes(r, kind, stage),
         stage = "lookup" => kind = "login" /\ request[r].valid,
         stage = "insert" => kind = "register"
  PROVE  IInv'
  <1>1. Active(r) /\ request[r].stage = "hash" /\ request[r].kind = kind
    BY DEF WorkerTakes, Active
  <1> DEFINE new == [request[r] EXCEPT !.stage = stage]
  <1>2. /\ request[r] \in RequestRecords /\ StageFits(request[r])
        /\ request[r].session \in 0..(nextSessionId - 1)
        /\ ~raced => request[r].session = request[r].asker /\ CreditOf(request[r])
    BY <1>1, RequestUnderWay
  <1>3. new \in RequestRecords /\ StageFits(new)
    BY <1>1, <1>2 DEF RequestRecords, StageFits, Stages
  <1>4. ~raced => CreditOf(new)
    BY <1>1, <1>2 DEF RequestRecords, CreditOf
  <1>5. RequestStep(r, new)
    BY <1>1, <1>2, <1>3, <1>4
    DEF IInv, TypeOK, RequestStep, WorkerTakes, RequestRecords, sessionVars, historyVars,
        databaseVars
  <1> QED BY <1>2, <1>5, PlayersKept DEF WorkerTakes, RequestRecords

LEMMA HashKeeps ==
  ASSUME IInv, NEW r \in Requests, HashLogin(r) \/ HashRegister(r)
  PROVE  IInv'
  BY WorkerTakesKeeps DEF HashLogin, HashRegister

\* A request that was not made yet is a record like the others.
LEMMA NoRequestRecord ==
  /\ NoRequest \in RequestRecords
  /\ ~NoRequest.given /\ ~NoRequest.valid
  /\ NoRequest.stage = "done" /\ NoRequest.kind = "none" /\ StageFits(NoRequest)
  <1>1. 0 \in 0..MaxRequests
    BY SessionsAssumption
  <1> QED BY <1>1 DEF NoRequest, RequestRecords, Stages, StageFits, Logins

\* What is left of a request that ended.
LEMMA EndedRecord ==
  ASSUME IInv, NEW r \in Requests, Active(r), NEW given \in BOOLEAN
  PROVE  /\ Ended(request[r].asker, given) \in RequestRecords
         /\ Ended(request[r].asker, given).asker = request[r].asker
         /\ Ended(request[r].asker, given).kind = "none"
         /\ Ended(request[r].asker, given).stage = "done"
         /\ StageFits(Ended(request[r].asker, given))
  <1>1. request[r].asker \in SessionIds
    BY RequestUnderWay
  <1>2. Ended(request[r].asker, given) \in RequestRecords
    BY <1>1, NoRequestRecord DEF Ended, RequestRecords
  <1> QED BY <1>2 DEF Ended, NoRequest, StageFits, Logins

\* A lookup during which nothing changed finds the session that asked.
LEMMA EndLookupKeeps ==
  ASSUME IInv, NEW r \in Requests, EndLookup(r)
  PROVE  IInv'
  <1>1. Active(r) /\ request[r].stage = "lookup"
    BY DEF EndLookup, Active
  <1>2. /\ request[r] \in RequestRecords /\ StageFits(request[r])
        /\ request[r].session \in 0..(nextSessionId - 1)
        /\ request[r].session \in SessionIds
        /\ Found(request[r].session) =>
             PlayerOf(request[r].session) = request[r].session
        /\ ~raced => request[r].session = request[r].asker /\ CreditOf(request[r])
    BY <1>1, RequestUnderWay
  <1>3. /\ raced' \in BOOLEAN /\ (raced => raced')
        /\ ~raced' => ~raced /\ ~request[r].torn
    BY <1>2 DEF EndLookup, IInv, TypeOK, RequestRecords
  <1>4. CASE Ends(r, FALSE)
    <2>1. RequestStep(r, Ended(request[r].asker, FALSE))
      BY <1>1, <1>3, <1>4, EndedRecord
      DEF IInv, TypeOK, RequestStep, EndLookup, Ends, sessionVars, historyVars, databaseVars
    <2> QED BY <1>1, <2>1, EndedRecord, PlayersKept DEF EndLookup
  <1>5. ASSUME NEW t \in 0..(nextSessionId - 1), ~raced' => t = request[r].session,
               request' = [request EXCEPT ![r].torn = FALSE, ![r].session = t,
                                          ![r].stage = "succeeded"]
        PROVE  IInv'
    <2> DEFINE new == [request[r] EXCEPT !.torn = FALSE, !.session = t,
                                         !.stage = "succeeded"]
    <2>1. request' = [request EXCEPT ![r] = new]
      BY <1>5
    <2>2. t \in SessionIds
      BY <1>5, SessionsAssumption DEF IInv, TypeOK, SessionIds
    <2>3. new \in RequestRecords /\ StageFits(new)
      BY <1>1, <1>2, <2>2 DEF RequestRecords, StageFits, Stages, Logins
    <2>4. ~raced' => new.session = new.asker /\ CreditOf(new)
      BY <1>1, <1>2, <1>3, <1>5 DEF RequestRecords, CreditOf, StageFits
    <2>5. RequestStep(r, new)
      BY <1>1, <1>2, <1>3, <1>5, <2>1, <2>3, <2>4
      DEF IInv, TypeOK, RequestStep, EndLookup, RequestRecords, sessionVars, historyVars,
          databaseVars
    <2> QED BY <1>2, <2>5, PlayersKept DEF EndLookup, RequestRecords
  <1> QED BY <1>2, <1>3, <1>4, <1>5 DEF EndLookup

-----------------------------------------------------------------------------
(* The main thread *)

Going(q, next) == [q EXCEPT !.stage = next, !.result = "pending"]

\* A callback ends the request, with a reply or not, or sends it on to a stage
\* that suits it.
LEMMA CallbackStep ==
  ASSUME IInv, NEW r \in Requests, NEW stage \in Stages \ {"done", "save"},
         NEW answers \in BOOLEAN, NEW next \in Stages,
         Callback(r, stage, answers, next),
         ~answers => /\ StageFits(Going(request[r], next))
                     /\ ~raced => CreditOf(Going(request[r], next))
  PROVE  \/ /\ RequestStep(r, Ended(request[r].asker, FALSE))
            /\ answers \/ ~Found(request[r].session)
         \/ /\ RequestStep(r, Going(request[r], next))
            /\ ~answers /\ Found(request[r].session) /\ UNCHANGED replies
  <1>1. Active(r) /\ request[r].stage = stage
    BY DEF Callback, Active
  <1>2. /\ request[r] \in RequestRecords
        /\ request[r].session \in 0..(nextSessionId - 1)
        /\ Found(request[r].session) =>
             PlayerOf(request[r].session) = request[r].session
        /\ ~raced => request[r].session = request[r].asker
    BY <1>1, RequestUnderWay
  <1>3. CASE Found(request[r].session) /\ ~answers
    <2> DEFINE new == Going(request[r], next)
    <2>1. /\ new \in RequestRecords /\ new.asker = request[r].asker
          /\ new.session = request[r].session /\ new.kind = request[r].kind
      BY <1>2 DEF RequestRecords, Going
    <2>2. request' = [request EXCEPT ![r] = new] /\ UNCHANGED replies
      BY <1>3 DEF Callback, Goes, Going
    <2> QED
      BY <1>1, <1>2, <1>3, <2>1, <2>2
      DEF IInv, TypeOK, RequestStep, Callback, sessionVars, historyVars, databaseVars
  <1>4. CASE answers \/ ~Found(request[r].session)
    <2>1. /\ request' = [request EXCEPT ![r] = Ended(request[r].asker, FALSE)]
          /\ \/ replies' = replies
             \/ replies' = [replies EXCEPT ![r] = Append(@, request[r].session)]
      BY <1>2, <1>4 DEF Callback, Ends, Reply
    <2> QED
      BY <1>1, <1>4, <2>1, EndedRecord
      DEF IInv, TypeOK, RequestStep, Callback, sessionVars, historyVars, databaseVars
  <1> QED BY <1>3, <1>4

\* The callbacks that change no player.
LEMMA CallbackKeeps ==
  ASSUME IInv, NEW r \in Requests,
         LoginQueried(r) \/ TokenFound(r) \/ Refused(r) \/ Registered(r)
  PROVE  IInv'
  <1>1. CASE LoginQueried(r)
    <2>1. Callback(r, "query", request[r].result # "row", "hash") /\ UNCHANGED player
          /\ request[r].stage = "query" /\ Active(r)
      BY <1>1 DEF LoginQueried, Callback, Active
    <2>2. StageFits(Going(request[r], "hash")) /\ (~raced => CreditOf(Going(request[r], "hash")))
      BY <2>1, RequestUnderWay DEF StageFits, CreditOf, Going, RequestRecords
    <2> QED
      BY <2>1, <2>2, CallbackStep, PlayersKept, EndedRecord, RequestUnderWay
      DEF Stages, Going, RequestRecords
  <1>2. CASE TokenFound(r)
    <2>1. Callback(r, "find", request[r].result # "row", "succeeded") /\ UNCHANGED player
          /\ request[r].stage = "find" /\ Active(r)
      BY <1>2 DEF TokenFound, Callback, Active
    <2>2. ~(request[r].result # "row") =>
            /\ StageFits(Going(request[r], "succeeded"))
            /\ ~raced => CreditOf(Going(request[r], "succeeded"))
      BY <2>1, RequestUnderWay DEF StageFits, CreditOf, Going, RequestRecords, Logins
    <2> QED
      BY <2>1, <2>2, CallbackStep, PlayersKept, EndedRecord, RequestUnderWay
      DEF Stages, Going, RequestRecords
  <1>3. CASE Refused(r) \/ Registered(r)
    <2>1. PICK stage \in {"refuse", "insert"} :
            Callback(r, stage, TRUE, "done") /\ UNCHANGED player
      BY <1>3 DEF Refused, Registered
    <2>2. Active(r)
      BY <2>1 DEF Callback, Active
    <2> QED BY <2>1, <2>2, CallbackStep, PlayersKept, EndedRecord DEF Stages
  <1> QED BY <1>1, <1>2, <1>3

\* Authenticate gives the player an account its client has proved; if another
\* login of the session is under way, it is marked.
LEMMA AuthenticateKeeps ==
  ASSUME IInv, NEW r \in Requests, Authenticate(r)
  PROVE  IInv'
  <1> DEFINE s == request[r].session
  <1>1. /\ Active(r) /\ request[r].stage = "succeeded"
        /\ Callback(r, "succeeded", FALSE, "select")
    BY DEF Authenticate, Callback, Active
  <1>2. /\ request[r] \in RequestRecords /\ StageFits(request[r])
        /\ s \in SessionIds /\ (Found(s) => PlayerOf(s) = s)
        /\ ~raced => s = request[r].asker /\ CreditOf(request[r])
        /\ r <= asked
    BY <1>1, RequestUnderWay
  <1>3. /\ StageFits(Going(request[r], "select"))
        /\ ~raced => CreditOf(Going(request[r], "select"))
    BY <1>1, <1>2 DEF StageFits, CreditOf, Going, RequestRecords, Logins
  <1>4. \/ /\ RequestStep(r, Ended(request[r].asker, FALSE)) /\ ~Found(s)
        \/ /\ RequestStep(r, Going(request[r], "select")) /\ Found(s)
    BY <1>1, <1>3, CallbackStep DEF Stages
  <1>5. CASE ~Found(s)
    BY <1>1, <1>4, <1>5, EndedRecord, PlayersKept DEF Authenticate
  <1>6. CASE RequestStep(r, Going(request[r], "select")) /\ Found(s)
    <2>1. player' = [player EXCEPT ![s].account = request[r].account]
      BY <1>2, <1>6 DEF Authenticate
    <2>2. TypeOK' /\ Maps' /\ Captures' /\ Credits'
      <3>1. request[r].account \in Accounts \cup {NoAccount}
        BY <1>2 DEF RequestRecords
      <3> QED BY <1>6, <2>1, <3>1, RequestStepKeeps DEF IInv, TypeOK
    <2>3. /\ request'[r] = Going(request[r], "select")
          /\ \A q \in Requests : q # r => request'[q] = request[q]
      BY <1>6 DEF IInv, RequestStep, TypeOK
    <2>4. /\ request'[r].stage = "select" /\ request'[r].asker = request[r].asker
          /\ request'[r].account = request[r].account /\ request'[r].kind = request[r].kind
      BY <1>2, <2>3 DEF Going, RequestRecords
    <2>5. /\ \A t \in SessionIds : t # s => player'[t] = player[t]
          /\ player'[s].account = request[r].account
          /\ player'[s].authenticated = player[s].authenticated
          /\ player'[s].login = player[s].login
      BY <1>2, <2>1 DEF IInv, TypeOK
    <2>6. raced' = raced /\ UNCHANGED <<sessionIdToPeer, proved, overlapped>>
      BY <1>1 DEF Callback, sessionVars, historyVars
    <2>7. ~raced => request[r].account \in proved[s] /\ request[r].account # NoAccount
      BY <1>1, <1>2, AccountsAssumption DEF CreditOf, IInv, TypeOK
    <2>8. \A q \in Requests : request[q].kind # "none" => request[q].asker \in SessionIds
      BY RequestUnderWay DEF IInv, Captures, CaptureOf, StageFits, Active
    <2>9. PlayerCredits'
      <3>1. ASSUME ~raced, NEW t \in SessionIds
            PROVE  /\ player'[t].account # NoAccount => player'[t].account \in proved[t]
                   /\ player'[t].authenticated => player'[t].account # NoAccount
        BY <1>2, <2>5, <2>7, <3>1 DEF IInv, PlayerCredits
      <3>2. ASSUME ~raced, NEW q \in Requests, request'[q].stage = "select",
                   Live(request'[q].asker)
            PROVE  player'[request'[q].asker].account # NoAccount
        <4>1. CASE request[q].asker = s
          BY <1>2, <2>3, <2>4, <2>5, <2>7, <3>2, <4>1
        <4>2. CASE request[q].asker # s
          <5>1. q # r /\ request[q].asker \in SessionIds
            BY <1>2, <2>3, <2>8, <3>2, <4>2 DEF IInv, Captures, CaptureOf, StageFits
          <5> QED BY <2>3, <2>5, <3>2, <4>2, <5>1 DEF IInv, PlayerCredits
        <4> QED BY <4>1, <4>2
      <3> QED BY <2>6, <3>1, <3>2 DEF PlayerCredits, Live
    <2>10. OneLogin'
      <3>1. ASSUME NEW p \in Requests, NEW q \in Requests, p # q,
                   request'[p].kind \in Logins, request'[q].kind \in Logins,
                   request'[p].asker = request'[q].asker
            PROVE  request'[q].asker \in overlapped
        BY <2>3, <2>4, <3>1 DEF IInv, OneLogin
      <3>2. ASSUME ~raced, NEW q \in Requests, request'[q].kind \in Logins,
                   request'[q].asker \notin overlapped
            PROVE  /\ request'[q].stage \notin {"done", "save"} =>
                        ~player'[request'[q].asker].authenticated
                   /\ request'[q].stage = "select" /\ Live(request'[q].asker) =>
                        player'[request'[q].asker].account = request'[q].account
        <4>1. request[r].kind \in Logins /\ request[r].stage = "succeeded"
          BY <1>1, <1>2 DEF StageFits
        <4>2. CASE q = r
          BY <1>2, <2>3, <2>4, <2>5, <3>2, <4>1, <4>2 DEF IInv, OneLogin, Active
        <4>3. CASE q # r
          <5>1. request[q].asker # s /\ request[q].asker \in SessionIds
            BY <1>2, <2>3, <2>8, <3>2, <4>1, <4>3 DEF IInv, OneLogin, Logins
          <5> QED BY <2>3, <2>5, <3>2, <4>3, <5>1 DEF IInv, OneLogin, Active
        <4> QED BY <4>2, <4>3
      <3> QED BY <2>6, <3>1, <3>2 DEF OneLogin, Live, Active
    <2>11. IdentityIsOne'
      BY <1>1, <1>2, <2>5, <2>6 DEF IInv, IdentityIsOne, OneLogin, Active, StageFits
    <2> QED BY <2>2, <2>9, <2>10, <2>11 DEF IInv
  <1> QED BY <1>4, <1>5, <1>6

\* A session is in one map exactly when it is in the other.
LEMMA SessionExists ==
  ASSUME IInv, NEW s \in SessionIds
  PROVE  (\E p \in Peers : sessions[p] = s) <=> Live(s)
  <1>1. s # NoSession
    BY SessionsAssumption DEF SessionIds
  <1> QED BY <1>1, PeersAssumption DEF IInv, TypeOK, Maps, Live

\* AccountLoaded authenticates a player under the account the player was given
\* before, and which its client had proved.
LEMMA AccountLoadedKeeps ==
  ASSUME IInv, NEW r \in Requests, AccountLoaded(r)
  PROVE  IInv'
  <1> DEFINE s == request[r].session
             loaded == Live(s) /\ request[r].result = "row"
             saving == [request[r] EXCEPT !.stage = "save", !.result = "pending",
                                          !.account = player[s].account]
             ended == Ended(request[r].asker, FALSE)
  <1>1. Active(r) /\ request[r].stage = "select"
    BY DEF AccountLoaded, Active
  <1>2. /\ request[r] \in RequestRecords /\ StageFits(request[r])
        /\ s \in SessionIds /\ s \in 0..(nextSessionId - 1)
        /\ ~raced => s = request[r].asker /\ CreditOf(request[r])
    BY <1>1, RequestUnderWay
  <1>3. /\ player' = IF ~loaded THEN player
                     ELSE [player EXCEPT ![s].login = request[r].account,
                                         ![s].authenticated = TRUE]
        /\ \/ /\ loaded /\ request' = [request EXCEPT ![r] = saving]
              /\ UNCHANGED replies
           \/ /\ request' = [request EXCEPT ![r] = ended]
              /\ replies' = IF Live(s) THEN [replies EXCEPT ![r] = Append(@, s)] ELSE replies
    BY <1>2, SessionExists DEF AccountLoaded, Ends
  <1>4. PICK new : /\ RequestStep(r, new)
                   /\ new = ended \/ (new = saving /\ loaded)
    <2>1. CASE request' = [request EXCEPT ![r] = ended]
      <3>1. RequestStep(r, ended)
        BY <1>1, <1>3, <2>1, EndedRecord
        DEF IInv, TypeOK, RequestStep, AccountLoaded, sessionVars, historyVars, databaseVars
      <3> QED BY <3>1
    <2>2. CASE loaded /\ request' = [request EXCEPT ![r] = saving] /\ UNCHANGED replies
      <3>1. player[s].account \in Accounts \cup {NoAccount}
        BY <1>2 DEF IInv, TypeOK
      <3>2. saving \in RequestRecords /\ StageFits(saving)
        <4>1. saving \in RequestRecords
          BY <1>2, <3>1 DEF RequestRecords, Stages
        <4> QED BY <1>1, <1>2, <4>1 DEF RequestRecords, StageFits, Logins
      <3>3. ~raced => saving.session = saving.asker /\ CreditOf(saving)
        <4>1. ~raced => player[s].account \in proved[s]
          BY <1>1, <1>2, <2>2 DEF IInv, PlayerCredits
        <4>2. ~(request[r].valid /\ request[r].account \notin proved[request[r].asker]) \/ raced
          BY <1>2 DEF CreditOf
        <4> QED BY <1>2, <4>1, <4>2 DEF RequestRecords, CreditOf
      <3>4. RequestStep(r, saving)
        BY <1>1, <1>2, <2>2, <3>2, <3>3
        DEF IInv, TypeOK, RequestStep, AccountLoaded, RequestRecords, sessionVars,
            historyVars, databaseVars
      <3> QED BY <2>2, <3>4
    <2> QED BY <1>3, <2>1, <2>2
  <1>5. CASE ~loaded
    BY <1>1, <1>3, <1>4, <1>5, EndedRecord, PlayersKept
  <1>6. CASE loaded
    <2>1. TypeOK' /\ Maps' /\ Captures' /\ Credits'
      <3>1. request[r].account \in Accounts \cup {NoAccount}
        BY <1>2 DEF RequestRecords
      <3>2. player' \in [SessionIds -> [account : Accounts \cup {NoAccount},
                           login : Accounts \cup {NoAccount}, authenticated : BOOLEAN]]
        <4> DEFINE Players == [account : Accounts \cup {NoAccount},
                               login : Accounts \cup {NoAccount}, authenticated : BOOLEAN]
                   mine == [player[s] EXCEPT !.login = request[r].account,
                                             !.authenticated = TRUE]
        <4>1. player \in [SessionIds -> Players]
          BY DEF IInv, TypeOK
        <4>2. mine \in Players
          BY <1>2, <3>1, <4>1
        <4>3. player' = [player EXCEPT ![s] = mine]
          BY <1>3, <1>6
        <4> QED BY <1>2, <4>1, <4>2, <4>3
      <3> QED BY <1>4, <3>2, RequestStepKeeps
    <2>2. /\ request'[r] = new /\ new.asker = request[r].asker
          /\ new.stage \in {"save", "done"} /\ new.kind \in {request[r].kind, "none"}
          /\ \A q \in Requests : q # r => request'[q] = request[q]
      <3>1. new.stage \in {"save", "done"}
        <4>1. ended.stage = "done" /\ saving.stage = "save"
          BY <1>1, <1>2, EndedRecord DEF RequestRecords
        <4> QED BY <1>4, <4>1
      <3> QED BY <1>4, <3>1 DEF IInv, RequestStep, TypeOK
    <2>3. /\ \A t \in SessionIds : t # s => player'[t] = player[t]
          /\ player'[s].account = player[s].account
          /\ player'[s].authenticated = TRUE
          /\ player'[s].login = request[r].account
      BY <1>2, <1>3, <1>6 DEF IInv, TypeOK
    <2>4. raced' = raced /\ UNCHANGED <<sessionIdToPeer, proved, overlapped>>
      BY DEF AccountLoaded, sessionVars, historyVars
    <2>5. \A q \in Requests : request[q].kind # "none" => request[q].asker \in SessionIds
      BY RequestUnderWay DEF IInv, Captures, CaptureOf, StageFits, Active
    <2>6. ~raced => player[s].account # NoAccount
      BY <1>1, <1>2, <1>6 DEF IInv, PlayerCredits
    <2>7. PlayerCredits'
      <3>1. ASSUME ~raced, NEW t \in SessionIds
            PROVE  /\ player'[t].account # NoAccount => player'[t].account \in proved[t]
                   /\ player'[t].authenticated => player'[t].account # NoAccount
        BY <1>2, <2>3, <2>6, <3>1 DEF IInv, PlayerCredits
      <3>2. ASSUME ~raced, NEW q \in Requests, request'[q].stage = "select",
                   Live(request'[q].asker)
            PROVE  player'[request'[q].asker].account # NoAccount
        <4>1. q # r /\ request[q].asker \in SessionIds
          BY <2>2, <2>5, <3>2 DEF IInv, Captures, CaptureOf, StageFits
        <4> QED BY <2>2, <2>3, <3>2, <4>1 DEF IInv, PlayerCredits
      <3> QED BY <2>4, <3>1, <3>2 DEF PlayerCredits, Live
    <2>8. OneLogin'
      <3>1. ASSUME NEW p \in Requests, NEW q \in Requests, p # q,
                   request'[p].kind \in Logins, request'[q].kind \in Logins,
                   request'[p].asker = request'[q].asker
            PROVE  request'[q].asker \in overlapped
        BY <2>2, <3>1 DEF IInv, OneLogin, Logins
      <3>2. ASSUME ~raced, NEW q \in Requests, request'[q].kind \in Logins,
                   request'[q].asker \notin overlapped
            PROVE  /\ request'[q].stage \notin {"done", "save"} =>
                        ~player'[request'[q].asker].authenticated
                   /\ request'[q].stage = "select" /\ Live(request'[q].asker) =>
                        player'[request'[q].asker].account = request'[q].account
        <4>1. request[r].kind \in Logins
          BY <1>1, <1>2 DEF StageFits
        <4>2. CASE q = r
          BY <2>2, <4>2
        <4>3. CASE q # r
          <5>1. request[q].asker # s /\ request[q].asker \in SessionIds
            BY <1>2, <2>2, <2>5, <3>2, <4>1, <4>3 DEF IInv, OneLogin, Logins
          <5> QED BY <2>2, <2>3, <3>2, <4>3, <5>1 DEF IInv, OneLogin, Active
        <4> QED BY <4>2, <4>3
      <3> QED BY <2>4, <3>1, <3>2 DEF OneLogin, Live, Active
    <2>9. IdentityIsOne'
      <3>1. ~raced /\ s \notin overlapped => player[s].account = request[r].account
        BY <1>1, <1>2, <1>6 DEF IInv, OneLogin, StageFits
      <3> QED BY <1>2, <2>3, <2>4, <3>1 DEF IInv, IdentityIsOne
    <2> QED BY <2>1, <2>7, <2>8, <2>9 DEF IInv
  <1> QED BY <1>5, <1>6

LEMMA TokenSavedKeeps ==
  ASSUME IInv, NEW r \in Requests, TokenSaved(r)
  PROVE  IInv'
  <1> DEFINE given == Found(request[r].session) /\ request[r].result = "row"
  <1>1. Active(r) /\ given \in BOOLEAN
    BY DEF TokenSaved, Active
  <1>2. /\ request' = [request EXCEPT ![r] = Ended(request[r].asker, given)]
        /\ \/ replies' = replies
           \/ replies' = [replies EXCEPT ![r] = Append(@, request[r].session)]
    BY <1>1, RequestUnderWay DEF TokenSaved, Ends, Reply
  <1>3. RequestStep(r, Ended(request[r].asker, given))
    BY <1>1, <1>2, EndedRecord
    DEF IInv, TypeOK, RequestStep, TokenSaved, sessionVars, historyVars, databaseVars
  <1> QED BY <1>1, <1>3, EndedRecord, PlayersKept DEF TokenSaved

-----------------------------------------------------------------------------
(* Connections *)

\* Marking lookups as torn changes nothing else of the requests.
LEMMA TearKeeps ==
  ASSUME IInv, Tear
  PROVE  /\ request' \in [Requests -> RequestRecords]
         /\ \A r \in Requests :
              /\ request'[r].kind = request[r].kind /\ request'[r].stage = request[r].stage
              /\ request'[r].result = request[r].result /\ request'[r].asker = request[r].asker
              /\ request'[r].session = request[r].session
              /\ request'[r].account = request[r].account
              /\ request'[r].valid = request[r].valid /\ request'[r].token = request[r].token
              /\ request'[r].given = request[r].given
  <1>1. \A r \in Requests : request[r] \in RequestRecords
    BY DEF IInv, TypeOK
  <1>2. \A r \in Requests :
          request'[r] = [request[r] EXCEPT !.torn = @ \/ request[r].stage = "lookup"]
    BY DEF Tear
  <1>3. request' = [r \in Requests |-> request'[r]]
    BY DEF Tear
  <1>4. ASSUME NEW r \in Requests
        PROVE  request'[r] \in RequestRecords
    <2>1. ASSUME NEW torn \in BOOLEAN
          PROVE  [request[r] EXCEPT !.torn = torn] \in RequestRecords
      BY <1>1 DEF RequestRecords
    <2>2. (request[r].torn \/ request[r].stage = "lookup") \in BOOLEAN
      OBVIOUS
    <2> QED BY <1>2, <2>1, <2>2
  <1>5. request' \in [Requests -> RequestRecords]
    BY <1>3, <1>4
  <1> QED BY <1>1, <1>2, <1>5 DEF RequestRecords

\* So it keeps what is known of each request, as long as its session, if it is
\* under way, is what it was.
LEMMA TornRequests ==
  ASSUME IInv, Tear, UNCHANGED <<asked, databaseVars, replies, historyVars, raced>>,
         nextSessionId' \in Nat, nextSessionId <= nextSessionId'
  PROVE  Captures' /\ Credits'
  <1>1. nextSessionId \in Nat
    BY DEF IInv, TypeOK
  <1>2. ASSUME NEW r \in Requests
        PROVE  CaptureOf(r)'
    <2>1. StageFits(request[r])'
      BY TearKeeps DEF IInv, Captures, CaptureOf, StageFits
    <2> QED BY <1>1, <2>1, TearKeeps DEF IInv, Captures, CaptureOf, Active, databaseVars
  <1>3. Credits'
    BY TearKeeps DEF IInv, Credits, CreditOf, Active, databaseVars, historyVars
  <1> QED BY <1>2, <1>3 DEF Captures

LEMMA HandlePeerConnectionKeeps ==
  ASSUME IInv, NEW p \in Peers, HandlePeerConnection(p)
  PROVE  IInv'
  <1>1. /\ nextSessionId \in SessionIds /\ nextSessionId \in Nat /\ nextSessionId # NoSession
        /\ nextSessionId' = nextSessionId + 1 /\ nextSessionId' \in 0..MaxSessions
        /\ Tear
    BY SessionsAssumption DEF IInv, TypeOK, HandlePeerConnection, SessionIds
  <1>2. TypeOK'
    BY <1>1, TearKeeps
    DEF IInv, TypeOK, HandlePeerConnection, databaseVars, historyVars
  <1>3. Maps'
    BY <1>1, PeersAssumption, SessionsAssumption
    DEF IInv, TypeOK, Maps, Live, HandlePeerConnection, SessionIds
  <1>4. Captures' /\ Credits'
    BY <1>1, TornRequests DEF HandlePeerConnection
  <1>5. \A r \in Requests : request[r].kind # "none" =>
          /\ request[r].asker \in SessionIds
          /\ sessionIdToPeer'[request[r].asker] = sessionIdToPeer[request[r].asker]
    <2> SUFFICES ASSUME NEW r \in Requests, request[r].kind # "none"
                 PROVE  /\ request[r].asker \in SessionIds
                        /\ sessionIdToPeer'[request[r].asker]
                             = sessionIdToPeer[request[r].asker]
      OBVIOUS
    <2>1. request[r].asker \in SessionIds /\ request[r].asker \in 0..(nextSessionId - 1)
      BY RequestUnderWay DEF IInv, Captures, CaptureOf, StageFits, Active
    <2> QED BY <1>1, <2>1 DEF IInv, TypeOK, Live, HandlePeerConnection
  <1>6. PlayerCredits'
    BY <1>1, <1>5, TearKeeps
    DEF IInv, PlayerCredits, HandlePeerConnection, Live, historyVars, Captures, CaptureOf, StageFits
  <1>7. OneLogin'
    BY <1>1, <1>5, TearKeeps
    DEF IInv, OneLogin, HandlePeerConnection, Live, historyVars, Active, Logins
  <1>8. IdentityIsOne'
    BY DEF IInv, IdentityIsOne, HandlePeerConnection, historyVars
  <1> QED BY <1>2, <1>3, <1>4, <1>6, <1>7, <1>8 DEF IInv

LEMMA HandlePeerDisconnectionKeeps ==
  ASSUME IInv, NEW p \in Peers, HandlePeerDisconnection(p)
  PROVE  IInv'
  <1> DEFINE s == sessions[p]
  <1>1. /\ s \in SessionIds /\ sessionIdToPeer[s] = p /\ Tear
        /\ nextSessionId \in Nat /\ nextSessionId' = nextSessionId
    BY DEF IInv, TypeOK, Maps, HandlePeerDisconnection
  <1>2. NewPlayer \in [account : Accounts \cup {NoAccount}, login : Accounts \cup {NoAccount},
                       authenticated : BOOLEAN]
    BY DEF NewPlayer
  <1>3. TypeOK'
    BY <1>1, <1>2, TearKeeps
    DEF IInv, TypeOK, HandlePeerDisconnection, databaseVars, historyVars
  <1>4. Maps'
    BY <1>1, PeersAssumption, SessionsAssumption
    DEF IInv, TypeOK, Maps, Live, HandlePeerDisconnection, SessionIds
  <1>5. Captures' /\ Credits'
    BY <1>1, TornRequests DEF HandlePeerDisconnection
  <1>6. /\ \A t \in SessionIds : 
             t # s => player'[t] = player[t] /\ sessionIdToPeer'[t] = sessionIdToPeer[t]
        /\ player'[s] = NewPlayer /\ sessionIdToPeer'[s] = NoPeer
    BY <1>1 DEF IInv, TypeOK, HandlePeerDisconnection
  <1>7. \A r \in Requests : request[r].kind # "none" => request[r].asker \in SessionIds
    BY RequestUnderWay DEF IInv, Captures, CaptureOf, StageFits, Active
  <1>8. PlayerCredits'
    BY <1>6, <1>7, TearKeeps
    DEF IInv, PlayerCredits, HandlePeerDisconnection, Live, historyVars, Captures, CaptureOf,
        StageFits, NewPlayer
  <1>9. OneLogin'
    BY <1>6, <1>7, TearKeeps
    DEF IInv, OneLogin, HandlePeerDisconnection, Live, historyVars, Active, Logins, NewPlayer
  <1>10. IdentityIsOne'
    BY <1>6 DEF IInv, IdentityIsOne, HandlePeerDisconnection, historyVars, NewPlayer
  <1> QED BY <1>3, <1>4, <1>5, <1>8, <1>9, <1>10 DEF IInv

-----------------------------------------------------------------------------
(* New requests *)

\* What a handler submits keeps the invariant if what it carries is proved by
\* the accounts its client has just given credentials of.
LEMMA AskKeeps ==
  ASSUME IInv, NEW p \in Peers, NEW new \in RequestRecords, Ask(p, new),
         StageFits(new), ~new.given,
         new.stage \notin {"succeeded", "select", "save"},
         NEW accounts \in SUBSET Accounts, Prove(p, accounts),
         new.valid => new.account \in accounts,
         ~raced /\ new.stage = "find" /\ new.token # 0 =>
           /\ new.token \in 1..asked /\ request[new.token].stage = "done"
           /\ stored[new.token] # NoAccount => stored[new.token] \in accounts,
         \/ UNCHANGED replies
         \/ /\ new.stage = "done"
            /\ replies' = [replies EXCEPT ![asked'] = Append(@, sessions[p])]
  PROVE  IInv'
  <1> DEFINE s == sessions[p]
             n == asked + 1
             made == [new EXCEPT !.asker = s, !.session = s, !.result = "pending"]
  <1>1. /\ s \in SessionIds /\ s \in 0..(nextSessionId - 1) /\ ~player[s].authenticated
        /\ n \in Requests /\ asked \in Nat /\ asked' = n /\ nextSessionId \in Nat
    BY SessionsAssumption DEF IInv, TypeOK, Maps, Ask, SessionIds, Requests
  <1>2. request' = [request EXCEPT ![n] = made]
    BY <1>1 DEF Ask
  <1>3. /\ made \in RequestRecords /\ made.asker = s /\ made.session = s
        /\ made.result = "pending" /\ made.stage = new.stage /\ made.kind = new.kind
        /\ made.account = new.account /\ made.valid = new.valid /\ made.token = new.token
        /\ made.given = new.given
    BY <1>1 DEF RequestRecords
  <1>4. /\ request'[n] = made
        /\ \A r \in Requests : r # n => request'[r] = request[r]
        /\ \A r \in Requests : r # n => (r <= asked' <=> r <= asked)
    BY <1>1, <1>2 DEF IInv, TypeOK, Requests
  <1>5. /\ request[n].kind = "none" /\ request[n].stage = "done"
        /\ replies[n] = <<>> /\ stored[n] = NoAccount
    BY <1>1 DEF IInv, Captures, CaptureOf, StageFits
  <1>6. /\ proved' \in [SessionIds -> SUBSET Accounts]
        /\ proved'[s] = proved[s] \cup accounts
        /\ \A t \in SessionIds : t # s => proved'[t] = proved[t]
    BY <1>1 DEF IInv, TypeOK, Prove
  <1>7. /\ replies' \in [Requests -> Seq(SessionIds)]
        /\ \A r \in Requests : r # n => replies'[r] = replies[r]
        /\ replies'[n] = <<>> \/ (replies'[n] = <<s>> /\ new.stage = "done")
    <2>1. replies \in [Requests -> Seq(SessionIds)]
      BY DEF IInv, TypeOK
    <2>2. CASE UNCHANGED replies
      BY <1>1, <1>5, <2>1, <2>2
    <2>3. CASE new.stage = "done" /\ replies' = [replies EXCEPT ![n] = Append(<<>>, s)]
      <3>1. Append(<<>>, s) = <<s>> /\ <<s>> \in Seq(SessionIds)
        BY <1>1
      <3> QED BY <1>1, <2>1, <2>3, <3>1
    <2> QED BY <1>1, <1>5, <2>2, <2>3
  <1>8. TypeOK'
    <2>1. overlapped' \subseteq SessionIds
      BY <1>1 DEF IInv, TypeOK, Ask
    <2>2. request' \in [Requests -> RequestRecords]
      BY <1>1, <1>2, <1>3 DEF IInv, TypeOK
    <2>3. asked' \in 0..MaxRequests
      BY <1>1 DEF Requests
    <2> QED BY <1>6, <1>7, <2>1, <2>2, <2>3
        DEF IInv, TypeOK, Ask, sessionVars, databaseVars
  <1>9. Maps'
    BY DEF IInv, Maps, Live, Ask, sessionVars
  <1>10. ASSUME NEW r \in Requests
         PROVE  CaptureOf(r)'
    <2>1. CaptureOf(r)
      BY DEF IInv, Captures
    <2>2. CASE r = n
      <3>1. StageFits(made)
        BY <1>3 DEF StageFits
      <3>2. r \in Nat /\ ~(r > n)
        BY <1>1, <2>2
      <3> QED BY <1>1, <1>3, <1>4, <1>5, <1>7, <2>2, <3>1, <3>2
          DEF CaptureOf, Ask, sessionVars, databaseVars, Active
    <2>3. CASE r # n
      <3>1. r > asked' => r > asked
        BY <1>1, <2>3 DEF Requests
      <3> QED BY <1>1, <1>4, <1>7, <2>1, <2>3, <3>1
          DEF CaptureOf, Ask, sessionVars, databaseVars, Active
    <2> QED BY <2>2, <2>3
  <1>11. Credits'
    <2> SUFFICES ASSUME ~raced, NEW r \in Requests
                 PROVE  /\ Active(r)' => CreditOf(request[r])'
                        /\ stored[r] # NoAccount => stored[r] \in proved'[request'[r].asker]
      BY DEF Ask, databaseVars, Credits
    <2>1. CASE r = n
      <3>1. made.valid => made.account \in proved'[s]
        BY <1>3, <1>6
      <3>2. made.stage = "find" /\ made.token # 0 =>
              /\ made.token \in Requests /\ made.token <= asked'
              /\ request'[made.token].stage = "done"
              /\ stored[made.token] # NoAccount => stored[made.token] \in proved'[s]
        <4>1. made.stage = "find" /\ made.token # 0 =>
                /\ made.token \in 1..asked /\ request[made.token].stage = "done"
                /\ stored[made.token] # NoAccount => stored[made.token] \in accounts
          BY <1>3
        <4>2. \A t \in 1..asked : t \in Requests /\ t # n /\ t <= asked'
          BY <1>1, SessionsAssumption DEF Requests
        <4> QED BY <1>4, <1>6, <4>1, <4>2
      <3>3. made' = made
        BY DEF Ask, sessionVars
      <3>4. CreditOf(made)'
        BY <1>3, <3>1, <3>2, <3>3 DEF CreditOf, Ask, databaseVars
      <3>5. request'[r] = made' /\ stored[r] = NoAccount
        BY <1>4, <1>5, <2>1, <3>3
      <3> QED BY <3>4, <3>5 DEF CreditOf
    <2>2. CASE r # n
      <3>1. /\ Active(r) => CreditOf(request[r]) /\ request[r].asker \in SessionIds
            /\ stored[r] # NoAccount => stored[r] \in proved[request[r].asker]
        BY RequestUnderWay DEF IInv, Credits
      <3>2. stored[r] # NoAccount => request[r].asker \in SessionIds
        <4>1. stored[r] # NoAccount => r <= asked
          BY <1>1 DEF IInv, Captures, CaptureOf, Requests
        <4>2. \A t \in 0..(nextSessionId - 1) : t \in SessionIds
          BY SessionsAssumption DEF IInv, TypeOK, SessionIds
        <4> QED BY <4>1, <4>2 DEF IInv, Captures, CaptureOf
      <3>3. \A t \in SessionIds : proved[t] \subseteq proved'[t]
        BY <1>6
      <3>4. \A t \in Requests : t <= asked => t # n /\ t <= asked'
        BY <1>1 DEF Requests
      <3> QED BY <1>4, <2>2, <3>1, <3>2, <3>3, <3>4
          DEF CreditOf, Active, Ask, databaseVars
    <2> QED BY <2>1, <2>2
  <1>12. \A r \in Requests : request[r].kind # "none" => request[r].asker \in SessionIds
    BY RequestUnderWay DEF IInv, Captures, CaptureOf, StageFits, Active
  <1>13. PlayerCredits'
    <2>1. \A t \in SessionIds : proved[t] \subseteq proved'[t]
      BY <1>6
    <2> QED BY <1>3, <1>4, <2>1
        DEF IInv, PlayerCredits, Ask, sessionVars, databaseVars, Live
  <1>14. OneLogin'
    <2>1. /\ overlapped \subseteq overlapped'
          /\ new.kind \in Logins /\ LoggingIn(s) => s \in overlapped'
      BY DEF Ask, Logins
    <2>2. ASSUME NEW q \in Requests, NEW r \in Requests, q # r,
                 request'[q].kind \in Logins, request'[r].kind \in Logins,
                 request'[q].asker = request'[r].asker
          PROVE  request'[r].asker \in overlapped'
      <3>1. CASE q = n
        BY <1>3, <1>4, <2>1, <2>2, <3>1 DEF LoggingIn, Logins
      <3>2. CASE r = n
        BY <1>3, <1>4, <2>1, <2>2, <3>2 DEF LoggingIn, Logins
      <3>3. CASE q # n /\ r # n
        BY <1>4, <2>1, <2>2, <3>3 DEF IInv, OneLogin
      <3> QED BY <3>1, <3>2, <3>3
    <2>3. ASSUME ~raced, NEW r \in Requests, request'[r].kind \in Logins,
                 request'[r].asker \notin overlapped'
          PROVE  /\ request'[r].stage \notin {"done", "save"} =>
                      ~player[request'[r].asker].authenticated
                 /\ request'[r].stage = "select" /\ Live(request'[r].asker) =>
                      player[request'[r].asker].account = request'[r].account
      <3>1. CASE r = n
        BY <1>1, <1>3, <1>4, <3>1
      <3>2. CASE r # n
        BY <1>4, <2>1, <2>3, <3>2 DEF IInv, OneLogin, Active
      <3> QED BY <3>1, <3>2
    <2>4. UNCHANGED <<raced, player, sessionIdToPeer>>
      BY DEF Ask, sessionVars
    <2> QED BY <2>2, <2>3, <2>4 DEF OneLogin, Live, Active
  <1>15. IdentityIsOne'
    BY DEF IInv, IdentityIsOne, Ask, sessionVars
  <1> QED BY <1>8, <1>9, <1>10, <1>11, <1>13, <1>14, <1>15 DEF IInv, Captures

LEMMA HandleLoginKeeps ==
  ASSUME IInv, NEW p \in Peers, NEW account \in Accounts,
         NEW valid \in BOOLEAN, NEW renew \in BOOLEAN,
         HandleLogin(p, account, valid, renew)
  PROVE  IInv'
  <1> DEFINE new == [NoRequest EXCEPT !.kind = "login", !.stage = "query",
                       !.account = account, !.valid = valid, !.renew = renew]
             accounts == IF valid THEN {account} ELSE {}
  <1>1. new \in RequestRecords /\ new.valid = valid /\ new.account = account
    BY NoRequestRecord DEF RequestRecords, Stages
  <1>2. StageFits(new) /\ ~new.given /\ new.stage = "query"
    BY DEF NoRequest, StageFits, Logins
  <1> QED BY <1>1, <1>2, AskKeeps DEF HandleLogin

LEMMA HandleLoginByTokenKeeps ==
  ASSUME IInv, NEW p \in Peers, NEW token \in 0..asked, NEW renew \in BOOLEAN,
         HandleLoginByToken(p, token, renew)
  PROVE  IInv'
  <1> DEFINE new == [NoRequest EXCEPT !.kind = "token", !.stage = "find",
                       !.token = token, !.renew = renew]
             accounts == IF token = 0 THEN {} ELSE proved[request[token].asker]
  <1>1. asked \in 0..MaxRequests /\ token \in 0..MaxRequests /\ MaxRequests \in Nat
    BY SessionsAssumption DEF IInv, TypeOK
  <1>2. new \in RequestRecords /\ new.token = token /\ ~new.valid /\ new.stage = "find"
    BY <1>1, NoRequestRecord DEF RequestRecords, Stages
  <1>3. StageFits(new) /\ ~new.given
    BY DEF NoRequest, StageFits, Logins
  <1>4. token # 0 => /\ token \in Requests /\ token \in 1..asked
                     /\ request[token].stage = "done" /\ request[token].asker \in SessionIds
    <2>1. token # 0 => /\ token \in Requests /\ token \in 1..asked
                       /\ request[token].given
      BY <1>1 DEF Requests, HandleLoginByToken
    <2> QED BY <1>1, <2>1, SessionsAssumption
        DEF IInv, TypeOK, Captures, CaptureOf, StageFits, SessionIds
  <1>5. accounts \in SUBSET Accounts
    BY <1>4 DEF IInv, TypeOK
  <1>6. ~raced /\ token # 0 /\ stored[token] # NoAccount => stored[token] \in accounts
    BY <1>4 DEF IInv, Credits
  <1> QED BY <1>2, <1>3, <1>4, <1>5, <1>6, AskKeeps DEF HandleLoginByToken

LEMMA HandleRegisterKeeps ==
  ASSUME IInv, NEW p \in Peers, NEW account \in Accounts, HandleRegister(p, account)
  PROVE  IInv'
  <1>1. Prove(p, {})
    BY DEF HandleRegister, Prove, IInv, TypeOK
  <1>2. CASE Ask(p, NoRequest) /\ replies' = [replies EXCEPT ![asked'] = Append(@, sessions[p])]
    BY <1>1, <1>2, NoRequestRecord, AskKeeps
  <1> DEFINE new == [NoRequest EXCEPT !.kind = "register", !.stage = "hash",
                       !.account = account]
  <1>3. CASE Ask(p, new) /\ UNCHANGED replies
    <2>1. new \in RequestRecords
      BY NoRequestRecord DEF RequestRecords, Stages
    <2>2. StageFits(new) /\ ~new.given /\ new.stage = "hash" /\ ~new.valid
      BY DEF NoRequest, StageFits, Logins
    <2> QED BY <1>1, <1>3, <2>1, <2>2, AskKeeps
  <1> QED BY <1>2, <1>3 DEF HandleRegister

-----------------------------------------------------------------------------
(* The theorems *)

LEMMA InitInvariant == Init => IInv
  <1> SUFFICES ASSUME Init PROVE IInv
    OBVIOUS
  <1>1. \A r \in Requests : request[r] = NoRequest /\ replies[r] = <<>> /\ stored[r] = NoAccount
    BY DEF Init
  <1>2. TypeOK
    <2>1. NewPlayer \in [account : Accounts \cup {NoAccount}, login : Accounts \cup {NoAccount},
                         authenticated : BOOLEAN]
      BY DEF NewPlayer
    <2>2. request \in [Requests -> RequestRecords]
      BY NoRequestRecord DEF Init
    <2>3. replies \in [Requests -> Seq(SessionIds)]
      BY DEF Init
    <2>4. nextSessionId \in 0..MaxSessions /\ asked \in 0..MaxRequests
      BY SessionsAssumption DEF Init
    <2>5. /\ sessions \in [Peers -> SessionIds \cup {NoSession}]
          /\ sessionIdToPeer \in [SessionIds -> Peers \cup {NoPeer}]
      BY DEF Init
    <2>6. player \in [SessionIds -> [account : Accounts \cup {NoAccount},
                         login : Accounts \cup {NoAccount}, authenticated : BOOLEAN]]
      <3>1. player = [s \in SessionIds |-> NewPlayer]
        BY DEF Init
      <3> QED BY <2>1, <3>1
    <2>7. /\ registered \subseteq Accounts
          /\ stored \in [Requests -> Accounts \cup {NoAccount}]
          /\ proved \in [SessionIds -> SUBSET Accounts]
          /\ overlapped \subseteq SessionIds /\ raced \in BOOLEAN
      BY DEF Init
    <2> QED BY <2>2, <2>3, <2>4, <2>5, <2>6, <2>7 DEF TypeOK
  <1>3. Maps
    BY DEF Init, Maps, Live
  <1>4. Captures
    BY <1>1, NoRequestRecord DEF Init, Captures, CaptureOf, Active, Requests
  <1>5. Credits /\ PlayerCredits /\ OneLogin
    BY <1>1, NoRequestRecord
    DEF Init, Credits, PlayerCredits, OneLogin, Active, Logins, NewPlayer
  <1>6. IdentityIsOne
    BY DEF Init, IdentityIsOne, NewPlayer
  <1> QED BY <1>2, <1>3, <1>4, <1>5, <1>6 DEF IInv

LEMMA StepInvariant == IInv /\ [Next]_vars => IInv'
  <1> SUFFICES ASSUME IInv, [Next]_vars PROVE IInv'
    OBVIOUS
  <1>1. ASSUME NEW p \in Peers, HandlePeerConnection(p) \/ HandlePeerDisconnection(p)
        PROVE  IInv'
    BY <1>1, HandlePeerConnectionKeeps, HandlePeerDisconnectionKeeps
  <1>2. ASSUME NEW p \in Peers, NEW account \in Accounts,
               NEW valid \in BOOLEAN, NEW renew \in BOOLEAN,
               HandleLogin(p, account, valid, renew) \/ HandleRegister(p, account)
        PROVE  IInv'
    BY <1>2, HandleLoginKeeps, HandleRegisterKeeps
  <1>3. ASSUME NEW p \in Peers, NEW token \in 0..asked, NEW renew \in BOOLEAN,
               HandleLoginByToken(p, token, renew)
        PROVE  IInv'
    BY <1>3, HandleLoginByTokenKeeps
  <1>4. ASSUME NEW r \in Requests, DatabaseStep(r)
        PROVE  IInv'
    BY <1>4, ReadAccountKeeps, InsertAccountKeeps, FindAccountByTokenKeeps, CommitFindKeeps,
       SaveTokenKeeps
    DEF DatabaseStep
  <1>5. ASSUME NEW r \in Requests, WorkerStep(r)
        PROVE  IInv'
    BY <1>5, HashKeeps, EndLookupKeeps DEF WorkerStep
  <1>6. ASSUME NEW r \in Requests, MainStep(r)
        PROVE  IInv'
    BY <1>6, CallbackKeeps, AuthenticateKeeps, AccountLoadedKeeps, TokenSavedKeeps
    DEF MainStep
  <1>7. CASE UNCHANGED vars
    BY <1>7
    DEF vars, sessionVars, databaseVars, historyVars, IInv, TypeOK, Maps, Live, Captures,
        CaptureOf, Active, Credits, CreditOf, PlayerCredits, OneLogin, IdentityIsOne
  <1> QED BY <1>1, <1>2, <1>3, <1>4, <1>5, <1>6, <1>7 DEF Next

\* The inductive invariant holds of every behaviour, whatever the threads do.
THEOREM Invariant == Spec => []IInv
  BY InitInvariant, StepInvariant, PTL DEF Spec

\* Every variable keeps its type (ServerApplication, Player, requests).
THEOREM TypeCorrect == Spec => []TypeOK
  <1>1. IInv => TypeOK
    BY DEF IInv
  <1> QED BY <1>1, Invariant, PTL

\* A request is answered once at most, and to the session that asked, however
\* peer ids are reused meanwhile.
THEOREM AnswersToAskers == Spec => []AnswersReachTheAsker
  <1>1. IInv => AnswersReachTheAsker
    BY DEF IInv, Captures, CaptureOf, AnswersReachTheAsker
  <1> QED BY <1>1, Invariant, PTL

\* A player acts only under an account its client gave the credentials of,
\* however many threads and requests lie in between.
THEOREM IdentitiesAreProved == Spec => []IdentityIsProved
  <1>1. IInv => IdentityIsProved
    BY DEF IInv, PlayerCredits, IdentityIsProved
  <1> QED BY <1>1, Invariant, PTL

\* The id and the name of a player's account agree, unless its client logged in
\* again before its first login was answered.
THEOREM IdentitiesAreOne == Spec => []IdentityIsOne
  <1>1. IInv => IdentityIsOne
    BY DEF IInv
  <1> QED BY <1>1, Invariant, PTL

-----------------------------------------------------------------------------
(* The implementation of PeerSessions *)

LEMMA InitImplements == Init => Service!Init
  <1> SUFFICES ASSUME Init PROVE Service!Init
    OBVIOUS
  <1>1. sessions = [p \in Peers |-> NoSession]
    BY DEF Init
  <1>2. EndedSessions = {}
    BY SessionsAssumption DEF Init, EndedSessions, SessionIds
  <1> QED BY <1>1, <1>2 DEF Service!Init

\* The maps of the sessions change with a connection and a disconnection only.
LEMMA OthersKeepMaps ==
  ASSUME IInv, [Next]_vars,
         \A p \in Peers : ~HandlePeerConnection(p) /\ ~HandlePeerDisconnection(p)
  PROVE  UNCHANGED sessionVars
  <1>1. ASSUME NEW p \in Peers, NEW account \in Accounts,
               NEW valid \in BOOLEAN, NEW renew \in BOOLEAN,
               HandleLogin(p, account, valid, renew) \/ HandleRegister(p, account)
        PROVE  UNCHANGED sessionVars
    BY <1>1 DEF HandleLogin, HandleRegister, Ask
  <1>2. ASSUME NEW p \in Peers, NEW token \in 0..asked, NEW renew \in BOOLEAN,
               HandleLoginByToken(p, token, renew)
        PROVE  UNCHANGED sessionVars
    BY <1>2 DEF HandleLoginByToken, Ask
  <1>3. ASSUME NEW r \in Requests, DatabaseStep(r)
        PROVE  UNCHANGED sessionVars
    BY <1>3 DEF DatabaseStep, ReadAccount, InsertAccount, FindAccountByToken, CommitFind,
                SaveToken, Runs
  <1>4. ASSUME NEW r \in Requests, WorkerStep(r)
        PROVE  UNCHANGED sessionVars
    BY <1>4 DEF WorkerStep, HashLogin, HashRegister, EndLookup, WorkerTakes
  <1>5. ASSUME NEW r \in Requests, MainStep(r)
        PROVE  UNCHANGED sessionVars
    BY <1>5 DEF MainStep, LoginQueried, TokenFound, Refused, Registered, Authenticate,
                AccountLoaded, TokenSaved, Callback
  <1>6. CASE UNCHANGED vars
    BY <1>6 DEF vars
  <1> QED BY <1>1, <1>2, <1>3, <1>4, <1>5, <1>6 DEF Next

\* The id of a new session is above all that were given, and no other is lost.
LEMMA ConnectionImplements ==
  ASSUME IInv, NEW p \in Peers, HandlePeerConnection(p)
  PROVE  \E id \in SessionIds : Service!Open(p, id)
  <1> DEFINE id == nextSessionId
  <1>1. /\ sessions[p] = NoSession /\ nextSessionId < MaxSessions
        /\ sessions' = [sessions EXCEPT ![p] = id] /\ nextSessionId' = id + 1
        /\ sessionIdToPeer' = [sessionIdToPeer EXCEPT ![id] = p]
    BY DEF HandlePeerConnection
  <1>2. nextSessionId \in 0..MaxSessions /\ MaxSessions \in Nat /\ NoSession \notin Nat
    BY SessionsAssumption DEF IInv, TypeOK
  <1>3. id \in SessionIds
    BY <1>1, <1>2 DEF SessionIds
  <1>4. id \notin EndedSessions
    BY <1>2 DEF EndedSessions
  <1>5. \A q \in Peers : sessions[q] # id
    BY <1>2 DEF IInv, Maps
  <1>6. EndedSessions' = EndedSessions
    <2>1. ASSUME NEW s \in SessionIds
          PROVE  s < nextSessionId' /\ sessionIdToPeer'[s] = NoPeer
                   <=> s < nextSessionId /\ sessionIdToPeer[s] = NoPeer
      <3>1. sessionIdToPeer \in [SessionIds -> Peers \cup {NoPeer}] /\ p # NoPeer
        BY PeersAssumption DEF IInv, TypeOK
      <3>2. CASE s = id
        BY <1>1, <1>2, <1>3, <3>1, <3>2
      <3>3. CASE s # id
        <4>1. sessionIdToPeer'[s] = sessionIdToPeer[s]
          BY <1>1, <3>1, <3>3
        <4>2. s < id + 1 <=> s < id
          BY <1>2, <3>3 DEF SessionIds
        <4> QED BY <1>1, <4>1, <4>2
      <3> QED BY <3>2, <3>3
    <2> QED BY <2>1 DEF EndedSessions
  <1>7. Service!Open(p, id)
    BY <1>1, <1>4, <1>5, <1>6 DEF Service!Open
  <1> QED BY <1>3, <1>7

\* The session whose id leads nowhere any more is the one its peer had.
LEMMA DisconnectionImplements ==
  ASSUME IInv, NEW p \in Peers, HandlePeerDisconnection(p)
  PROVE  Service!Close(p)
  <1> DEFINE id == sessions[p]
  <1>1. /\ id # NoSession /\ nextSessionId' = nextSessionId
        /\ sessions' = [sessions EXCEPT ![p] = NoSession]
        /\ sessionIdToPeer' = [sessionIdToPeer EXCEPT ![id] = NoPeer]
    BY DEF HandlePeerDisconnection
  <1>2. id \in SessionIds /\ id < nextSessionId
    BY <1>1 DEF IInv, TypeOK, Maps
  <1>3. EndedSessions' = EndedSessions \cup {id}
    <2>1. sessionIdToPeer \in [SessionIds -> Peers \cup {NoPeer}]
      BY DEF IInv, TypeOK
    <2>2. ASSUME NEW s \in SessionIds
          PROVE  sessionIdToPeer'[s] = NoPeer <=> sessionIdToPeer[s] = NoPeer \/ s = id
      BY <1>1, <1>2, <2>1
    <2> QED BY <1>1, <1>2, <2>2 DEF EndedSessions
  <1> QED BY <1>1, <1>3 DEF Service!Close

LEMMA StepImplements == IInv /\ [Next]_vars => [Service!Next]_Service!vars
  <1> SUFFICES ASSUME IInv, [Next]_vars PROVE [Service!Next]_Service!vars
    OBVIOUS
  <1>1. CASE \E p \in Peers : HandlePeerConnection(p)
    BY <1>1, ConnectionImplements DEF Service!Next
  <1>2. CASE \E p \in Peers : HandlePeerDisconnection(p)
    BY <1>2, DisconnectionImplements DEF Service!Next
  <1>3. CASE \A p \in Peers : ~HandlePeerConnection(p) /\ ~HandlePeerDisconnection(p)
    <2>1. UNCHANGED sessionVars
      BY <1>3, OthersKeepMaps
    <2> QED BY <2>1 DEF sessionVars, EndedSessions, Service!vars
  <1> QED BY <1>1, <1>2, <1>3

\* What a callback captures a session id for: however peers come and go, the id
\* names one session of one peer, and nobody once that session ended.
THEOREM Implementation == Spec => ImplementsSessions
  BY Invariant, InitImplements, StepImplements, PTL
  DEF Spec, ImplementsSessions, Service!Spec
=============================================================================
