----------------------------- MODULE AccountsProofs -----------------------------
(***************************************************************************)
(* Proofs about accounts and their sessions, for every number of requests, *)
(* devices and ticks.  The inductive invariant has three layers, each      *)
(* proved from the ones before it: what a request in flight holds; which   *)
(* tokens have been given out; what the row of the user and the sessions   *)
(* have to do with each other.                                             *)
(***************************************************************************)
EXTENDS AccountsProperties, TLAPS

-----------------------------------------------------------------------------
(* The first layer: what a request holds at each of its steps.             *)

Signing     == {"login", "google", "refresh", "logout"}
Granting    == {"login", "google", "refresh"}
Registering == {"register", "registerBusiness", "registerGoogle"}
Creating    == Registering \cup {"google"}
Editing     == {"unblock", "approve", "verify", "resend", "forgot", "reset"}

\* Which use case can be at which step.
InPlace(q) ==
  /\ q.pc = "unused" => q = Unused
  /\ q.pc = "find"   => q.op \in {"login", "refresh", "logout"}
  /\ q.pc = "strike" => q.op = "login"
  /\ q.pc = "open"   => q.op \in {"login", "google"}
  /\ q.pc \in {"owner", "rotate", "stale"} => q.op = "refresh"
  /\ q.pc = "revoke" => q.op \in {"refresh", "logout"}
  /\ q.pc = "answer" => q.op \in Signing
  /\ q.pc = "commit" => q.op = "block"
  /\ q.pc = "revokeAll" => q.op = "reset"
  /\ q.pc = "save"   => q.op \in Editing \cup Creating
  /\ q.pc = "setup"  => q.op \in {"registerBusiness", "registerGoogle"}
  /\ q.pc = "mail"   => q.op \in {"resend", "forgot", "register", "registerBusiness"}
  /\ q.pc = "restore" => q.op = "forgot"
  /\ q.pc = "delete" => q.op \in Registering

\* What a save writes over what was read: the same user, and the block and the
\* password unless the use case is about them.
Revises(op, row, write) ==
  /\ row \in UserRow /\ write \in UserRow
  /\ write.id = row.id
  /\ op = "unblock" => ~write.blocked
  /\ op \notin {"block", "unblock"} => write.blocked = row.blocked
  /\ op # "reset" => write.password = row.password

\* The steps at which a request will still save what it made of a row it read.
WillRevise(q) ==
  \/ q.pc \in {"commit", "revokeAll", "restore"}
  \/ q.pc = "save" /\ q.op \in Editing
  \/ q.pc = "mail" /\ q.op = "forgot"

Carries(r, q) ==
  /\ WillRevise(q) => Revises(q.op, q.row, q.write)
  /\ q.pc = "save" /\ q.op \in Creating =>
       q.row = None /\ q.write \in UserRow /\ q.write.id = r /\ ~q.write.blocked
  /\ q.pc \in {"open", "setup", "mail", "delete"} => q.row \in UserRow
  /\ q.pc \in {"setup", "mail", "delete"} /\ q.op \in Registering => q.row.id = r
  /\ q.pc \notin {"unused", "done", "failed"} /\ q.op \in Signing => q.dev \in Devices
  /\ q.pc # "unused" /\ q.op \in {"refresh", "logout"} => q.token \in Ids

\* Sessions are never deleted, so the one a request has found is still there.
OnSession(q, ss) ==
  q.pc \in {"owner", "rotate", "revoke"} => q.sid \in Ids /\ ss[q.sid] # None

Fits(r, q, ss) == InPlace(q) /\ Carries(r, q) /\ OnSession(q, ss)

Inv1 ==
  /\ TypeOK
  /\ \A r \in Requests : Fits(r, req[r], sessions)

-----------------------------------------------------------------------------
(* The second layer: which tokens, and which users, there have been.       *)

\* A refresh token exists once a request has been given it.
Issued(rr, t) ==
  \/ t = Seed
  \/ t \in Requests /\ rr[t].op \in Granting /\ rr[t].pc \in {"answer", "done"}

\* An identifier of a user exists once the request that creates it has saved.
Known(rr, u) ==
  \/ u = Seed
  \/ u \in Requests /\ rr[u].op \in Creating /\ rr[u].pc \notin {"unused", "save"}

TokensIssued ==
  /\ \A d \in Devices : cookie[d] # None => Issued(req, cookie[d])
  /\ \A s \in Ids : sessions[s] # None => Issued(req, sessions[s].hash)
  /\ \A r \in Requests :
       req[r].pc # "unused" /\ req[r].op \in {"refresh", "logout"} => Issued(req, req[r].token)

\* A session is named after the login that opened it, and opened once.
SessionsOpened ==
  \A s \in Requests :
    sessions[s] # None => req[s].op \in {"login", "google"} /\ req[s].pc \in {"answer", "done"}

\* A token opens one session, and none any more once it has been redeemed.
HashesUnique ==
  \A s, t \in Ids :
    sessions[s] # None /\ sessions[t] # None /\ sessions[s].hash = sessions[t].hash => s = t

Redeems(q) == q.op = "refresh" /\ q.pc \in {"answer", "done"}

TokensSpent ==
  \A r \in Requests, s \in Ids :
    Redeems(req[r]) /\ sessions[s] # None => sessions[s].hash # req[r].token

Inv2 == TokensIssued /\ SessionsOpened /\ HashesUnique /\ TokensSpent /\ RedeemedOnce

UsersKnown ==
  /\ user # None => Known(req, user.id)
  /\ \A s \in Ids : sessions[s] # None => Known(req, sessions[s].user)
  /\ \A r \in Requests : req[r].row # None => Known(req, req[r].row.id)

-----------------------------------------------------------------------------
(* The third layer: the row of the user and the sessions.                  *)

LiveIn(ss, uid) == {s \in Ids : ss[s] # None /\ ~ss[s].revoked /\ ss[s].user = uid}

\* Every login that could still open a session for a blocked user has raced
\* with the block, like every session that is open.
BlockHolds ==
  ~clobbered /\ user # None /\ user.blocked =>
    Opening \subseteq raced /\ LiveIn(sessions, user.id) \subseteq raced

\* A login about to open a session has presented the password in force, or raced.
OpeningKnowsPassword ==
  ~clobbered /\ user # None =>
    \A r \in Requests :
      At(r, "login", "open") /\ req[r].row.id = user.id =>
        req[r].pw = user.password \/ r \in raced

\* Between the revocation of a reset and its save only raced logins are open.
ResetRevoked ==
  \A o \in Requests :
    At(o, "reset", "save") =>
      \A s \in LiveIn(sessions, req[o].write.id) \cap Requests :
        req[s].op = "login" => s \in raced

Inv3 == /\ BlockHolds /\ OpeningKnowsPassword /\ ResetRevoked
        /\ OldPasswordOnlyRaced /\ FailedRegistrationLeavesNothing

IInv == Inv1 /\ Inv2 /\ UsersKnown /\ AbsoluteAge /\ Inv3

-----------------------------------------------------------------------------
(* Requests.                                                               *)

\* What is known of a request before a step.
LEMMA RequestBefore ==
  ASSUME Inv1, NEW r \in Requests
  PROVE  /\ req[r] \in Request /\ Fits(r, req[r], sessions)
         /\ req[r].op \in Ops \cup {None} /\ req[r].pc \in Pcs
         /\ req[r].dev \in Devices \cup {None}
         /\ req[r].token \in Ids \cup {None} /\ req[r].pw \in Ids \cup {None}
         /\ req[r].sid \in Ids \cup {None}
         /\ req[r].row \in UserRow \cup {None} /\ req[r].write \in UserRow \cup {None}
BY DEF Inv1, TypeOK, Request

\* A row of the users table, and that it is not NULL.
LEMMA UserFields ==
  ASSUME NEW u \in UserRow
  PROVE  /\ u # None /\ u.id \in Ids /\ u.blocked \in BOOLEAN
         /\ u.password \in Ids \cup {None} /\ u.sentAt \in Nat /\ u.resetAt \in Nat
BY NoneIsNoRow DEF UserRow

\* A row of the sessions table, and that it is not NULL.
LEMMA SessionFields ==
  ASSUME NEW s \in SessionRow
  PROVE  /\ s # None /\ s.user \in Ids /\ s.hash \in Ids /\ s.revoked \in BOOLEAN
         /\ s.createdAt \in Nat /\ s.expiresAt \in Nat /\ s.rotatedAt \in Nat
BY NoneIsNoRow DEF SessionRow

\* The columns of the requests that use cases make of the ones they had.
LEMMA GotoFields ==
  ASSUME NEW q \in Request, NEW pc \in Pcs
  PROVE  LET p == [q EXCEPT !.pc = pc] IN
         /\ p \in Request /\ p.pc = pc /\ p.op = q.op /\ p.dev = q.dev /\ p.token = q.token
         /\ p.pw = q.pw /\ p.sid = q.sid /\ p.row = q.row /\ p.write = q.write
BY DEF Request

\* A request that has ended keeps what it was about and holds nothing.
LEMMA EndFields ==
  ASSUME Inv1, NEW r \in Requests, NEW pc \in Pcs
  PROVE  LET p == [Unused EXCEPT !.op = req[r].op, !.token = req[r].token,
                                 !.pw = req[r].pw, !.pc = pc] IN
         /\ p \in Request /\ p.pc = pc /\ p.op = req[r].op /\ p.token = req[r].token
         /\ p.pw = req[r].pw /\ p.dev = None /\ p.sid = None /\ p.row = None /\ p.write = None
BY RequestBefore DEF Request, Unused

SessionsStay == \A s \in Ids : sessions[s] # None => sessions'[s] # None

NextFits ==
  /\ req' \in [Requests -> Request]
  /\ \A o \in Requests : Fits(o, req'[o], sessions')

\* All requests fit when the one that moves does.
LEMMA BecomeFits ==
  ASSUME Inv1, NEW r \in Requests, NEW q \in Request, Become(r, q),
         SessionsStay, Fits(r, q, sessions')
  PROVE  NextFits
<1>1. req' \in [Requests -> Request] /\ req'[r] = q
  BY DEF Become, Inv1, TypeOK
<1>2. ASSUME NEW o \in Requests, o # r
      PROVE  Fits(o, req'[o], sessions')
  <2>1. req'[o] = req[o]
    BY <1>2 DEF Become, Inv1, TypeOK
  <2>2. Fits(o, req[o], sessions)
    BY RequestBefore
  <2>. QED
    BY <2>1, <2>2 DEF Fits, OnSession, SessionsStay
<1>. QED
  BY <1>1, <1>2 DEF NextFits

\* A request that ends fits: it only keeps the token it presented.
LEMMA EndFits ==
  ASSUME Inv1, NEW r \in Requests, NEW pc \in {"done", "failed"}, End(r, pc),
         req[r].pc # "unused", SessionsStay
  PROVE  NextFits
<1>. DEFINE q == [Unused EXCEPT !.op = req[r].op, !.token = req[r].token, !.pw = req[r].pw, !.pc = pc]
<1>1. pc \in Pcs
  BY DEF Pcs
<1>2. q \in Request /\ q.pc = pc /\ q.op = req[r].op /\ q.token = req[r].token
  BY <1>1, EndFields
<1>3. InPlace(q) /\ OnSession(q, sessions')
  BY <1>2 DEF InPlace, OnSession
<1>4. Carries(r, q)
  BY <1>2, RequestBefore DEF Carries, WillRevise, Fits
<1>. QED
  BY <1>2, <1>3, <1>4, BecomeFits DEF End, Fits

\* A request that goes on fits when what it holds is what the next step needs.
LEMMA GotoFits ==
  ASSUME Inv1, NEW r \in Requests, NEW pc \in Pcs, Goto(r, pc), SessionsStay,
         Fits(r, [req[r] EXCEPT !.pc = pc], sessions')
  PROVE  NextFits
BY GotoFields, RequestBefore, BecomeFits DEF Goto

-----------------------------------------------------------------------------
(* Steps that read: most steps touch no table, and only prepare one that   *)
(* will.                                                                   *)

\* How request p becomes q when it has neither opened, redeemed, revoked nor
\* saved anything.
Prepares(p, q) ==
  /\ p.pc \notin {"open", "answer", "rotate", "revokeAll", "save", "restore", "delete", "done", "failed"}
  /\ q.pc # "unused"
  /\ p.pc # "unused" => q.op = p.op /\ q.token = p.token /\ q.pw = p.pw
  /\ q.pc \in {"answer", "done"} => q.op \notin Granting
  /\ q.pc = "save" => p.pc = "unused" /\ q.op # "reset"
  /\ q.row # None => q.row \in {p.row, user}
  /\ q.pc = "open" =>
       user # None /\ ~user.blocked /\ q.row = user /\ (q.op = "login" => q.pw = user.password)
  /\ q.pc = "failed" => q.op \notin Registering
  /\ p.pc = "unused" /\ q.op \in {"refresh", "logout"} =>
       \E d \in Devices : cookie[d] # None /\ q.token = cookie[d]

\* What the promises about accounts are about; counters of failed logins, mails
\* and the clock are not.
shared == <<user, sessions, cookie, clobbered, raced>>

Quiet(r) ==
  /\ \A o \in Requests \ {r} : req'[o] = req[o]
  /\ Prepares(req[r], req'[r])
  /\ UNCHANGED shared

\* It is enough to look at the request that moves.
LEMMA QuietStep ==
  ASSUME Inv1, NEW r \in Requests, NEW q \in Request, Become(r, q),
         UNCHANGED shared, InPlace(q), Carries(r, q), OnSession(q, sessions), Prepares(req[r], q)
  PROVE  NextFits /\ Quiet(r)
<1>1. SessionsStay /\ sessions' = sessions
  BY DEF SessionsStay, shared
<1>2. Fits(r, q, sessions')
  BY <1>1 DEF Fits
<1>3. req'[r] = q /\ \A o \in Requests \ {r} : req'[o] = req[o]
  BY DEF Become, Inv1, TypeOK
<1>. QED
  BY <1>1, <1>2, <1>3, BecomeFits DEF Quiet

\* A request that ends without having changed anything.
LEMMA QuietEnd ==
  ASSUME Inv1, NEW r \in Requests, NEW pc \in {"done", "failed"}, End(r, pc), UNCHANGED shared,
         req[r].pc \in {"find", "strike", "owner", "stale", "setup", "mail"},
         pc = "failed" => req[r].op \notin Registering,
         pc = "done" => req[r].op \notin Granting
  PROVE  NextFits /\ Quiet(r)
<1>. DEFINE q == [Unused EXCEPT !.op = req[r].op, !.token = req[r].token, !.pw = req[r].pw, !.pc = pc]
<1>1. pc \in Pcs /\ Become(r, q)
  BY DEF Pcs, End
<1>2. /\ q \in Request /\ q.pc = pc /\ q.op = req[r].op /\ q.token = req[r].token
      /\ q.pw = req[r].pw /\ q.row = None
  BY <1>1, EndFields
<1>. HIDE DEF q
<1>3. InPlace(q) /\ OnSession(q, sessions)
  BY <1>2 DEF InPlace, OnSession
<1>4. Carries(r, q)
  BY <1>2, RequestBefore DEF Carries, WillRevise, Fits
<1>5. Prepares(req[r], q)
  BY <1>2 DEF Prepares
<1>. QED
  BY <1>1, <1>2, <1>3, <1>4, <1>5, QuietStep

\* A request that goes on to another step with what it has.
LEMMA QuietGoto ==
  ASSUME Inv1, NEW r \in Requests, NEW pc \in Pcs, Goto(r, pc), UNCHANGED shared,
         \/ req[r].pc = "find" /\ req[r].op = "login" /\ pc = "strike"
         \/ req[r].pc = "find" /\ req[r].op = "refresh" /\ pc = "stale"
         \/ req[r].pc = "find" /\ req[r].op = "logout" /\ pc = "answer"
         \/ req[r].pc = "setup" /\ pc = "delete"
         \/ req[r].pc = "setup" /\ req[r].op = "registerBusiness" /\ pc = "mail"
         \/ req[r].pc = "mail" /\ req[r].op = "forgot" /\ pc = "restore"
         \/ req[r].pc = "mail" /\ req[r].op \in {"register", "registerBusiness"} /\ pc = "delete"
  PROVE  NextFits /\ Quiet(r)
<1>. DEFINE q == [req[r] EXCEPT !.pc = pc]
<1>1. Become(r, q) /\ req[r] \in Request /\ Fits(r, req[r], sessions)
  BY RequestBefore DEF Goto
<1>2. /\ q \in Request /\ q.pc = pc /\ q.op = req[r].op /\ q.dev = req[r].dev
      /\ q.token = req[r].token /\ q.pw = req[r].pw /\ q.sid = req[r].sid
      /\ q.row = req[r].row /\ q.write = req[r].write
  BY <1>1, GotoFields
<1>. HIDE DEF q
<1>3. InPlace(q) /\ OnSession(q, sessions)
  BY <1>1, <1>2 DEF InPlace, OnSession, Fits, Signing, Registering
<1>4. Carries(r, q)
  BY <1>1, <1>2
  DEF Carries, Fits, InPlace, WillRevise, Revises, Signing, Registering, Creating, Editing
<1>5. Prepares(req[r], q)
  BY <1>1, <1>2 DEF Prepares, Granting
<1>. QED
  BY <1>1, <1>2, <1>3, <1>4, <1>5, QuietStep

\* A request that starts.
LEMMA QuietStart ==
  ASSUME Inv1, NEW r \in Requests, NEW op, NEW pc \in Pcs, NEW p \in Request,
         Start(r, op, pc, p), UNCHANGED shared, pc \in {"find", "open", "save", "commit", "revokeAll"},
         p.row # None => p.row = user,
         op \in {"refresh", "logout"} =>
           \E d \in Devices : cookie[d] # None /\ p.token = cookie[d],
         pc = "open" => user # None /\ ~user.blocked /\ p.row = user /\ op = "google",
         pc = "save" => op # "reset",
         LET q == [p EXCEPT !.op = op, !.pc = pc] IN InPlace(q) /\ Carries(r, q)
  PROVE  NextFits /\ Quiet(r)
<1>. DEFINE q == [p EXCEPT !.op = op, !.pc = pc]
<1>1. Become(r, q) /\ op \in Ops /\ req[r] = Unused /\ InPlace(q) /\ Carries(r, q)
  BY DEF Start
<1>2. q \in Request /\ q.pc = pc /\ q.op = op /\ q.token = p.token /\ q.row = p.row
  BY <1>1 DEF Request
<1>. HIDE DEF q
<1>3. OnSession(q, sessions)
  BY <1>2 DEF OnSession
<1>4. req[r].pc = "unused"
  BY <1>1 DEF Unused
<1>5. Prepares(req[r], q)
  BY <1>2, <1>4 DEF Prepares
<1>. QED
  BY <1>1, <1>2, <1>3, <1>5, QuietStep

\* A request that starts from nothing is a request.
LEMMA StartedFields ==
  ASSUME NEW d \in Devices \cup {None}, NEW tk \in Ids \cup {None}, NEW pw \in Ids \cup {None},
         NEW row \in UserRow \cup {None}, NEW write \in UserRow \cup {None}
  PROVE  /\ [Unused EXCEPT !.dev = d, !.pw = pw] \in Request
         /\ [Unused EXCEPT !.dev = d, !.token = tk] \in Request
         /\ [Unused EXCEPT !.dev = d, !.write = write] \in Request
         /\ [Unused EXCEPT !.dev = d, !.row = row] \in Request
         /\ [Unused EXCEPT !.token = tk, !.row = row, !.write = write] \in Request
BY DEF Unused, Request, Pcs

LEMMA BeginLoginQuiet ==
  ASSUME Inv1, NEW r \in Requests, NEW d \in Devices, NEW pw \in Ids, BeginLogin(r, d, pw)
  PROVE  NextFits /\ Quiet(r)
<1>. DEFINE p == [Unused EXCEPT !.dev = d, !.pw = pw]
            q == [p EXCEPT !.op = "login", !.pc = "find"]
<1>1. Start(r, "login", "find", p) /\ UNCHANGED shared
  BY DEF BeginLogin, tables, history, outside, shared
<1>2. p \in Request /\ p.row = None /\ "find" \in Pcs
  BY StartedFields DEF Unused, Pcs
<1>3. q.op = "login" /\ q.pc = "find" /\ q.dev = d /\ q.row = None
  BY DEF Unused
<1>4. InPlace(q) /\ Carries(r, q)
  BY <1>3 DEF InPlace, Carries, WillRevise
<1>. HIDE DEF p
<1>. QED
  BY <1>1, <1>2, <1>4, QuietStart

LEMMA FindForLoginQuiet ==
  ASSUME Inv1, NEW r \in Requests, FindForLogin(r)
  PROVE  NextFits /\ Quiet(r)
<1>1. UNCHANGED shared /\ req[r].op = "login" /\ req[r].pc = "find"
  BY DEF FindForLogin, tables, history, outside, shared, At
<1>2. CASE Goto(r, "strike")
  BY <1>1, <1>2, QuietGoto DEF Pcs
<1>3. CASE End(r, "failed")
  BY <1>1, <1>3, QuietEnd DEF Registering
<1>4. CASE /\ user # None /\ user.password = req[r].pw /\ Admits(user)
           /\ Become(r, [req[r] EXCEPT !.pc = "open", !.row = user])
  <2>. DEFINE q == [req[r] EXCEPT !.pc = "open", !.row = user]
  <2>1. req[r] \in Request /\ Fits(r, req[r], sessions) /\ user \in UserRow
    BY <1>4, RequestBefore DEF Inv1, TypeOK
  <2>2. /\ q \in Request /\ q.pc = "open" /\ q.op = "login" /\ q.row = user
        /\ q.dev = req[r].dev /\ q.pw = req[r].pw /\ q.token = req[r].token
    BY <1>1, <2>1 DEF Request, Pcs
  <2>. HIDE DEF q
  <2>3. InPlace(q) /\ OnSession(q, sessions)
    BY <2>2 DEF InPlace, OnSession
  <2>4. Carries(r, q)
    BY <1>1, <2>1, <2>2 DEF Carries, Fits, WillRevise, Signing, Registering
  <2>5. Prepares(req[r], q)
    BY <1>1, <1>4, <2>2 DEF Prepares, Admits
  <2>. QED
    BY <1>1, <1>4, <2>2, <2>3, <2>4, <2>5, QuietStep DEF q
<1>. QED
  BY <1>2, <1>3, <1>4 DEF FindForLogin

LEMMA StrikeQuiet ==
  ASSUME Inv1, NEW r \in Requests, Strike(r)
  PROVE  NextFits /\ Quiet(r)
<1>1. UNCHANGED shared /\ req[r].pc = "strike" /\ End(r, "failed")
  BY DEF Strike, tables, history, shared
<1>2. req[r].op = "login"
  BY <1>1, RequestBefore DEF Fits, InPlace
<1>. QED
  BY <1>1, <1>2, QuietEnd DEF Registering

\* The rows that use cases create.
LEMMA CreatedRows ==
  ASSUME TypeOK, NEW r \in Ids, NEW role \in {"user", "business_admin"},
         NEW approval \in {"pending", "approved"}, NEW verified \in BOOLEAN
  PROVE  /\ LocalUser(r, role, approval, verified) \in UserRow
         /\ LocalUser(r, role, approval, verified).id = r
         /\ LocalUser(r, role, approval, verified).blocked = FALSE
         /\ LocalUser(r, role, approval, verified).password = r
         /\ GoogleUser(r, role, approval) \in UserRow
         /\ GoogleUser(r, role, approval).id = r
         /\ GoogleUser(r, role, approval).blocked = FALSE
BY DEF LocalUser, GoogleUser, UserRow, TypeOK

LEMMA BeginGoogleLoginQuiet ==
  ASSUME Inv1, NEW r \in Requests, NEW d \in Devices, BeginGoogleLogin(r, d)
  PROVE  NextFits /\ Quiet(r)
<1>1. UNCHANGED shared
  BY DEF BeginGoogleLogin, tables, history, outside, shared
<1>2. ASSUME user = None,
             Start(r, "google", "save",
                   [Unused EXCEPT !.dev = d, !.write = GoogleUser(r, "user", "approved")])
      PROVE  NextFits /\ Quiet(r)
  <2>. DEFINE w == GoogleUser(r, "user", "approved")
              p == [Unused EXCEPT !.dev = d, !.write = w]
              q == [p EXCEPT !.op = "google", !.pc = "save"]
  <2>1. w \in UserRow /\ w.id = r /\ w.blocked = FALSE
    BY CreatedRows DEF Inv1, Ids
  <2>2. p \in Request /\ p.row = None /\ "save" \in Pcs
    BY <2>1, StartedFields DEF Unused, Pcs
  <2>3. q.op = "google" /\ q.pc = "save" /\ q.dev = d /\ q.row = None /\ q.write = w
    BY DEF Unused
  <2>4. InPlace(q) /\ Carries(r, q)
    BY <2>1, <2>3 DEF InPlace, Carries, WillRevise, Creating, Editing, Registering
  <2>5. Start(r, "google", "save", p)
    BY <1>2
  <2>. HIDE DEF p
  <2>. QED
    BY <1>1, <2>2, <2>4, <2>5, QuietStart
<1>3. ASSUME user # None, ~user.blocked, Start(r, "google", "open", [Unused EXCEPT !.dev = d, !.row = user])
      PROVE  NextFits /\ Quiet(r)
  <2>. DEFINE p == [Unused EXCEPT !.dev = d, !.row = user]
              q == [p EXCEPT !.op = "google", !.pc = "open"]
  <2>1. user \in UserRow
    BY <1>3 DEF Inv1, TypeOK
  <2>2. p \in Request /\ p.row = user /\ "open" \in Pcs
    BY <2>1, StartedFields DEF Unused, Pcs
  <2>3. q.op = "google" /\ q.pc = "open" /\ q.dev = d /\ q.row = user
    BY DEF Unused
  <2>4. InPlace(q) /\ Carries(r, q)
    BY <2>1, <2>3 DEF InPlace, Carries, WillRevise, Registering
  <2>5. Start(r, "google", "open", p)
    BY <1>3
  <2>. HIDE DEF p
  <2>. QED
    BY <1>1, <1>3, <2>2, <2>4, <2>5, QuietStart
<1>. QED
  BY <1>2, <1>3 DEF BeginGoogleLogin

LEMMA SendCookieQuiet ==
  ASSUME Inv1, NEW r \in Requests, NEW op \in {"refresh", "logout"}, NEW d \in Devices,
         SendCookie(r, op, d)
  PROVE  NextFits /\ Quiet(r)
<1>. DEFINE p == [Unused EXCEPT !.dev = d, !.token = cookie[d]]
            q == [p EXCEPT !.op = op, !.pc = "find"]
<1>1. Start(r, op, "find", p) /\ UNCHANGED shared /\ cookie[d] # None
  BY DEF SendCookie, tables, history, outside, shared
<1>2. cookie[d] \in Ids
  BY <1>1 DEF Inv1, TypeOK
<1>3. p \in Request /\ p.row = None /\ p.token = cookie[d] /\ "find" \in Pcs
  BY <1>2, StartedFields DEF Unused, Pcs
<1>4. q.op = op /\ q.pc = "find" /\ q.dev = d /\ q.row = None /\ q.token = cookie[d]
  BY DEF Unused
<1>5. InPlace(q) /\ Carries(r, q)
  BY <1>2, <1>4 DEF InPlace, Carries, WillRevise
<1>. HIDE DEF p
<1>. QED
  BY <1>1, <1>3, <1>5, QuietStart

\* A request that has found the session it works on.
LEMMA FoundQuiet ==
  ASSUME Inv1, NEW r \in Requests, NEW s \in Ids, NEW pc \in {"owner", "revoke"},
         sessions[s] # None, UNCHANGED shared,
         Become(r, [req[r] EXCEPT !.pc = pc, !.sid = s]),
         \/ req[r].op = "refresh" /\ req[r].pc \in {"find", "stale"}
         \/ req[r].op = "logout" /\ req[r].pc = "find" /\ pc = "revoke"
  PROVE  NextFits /\ Quiet(r)
<1>. DEFINE q == [req[r] EXCEPT !.pc = pc, !.sid = s]
<1>1. req[r] \in Request /\ Fits(r, req[r], sessions) /\ Become(r, q)
  BY RequestBefore
<1>2. /\ q \in Request /\ q.pc = pc /\ q.sid = s /\ q.op = req[r].op /\ q.row = req[r].row
      /\ q.dev = req[r].dev /\ q.pw = req[r].pw /\ q.token = req[r].token
  BY <1>1 DEF Request, Pcs
<1>. HIDE DEF q
<1>3. InPlace(q) /\ OnSession(q, sessions)
  BY <1>2 DEF InPlace, OnSession
<1>4. Carries(r, q)
  BY <1>1, <1>2 DEF Carries, Fits, WillRevise, Signing
<1>5. Prepares(req[r], q)
  BY <1>1, <1>2 DEF Prepares
<1>. QED
  BY <1>1, <1>2, <1>3, <1>4, <1>5, QuietStep

LEMMA FindForRefreshQuiet ==
  ASSUME Inv1, NEW r \in Requests, FindForRefresh(r)
  PROVE  NextFits /\ Quiet(r)
<1>1. UNCHANGED shared /\ req[r].op = "refresh" /\ req[r].pc = "find"
  BY DEF FindForRefresh, tables, history, outside, shared, At
<1>2. CASE Goto(r, "stale")
  BY <1>1, <1>2, QuietGoto DEF Pcs
<1>3. CASE End(r, "failed")
  BY <1>1, <1>3, QuietEnd DEF Registering
<1>4. ASSUME NEW s \in WithHash(req[r].token), Become(r, [req[r] EXCEPT !.pc = "owner", !.sid = s])
      PROVE  NextFits /\ Quiet(r)
  BY <1>1, <1>4, FoundQuiet DEF WithHash
<1>. QED
  BY <1>2, <1>3, <1>4 DEF FindForRefresh

LEMMA CheckStaleQuiet ==
  ASSUME Inv1, NEW r \in Requests, CheckStale(r)
  PROVE  NextFits /\ Quiet(r)
<1>1. UNCHANGED shared /\ req[r].pc = "stale"
  BY DEF CheckStale, tables, history, outside, shared
<1>2. req[r].op = "refresh"
  BY <1>1, RequestBefore DEF Fits, InPlace
<1>3. CASE End(r, "failed")
  BY <1>1, <1>2, <1>3, QuietEnd DEF Registering
<1>4. ASSUME NEW s \in WithPrev(req[r].token), Become(r, [req[r] EXCEPT !.pc = "revoke", !.sid = s])
      PROVE  NextFits /\ Quiet(r)
  BY <1>1, <1>2, <1>4, FoundQuiet DEF WithPrev
<1>. QED
  BY <1>3, <1>4 DEF CheckStale

LEMMA FindForLogoutQuiet ==
  ASSUME Inv1, NEW r \in Requests, FindForLogout(r)
  PROVE  NextFits /\ Quiet(r)
<1>1. UNCHANGED shared /\ req[r].op = "logout" /\ req[r].pc = "find"
  BY DEF FindForLogout, tables, history, outside, shared, At
<1>2. CASE Goto(r, "answer")
  BY <1>1, <1>2, QuietGoto DEF Pcs
<1>3. ASSUME NEW s \in WithHash(req[r].token), Become(r, [req[r] EXCEPT !.pc = "revoke", !.sid = s])
      PROVE  NextFits /\ Quiet(r)
  BY <1>1, <1>3, FoundQuiet DEF WithHash
<1>. QED
  BY <1>2, <1>3 DEF FindForLogout

LEMMA ReadOwnerQuiet ==
  ASSUME Inv1, NEW r \in Requests, ReadOwner(r)
  PROVE  NextFits /\ Quiet(r)
<1>1. UNCHANGED shared /\ req[r].pc = "owner"
  BY DEF ReadOwner, tables, history, outside, shared
<1>2. req[r].op = "refresh"
  BY <1>1, RequestBefore DEF Fits, InPlace
<1>3. CASE End(r, "failed")
  BY <1>1, <1>2, <1>3, QuietEnd DEF Registering
<1>4. ASSUME user # None, Become(r, [req[r] EXCEPT !.pc = "rotate", !.row = user])
      PROVE  NextFits /\ Quiet(r)
  <2>. DEFINE q == [req[r] EXCEPT !.pc = "rotate", !.row = user]
  <2>1. req[r] \in Request /\ Fits(r, req[r], sessions) /\ user \in UserRow
    BY <1>4, RequestBefore DEF Inv1, TypeOK
  <2>2. /\ q \in Request /\ q.pc = "rotate" /\ q.op = "refresh" /\ q.row = user
        /\ q.sid = req[r].sid
        /\ q.dev = req[r].dev /\ q.pw = req[r].pw /\ q.token = req[r].token
    BY <1>2, <2>1 DEF Request, Pcs
  <2>. HIDE DEF q
  <2>3. InPlace(q) /\ OnSession(q, sessions)
    BY <1>1, <2>1, <2>2 DEF InPlace, OnSession, Fits
  <2>4. Carries(r, q)
    BY <1>1, <1>2, <2>1, <2>2 DEF Carries, Fits, WillRevise, Signing
  <2>5. Prepares(req[r], q)
    BY <1>1, <1>2, <2>2 DEF Prepares
  <2>. QED
    BY <1>1, <1>4, <2>2, <2>3, <2>4, <2>5, QuietStep DEF q
<1>. QED
  BY <1>3, <1>4 DEF ReadOwner

-----------------------------------------------------------------------------
(* Reading the row that will be saved.                                     *)

\* A use case that has read the row and decided what to save.
LEMMA EditQuiet ==
  ASSUME Inv1, NEW r \in Requests, NEW op, NEW pc \in {"save", "commit", "revokeAll"},
         NEW link \in Ids \cup {None}, NEW new \in UserRow,
         Edit(r, op, pc, link, new), UNCHANGED shared,
         \/ op = "block" /\ pc = "commit" /\ Revises(op, user, new)
         \/ op = "reset" /\ pc = "revokeAll" /\ Revises(op, user, new)
         \/ op \in Editing \ {"reset"} /\ pc = "save" /\ Revises(op, user, new)
         \/ op \in Registering /\ pc = "save" /\ user = None /\ new.id = r /\ ~new.blocked
  PROVE  NextFits /\ Quiet(r)
<1>. DEFINE p == [Unused EXCEPT !.token = link, !.row = user, !.write = new]
            q == [p EXCEPT !.op = op, !.pc = pc]
<1>1. Start(r, op, pc, p) /\ pc \in Pcs
  BY DEF Edit, Pcs
<1>2. p \in Request /\ p.row = user
  BY StartedFields DEF Inv1, TypeOK, Unused
<1>3. q.op = op /\ q.pc = pc /\ q.row = user /\ q.write = new
  BY DEF Unused
<1>4. InPlace(q)
  BY <1>3 DEF InPlace, Editing, Creating
<1>5. Carries(r, q)
  BY <1>3 DEF Carries, WillRevise, Revises, Editing, Creating, Registering, Signing
<1>6. op \notin {"refresh", "logout"} /\ (pc = "save" => op # "reset")
  BY DEF Editing, Registering
<1>. HIDE DEF p
<1>. QED
  BY <1>1, <1>2, <1>4, <1>5, <1>6, QuietStart

\* A row that differs in columns other than its identifier.
LEMMA EditedRow ==
  ASSUME NEW u \in UserRow, NEW i \in Ids, NEW t \in Nat
  PROVE  /\ Revises("block", u, [u EXCEPT !.blocked = TRUE])
         /\ Revises("unblock", u, [u EXCEPT !.blocked = FALSE])
         /\ Revises("approve", u, [u EXCEPT !.approval = "approved", !.verified = TRUE])
         /\ Revises("verify", u, [u EXCEPT !.verified = TRUE, !.verifyToken = None])
         /\ Revises("resend", u, [u EXCEPT !.verifyToken = i, !.sentAt = t])
         /\ Revises("forgot", u, [u EXCEPT !.resetToken = i, !.resetAt = t, !.resetUsed = FALSE])
         /\ Revises("reset", u, [u EXCEPT !.password = i, !.resetToken = None, !.resetAt = 0,
                                          !.resetUsed = TRUE])
<1>1. /\ [u EXCEPT !.blocked = TRUE] \in UserRow
      /\ [u EXCEPT !.blocked = FALSE] \in UserRow
      /\ [u EXCEPT !.approval = "approved", !.verified = TRUE] \in UserRow
      /\ [u EXCEPT !.verified = TRUE, !.verifyToken = None] \in UserRow
      /\ [u EXCEPT !.verifyToken = i, !.sentAt = t] \in UserRow
      /\ [u EXCEPT !.resetToken = i, !.resetAt = t, !.resetUsed = FALSE] \in UserRow
      /\ [u EXCEPT !.password = i, !.resetToken = None, !.resetAt = 0, !.resetUsed = TRUE] \in UserRow
  BY DEF UserRow
<1>2. /\ Revises("block", u, [u EXCEPT !.blocked = TRUE])
      /\ Revises("unblock", u, [u EXCEPT !.blocked = FALSE])
  BY <1>1 DEF Revises, UserRow
<1>3. /\ Revises("approve", u, [u EXCEPT !.approval = "approved", !.verified = TRUE])
      /\ Revises("verify", u, [u EXCEPT !.verified = TRUE, !.verifyToken = None])
  BY <1>1 DEF Revises, UserRow
<1>4. /\ Revises("resend", u, [u EXCEPT !.verifyToken = i, !.sentAt = t])
      /\ Revises("forgot", u, [u EXCEPT !.resetToken = i, !.resetAt = t, !.resetUsed = FALSE])
  BY <1>1 DEF Revises, UserRow
<1>5. Revises("reset", u, [u EXCEPT !.password = i, !.resetToken = None, !.resetAt = 0,
                                    !.resetUsed = TRUE])
  BY <1>1 DEF Revises, UserRow
<1>. QED
  BY <1>2, <1>3, <1>4, <1>5

\* Every use case that changes the row of an account.
LEMMA ChangeUserQuiet ==
  ASSUME Inv1, NEW r \in Requests, ChangeUser(r)
  PROVE  NextFits /\ Quiet(r)
<1>. USE DEF tables, history, outside, shared
<1>0. /\ user # None => user \in UserRow
      /\ r \in Ids /\ now \in Nat /\ user \in UserRow \cup {None}
  BY DEF Inv1, TypeOK, Ids
<1>1. CASE BeginBlock(r)
  <2>. DEFINE new == [user EXCEPT !.blocked = TRUE]
  <2>1. Revises("block", user, new) /\ new \in UserRow
    BY <1>0, <1>1, EditedRow DEF BeginBlock, Revises
  <2>. HIDE DEF new
  <2>. QED
    BY <1>1, <2>1, EditQuiet DEF BeginBlock, new
<1>2. CASE BeginUnblock(r)
  <2>. DEFINE new == [user EXCEPT !.blocked = FALSE]
  <2>1. Revises("unblock", user, new) /\ new \in UserRow
    BY <1>0, <1>2, EditedRow DEF BeginUnblock, Revises
  <2>. QED
    BY <1>2, <2>1, EditQuiet DEF BeginUnblock, Editing
<1>3. CASE BeginApproveAccount(r)
  <2>. DEFINE new == [user EXCEPT !.approval = "approved", !.verified = TRUE]
  <2>1. Revises("approve", user, new) /\ new \in UserRow
    BY <1>0, <1>3, EditedRow DEF BeginApproveAccount, Revises
  <2>. QED
    BY <1>3, <2>1, EditQuiet DEF BeginApproveAccount, Editing
<1>4. ASSUME NEW link \in Ids, BeginVerify(r, link)
      PROVE  NextFits /\ Quiet(r)
  <2>. DEFINE new == [user EXCEPT !.verified = TRUE, !.verifyToken = None]
  <2>1. Revises("verify", user, new) /\ new \in UserRow
    BY <1>0, <1>4, EditedRow DEF BeginVerify, Revises
  <2>. QED
    BY <1>4, <2>1, EditQuiet DEF BeginVerify, Editing
<1>5. ASSUME NEW link \in Ids, BeginReset(r, link)
      PROVE  NextFits /\ Quiet(r)
  <2>. DEFINE new == [user EXCEPT !.password = r, !.resetToken = None, !.resetAt = 0, !.resetUsed = TRUE]
  <2>1. Revises("reset", user, new) /\ new \in UserRow
    BY <1>0, <1>5, EditedRow DEF BeginReset, Revises
  <2>. QED
    BY <1>5, <2>1, EditQuiet DEF BeginReset
<1>6. CASE BeginResend(r)
  <2>. DEFINE new == [user EXCEPT !.verifyToken = r, !.sentAt = now]
  <2>1. Revises("resend", user, new) /\ new \in UserRow
    BY <1>0, <1>6, EditedRow DEF BeginResend, Revises
  <2>. QED
    BY <1>6, <2>1, EditQuiet DEF BeginResend, Editing
<1>7. CASE BeginForgot(r)
  <2>. DEFINE new == [user EXCEPT !.resetToken = r, !.resetAt = now, !.resetUsed = FALSE]
  <2>1. Revises("forgot", user, new)
    BY <1>0, <1>7, EditedRow DEF BeginForgot
  <2>2. new \in UserRow
    BY <2>1 DEF Revises
  <2>. QED
    BY <1>7, <2>1, <2>2, EditQuiet DEF BeginForgot, Editing
<1>8. CASE BeginRegister(r)
  <2>. DEFINE new == LocalUser(r, "user", "approved", FALSE)
  <2>1. new.id = r /\ ~new.blocked /\ new \in UserRow
    BY <1>0, CreatedRows DEF Inv1
  <2>. QED
    BY <1>8, <2>1, EditQuiet DEF BeginRegister, Registering
<1>9. CASE BeginRegisterBusiness(r)
  <2>. DEFINE new == LocalUser(r, "business_admin", "pending", FALSE)
  <2>1. new.id = r /\ ~new.blocked /\ new \in UserRow
    BY <1>0, CreatedRows DEF Inv1
  <2>. QED
    BY <1>9, <2>1, EditQuiet DEF BeginRegisterBusiness, Registering
<1>10. CASE BeginRegisterGoogle(r)
  <2>. DEFINE new == GoogleUser(r, "business_admin", "pending")
  <2>1. new.id = r /\ ~new.blocked /\ new \in UserRow
    BY <1>0, CreatedRows DEF Inv1
  <2>. QED
    BY <1>10, <2>1, EditQuiet DEF BeginRegisterGoogle, Registering
<1>. QED
  BY <1>1, <1>2, <1>3, <1>4, <1>5, <1>6, <1>7, <1>8, <1>9, <1>10 DEF ChangeUser

LEMMA SetUpBusinessQuiet ==
  ASSUME Inv1, NEW r \in Requests, NEW created \in BOOLEAN, SetUpBusiness(r, created)
  PROVE  NextFits /\ Quiet(r)
<1>1. UNCHANGED shared /\ req[r].pc = "setup"
  BY DEF SetUpBusiness, tables, history, outside, shared
<1>2. req[r].op \in {"registerBusiness", "registerGoogle"}
  BY <1>1, RequestBefore DEF Fits, InPlace
<1>3. CASE Goto(r, "delete")
  BY <1>1, <1>3, QuietGoto DEF Pcs
<1>4. CASE req[r].op = "registerGoogle" /\ End(r, "done")
  BY <1>1, <1>4, QuietEnd DEF Granting
<1>5. CASE req[r].op # "registerGoogle" /\ Goto(r, "mail")
  BY <1>1, <1>2, <1>5, QuietGoto DEF Pcs
<1>. QED
  BY <1>3, <1>4, <1>5 DEF SetUpBusiness

LEMMA SendMailQuiet ==
  ASSUME Inv1, NEW r \in Requests, NEW delivered \in BOOLEAN, NEW reported \in BOOLEAN,
         SendMail(r, delivered, reported)
  PROVE  NextFits /\ Quiet(r)
<1>1. UNCHANGED shared /\ req[r].pc = "mail"
  BY DEF SendMail, tables, history, shared
<1>2. req[r].op \in {"resend", "forgot", "register", "registerBusiness"}
  BY <1>1, RequestBefore DEF Fits, InPlace
<1>3. CASE End(r, "done")
  BY <1>1, <1>2, <1>3, QuietEnd DEF Granting
<1>4. CASE AfterMailError(req[r].op) = "failed" /\ End(r, "failed")
  BY <1>1, <1>2, <1>4, QuietEnd DEF AfterMailError, Registering
<1>5. CASE AfterMailError(req[r].op) # "failed" /\ Goto(r, AfterMailError(req[r].op))
  <2>1. req[r].op = "forgot" => Goto(r, "restore")
    BY <1>5 DEF AfterMailError
  <2>2. req[r].op \in {"register", "registerBusiness"} => Goto(r, "delete")
    BY <1>5 DEF AfterMailError
  <2>3. req[r].op # "resend"
    BY <1>5 DEF AfterMailError
  <2>. QED
    BY <1>1, <1>2, <2>1, <2>2, <2>3, QuietGoto DEF Pcs
<1>. QED
  BY <1>3, <1>4, <1>5 DEF SendMail

-----------------------------------------------------------------------------
(* Steps that write.                                                       *)

NextTables ==
  /\ user' \in UserRow \cup {None}
  /\ sessions' \in [Ids -> SessionRow \cup {None}]
  /\ cookie' \in [Devices -> Ids \cup {None}]
  /\ clobbered' \in BOOLEAN
  /\ raced' \subseteq Requests

LEMMA QuietTables ==
  ASSUME Inv1, UNCHANGED shared
  PROVE  NextTables
BY DEF Inv1, TypeOK, shared, NextTables

\* Revoking the sessions of a user changes nothing else of them.
LEMMA RevokedAll ==
  ASSUME TypeOK, NEW uid
  PROVE  /\ RevokeAll(uid) \in [Ids -> SessionRow \cup {None}]
         /\ \A s \in Ids :
              /\ sessions[s] = None <=> RevokeAll(uid)[s] = None
              /\ sessions[s] # None =>
                   LET old == sessions[s]
                       new == RevokeAll(uid)[s] IN
                   /\ new.user = old.user /\ new.hash = old.hash
                   /\ new.createdAt = old.createdAt /\ new.expiresAt = old.expiresAt
                   /\ new.revoked = (old.revoked \/ old.user = uid)
                   /\ old.revoked => new = old
<1>1. ASSUME NEW s \in Ids
      PROVE  /\ RevokeAll(uid)[s] \in SessionRow \cup {None}
             /\ sessions[s] = None <=> RevokeAll(uid)[s] = None
             /\ sessions[s] # None =>
                  LET old == sessions[s]
                      new == RevokeAll(uid)[s] IN
                  /\ new.user = old.user /\ new.hash = old.hash
                  /\ new.createdAt = old.createdAt /\ new.expiresAt = old.expiresAt
                  /\ new.revoked = (old.revoked \/ old.user = uid)
                  /\ old.revoked => new = old
  <2>1. CASE s \in LiveOf(uid)
    <3>1. sessions[s] \in SessionRow /\ sessions[s].user = uid /\ ~sessions[s].revoked
      BY <2>1 DEF LiveOf, Live, TypeOK
    <3>2. RevokeAll(uid)[s] = [sessions[s] EXCEPT !.revoked = TRUE]
      BY <2>1 DEF RevokeAll
    <3>3. [sessions[s] EXCEPT !.revoked = TRUE] \in SessionRow
      BY <3>1 DEF SessionRow
    <3>. QED
      BY <3>1, <3>2, <3>3, NoneIsNoRow DEF SessionRow
  <2>2. CASE s \notin LiveOf(uid)
    <3>1. RevokeAll(uid)[s] = sessions[s] /\ sessions[s] \in SessionRow \cup {None}
      BY <2>2 DEF RevokeAll, TypeOK
    <3>2. sessions[s] # None => sessions[s].revoked \/ sessions[s].user # uid
      BY <2>2 DEF LiveOf, Live
    <3>3. sessions[s] # None => sessions[s].revoked \in BOOLEAN
      BY <3>1, SessionFields
    <3>. QED
      BY <3>1, <3>2, <3>3
  <2>. QED
    BY <2>1, <2>2
<1>2. RevokeAll(uid) \in [Ids -> SessionRow \cup {None}]
  BY <1>1 DEF RevokeAll
<1>. QED
  BY <1>1, <1>2

\* A new session is a session.
LEMMA OpenedSession ==
  ASSUME TypeOK, NEW uid \in Ids, NEW r \in Ids
  PROVE  LET s == NewSession(uid, r) IN
         /\ s \in SessionRow /\ s # None
         /\ s.user = uid /\ s.hash = r /\ s.revoked = FALSE
         /\ s.createdAt = now /\ s.expiresAt = now + SlidingTtl
<1>1. SlidingTtl \in Nat /\ now \in Nat /\ now + SlidingTtl \in Nat
  BY AccountsAssumption DEF TypeOK
<1>2. NewSession(uid, r) \in SessionRow
  BY <1>1 DEF NewSession, SessionRow
<1>. QED
  BY <1>2, SessionFields DEF NewSession

LEMMA OpenSessionFits ==
  ASSUME Inv1, NEW r \in Requests, OpenSession(r)
  PROVE  NextFits /\ NextTables
<1>1. /\ req[r].pc = "open" /\ req[r] \in Request /\ Fits(r, req[r], sessions) /\ TypeOK
      /\ user' = user /\ cookie' = cookie /\ clobbered' = clobbered /\ r \in Ids
  BY RequestBefore DEF OpenSession, Inv1, Ids
<1>2. ASSUME user # None, Goto(r, "answer"), sessions' = [sessions EXCEPT ![r] = NewSession(user.id, r)],
             raced' \subseteq raced \cup {r}
      PROVE  NextFits /\ NextTables
  <2>1. user.id \in Ids
    BY <1>1, <1>2, UserFields DEF TypeOK
  <2>2. NewSession(user.id, r) \in SessionRow /\ NewSession(user.id, r) # None
    BY <1>1, <2>1, OpenedSession
  <2>3. SessionsStay /\ NextTables
    BY <1>1, <1>2, <2>2 DEF SessionsStay, NextTables, TypeOK
  <2>4. Fits(r, [req[r] EXCEPT !.pc = "answer"], sessions')
    <3>. DEFINE q == [req[r] EXCEPT !.pc = "answer"]
    <3>1. q.pc = "answer" /\ q.op = req[r].op /\ q.dev = req[r].dev /\ q.token = req[r].token
      BY <1>1, GotoFields DEF Pcs
    <3>2. q.op \in {"login", "google"}
      BY <1>1, <3>1 DEF Fits, InPlace
    <3>. HIDE DEF q
    <3>3. Fits(r, q, sessions')
      BY <1>1, <3>1, <3>2 DEF Fits, InPlace, Carries, OnSession, WillRevise, Signing
    <3>. QED
      BY <3>3 DEF q
  <2>. QED
    BY <1>2, <2>3, <2>4, GotoFits DEF Pcs
<1>3. ASSUME End(r, "failed"), sessions' = sessions, raced' = raced
      PROVE  NextFits /\ NextTables
  BY <1>1, <1>3, EndFits DEF SessionsStay, NextTables, TypeOK
<1>. QED
  BY <1>1, <1>2, <1>3 DEF OpenSession

LEMMA AnswerFits ==
  ASSUME Inv1, NEW r \in Requests, NEW arrives \in BOOLEAN, Answer(r, arrives)
  PROVE  NextFits /\ NextTables
<1>1. /\ req[r].pc = "answer" /\ End(r, "done") /\ user' = user /\ sessions' = sessions
      /\ clobbered' = clobbered /\ raced' = raced
  BY DEF Answer, tables, history
<1>2. cookie' \in [Devices -> Ids \cup {None}]
  BY DEF Answer, Inv1, TypeOK, Ids
<1>. QED
  BY <1>1, <1>2, EndFits DEF SessionsStay, NextTables, Inv1, TypeOK

\* A redeemed session is the session with a new token and a new expiry.
Redeemed(s, r, token) ==
  [s EXCEPT !.hash = r, !.prev = token, !.rotatedAt = now, !.expiresAt = NextExpiry(s)]

LEMMA RedeemedSession ==
  ASSUME TypeOK, NEW s \in SessionRow, NEW r \in Ids, NEW token \in Ids
  PROVE  LET x == Redeemed(s, r, token) IN
         /\ x \in SessionRow /\ x # None
         /\ x.user = s.user /\ x.hash = r /\ x.revoked = s.revoked
         /\ x.createdAt = s.createdAt /\ x.expiresAt <= s.createdAt + AbsoluteTtl
<1>1. /\ SlidingTtl \in Nat /\ AbsoluteTtl \in Nat /\ now \in Nat /\ s.createdAt \in Nat
  BY SessionFields, AccountsAssumption DEF TypeOK
<1>2. NextExpiry(s) \in Nat /\ NextExpiry(s) <= s.createdAt + AbsoluteTtl
  BY <1>1 DEF NextExpiry
<1>3. ASSUME NEW n \in Nat, NEW e \in Nat
      PROVE  LET x == [s EXCEPT !.hash = r, !.prev = token, !.rotatedAt = n, !.expiresAt = e] IN
             /\ x \in SessionRow /\ x.user = s.user /\ x.hash = r /\ x.revoked = s.revoked
             /\ x.createdAt = s.createdAt /\ x.expiresAt = e
  BY DEF SessionRow
<1>4. Redeemed(s, r, token) \in SessionRow
  BY <1>1, <1>2, <1>3 DEF Redeemed
<1>. QED
  BY <1>1, <1>2, <1>3, <1>4, SessionFields DEF Redeemed

LEMMA RotateFits ==
  ASSUME Inv1, NEW r \in Requests, Rotate(r)
  PROVE  NextFits /\ NextTables
<1>1. /\ req[r].pc = "rotate" /\ req[r] \in Request /\ Fits(r, req[r], sessions) /\ TypeOK
      /\ user' = user /\ cookie' = cookie /\ clobbered' = clobbered /\ raced' = raced /\ r \in Ids
  BY RequestBefore DEF Rotate, Inv1, Ids, history, outside
<1>2. ASSUME Goto(r, "answer"), NEW s \in Ids, s = req[r].sid,
             sessions' = [sessions EXCEPT ![s] = Redeemed(sessions[s], r, req[r].token)]
      PROVE  NextFits /\ NextTables
  <2>1. sessions[s] \in SessionRow /\ req[r].op = "refresh" /\ req[r].token \in Ids
    BY <1>1, <1>2 DEF Fits, InPlace, OnSession, Carries, TypeOK
  <2>2. Redeemed(sessions[s], r, req[r].token) \in SessionRow /\ Redeemed(sessions[s], r, req[r].token) # None
    BY <1>1, <2>1, RedeemedSession
  <2>3. SessionsStay /\ NextTables
    BY <1>1, <1>2, <2>2 DEF SessionsStay, NextTables, TypeOK
  <2>4. Fits(r, [req[r] EXCEPT !.pc = "answer"], sessions')
    <3>. DEFINE q == [req[r] EXCEPT !.pc = "answer"]
    <3>1. q.pc = "answer" /\ q.op = req[r].op /\ q.dev = req[r].dev /\ q.token = req[r].token
      BY <1>1, GotoFields DEF Pcs
    <3>. HIDE DEF q
    <3>2. Fits(r, q, sessions')
      BY <1>1, <2>1, <3>1 DEF Fits, InPlace, Carries, OnSession, WillRevise, Signing
    <3>. QED
      BY <3>2 DEF q
  <2>. QED
    BY <1>2, <2>3, <2>4, GotoFits DEF Pcs
<1>3. ASSUME End(r, "failed"), sessions' = sessions
      PROVE  NextFits /\ NextTables
  BY <1>1, <1>3, EndFits DEF SessionsStay, NextTables, TypeOK
<1>4. req[r].sid \in Ids
  BY <1>1 DEF Fits, OnSession
<1>. QED
  BY <1>2, <1>3, <1>4 DEF Rotate, Redeemed

LEMMA RevokeSessionFits ==
  ASSUME Inv1, NEW r \in Requests, RevokeSession(r)
  PROVE  NextFits /\ NextTables
<1>1. /\ req[r].pc = "revoke" /\ req[r] \in Request /\ Fits(r, req[r], sessions) /\ TypeOK
      /\ user' = user /\ cookie' = cookie /\ clobbered' = clobbered /\ raced' = raced
      /\ sessions' = [sessions EXCEPT ![req[r].sid] = [@ EXCEPT !.revoked = TRUE]]
  BY RequestBefore DEF RevokeSession, Inv1, history, outside
<1>2. req[r].sid \in Ids /\ sessions[req[r].sid] \in SessionRow
  BY <1>1 DEF Fits, OnSession, TypeOK
<1>3. [sessions[req[r].sid] EXCEPT !.revoked = TRUE] \in SessionRow
  BY <1>2 DEF SessionRow
<1>4. SessionsStay /\ NextTables
  BY <1>1, <1>2, <1>3, SessionFields DEF SessionsStay, NextTables, TypeOK
<1>5. ASSUME req[r].op = "logout", Goto(r, "answer")
      PROVE  NextFits
  <2>. DEFINE q == [req[r] EXCEPT !.pc = "answer"]
  <2>1. q.pc = "answer" /\ q.op = req[r].op /\ q.dev = req[r].dev /\ q.token = req[r].token
    BY <1>1, GotoFields DEF Pcs
  <2>. HIDE DEF q
  <2>2. Fits(r, q, sessions')
    BY <1>1, <1>5, <2>1 DEF Fits, InPlace, Carries, OnSession, WillRevise, Signing
  <2>. QED
    BY <1>4, <1>5, <2>2, GotoFits DEF Pcs, q
<1>6. ASSUME End(r, "failed")
      PROVE  NextFits
  BY <1>1, <1>4, <1>6, EndFits
<1>. QED
  BY <1>4, <1>5, <1>6 DEF RevokeSession

\* A request that has saved the row it made.
LEMMA SaveUserFits ==
  ASSUME Inv1, NEW r \in Requests, SaveUser(r)
  PROVE  NextFits /\ NextTables
<1>1. /\ req[r].pc = "save" /\ req[r] \in Request /\ Fits(r, req[r], sessions)
      /\ sessions' = sessions /\ cookie' = cookie
      /\ req[r].op \in Editing \cup Creating /\ req[r].write \in UserRow
  BY RequestBefore DEF SaveUser, outside, Fits, InPlace, Carries, WillRevise, Revises
<1>2. SessionsStay
  BY <1>1 DEF SessionsStay
<1>3. NextTables
  <2>1. Opening \subseteq Requests
    BY DEF Opening
  <2>2. user' \in {user, req[r].write} /\ clobbered' \in BOOLEAN /\ raced' \subseteq raced \cup Opening
    BY DEF SaveUser, Overwrite, history, Inv1, TypeOK
  <2>. QED
    BY <1>1, <2>1, <2>2 DEF NextTables, Inv1, TypeOK
<1>4. CASE End(r, "done") \/ End(r, "failed")
  BY <1>1, <1>2, <1>3, <1>4, EndFits
<1>5. ASSUME NEW pc \in {"mail", "setup", "open"}, pc = AfterSave[req[r].op],
             Become(r, [Undoable(req[r]) EXCEPT !.pc = pc])
      PROVE  NextFits
  <2>. DEFINE q == [Undoable(req[r]) EXCEPT !.pc = pc]
  <2>1. /\ q \in Request /\ q.pc = pc /\ q.op = req[r].op /\ q.dev = req[r].dev
        /\ q.token = req[r].token /\ q.row = req[r].write /\ q.write = req[r].row
    BY <1>1 DEF Undoable, Request, Pcs
  <2>2. /\ pc = "mail" => q.op \in {"resend", "forgot", "register", "registerBusiness"}
        /\ pc = "setup" => q.op \in {"registerBusiness", "registerGoogle"}
        /\ pc = "open" => q.op = "google"
    BY <1>1, <1>5, <2>1 DEF AfterSave, Editing, Creating, Registering
  <2>. HIDE DEF q
  <2>3. InPlace(q) /\ OnSession(q, sessions')
    BY <2>1, <2>2 DEF InPlace, OnSession
  <2>4. Carries(r, q)
    <3>1. q.op = "forgot" => Revises(q.op, q.row, q.write)
      BY <1>1, <2>1 DEF Fits, Carries, WillRevise, Revises, Editing
    <3>2. q.op \in Creating => q.row.id = r
      BY <1>1, <2>1 DEF Fits, Carries
    <3>3. q.op \in Signing => q.dev \in Devices
      BY <1>1, <2>1 DEF Fits, Carries
    <3>. QED
      BY <1>1, <2>1, <2>2, <3>1, <3>2, <3>3 DEF Carries, WillRevise, Creating, Registering, Editing
  <2>. QED
    BY <1>2, <1>5, <2>1, <2>3, <2>4, BecomeFits DEF q, Fits
<1>6. AfterSave[req[r].op] \in {"done", "mail", "setup", "open"}
  BY <1>1 DEF AfterSave, Editing, Creating, Registering
<1>. QED
  BY <1>3, <1>4, <1>5, <1>6 DEF SaveUser

LEMMA CommitBlockFits ==
  ASSUME Inv1, NEW r \in Requests, CommitBlock(r)
  PROVE  NextFits /\ NextTables
<1>1. /\ req[r].pc = "commit" /\ req[r].write \in UserRow /\ cookie' = cookie /\ TypeOK
  BY RequestBefore DEF CommitBlock, outside, Fits, Carries, WillRevise, Revises, Inv1
<1>2. ASSUME Overwrite(r), sessions' = RevokeAll(req[r].write.id), raced' = raced \cup Opening, End(r, "done")
      PROVE  NextFits /\ NextTables
  <2>1. SessionsStay /\ sessions' \in [Ids -> SessionRow \cup {None}]
    BY <1>1, <1>2, RevokedAll DEF SessionsStay
  <2>2. NextTables
    BY <1>1, <1>2, <2>1 DEF NextTables, TypeOK, Overwrite, Opening
  <2>. QED
    BY <1>1, <1>2, <2>1, <2>2, EndFits
<1>3. ASSUME End(r, "failed"), UNCHANGED <<tables, history>>
      PROVE  NextFits /\ NextTables
  BY <1>1, <1>3, EndFits DEF SessionsStay, NextTables, TypeOK, tables, history
<1>. QED
  BY <1>2, <1>3 DEF CommitBlock

LEMMA RevokeForResetFits ==
  ASSUME Inv1, NEW r \in Requests, RevokeForReset(r)
  PROVE  NextFits /\ NextTables
<1>1. /\ req[r].pc = "revokeAll" /\ req[r] \in Request /\ Fits(r, req[r], sessions) /\ TypeOK
      /\ user' = user /\ cookie' = cookie /\ clobbered' = clobbered /\ raced' = raced
      /\ sessions' = RevokeAll(req[r].write.id) /\ Goto(r, "save")
  BY RequestBefore DEF RevokeForReset, Inv1, history, outside
<1>2. SessionsStay /\ NextTables
  BY <1>1, RevokedAll DEF SessionsStay, NextTables, TypeOK
<1>. DEFINE q == [req[r] EXCEPT !.pc = "save"]
<1>3. /\ q.pc = "save" /\ q.op = req[r].op /\ q.dev = req[r].dev /\ q.token = req[r].token
      /\ q.row = req[r].row /\ q.write = req[r].write
  BY <1>1, GotoFields DEF Pcs
<1>4. req[r].op = "reset" /\ Revises("reset", req[r].row, req[r].write)
  BY <1>1 DEF Fits, InPlace, Carries, WillRevise
<1>. HIDE DEF q
<1>5. Fits(r, q, sessions')
  BY <1>3, <1>4
  DEF Fits, InPlace, Carries, OnSession, WillRevise, Editing, Creating, Registering, Signing
<1>. QED
  BY <1>1, <1>2, <1>5, GotoFits DEF Pcs, q

LEMMA RestoreLinkFits ==
  ASSUME Inv1, NEW r \in Requests, RestoreLink(r)
  PROVE  NextFits /\ NextTables
<1>1. /\ req[r].pc = "restore" /\ req[r].write \in UserRow /\ End(r, "failed")
      /\ cookie' = cookie /\ sessions' = sessions /\ raced' = raced
  BY RequestBefore DEF RestoreLink, outside, Fits, Carries, WillRevise, Revises
<1>2. user' \in {user, req[r].write} /\ clobbered' \in BOOLEAN
  BY DEF RestoreLink, Overwrite, Inv1, TypeOK
<1>. QED
  BY <1>1, <1>2, EndFits DEF SessionsStay, NextTables, Inv1, TypeOK

LEMMA DeleteUserFits ==
  ASSUME Inv1, NEW r \in Requests, DeleteUser(r)
  PROVE  NextFits /\ NextTables
<1>1. /\ req[r].pc = "delete" /\ End(r, "failed") /\ user' \in {user, None}
      /\ cookie' = cookie /\ sessions' = sessions /\ raced' = raced /\ clobbered' = clobbered
  BY DEF DeleteUser, outside, history
<1>. QED
  BY <1>1, EndFits DEF SessionsStay, NextTables, Inv1, TypeOK

\* Counters of failed logins stay counters.
LEMMA StruckTyped ==
  ASSUME NEW a \in Attempts, NEW t \in Nat, NEW max \in Nat
  PROVE  Struck(a, t, max) \in Attempts
<1>1. a.count \in Nat /\ a.ends \in Nat /\ a.lock \in Nat /\ LockTtl \in Nat /\ WindowTtl \in Nat
  BY StoreAssumption DEF Attempts
<1>2. Failures(a, t) \in Nat
  BY <1>1 DEF Failures
<1>. QED
  BY <1>1, <1>2 DEF Struck, Attempts

LEMMA OthersTyped ==
  ASSUME Inv1, NEW r \in Requests, LogIn(r) \/ UseSession(r) \/ ChangeUser(r) \/ SaveChange(r)
  PROVE  tracker' \in [Identities -> Attempts] /\ mailed' \subseteq Ids /\ now' \in Nat
<1>. /\ TypeOK /\ tracker \in [Identities -> Attempts] /\ mailed \subseteq Ids /\ now \in Nat
     /\ r \in Ids
  BY DEF Inv1, TypeOK, Ids
<1>1. CASE Strike(r)
  <2>1. req[r].op = "login" /\ req[r].dev \in Devices
    BY <1>1, RequestBefore DEF Strike, Fits, InPlace, Carries, Signing
  <2>2. \A i \in Identities, max \in {ClientMax, AccountMax} : Struck(tracker[i], now, max) \in Attempts
    BY StruckTyped, AccountsAssumption
  <2>. QED
    BY <1>1, <2>1, <2>2 DEF Strike, Identities
<1>2. CASE OpenSession(r)
  BY <1>2 DEF OpenSession, NoAttempts, Attempts
<1>3. CASE \E delivered, reported \in BOOLEAN : SendMail(r, delivered, reported)
  BY <1>3 DEF SendMail
<1>4. CASE UseSession(r) \/ ChangeUser(r)
  BY <1>4 DEF UseSession, ChangeUser, outside, SendCookie, FindForRefresh, ReadOwner, Rotate,
     CheckStale, RevokeSession, FindForLogout, BeginBlock, BeginUnblock, BeginApproveAccount,
     BeginVerify, BeginReset, BeginResend, BeginForgot, BeginRegister, BeginRegisterBusiness,
     BeginRegisterGoogle
<1>5. CASE \/ \E d \in Devices, pw \in Passwords(r) : BeginLogin(r, d, pw)
           \/ \E d \in Devices : BeginGoogleLogin(r, d)
           \/ FindForLogin(r) \/ \E arrives \in BOOLEAN : Answer(r, arrives)
  BY <1>5 DEF outside, BeginLogin, BeginGoogleLogin, FindForLogin, Answer
<1>6. CASE SaveUser(r) \/ CommitBlock(r) \/ RevokeForReset(r)
           \/ (\E created \in BOOLEAN : SetUpBusiness(r, created)) \/ RestoreLink(r) \/ DeleteUser(r)
  BY <1>6 DEF outside, SaveUser, CommitBlock, RevokeForReset, SetUpBusiness, RestoreLink, DeleteUser
<1>. QED
  BY <1>1, <1>2, <1>3, <1>4, <1>5, <1>6 DEF LogIn, SaveChange

-----------------------------------------------------------------------------
(* All steps: quiet ones, and the nine that write.                         *)

Writes(r) ==
  \/ OpenSession(r) \/ (\E arrives \in BOOLEAN : Answer(r, arrives))
  \/ Rotate(r) \/ RevokeSession(r)
  \/ SaveUser(r) \/ CommitBlock(r) \/ RevokeForReset(r) \/ RestoreLink(r) \/ DeleteUser(r)

LEMMA StepsOfRequests ==
  ASSUME Inv1, NEW r \in Requests, LogIn(r) \/ UseSession(r) \/ ChangeUser(r) \/ SaveChange(r)
  PROVE  NextFits /\ (Quiet(r) \/ Writes(r))
<1>1. CASE LogIn(r)
  <2>1. ASSUME NEW d \in Devices, NEW pw \in Passwords(r), BeginLogin(r, d, pw)
        PROVE  NextFits /\ Quiet(r)
    BY <2>1, BeginLoginQuiet DEF Passwords, Ids
  <2>. QED
    BY <1>1, <2>1, BeginGoogleLoginQuiet, FindForLoginQuiet, StrikeQuiet, OpenSessionFits, AnswerFits
    DEF LogIn, Writes
<1>2. CASE UseSession(r)
  BY <1>2, SendCookieQuiet, FindForRefreshQuiet, ReadOwnerQuiet, RotateFits, CheckStaleQuiet,
     RevokeSessionFits, FindForLogoutQuiet
  DEF UseSession, Writes
<1>3. CASE ChangeUser(r)
  BY <1>3, ChangeUserQuiet
<1>4. CASE SaveChange(r)
  BY <1>4, SaveUserFits, CommitBlockFits, RevokeForResetFits, SetUpBusinessQuiet, SendMailQuiet,
     RestoreLinkFits, DeleteUserFits
  DEF SaveChange, Writes
<1>. QED
  BY <1>1, <1>2, <1>3, <1>4

\* A step of the system is a request's, or leaves all but the clock as it was.
LEMMA Steps ==
  ASSUME Inv1, [Next]_vars
  PROVE  \/ \E r \in Requests : Quiet(r) \/ Writes(r)
         \/ UNCHANGED <<shared, req>>
BY StepsOfRequests DEF Next, Tick, vars, shared, tables, history

LEMMA WritesTables ==
  ASSUME Inv1, NEW r \in Requests, Quiet(r) \/ Writes(r)
  PROVE  NextTables
BY QuietTables, OpenSessionFits, AnswerFits, RotateFits, RevokeSessionFits, SaveUserFits,
   CommitBlockFits, RevokeForResetFits, RestoreLinkFits, DeleteUserFits
DEF Quiet, Writes

LEMMA InitInv1 == Init => Inv1
<1>. SUFFICES ASSUME Init PROVE Inv1
  OBVIOUS
<1>1. Unused \in Request
  BY DEF Unused, Request, Pcs
<1>2. Seed \in Ids /\ now = 0 /\ 0 \in Nat
  BY DEF Ids, Init
<1>3. ASSUME NEW role \in {"user", "business_admin"}, NEW approval \in {"pending", "approved"},
             NEW verified \in BOOLEAN
      PROVE  /\ LocalUser(Seed, role, approval, verified) \in UserRow
             /\ GoogleUser(Seed, role, approval) \in UserRow
  BY <1>2 DEF LocalUser, GoogleUser, UserRow
<1>4. user \in UserRow \cup {None}
  BY <1>3 DEF Init
<1>5. NewSession(Seed, Seed) \in SessionRow
  <2>1. SlidingTtl \in Nat /\ now + SlidingTtl \in Nat
    BY <1>2, AccountsAssumption
  <2>. QED
    BY <1>2, <2>1 DEF NewSession, SessionRow
<1>6. sessions \in [Ids -> SessionRow \cup {None}]
  BY <1>5 DEF Init
<1>7. cookie \in [Devices -> Ids \cup {None}] /\ mailed \subseteq Ids
  BY <1>2 DEF Init
<1>8. tracker \in [Identities -> Attempts]
  BY DEF Init, NoAttempts, Attempts
<1>9. TypeOK
  BY <1>1, <1>2, <1>4, <1>6, <1>7, <1>8 DEF TypeOK, Init
<1>10. ASSUME NEW r \in Requests
       PROVE  Fits(r, req[r], sessions)
  BY DEF Init, Unused, Fits, InPlace, Carries, OnSession, WillRevise
<1>. QED
  BY <1>9, <1>10 DEF Inv1

LEMMA NextInv1 == Inv1 /\ [Next]_vars => Inv1'
<1>. SUFFICES ASSUME Inv1, [Next]_vars PROVE Inv1'
  OBVIOUS
<1>1. ASSUME NEW r \in Requests, LogIn(r) \/ UseSession(r) \/ ChangeUser(r) \/ SaveChange(r)
      PROVE  Inv1'
  BY <1>1, StepsOfRequests, WritesTables, OthersTyped DEF Inv1, TypeOK, NextFits, NextTables
<1>2. CASE Tick
  BY <1>2 DEF Tick, Inv1, TypeOK, tables, history
<1>3. CASE UNCHANGED vars
  BY <1>3 DEF vars, Inv1, TypeOK
<1>. QED
  BY <1>1, <1>2, <1>3 DEF Next

-----------------------------------------------------------------------------
(* What a step makes of the requests and of the sessions.                  *)

Moves(r) ==
  /\ \A o \in Requests \ {r} : req'[o] = req[o]
  /\ req[r].pc \notin {"done", "failed"} /\ req'[r].pc # "unused"
  /\ req[r].pc # "unused" =>
       req'[r].op = req[r].op /\ req'[r].token = req[r].token /\ req'[r].pw = req[r].pw
  /\ req'[r].pc = "save" => req[r].pc \in {"unused", "revokeAll"}
  /\ req[r].pc = "answer" => req'[r].pc = "done"
  /\ req'[r].pc \in {"answer", "done"} /\ req'[r].op \in Granting =>
       req[r].pc \in {"open", "rotate", "answer"}
  /\ req'[r].row # None =>
       \/ req'[r].row \in {req[r].row, user}
       \/ req[r].pc = "save" /\ req'[r].row = req[r].write

\* Sessions keep their user, token and dates, and those revoked are as they were.
Closes ==
  \A s \in Ids :
    /\ sessions[s] = None <=> sessions'[s] = None
    /\ sessions[s] # None =>
         /\ sessions'[s].user = sessions[s].user /\ sessions'[s].hash = sessions[s].hash
         /\ sessions'[s].createdAt = sessions[s].createdAt
         /\ sessions'[s].expiresAt = sessions[s].expiresAt
         /\ sessions[s].revoked => sessions'[s] = sessions[s]

Opens(r) ==
  /\ req[r].pc = "open" /\ req'[r].pc = "answer"
  /\ user # None /\ user.id = req[r].row.id
  /\ sessions' = [sessions EXCEPT ![r] = NewSession(user.id, r)]
  /\ raced \subseteq raced'
  /\ (\E o \in Requests : At(o, "reset", "save")) => r \in raced'
  /\ user' = user /\ clobbered' = clobbered

Rotates(r, s) ==
  /\ req[r].pc = "rotate" /\ req'[r].pc = "answer"
  /\ sessions[s] # None /\ Matches(sessions[s], req[r].token)
  /\ sessions' = [sessions EXCEPT ![s] = Redeemed(sessions[s], r, req[r].token)]
  /\ user' = user /\ clobbered' = clobbered /\ raced' = raced

SessionsStep(r) ==
  \/ Closes /\ (req'[r].pc \in {"answer", "done"} /\ req'[r].op \in Granting => req[r].pc = "answer")
  \/ Opens(r)
  \/ \E s \in Ids : Rotates(r, s)

\* The columns of a request that has moved.
LEMMA WentTo ==
  ASSUME Inv1, NEW r \in Requests, NEW pc \in Pcs, Goto(r, pc)
  PROVE  /\ \A o \in Requests \ {r} : req'[o] = req[o]
         /\ req'[r].pc = pc /\ req'[r].op = req[r].op /\ req'[r].token = req[r].token
         /\ req'[r].pw = req[r].pw /\ req'[r].row = req[r].row /\ req'[r].write = req[r].write
BY RequestBefore, GotoFields DEF Goto, Become, Inv1, TypeOK

LEMMA EndedIn ==
  ASSUME Inv1, NEW r \in Requests, NEW pc \in {"done", "failed"}, End(r, pc)
  PROVE  /\ \A o \in Requests \ {r} : req'[o] = req[o]
         /\ req'[r].pc = pc /\ req'[r].op = req[r].op /\ req'[r].token = req[r].token
         /\ req'[r].pw = req[r].pw /\ req'[r].row = None /\ req'[r].write = None
<1>1. pc \in Pcs
  BY DEF Pcs
<1>. QED
  BY <1>1, RequestBefore, EndFields DEF End, Become, Inv1, TypeOK

LEMMA Unchanged == sessions' = sessions => Closes
BY DEF Closes

LEMMA OpenSessionMoves ==
  ASSUME Inv1, NEW r \in Requests, OpenSession(r)
  PROVE  Moves(r) /\ SessionsStep(r)
<1>1. req[r].pc = "open" /\ user' = user /\ clobbered' = clobbered
  BY DEF OpenSession
<1>2. ASSUME End(r, "failed"), sessions' = sessions
      PROVE  Moves(r) /\ SessionsStep(r)
  BY <1>1, <1>2, EndedIn, Unchanged DEF Moves, SessionsStep
<1>3. ASSUME Goto(r, "answer"), user # None, user.id = req[r].row.id,
             sessions' = [sessions EXCEPT ![r] = NewSession(user.id, r)],
             raced' = IF \E o \in Requests : At(o, "reset", "save") THEN raced \cup {r} ELSE raced
      PROVE  Moves(r) /\ SessionsStep(r)
  <2>1. Moves(r)
    BY <1>1, <1>3, WentTo DEF Moves, Pcs
  <2>2. raced \subseteq raced' /\ ((\E o \in Requests : At(o, "reset", "save")) => r \in raced')
    BY <1>3
  <2>3. Opens(r)
    BY <1>1, <1>3, <2>2, WentTo DEF Opens, Pcs
  <2>. QED
    BY <2>1, <2>3 DEF SessionsStep
<1>. QED
  BY <1>2, <1>3 DEF OpenSession

LEMMA RotateMoves ==
  ASSUME Inv1, NEW r \in Requests, Rotate(r)
  PROVE  Moves(r) /\ SessionsStep(r)
<1>1. /\ req[r].pc = "rotate" /\ user' = user /\ clobbered' = clobbered /\ raced' = raced
      /\ req[r].sid \in Ids /\ sessions[req[r].sid] # None
  BY RequestBefore DEF Rotate, history, Fits, OnSession
<1>2. ASSUME End(r, "failed"), sessions' = sessions
      PROVE  Moves(r) /\ SessionsStep(r)
  BY <1>1, <1>2, EndedIn, Unchanged DEF Moves, SessionsStep
<1>3. ASSUME Goto(r, "answer"), Matches(sessions[req[r].sid], req[r].token),
             sessions' = [sessions EXCEPT
                            ![req[r].sid] = Redeemed(sessions[req[r].sid], r, req[r].token)]
      PROVE  Moves(r) /\ SessionsStep(r)
  <2>1. Moves(r)
    BY <1>1, <1>3, WentTo DEF Moves, Pcs
  <2>2. Rotates(r, req[r].sid)
    BY <1>1, <1>3, WentTo DEF Rotates, Pcs
  <2>. QED
    BY <1>1, <2>1, <2>2 DEF SessionsStep
<1>. QED
  BY <1>2, <1>3 DEF Rotate, Redeemed

LEMMA RevokeSessionMoves ==
  ASSUME Inv1, NEW r \in Requests, RevokeSession(r)
  PROVE  Moves(r) /\ SessionsStep(r)
<1>1. /\ req[r].pc = "revoke" /\ req[r].sid \in Ids /\ sessions[req[r].sid] \in SessionRow
      /\ sessions' = [sessions EXCEPT ![req[r].sid] = [@ EXCEPT !.revoked = TRUE]]
  BY RequestBefore DEF RevokeSession, Fits, OnSession, Inv1, TypeOK
<1>2. Closes
  <2>. DEFINE old == sessions[req[r].sid]
              new == [old EXCEPT !.revoked = TRUE]
  <2>1. /\ new \in SessionRow /\ new.user = old.user /\ new.hash = old.hash
        /\ new.createdAt = old.createdAt /\ new.expiresAt = old.expiresAt
        /\ old.revoked => new = old
    BY <1>1 DEF SessionRow
  <2>. HIDE DEF new
  <2>2. sessions' = [sessions EXCEPT ![req[r].sid] = new]
    BY <1>1 DEF new
  <2>. QED
    BY <1>1, <2>1, <2>2, SessionFields DEF Closes, Inv1, TypeOK
<1>3. CASE End(r, "failed")
  BY <1>1, <1>2, <1>3, EndedIn DEF Moves, SessionsStep
<1>4. CASE req[r].op = "logout" /\ Goto(r, "answer")
  BY <1>1, <1>2, <1>4, WentTo DEF Moves, SessionsStep, Pcs, Granting
<1>. QED
  BY <1>3, <1>4 DEF RevokeSession

LEMMA AnswerMoves ==
  ASSUME Inv1, NEW r \in Requests, NEW arrives \in BOOLEAN, Answer(r, arrives)
  PROVE  Moves(r) /\ SessionsStep(r)
<1>1. req[r].pc = "answer" /\ End(r, "done") /\ sessions' = sessions
  BY DEF Answer, tables
<1>. QED
  BY <1>1, EndedIn, Unchanged DEF Moves, SessionsStep

LEMMA SaveUserMoves ==
  ASSUME Inv1, NEW r \in Requests, SaveUser(r)
  PROVE  Moves(r) /\ SessionsStep(r)
<1>1. /\ req[r].pc = "save" /\ sessions' = sessions /\ req[r] \in Request
      /\ req[r].op \in Editing \cup Creating
  BY RequestBefore DEF SaveUser, Fits, InPlace
<1>2. ASSUME \/ End(r, "failed")
             \/ req[r].op \in {"unblock", "approve", "verify", "reset"} /\ End(r, "done")
      PROVE  Moves(r) /\ SessionsStep(r)
  BY <1>1, <1>2, EndedIn, Unchanged DEF Moves, SessionsStep, Granting
<1>3. ASSUME NEW pc \in {"mail", "setup", "open"},
             Become(r, [Undoable(req[r]) EXCEPT !.pc = pc])
      PROVE  Moves(r) /\ SessionsStep(r)
  <2>1. /\ \A o \in Requests \ {r} : req'[o] = req[o]
        /\ req'[r].pc = pc /\ req'[r].op = req[r].op /\ req'[r].token = req[r].token
        /\ req'[r].pw = req[r].pw /\ req'[r].row = req[r].write
    BY <1>1, <1>3 DEF Undoable, Request, Become, Inv1, TypeOK
  <2>. QED
    BY <1>1, <2>1, Unchanged DEF Moves, SessionsStep
<1>4. /\ AfterSave[req[r].op] \in {"done", "mail", "setup", "open"}
      /\ AfterSave[req[r].op] = "done" => req[r].op \in {"unblock", "approve", "verify", "reset"}
  BY <1>1 DEF AfterSave, Editing, Creating, Registering
<1>. QED
  BY <1>2, <1>3, <1>4 DEF SaveUser

LEMMA OtherWritesMove ==
  ASSUME Inv1, NEW r \in Requests,
         CommitBlock(r) \/ RevokeForReset(r) \/ RestoreLink(r) \/ DeleteUser(r)
  PROVE  Moves(r) /\ SessionsStep(r)
<1>0. req[r] \in Request /\ Fits(r, req[r], sessions) /\ TypeOK
  BY RequestBefore DEF Inv1
<1>1. CASE CommitBlock(r)
  <2>1. req[r].pc = "commit" /\ req[r].op = "block"
    BY <1>0, <1>1 DEF CommitBlock, Fits, InPlace
  <2>2. Closes
    BY <1>0, <1>1, RevokedAll DEF CommitBlock, Closes, tables
  <2>3. End(r, "done") \/ End(r, "failed")
    BY <1>1 DEF CommitBlock
  <2>. QED
    BY <2>1, <2>2, <2>3, EndedIn DEF Moves, SessionsStep, Granting
<1>2. CASE RevokeForReset(r)
  <2>1. Closes /\ req[r].pc = "revokeAll" /\ Goto(r, "save")
    BY <1>0, <1>2, RevokedAll DEF RevokeForReset, Closes
  <2>. QED
    BY <2>1, WentTo DEF Moves, SessionsStep, Pcs
<1>3. CASE RestoreLink(r) \/ DeleteUser(r)
  <2>1. req[r].pc \in {"restore", "delete"} /\ End(r, "failed") /\ sessions' = sessions
    BY <1>3 DEF RestoreLink, DeleteUser
  <2>. QED
    BY <2>1, EndedIn, Unchanged DEF Moves, SessionsStep
<1>. QED
  BY <1>1, <1>2, <1>3

LEMMA QuietMoves ==
  ASSUME NEW r \in Requests, Quiet(r)
  PROVE  Moves(r) /\ SessionsStep(r)
BY Unchanged DEF Quiet, Prepares, shared, Moves, SessionsStep, Granting

LEMMA RequestsMove ==
  ASSUME Inv1, NEW r \in Requests, Quiet(r) \/ Writes(r)
  PROVE  Moves(r) /\ SessionsStep(r)
BY QuietMoves, OpenSessionMoves, AnswerMoves, RotateMoves, RevokeSessionMoves, SaveUserMoves,
   OtherWritesMove
DEF Writes

-----------------------------------------------------------------------------
(* Type correctness, and the age of a session.                             *)

\* The first layer: every variable has its type, and a request in flight holds
\* what its next step needs, for every number of requests.
THEOREM RequestsFit == Spec => []Inv1
<1>. QED
  BY InitInv1, NextInv1, PTL DEF Spec

\* The tables, the counters and the requests of the accounts module have their types.
THEOREM AccountsTypeCorrect == Spec => []TypeOK
<1>1. Inv1 => TypeOK
  BY DEF Inv1
<1>. QED
  BY <1>1, RequestsFit, PTL

LEMMA InitAbsoluteAge == Init => AbsoluteAge
<1>. SUFFICES ASSUME Init PROVE AbsoluteAge
  OBVIOUS
<1>1. Seed \in Ids /\ SlidingTtl \in Nat /\ AbsoluteTtl \in Nat /\ SlidingTtl <= AbsoluteTtl /\ now = 0
  BY AccountsAssumption DEF Ids, Init
<1>2. NewSession(Seed, Seed).expiresAt <= NewSession(Seed, Seed).createdAt + AbsoluteTtl
  BY <1>1 DEF NewSession
<1>. QED
  BY <1>1, <1>2 DEF Init, AbsoluteAge

LEMMA NextAbsoluteAge == Inv1 /\ AbsoluteAge /\ [Next]_vars => AbsoluteAge'
<1>. SUFFICES ASSUME Inv1, AbsoluteAge, [Next]_vars PROVE AbsoluteAge'
  OBVIOUS
<1>0. TypeOK /\ SlidingTtl \in Nat /\ AbsoluteTtl \in Nat /\ SlidingTtl <= AbsoluteTtl /\ now \in Nat
  BY AccountsAssumption DEF Inv1, TypeOK
<1>1. ASSUME NEW r \in Requests, Opens(r)
      PROVE  AbsoluteAge'
  <2>1. r \in Ids /\ user.id \in Ids
    BY <1>0, <1>1, UserFields DEF Opens, TypeOK, Ids
  <2>2. NewSession(user.id, r).createdAt = now /\ NewSession(user.id, r).expiresAt = now + SlidingTtl
    BY <1>0, <2>1, OpenedSession
  <2>3. now + SlidingTtl <= now + AbsoluteTtl
    BY <1>0
  <2>. QED
    BY <1>0, <1>1, <2>1, <2>2, <2>3 DEF AbsoluteAge, Opens, TypeOK
<1>2. ASSUME NEW r \in Requests, NEW s \in Ids, Rotates(r, s)
      PROVE  AbsoluteAge'
  <2>1. sessions[s] \in SessionRow /\ r \in Ids /\ req[r].token \in Ids
    BY <1>0, <1>2, SessionFields DEF Rotates, Matches, TypeOK, Ids
  <2>2. Redeemed(sessions[s], r, req[r].token).expiresAt
          <= Redeemed(sessions[s], r, req[r].token).createdAt + AbsoluteTtl
    BY <1>0, <2>1, RedeemedSession
  <2>. QED
    BY <1>0, <1>2, <2>2 DEF AbsoluteAge, Rotates, TypeOK
<1>3. CASE Closes
  BY <1>3 DEF AbsoluteAge, Closes
<1>4. CASE UNCHANGED <<shared, req>>
  BY <1>4 DEF AbsoluteAge, shared
<1>. QED
  BY <1>1, <1>2, <1>3, <1>4, Steps, RequestsMove DEF SessionsStep

\* However often it is refreshed, a session ends at its absolute age
\* (RefreshTokenUseCase: the earlier of the two expiries), for every number of
\* refreshes and every pair of lifetimes in which the sliding one is the shorter.
THEOREM AbsoluteAgeHolds == Spec => []AbsoluteAge
<1>. QED
  BY RequestsFit, InitAbsoluteAge, NextAbsoluteAge, PTL DEF Spec

-----------------------------------------------------------------------------
(* Tokens.                                                                 *)

LEMMA IssuedKept ==
  ASSUME Inv1, NEW r \in Requests, Moves(r), NEW t, Issued(req, t)
  PROVE  Issued(req', t)
BY DEF Issued, Moves

LEMMA KnownKept ==
  ASSUME Inv1, NEW r \in Requests, Moves(r), NEW u, Known(req, u)
  PROVE  Known(req', u)
BY RequestBefore DEF Known, Moves, Fits, InPlace, Creating, Registering

\* A request that opens or redeems a session gives out a token nobody has had.
LEMMA FreshToken ==
  ASSUME Inv1, Inv2, NEW r \in Requests, Moves(r), req[r].pc \in {"open", "rotate"},
         req'[r].pc = "answer"
  PROVE  /\ ~Issued(req, r) /\ Issued(req', r)
         /\ \A s \in Ids : sessions[s] # None => sessions[s].hash # r
         /\ \A o \in Requests : Redeems(req[o]) => req[o].token # r
<1>1. r # Seed
  BY AccountsAssumption
<1>2. ~Issued(req, r)
  BY <1>1 DEF Issued
<1>3. req[r].op \in Granting
  BY RequestBefore DEF Fits, InPlace, Granting
<1>4. Issued(req', r)
  BY <1>3 DEF Issued, Moves
<1>. QED
  BY <1>2, <1>4 DEF Inv2, TokensIssued, Redeems

LEMMA OpensTokens ==
  ASSUME Inv1, Inv2, NEW r \in Requests, Moves(r), Opens(r)
  PROVE  /\ \A s \in Ids : sessions'[s] # None => Issued(req', sessions'[s].hash)
         /\ SessionsOpened' /\ HashesUnique' /\ TokensSpent' /\ RedeemedOnce'
<1>. DEFINE new == NewSession(user.id, r)
<1>1. /\ r \in Ids /\ new.hash = r /\ sessions' = [sessions EXCEPT ![r] = new]
      /\ req[r].pc = "open" /\ req'[r].pc = "answer" /\ req[r].op \in {"login", "google"}
      /\ req'[r].op = req[r].op
  BY RequestBefore DEF Opens, NewSession, Ids, Fits, InPlace, Moves
<1>. HIDE DEF new
<1>2. /\ \A s \in Ids \ {r} : sessions'[s] = sessions[s]
      /\ sessions'[r] = new
  BY <1>1 DEF Inv1, TypeOK
<1>3. /\ Issued(req', r) /\ \A s \in Ids : sessions[s] # None => sessions[s].hash # r
      /\ \A o \in Requests : Redeems(req[o]) => req[o].token # r
  BY <1>1, FreshToken
<1>4. \A s \in Ids : sessions'[s] # None => Issued(req', sessions'[s].hash)
  BY <1>1, <1>2, <1>3, IssuedKept DEF Inv2, TokensIssued
<1>5. SessionsOpened'
  BY <1>1, <1>2 DEF SessionsOpened, Inv2, Moves, Ids
<1>6. HashesUnique'
  BY <1>1, <1>2, <1>3 DEF HashesUnique, Inv2
<1>7. \A o \in Requests : Redeems(req'[o]) => Redeems(req[o]) /\ req'[o].token = req[o].token
  BY <1>1 DEF Redeems, Moves
<1>8. TokensSpent'
  BY <1>1, <1>2, <1>3, <1>7 DEF TokensSpent, Inv2
<1>9. RedeemedOnce'
  BY <1>7 DEF RedeemedOnce, Redeems, Inv2
<1>. QED
  BY <1>4, <1>5, <1>6, <1>8, <1>9

LEMMA RotatesTokens ==
  ASSUME Inv1, Inv2, NEW r \in Requests, NEW s \in Ids, Moves(r), Rotates(r, s)
  PROVE  /\ \A t \in Ids : sessions'[t] # None => Issued(req', sessions'[t].hash)
         /\ SessionsOpened' /\ HashesUnique' /\ TokensSpent' /\ RedeemedOnce'
<1>. DEFINE token == req[r].token
            new   == Redeemed(sessions[s], r, token)
<1>0. /\ r \in Ids /\ sessions[s] \in SessionRow /\ sessions[s].hash = token /\ TypeOK
      /\ token \in Ids
  BY SessionFields DEF Ids, Rotates, Matches, Inv1, TypeOK
<1>a. new.hash = r
  BY <1>0, RedeemedSession
<1>1. /\ new.hash = r /\ sessions' = [sessions EXCEPT ![s] = new] /\ sessions[s] # None
      /\ req[r].pc = "rotate" /\ req'[r].pc = "answer"
      /\ req'[r].op = req[r].op /\ req'[r].token = token
  BY <1>0, <1>a DEF Rotates, Moves
<1>2. req[r].op = "refresh" /\ Issued(req, token)
  BY <1>1, RequestBefore DEF Fits, InPlace, Inv2, TokensIssued
<1>. HIDE DEF new, token
<1>3. /\ \A t \in Ids \ {s} : sessions'[t] = sessions[t]
      /\ sessions'[s] = new
  BY <1>0, <1>1 DEF TypeOK
<1>4. /\ ~Issued(req, r) /\ Issued(req', r) /\ \A t \in Ids : sessions[t] # None => sessions[t].hash # r
      /\ \A o \in Requests : Redeems(req[o]) => req[o].token # r
  BY <1>1, FreshToken
<1>5. \A t \in Ids : sessions'[t] # None => Issued(req', sessions'[t].hash)
  BY <1>1, <1>3, <1>4, IssuedKept DEF Inv2, TokensIssued
<1>6. SessionsOpened'
  BY <1>1, <1>3 DEF SessionsOpened, Inv2, Moves
<1>7. HashesUnique'
  BY <1>1, <1>3, <1>4 DEF HashesUnique, Inv2
<1>8. \A o \in Requests \ {r} : req'[o] = req[o]
  BY DEF Moves
<1>9. ASSUME NEW o \in Requests, Redeems(req[o])
      PROVE  req[o].token # token
  BY <1>0, <1>1, <1>9 DEF Inv2, TokensSpent
<1>10. token # r
  BY <1>2, <1>4
<1>11. ASSUME NEW t \in Ids, sessions'[t] # None
       PROVE  sessions'[t].hash # token
  BY <1>0, <1>1, <1>3, <1>10, <1>11 DEF Inv2, HashesUnique
<1>12. TokensSpent'
  BY <1>1, <1>3, <1>4, <1>8, <1>11 DEF TokensSpent, Inv2
<1>13. RedeemedOnce'
  BY <1>1, <1>8, <1>9 DEF RedeemedOnce, Redeems, Inv2
<1>. QED
  BY <1>5, <1>6, <1>7, <1>12, <1>13

LEMMA ClosesTokens ==
  ASSUME Inv1, Inv2, NEW r \in Requests, Moves(r), Closes,
         req'[r].pc \in {"answer", "done"} /\ req'[r].op \in Granting => req[r].pc = "answer"
  PROVE  /\ \A s \in Ids : sessions'[s] # None => Issued(req', sessions'[s].hash)
         /\ SessionsOpened' /\ HashesUnique' /\ TokensSpent' /\ RedeemedOnce'
<1>1. \A s \in Ids : sessions'[s] # None => sessions[s] # None /\ sessions'[s].hash = sessions[s].hash
  BY DEF Closes
<1>2. \A o \in Requests : Redeems(req'[o]) => Redeems(req[o]) /\ req'[o].token = req[o].token
  BY DEF Redeems, Moves, Granting
<1>3. \A s \in Ids : sessions'[s] # None => Issued(req', sessions'[s].hash)
  BY <1>1, IssuedKept DEF Inv2, TokensIssued
<1>4. SessionsOpened'
  BY <1>1 DEF SessionsOpened, Inv2, Moves, Ids
<1>5. HashesUnique' /\ TokensSpent'
  BY <1>1, <1>2 DEF HashesUnique, TokensSpent, Inv2
<1>6. RedeemedOnce'
  BY <1>2 DEF RedeemedOnce, Redeems, Inv2
<1>. QED
  BY <1>3, <1>4, <1>5, <1>6

\* Cookies and the tokens that requests present have been given out.
LEMMA CookiesIssued ==
  ASSUME Inv1, Inv2, NEW r \in Requests, Quiet(r) \/ Writes(r)
  PROVE  /\ \A d \in Devices : cookie'[d] # None => Issued(req', cookie'[d])
         /\ \A o \in Requests :
              req'[o].pc # "unused" /\ req'[o].op \in {"refresh", "logout"} => Issued(req', req'[o].token)
<1>1. Moves(r)
  BY RequestsMove
<1>2. CASE \E arrives \in BOOLEAN : Answer(r, arrives)
  <2>1. /\ req[r].pc = "answer" /\ req'[r].pc = "done" /\ req'[r].op = req[r].op
        /\ req[r].op \in Signing
    BY <1>1, <1>2, RequestBefore DEF Answer, Moves, Fits, InPlace
  <2>2. req[r].op # "logout" => Issued(req', r)
    BY <2>1 DEF Issued, Signing, Granting
  <2>3. \A d \in Devices :
          \/ cookie'[d] \in {cookie[d], None}
          \/ req[r].op # "logout" /\ cookie'[d] = r
    BY <1>2 DEF Answer, Inv1, TypeOK
  <2>. QED
    BY <1>1, <2>1, <2>2, <2>3, IssuedKept DEF Moves, Inv2, TokensIssued
<1>3. ASSUME cookie' = cookie, req[r].pc # "unused"
      PROVE  /\ \A d \in Devices : cookie'[d] # None => Issued(req', cookie'[d])
             /\ \A o \in Requests :
                  req'[o].pc # "unused" /\ req'[o].op \in {"refresh", "logout"} => Issued(req', req'[o].token)
  BY <1>1, <1>3, IssuedKept DEF Moves, Inv2, TokensIssued
<1>4. CASE Quiet(r)
  <2>1. cookie' = cookie
    BY <1>4 DEF Quiet, shared
  <2>2. req[r].pc = "unused" /\ req'[r].op \in {"refresh", "logout"} => Issued(req, req'[r].token)
    BY <1>4 DEF Quiet, Prepares, Inv2, TokensIssued
  <2>. QED
    BY <1>1, <1>3, <2>1, <2>2, IssuedKept DEF Moves, Inv2, TokensIssued
<1>5. CASE Writes(r) /\ ~\E arrives \in BOOLEAN : Answer(r, arrives)
  <2>1. cookie' = cookie /\ req[r].pc # "unused"
    BY <1>5 DEF Writes, OpenSession, Rotate, RevokeSession, SaveUser, CommitBlock, RevokeForReset,
       RestoreLink, DeleteUser, outside
  <2>. QED
    BY <1>3, <2>1
<1>. QED
  BY <1>2, <1>4, <1>5

LEMMA InitInv2 == Init => Inv2 /\ UsersKnown
<1>. SUFFICES ASSUME Init PROVE Inv2 /\ UsersKnown
  OBVIOUS
<1>1. /\ \A r \in Requests : req[r] = Unused /\ r # Seed
      /\ Seed \in Ids /\ Issued(req, Seed) /\ Known(req, Seed)
  BY AccountsAssumption DEF Init, Ids, Issued, Known
<1>a. NewSession(Seed, Seed).hash = Seed /\ NewSession(Seed, Seed).user = Seed
  BY DEF NewSession
<1>b. \A s \in Ids : sessions[s] # None =>
        s = Seed /\ sessions[s].hash = Seed /\ sessions[s].user = Seed
  BY <1>a DEF Init
<1>c. \A d \in Devices : cookie[d] # None => cookie[d] = Seed
  BY DEF Init
<1>d. user # None => user.id = Seed
  <2>1. \A role, approval, verified : LocalUser(Seed, role, approval, verified).id = Seed
    BY DEF LocalUser
  <2>2. \A role, approval : GoogleUser(Seed, role, approval).id = Seed
    BY DEF LocalUser, GoogleUser
  <2>3. \/ user = None
        \/ user \in {LocalUser(Seed, "user", "approved", FALSE),
                    LocalUser(Seed, "business_admin", "pending", FALSE),
                    LocalUser(Seed, "user", "approved", TRUE),
                    GoogleUser(Seed, "user", "approved")}
    BY DEF Init
  <2>. QED
    BY <2>1, <2>2, <2>3
<1>2. /\ \A s \in Ids : sessions[s] # None =>
           s = Seed /\ sessions[s].hash = Seed /\ sessions[s].user = Seed
      /\ \A d \in Devices : cookie[d] # None => cookie[d] = Seed
      /\ user # None => user.id = Seed
  BY <1>b, <1>c, <1>d
<1>3. TokensIssued
  BY <1>1, <1>2 DEF TokensIssued, Unused
<1>4. SessionsOpened /\ HashesUnique
  BY <1>1, <1>2 DEF SessionsOpened, HashesUnique, Ids
<1>5. TokensSpent /\ RedeemedOnce
  BY <1>1 DEF TokensSpent, RedeemedOnce, Redeems, Unused
<1>6. UsersKnown
  BY <1>1, <1>2 DEF UsersKnown, Unused
<1>. QED
  BY <1>3, <1>4, <1>5, <1>6 DEF Inv2

LEMMA NextInv2 == Inv1 /\ Inv2 /\ [Next]_vars => Inv2'
<1>. SUFFICES ASSUME Inv1, Inv2, [Next]_vars PROVE Inv2'
  OBVIOUS
<1>1. ASSUME NEW r \in Requests, Quiet(r) \/ Writes(r)
      PROVE  Inv2'
  <2>1. Moves(r) /\ SessionsStep(r)
    BY <1>1, RequestsMove
  <2>2. /\ \A s \in Ids : sessions'[s] # None => Issued(req', sessions'[s].hash)
        /\ SessionsOpened' /\ HashesUnique' /\ TokensSpent' /\ RedeemedOnce'
    BY <2>1, OpensTokens, RotatesTokens, ClosesTokens DEF SessionsStep
  <2>3. TokensIssued'
    BY <1>1, <2>2, CookiesIssued DEF TokensIssued
  <2>. QED
    BY <2>2, <2>3 DEF Inv2
<1>2. CASE UNCHANGED <<shared, req>>
  BY <1>2 DEF shared, Inv2, TokensIssued, Issued, SessionsOpened, HashesUnique, TokensSpent,
     RedeemedOnce
<1>. QED
  BY <1>1, <1>2, Steps

\* Of all the requests that ever present one refresh token at most one is given
\* a new one (the compare-and-set of PostgresRefreshSessionRepo.rotate): a
\* token that has been redeemed is the hash of no session any more.
THEOREM RedeemedOnceHolds == Spec => []RedeemedOnce
<1>1. Inv2 => RedeemedOnce
  BY DEF Inv2
<1>. QED
  BY <1>1, RequestsFit, InitInv2, NextInv2, PTL DEF Spec

\* A session that was revoked stays as it was: no refresh that had found it
\* open brings it back, and no login opens it again.
THEOREM RevokedStaysRevoked == Spec => RevokedIsFinal
<1>1. ASSUME Inv1, Inv2, [Next]_vars
      PROVE  \A s \in Ids : sessions[s] # None /\ sessions[s].revoked => sessions'[s] = sessions[s]
  <2>1. ASSUME NEW r \in Requests, Opens(r), NEW s \in Ids, sessions[s] # None
        PROVE  sessions'[s] = sessions[s]
    BY <1>1, <2>1 DEF Opens, Inv1, Inv2, SessionsOpened, TypeOK
  <2>2. ASSUME NEW r \in Requests, NEW t \in Ids, Rotates(r, t), NEW s \in Ids, sessions[s].revoked
        PROVE  sessions'[s] = sessions[s]
    BY <1>1, <2>2 DEF Rotates, Matches, Inv1, TypeOK
  <2>3. CASE Closes
    BY <2>3 DEF Closes
  <2>4. CASE UNCHANGED <<shared, req>>
    BY <2>4 DEF shared
  <2>. QED
    BY <1>1, <2>1, <2>2, <2>3, <2>4, Steps, RequestsMove DEF SessionsStep
<1>2. Inv1 /\ Inv2 /\ [Next]_vars =>
        [\A s \in Ids : sessions[s] # None /\ sessions[s].revoked => sessions'[s] = sessions[s]]_vars
  BY <1>1
<1>. QED
  BY <1>2, RequestsFit, InitInv2, NextInv2, PTL DEF Spec, RevokedIsFinal

-----------------------------------------------------------------------------
(* The row of the user.                                                    *)

LEMMA LiveIsLiveIn ==
  ASSUME NEW uid
  PROVE  LiveOf(uid) = LiveIn(sessions, uid)
BY DEF LiveOf, Live, LiveIn

\* Revoking the sessions of a user leaves none of them open.
LEMMA RevokedLive ==
  ASSUME TypeOK, NEW uid, sessions' = RevokeAll(uid)
  PROVE  Closes /\ LiveIn(sessions', uid) = {}
<1>1. Closes
  BY RevokedAll DEF Closes
<1>2. ASSUME NEW s \in Ids, sessions'[s] # None, sessions'[s].user = uid
      PROVE  sessions'[s].revoked
  <2>1. sessions[s] # None /\ sessions[s].user = uid
    BY <1>2, RevokedAll
  <2>2. sessions'[s].revoked = (sessions[s].revoked \/ sessions[s].user = uid)
    BY <2>1, RevokedAll
  <2>. QED
    BY <2>1, <2>2
<1>. QED
  BY <1>1, <1>2 DEF LiveIn

\* The four things a step may do to the row.
KeepsUser(r) ==
  /\ user' = user /\ clobbered' = clobbered /\ raced \subseteq raced'
  /\ req'[r].pc = "open" =>
       /\ user # None /\ ~user.blocked /\ req'[r].row = user
       /\ req'[r].op = "login" => req'[r].pw = user.password
  /\ req'[r].pc = "failed" /\ req'[r].op \in Registering =>
       user = None \/ user.id # r \/ HeldBy(r) # {}

Deletes == user' = None /\ clobbered' = clobbered

Creates(r) ==
  /\ req[r].pc = "save" /\ req[r].op \in Creating /\ req'[r].pc # "failed"
  /\ user' # None /\ user'.id = r /\ ~user'.blocked
  /\ sessions' = sessions /\ raced' = raced

Rewrites(r) ==
  /\ \/ req[r].pc = "save" /\ req[r].op \in Editing
     \/ req[r].pc = "commit" /\ req[r].op = "block"
     \/ req[r].pc = "restore" /\ req[r].op = "forgot"
  /\ Revises(req[r].op, req[r].row, req[r].write) /\ user' = req[r].write
  /\ ~clobbered' => ~clobbered /\ user = req[r].row
  /\ raced \subseteq raced' /\ Closes
  /\ req'[r].pc # "open"
  /\ req[r].op \in {"block", "reset"} => Opening \subseteq raced'
  /\ req[r].op = "block" => LiveIn(sessions', user'.id) = {}

UserStep(r) == KeepsUser(r) \/ Deletes \/ Creates(r) \/ Rewrites(r)

LEMMA SaveUserStep ==
  ASSUME Inv1, NEW r \in Requests, SaveUser(r)
  PROVE  UserStep(r)
<1>1. /\ req[r].pc = "save" /\ sessions' = sessions /\ req[r] \in Request
      /\ req[r].op \in Editing \cup Creating /\ Carries(r, req[r])
  BY RequestBefore DEF SaveUser, Fits, InPlace
<1>2. ASSUME ~Savable(req[r].write), End(r, "failed"), UNCHANGED <<user, history>>
      PROVE  KeepsUser(r)
  <2>1. req'[r].op \in Registering => req[r].write.id = r
    BY <1>1, <1>2, EndedIn DEF Carries, Creating
  <2>. QED
    BY <1>1, <1>2, <2>1, EndedIn DEF KeepsUser, Savable, history
<1>3. ASSUME Overwrite(r), raced' = IF req[r].op = "reset" THEN raced \cup Opening ELSE raced,
             NEW pc, pc = AfterSave[req[r].op],
             IF pc = "done" THEN End(r, pc) ELSE Become(r, [Undoable(req[r]) EXCEPT !.pc = pc])
      PROVE  UserStep(r)
  <2>1. /\ pc \in {"done", "mail", "setup", "open"}
        /\ req[r].op \in Editing => pc # "open"
    BY <1>1, <1>3 DEF AfterSave, Editing, Creating, Registering
  <2>2. req'[r].pc = pc
    <3>1. CASE pc = "done"
      BY <1>3, <3>1, EndedIn
    <3>2. CASE pc # "done"
      BY <1>1, <1>3, <3>2 DEF Become, Undoable, Request, Inv1, TypeOK
    <3>. QED
      BY <3>1, <3>2
  <2>3. CASE req[r].op \in Creating
    <3>1. req[r].write \in UserRow /\ req[r].write.id = r /\ ~req[r].write.blocked
          /\ req[r].op # "reset"
      BY <1>1, <2>3 DEF Carries, Creating, Registering
    <3>2. Creates(r)
      BY <1>1, <1>3, <2>1, <2>2, <2>3, <3>1, UserFields DEF Creates, Overwrite
    <3>. QED
      BY <3>2 DEF UserStep
  <2>4. CASE req[r].op \in Editing
    <3>1. Revises(req[r].op, req[r].row, req[r].write)
      BY <1>1, <2>4 DEF Carries, WillRevise
    <3>2. Rewrites(r)
      BY <1>1, <1>3, <2>1, <2>2, <2>4, <3>1, Unchanged DEF Rewrites, Overwrite, Editing
    <3>. QED
      BY <3>2 DEF UserStep
  <2>. QED
    BY <1>1, <2>3, <2>4
<1>. QED
  BY <1>2, <1>3 DEF SaveUser, UserStep

LEMMA CommitBlockStep ==
  ASSUME Inv1, NEW r \in Requests, CommitBlock(r)
  PROVE  UserStep(r)
<1>1. /\ req[r].pc = "commit" /\ req[r].op = "block" /\ TypeOK
      /\ Revises(req[r].op, req[r].row, req[r].write)
  BY RequestBefore DEF CommitBlock, Fits, InPlace, Carries, WillRevise, Inv1
<1>2. ASSUME End(r, "failed"), UNCHANGED <<tables, history>>
      PROVE  KeepsUser(r)
  BY <1>1, <1>2, EndedIn DEF KeepsUser, history, tables, Registering
<1>3. ASSUME Overwrite(r), sessions' = RevokeAll(req[r].write.id), raced' = raced \cup Opening, End(r, "done")
      PROVE  Rewrites(r)
  <2>1. Closes /\ LiveIn(sessions', req[r].write.id) = {}
    BY <1>1, <1>3, RevokedLive
  <2>. QED
    BY <1>1, <1>3, <2>1, EndedIn DEF Rewrites, Overwrite
<1>. QED
  BY <1>2, <1>3 DEF CommitBlock, UserStep

LEMMA RestoreLinkStep ==
  ASSUME Inv1, NEW r \in Requests, RestoreLink(r)
  PROVE  UserStep(r)
<1>1. /\ req[r].pc = "restore" /\ req[r].op = "forgot" /\ End(r, "failed")
      /\ sessions' = sessions /\ raced' = raced
      /\ Revises(req[r].op, req[r].row, req[r].write)
  BY RequestBefore DEF RestoreLink, Fits, InPlace, Carries, WillRevise
<1>2. CASE Overwrite(r)
  <2>1. Rewrites(r)
    BY <1>1, <1>2, EndedIn, Unchanged DEF Rewrites, Overwrite
  <2>. QED
    BY <2>1 DEF UserStep
<1>3. CASE UNCHANGED <<user, clobbered>>
  <2>1. KeepsUser(r)
    BY <1>1, <1>3, EndedIn DEF KeepsUser, Registering
  <2>. QED
    BY <2>1 DEF UserStep
<1>. QED
  BY <1>2, <1>3 DEF RestoreLink

LEMMA DeleteUserStep ==
  ASSUME Inv1, NEW r \in Requests, DeleteUser(r)
  PROVE  UserStep(r)
<1>1. /\ req[r].pc = "delete" /\ req[r].op \in Registering /\ req[r].row.id = r /\ End(r, "failed")
      /\ clobbered' = clobbered /\ raced' = raced
  BY RequestBefore DEF DeleteUser, Fits, InPlace, Carries, history
<1>2. \/ user' = None
      \/ user' = user /\ (user = None \/ user.id # r \/ HeldBy(r) # {})
  BY <1>1 DEF DeleteUser
<1>. QED
  BY <1>1, <1>2, EndedIn DEF UserStep, Deletes, KeepsUser

LEMMA SessionActionsKeepUser ==
  ASSUME Inv1, NEW r \in Requests,
         \/ OpenSession(r) \/ (\E arrives \in BOOLEAN : Answer(r, arrives))
         \/ Rotate(r) \/ RevokeSession(r) \/ RevokeForReset(r)
  PROVE  KeepsUser(r)
<1>1. user' = user /\ clobbered' = clobbered /\ raced \subseteq raced'
  BY DEF OpenSession, Answer, Rotate, RevokeSession, RevokeForReset, tables, history
<1>2. req[r].op \notin Registering /\ req[r].pc \in {"open", "answer", "rotate", "revoke", "revokeAll"}
  BY RequestBefore
  DEF OpenSession, Answer, Rotate, RevokeSession, RevokeForReset, Fits, InPlace, Signing, Registering
<1>3. \/ \E pc \in {"answer", "save"} : Goto(r, pc)
      \/ \E pc \in {"done", "failed"} : End(r, pc)
  BY DEF OpenSession, Answer, Rotate, RevokeSession, RevokeForReset
<1>4. req'[r].pc # "open" /\ req'[r].op = req[r].op
  BY <1>3, WentTo, EndedIn DEF Pcs
<1>. QED
  BY <1>1, <1>2, <1>4 DEF KeepsUser

LEMMA UserSteps ==
  ASSUME Inv1, NEW r \in Requests, Quiet(r) \/ Writes(r)
  PROVE  UserStep(r)
<1>1. CASE Quiet(r)
  BY <1>1 DEF Quiet, Prepares, shared, UserStep, KeepsUser
<1>. QED
  BY <1>1, SaveUserStep, CommitBlockStep, RestoreLinkStep, DeleteUserStep, SessionActionsKeepUser
  DEF Writes, UserStep

\* A reset about to save has just revoked the sessions of its user.
LEMMA ResetAboutToSave ==
  ASSUME Inv1, NEW r \in Requests, Quiet(r) \/ Writes(r), req'[r].op = "reset", req'[r].pc = "save"
  PROVE  LiveIn(sessions', req'[r].write.id) = {}
<1>1. Moves(r)
  BY RequestsMove
<1>2. CASE Quiet(r)
  BY <1>2 DEF Quiet, Prepares
<1>3. CASE Writes(r)
  <2>1. RevokeForReset(r)
    BY <1>1, <1>3 DEF Writes, Moves, OpenSession, Answer, Rotate, RevokeSession, SaveUser, CommitBlock,
       RestoreLink, DeleteUser
  <2>2. req'[r].write = req[r].write /\ sessions' = RevokeAll(req[r].write.id) /\ TypeOK
    BY <2>1, WentTo DEF RevokeForReset, Pcs, Inv1
  <2>. QED
    BY <2>2, RevokedLive
<1>. QED
  BY <1>2, <1>3

\* Only a login that opens a session adds one to those of a user.
LEMMA LiveAfter ==
  ASSUME Inv1, NEW r \in Requests, SessionsStep(r), NEW uid, NEW s \in LiveIn(sessions', uid)
  PROVE  s \in LiveIn(sessions, uid) \/ (s = r /\ Opens(r) /\ uid = user.id)
<1>1. CASE Closes
  BY <1>1, SessionFields DEF Closes, LiveIn, Inv1, TypeOK
<1>2. ASSUME Opens(r)
      PROVE  s \in LiveIn(sessions, uid) \/ (s = r /\ Opens(r) /\ uid = user.id)
  <2>1. CASE s = r
    BY <1>2, <2>1 DEF Opens, NewSession, LiveIn, Inv1, TypeOK
  <2>2. CASE s # r
    BY <1>2, <2>2 DEF Opens, LiveIn, Inv1, TypeOK
  <2>. QED
    BY <2>1, <2>2
<1>3. ASSUME NEW t \in Ids, Rotates(r, t)
      PROVE  s \in LiveIn(sessions, uid)
  <2>1. CASE s = t
    <3>1. /\ sessions[t] \in SessionRow /\ TypeOK /\ r \in Ids
          /\ req[r].token \in Ids
      BY <1>3, SessionFields DEF Rotates, Matches, Inv1, TypeOK, Ids
    <3>2. sessions'[t] = Redeemed(sessions[t], r, req[r].token)
      BY <1>3, <3>1 DEF Rotates, TypeOK
    <3>3. /\ Redeemed(sessions[t], r, req[r].token).user = sessions[t].user
          /\ Redeemed(sessions[t], r, req[r].token).revoked = sessions[t].revoked
      BY <3>1, RedeemedSession
    <3>. QED
      BY <1>3, <2>1, <3>2, <3>3 DEF Rotates, LiveIn
  <2>2. CASE s # t
    BY <1>3, <2>2 DEF Rotates, LiveIn, Inv1, TypeOK
  <2>. QED
    BY <2>1, <2>2
<1>. QED
  BY <1>1, <1>2, <1>3 DEF SessionsStep

-----------------------------------------------------------------------------
(* Users there have been.                                                  *)

LEMMA NextUsersKnown == Inv1 /\ UsersKnown /\ [Next]_vars => UsersKnown'
<1>. SUFFICES ASSUME Inv1, UsersKnown, [Next]_vars PROVE UsersKnown'
  OBVIOUS
<1>1. ASSUME NEW r \in Requests, Quiet(r) \/ Writes(r)
      PROVE  UsersKnown'
  <2>1. Moves(r) /\ SessionsStep(r) /\ UserStep(r)
    BY <1>1, RequestsMove, UserSteps
  <2>2. req[r].row # None => Known(req', req[r].row.id)
    BY <2>1, KnownKept DEF UsersKnown
  <2>3. user # None => Known(req', user.id)
    BY <2>1, KnownKept DEF UsersKnown
  <2>4. req[r].pc = "save" /\ req[r].op \in Creating => Known(req', r)
    BY <2>1 DEF Known, Moves
  <2>5. req[r].pc = "save" => Known(req', req[r].write.id)
    <3>1. req[r].pc = "save" /\ req[r].op \in Creating => req[r].write.id = r
      BY RequestBefore DEF Fits, Carries
    <3>2. req[r].pc = "save" /\ req[r].op \in Editing =>
            req[r].row # None /\ req[r].write.id = req[r].row.id
      BY RequestBefore, UserFields DEF Fits, Carries, WillRevise, Revises
    <3>3. req[r].pc = "save" => req[r].op \in Creating \cup Editing
      BY RequestBefore DEF Fits, InPlace
    <3>. QED
      BY <2>2, <2>4, <3>1, <3>2, <3>3
  <2>6. user' # None => Known(req', user'.id)
    <3>1. CASE KeepsUser(r) \/ Deletes
      BY <2>3, <3>1 DEF KeepsUser, Deletes
    <3>2. CASE Creates(r)
      BY <2>4, <3>2 DEF Creates
    <3>3. CASE Rewrites(r)
      BY <2>2, <3>3, UserFields DEF Rewrites, Revises
    <3>. QED
      BY <2>1, <3>1, <3>2, <3>3 DEF UserStep
  <2>7. ASSUME NEW s \in Ids, sessions'[s] # None
        PROVE  Known(req', sessions'[s].user)
    <3>1. CASE Closes
      BY <2>1, <2>7, <3>1, KnownKept DEF Closes, UsersKnown
    <3>2. CASE Opens(r)
      <4>1. NewSession(user.id, r).user = user.id
        BY DEF NewSession
      <4>2. s # r => sessions'[s] = sessions[s]
        BY <3>2 DEF Opens, Inv1, TypeOK
      <4>3. s = r => sessions'[s] = NewSession(user.id, r)
        BY <3>2 DEF Opens, Inv1, TypeOK
      <4>. QED
        BY <2>1, <2>3, <2>7, <3>2, <4>1, <4>2, <4>3, KnownKept DEF Opens, UsersKnown
    <3>3. ASSUME NEW t \in Ids, Rotates(r, t)
          PROVE  Known(req', sessions'[s].user)
      <4>1. /\ sessions[t] \in SessionRow /\ TypeOK /\ r \in Ids /\ req[r].token \in Ids
        BY <3>3, SessionFields DEF Rotates, Matches, Inv1, TypeOK, Ids
      <4>2. Redeemed(sessions[t], r, req[r].token).user = sessions[t].user
        BY <4>1, RedeemedSession
      <4>3. sessions'[s].user = sessions[s].user /\ sessions[s] # None
        BY <2>7, <3>3, <4>1, <4>2 DEF Rotates, TypeOK
      <4>. QED
        BY <2>1, <4>3, KnownKept DEF UsersKnown
    <3>. QED
      BY <2>1, <3>1, <3>2, <3>3 DEF SessionsStep
  <2>8. ASSUME NEW o \in Requests, req'[o].row # None
        PROVE  Known(req', req'[o].row.id)
    <3>1. CASE o # r
      BY <2>1, <2>8, <3>1, KnownKept DEF UsersKnown, Moves
    <3>2. CASE o = r
      BY <2>1, <2>2, <2>3, <2>5, <2>8, <3>2 DEF Moves
    <3>. QED
      BY <3>1, <3>2
  <2>. QED
    BY <2>6, <2>7, <2>8 DEF UsersKnown
<1>2. CASE UNCHANGED <<shared, req>>
  BY <1>2 DEF shared, UsersKnown
<1>. QED
  BY <1>1, <1>2, Steps

-----------------------------------------------------------------------------
(* Blocks, passwords and failed registrations.                             *)

LEMMA BlockHoldsStep ==
  ASSUME Inv1, BlockHolds, NEW r \in Requests, Moves(r), SessionsStep(r), UserStep(r)
  PROVE  BlockHolds'
<1>. SUFFICES ASSUME ~clobbered', user' # None, user'.blocked
              PROVE  Opening' \subseteq raced' /\ LiveIn(sessions', user'.id) \subseteq raced'
  BY DEF BlockHolds
<1>1. CASE KeepsUser(r)
  <2>1. Opening \subseteq raced /\ LiveIn(sessions, user.id) \subseteq raced /\ raced \subseteq raced'
    BY <1>1 DEF KeepsUser, BlockHolds
  <2>2. Opening' \subseteq raced'
    <3>1. \A o \in Requests : req'[o].pc = "open" => req[o].pc = "open"
      BY <1>1 DEF KeepsUser, Moves
    <3>. QED
      BY <2>1, <3>1 DEF Opening
  <2>3. Opens(r) => r \in raced
    BY <2>1 DEF Opens, Opening
  <2>. QED
    BY <1>1, <2>1, <2>2, <2>3, LiveAfter DEF KeepsUser
<1>2. CASE Rewrites(r)
  <2>1. ~clobbered /\ user = req[r].row /\ user' = req[r].write /\ user' \in UserRow
        /\ Revises(req[r].op, user, user') /\ raced \subseteq raced' /\ user # None
        /\ user'.id = user.id
    BY <1>2, UserFields DEF Rewrites, Revises
  <2>2. Opening' \subseteq Opening
    BY <1>2 DEF Rewrites, Opening, Moves
  <2>3. ~Opens(r)
    BY <1>2 DEF Rewrites, Opens
  <2>4. CASE req[r].op = "block"
    BY <1>2, <2>2, <2>4 DEF Rewrites
  <2>5. CASE req[r].op # "block"
    <3>1. req[r].op # "unblock"
      BY <2>1 DEF Revises
    <3>2. user.blocked
      BY <2>1, <2>5, <3>1 DEF Revises
    <3>3. Opening \subseteq raced /\ LiveIn(sessions, user.id) \subseteq raced
      BY <2>1, <3>2 DEF BlockHolds
    <3>. QED
      BY <2>1, <2>2, <2>3, <3>3, LiveAfter
  <2>. QED
    BY <2>4, <2>5
<1>. QED
  BY <1>1, <1>2 DEF UserStep, Creates, Deletes

LEMMA OpeningKnowsPasswordStep ==
  ASSUME Inv1, UsersKnown, OpeningKnowsPassword, NEW r \in Requests, Moves(r), UserStep(r)
  PROVE  OpeningKnowsPassword'
<1>. SUFFICES ASSUME ~clobbered', user' # None,
                     NEW o \in Requests, req'[o].op = "login", req'[o].pc = "open",
                     req'[o].row.id = user'.id
              PROVE  req'[o].pw = user'.password \/ o \in raced'
  BY DEF OpeningKnowsPassword, At
<1>1. CASE KeepsUser(r)
  <2>1. CASE o = r
    BY <1>1, <2>1 DEF KeepsUser
  <2>2. CASE o # r
    BY <1>1, <2>2 DEF KeepsUser, Moves, OpeningKnowsPassword, At
  <2>. QED
    BY <2>1, <2>2
<1>2. CASE Creates(r)
  <2>1. o # r
    BY <1>2 DEF Creates, Creating, Registering, Moves
  <2>2. req'[o] = req[o] /\ req[o].row.id = r /\ req[o].row # None
    BY <1>2, <2>1, RequestBefore, UserFields DEF Creates, Moves, Fits, Carries
  <2>3. Known(req, r) /\ r # Seed
    BY <2>2, AccountsAssumption DEF UsersKnown
  <2>. QED
    BY <1>2, <2>3 DEF Known, Creates
<1>3. CASE Rewrites(r)
  <2>1. o # r /\ req'[o] = req[o]
    BY <1>3 DEF Rewrites, Moves
  <2>2. ~clobbered /\ user = req[r].row /\ user' = req[r].write /\ Revises(req[r].op, user, user')
        /\ raced \subseteq raced' /\ user # None
    BY <1>3, UserFields DEF Rewrites, Revises
  <2>3. CASE req[r].op = "reset"
    BY <1>3, <2>1, <2>3 DEF Rewrites, Opening
  <2>4. CASE req[r].op # "reset"
    <3>1. user'.id = user.id /\ user'.password = user.password
      BY <2>2, <2>4 DEF Revises
    <3>. QED
      BY <2>1, <2>2, <3>1 DEF OpeningKnowsPassword, At
  <2>. QED
    BY <2>3, <2>4
<1>. QED
  BY <1>1, <1>2, <1>3 DEF UserStep, Deletes

\* The history of races only grows.
LEMMA RacedOnlyGrows ==
  ASSUME NEW r \in Requests, Quiet(r) \/ Writes(r)
  PROVE  raced \subseteq raced'
BY DEF Quiet, Writes, shared, OpenSession, Answer, Rotate, RevokeSession, SaveUser, CommitBlock,
   RevokeForReset, RestoreLink, DeleteUser, history, tables

LEMMA SessionsKeepRequest ==
  ASSUME Inv1, Inv2, NEW r \in Requests, Moves(r),
         NEW uid, NEW s \in LiveIn(sessions, uid) \cap Requests
  PROVE  req'[s].op = req[s].op /\ req'[s].pw = req[s].pw
BY DEF LiveIn, Inv2, SessionsOpened, Moves

LEMMA ResetRevokedStep ==
  ASSUME Inv1, Inv2, ResetRevoked, NEW r \in Requests, Quiet(r) \/ Writes(r), raced \subseteq raced'
  PROVE  ResetRevoked'
<1>. SUFFICES ASSUME NEW o \in Requests, req'[o].op = "reset", req'[o].pc = "save",
                     NEW s \in LiveIn(sessions', req'[o].write.id) \cap Requests,
                     req'[s].op = "login"
              PROVE  s \in raced'
  BY DEF ResetRevoked, At
<1>1. Moves(r) /\ SessionsStep(r)
  BY RequestsMove
<1>2. CASE o = r
  BY <1>2, ResetAboutToSave
<1>3. CASE o # r
  <2>1. req'[o] = req[o]
    BY <1>1, <1>3 DEF Moves
  <2>2. Opens(r) => r \in raced'
    BY <2>1 DEF Opens, At
  <2>3. CASE s \in LiveIn(sessions, req[o].write.id)
    BY <1>1, <2>1, <2>3, SessionsKeepRequest DEF ResetRevoked, At
  <2>. QED
    BY <1>1, <2>1, <2>2, <2>3, LiveAfter
<1>. QED
  BY <1>2, <1>3

LEMMA OldPasswordStep ==
  ASSUME Inv1, Inv2, UsersKnown, OldPasswordOnlyRaced, OpeningKnowsPassword, ResetRevoked,
         NEW r \in Requests, Moves(r), SessionsStep(r), UserStep(r)
  PROVE  OldPasswordOnlyRaced'
<1>. SUFFICES ASSUME ~clobbered', user' # None, NEW s \in LiveIn(sessions', user'.id) \cap Requests,
                     req'[s].op = "login", req'[s].pw # user'.password
              PROVE  s \in raced'
  BY LiveIsLiveIn DEF OldPasswordOnlyRaced, LiveOf, Live, LiveIn
<1>0. ~clobbered /\ user # None =>
        \A t \in LiveIn(sessions, user.id) \cap Requests :
          req[t].op = "login" /\ req[t].pw # user.password => t \in raced
  BY LiveIsLiveIn DEF OldPasswordOnlyRaced
<1>1. CASE KeepsUser(r)
  <2>1. user' = user /\ ~clobbered /\ raced \subseteq raced'
    BY <1>1 DEF KeepsUser
  <2>2. CASE s \in LiveIn(sessions, user.id)
    BY <1>0, <2>1, <2>2, SessionsKeepRequest
  <2>3. CASE s = r /\ Opens(r)
    <3>1. At(r, "login", "open") /\ req[r].row.id = user.id /\ req'[r].pw = req[r].pw
      BY <2>3 DEF Opens, Moves, At
    <3>. QED
      BY <2>1, <2>3, <3>1 DEF OpeningKnowsPassword
  <2>. QED
    BY <2>1, <2>2, <2>3, LiveAfter
<1>2. CASE Creates(r)
  <2>1. s \in LiveIn(sessions, r)
    BY <1>2 DEF Creates
  <2>2. Known(req, r) /\ r # Seed
    BY <2>1, AccountsAssumption DEF UsersKnown, LiveIn
  <2>. QED
    BY <1>2, <2>2 DEF Known, Creates
<1>3. CASE Rewrites(r)
  <2>1. ~clobbered /\ user = req[r].row /\ user' = req[r].write /\ Revises(req[r].op, user, user')
        /\ raced \subseteq raced' /\ user # None /\ user'.id = user.id
    BY <1>3, UserFields DEF Rewrites, Revises
  <2>2. ~Opens(r)
    BY <1>3 DEF Rewrites, Opens
  <2>3. s \in LiveIn(sessions, user.id) /\ req[s].op = "login" /\ req[s].pw # user'.password
    BY <2>1, <2>2, LiveAfter, SessionsKeepRequest
  <2>4. CASE req[r].op = "reset"
    <3>1. At(r, "reset", "save") /\ user.id = req[r].write.id
      BY <1>3, <2>1, <2>4 DEF Rewrites, At
    <3>. QED
      BY <2>1, <2>3, <3>1 DEF ResetRevoked
  <2>5. CASE req[r].op # "reset"
    BY <1>0, <2>1, <2>3, <2>5 DEF Revises
  <2>. QED
    BY <2>4, <2>5
<1>. QED
  BY <1>1, <1>2, <1>3 DEF UserStep, Deletes

\* A user never loses a session.
LEMMA HeldKept ==
  ASSUME Inv1, Inv2, NEW r \in Requests, SessionsStep(r), NEW uid, HeldBy(uid) # {}
  PROVE  \E s \in Ids : sessions'[s] # None /\ sessions'[s].user = uid
<1>1. PICK s \in Ids : sessions[s] # None /\ sessions[s].user = uid
  BY DEF HeldBy
<1>2. CASE Closes
  BY <1>1, <1>2 DEF Closes
<1>3. CASE Opens(r)
  <2>1. s # r
    BY <1>1, <1>3 DEF Opens, Inv2, SessionsOpened
  <2>. QED
    BY <1>1, <1>3, <2>1 DEF Opens, Inv1, TypeOK
<1>4. ASSUME NEW t \in Ids, Rotates(r, t)
      PROVE  sessions'[s] # None /\ sessions'[s].user = uid
  <2>1. /\ sessions[t] \in SessionRow /\ TypeOK /\ r \in Ids /\ req[r].token \in Ids
    BY <1>4, SessionFields DEF Rotates, Matches, Inv1, TypeOK, Ids
  <2>2. /\ Redeemed(sessions[t], r, req[r].token).user = sessions[t].user
        /\ Redeemed(sessions[t], r, req[r].token) # None
    BY <2>1, RedeemedSession
  <2>. QED
    BY <1>1, <1>4, <2>1, <2>2 DEF Rotates, TypeOK
<1>. QED
  BY <1>1, <1>2, <1>3, <1>4 DEF SessionsStep

LEMMA FailedRegistrationStep ==
  ASSUME Inv1, Inv2, FailedRegistrationLeavesNothing, NEW r \in Requests,
         Moves(r), SessionsStep(r), UserStep(r)
  PROVE  FailedRegistrationLeavesNothing'
<1>. SUFFICES ASSUME NEW o \in Requests, ~clobbered', user' # None, user'.id = o,
                     req'[o].op \in Registering, req'[o].pc = "failed"
              PROVE  \E s \in Ids : sessions'[s] # None /\ sessions'[s].user = o
  BY DEF FailedRegistrationLeavesNothing, HeldBy, Registering
<1>1. ASSUME o # r, ~clobbered, user # None, user.id = o
      PROVE  HeldBy(o) # {}
  BY <1>1 DEF Moves, FailedRegistrationLeavesNothing, Registering
<1>2. CASE KeepsUser(r)
  BY <1>1, <1>2, HeldKept DEF KeepsUser
<1>3. CASE Creates(r)
  BY <1>3 DEF Creates
<1>4. CASE Rewrites(r)
  <2>1. ~clobbered /\ user # None /\ user'.id = user.id /\ req[r].op \notin Registering
    BY <1>4, UserFields DEF Rewrites, Revises, Editing, Registering
  <2>2. o # r
    BY <1>4, <2>1 DEF Moves, Rewrites
  <2>. QED
    BY <1>1, <2>1, <2>2, HeldKept
<1>. QED
  BY <1>2, <1>3, <1>4 DEF UserStep, Deletes

LEMMA InitIInv == Init => IInv
<1>. SUFFICES ASSUME Init PROVE IInv
  OBVIOUS
<1>1. \A r \in Requests : req[r].pc = "unused"
  BY DEF Init, Unused
<1>2. user # None => ~user.blocked
  <2>1. \A role, approval, verified : LocalUser(Seed, role, approval, verified).blocked = FALSE
    BY DEF LocalUser
  <2>2. \A role, approval : GoogleUser(Seed, role, approval).blocked = FALSE
    BY DEF LocalUser, GoogleUser
  <2>3. \/ user = None
        \/ user \in {LocalUser(Seed, "user", "approved", FALSE),
                    LocalUser(Seed, "business_admin", "pending", FALSE),
                    LocalUser(Seed, "user", "approved", TRUE),
                    GoogleUser(Seed, "user", "approved")}
    BY DEF Init
  <2>. QED
    BY <2>1, <2>2, <2>3
<1>3. Inv1 /\ Inv2 /\ UsersKnown /\ AbsoluteAge
  BY InitInv1, InitInv2, InitAbsoluteAge
<1>4. BlockHolds
  BY <1>2 DEF BlockHolds
<1>5. OpeningKnowsPassword /\ ResetRevoked /\ FailedRegistrationLeavesNothing
  BY <1>1 DEF OpeningKnowsPassword, ResetRevoked, FailedRegistrationLeavesNothing, At
<1>6. OldPasswordOnlyRaced
  BY <1>1, <1>3 DEF OldPasswordOnlyRaced, Inv2, SessionsOpened, LiveOf, Live
<1>. QED
  BY <1>3, <1>4, <1>5, <1>6 DEF IInv, Inv3

LEMMA NextIInv == IInv /\ [Next]_vars => IInv'
<1>. SUFFICES ASSUME IInv, [Next]_vars PROVE IInv'
  OBVIOUS
<1>0. /\ Inv1 /\ Inv2 /\ UsersKnown /\ AbsoluteAge
      /\ BlockHolds /\ OpeningKnowsPassword /\ ResetRevoked
      /\ OldPasswordOnlyRaced /\ FailedRegistrationLeavesNothing
  BY DEF IInv, Inv3
<1>1. Inv1' /\ Inv2' /\ UsersKnown' /\ AbsoluteAge'
  BY <1>0, NextInv1, NextInv2, NextUsersKnown, NextAbsoluteAge
<1>2. ASSUME NEW r \in Requests, Quiet(r) \/ Writes(r)
      PROVE  Inv3'
  <2>1. Moves(r) /\ SessionsStep(r) /\ UserStep(r)
    BY <1>0, <1>2, RequestsMove, UserSteps
  <2>2. BlockHolds' /\ OpeningKnowsPassword' /\ OldPasswordOnlyRaced' /\ FailedRegistrationLeavesNothing'
    BY <1>0, <2>1, BlockHoldsStep, OpeningKnowsPasswordStep, OldPasswordStep, FailedRegistrationStep
  <2>3. raced \subseteq raced'
    BY <1>2, <1>0, RacedOnlyGrows
  <2>4. ResetRevoked'
    BY <1>0, <1>2, <2>3, ResetRevokedStep
  <2>. QED
    BY <2>2, <2>4 DEF Inv3
<1>3. ASSUME UNCHANGED <<shared, req>>
      PROVE  Inv3'
  BY <1>0, <1>3 DEF shared, Inv3, BlockHolds, OpeningKnowsPassword, ResetRevoked, OldPasswordOnlyRaced,
     FailedRegistrationLeavesNothing, Opening, LiveOf, Live, HeldBy, At
<1>4. Inv3'
  BY <1>0, <1>2, <1>3, Steps
<1>. QED
  BY <1>1, <1>4 DEF IInv

\* The whole invariant holds of every behaviour.
THEOREM AccountsInductive == Spec => []IInv
<1>. QED
  BY InitIInv, NextIInv, PTL DEF Spec

\* While a user is blocked, no session is open but those of logins admitted
\* before the block took effect (BlockUserUseCase: the revocation is in the
\* transaction of the block), unless a save has overwritten the row.
THEOREM BlockedHolds == Spec => []BlockedOnlyRaced
<1>1. IInv => BlockedOnlyRaced
  BY LiveIsLiveIn DEF IInv, Inv3, BlockHolds, BlockedOnlyRaced
<1>. QED
  BY <1>1, AccountsInductive, PTL

\* A session opened with an old password is of a login that ran beside the
\* reset (ResetPasswordUseCase revokes before it saves, in two calls).
THEOREM OldPasswordHolds == Spec => []OldPasswordOnlyRaced
<1>1. IInv => OldPasswordOnlyRaced
  BY DEF IInv, Inv3
<1>. QED
  BY <1>1, AccountsInductive, PTL

\* A registration that answered with a failure left no account behind that
\* nobody has used (the compensation of RegisterUseCase and
\* RegisterBusinessAccountUseCase).
THEOREM FailedRegistrationHolds == Spec => []FailedRegistrationLeavesNothing
<1>1. IInv => FailedRegistrationLeavesNothing
  BY DEF IInv, Inv3
<1>. QED
  BY <1>1, AccountsInductive, PTL

\* In Redis, a failed login that was under way when a lock was set leaves the
\* lock: its failure is counted in a key that is not the lock's.
THEOREM LocksAreKept == Store = "redis" => (Spec => StrikeKeepsLock)
<1>. SUFFICES ASSUME Store = "redis" PROVE Spec => StrikeKeepsLock
  OBVIOUS
<1>1. ASSUME Inv1, [Next]_vars, NEW r \in Requests, NEW i \in Identities,
             req[r].pc = "strike", req'[r].pc = "failed", LockedOut(tracker[i], now)
      PROVE  LockedOut(tracker'[i], now)
  <2>1. Strike(r)
    <3>1. ASSUME NEW o \in Requests, o # r, Quiet(o) \/ Writes(o)
          PROVE  FALSE
      BY <1>1, <3>1, RequestsMove DEF Moves
    <3>2. ~UNCHANGED vars /\ ~Tick
      BY <1>1 DEF vars, Tick
    <3>3. LogIn(r) \/ UseSession(r) \/ ChangeUser(r) \/ SaveChange(r)
      BY <1>1, <3>1, <3>2, StepsOfRequests DEF Next
    <3>4. req[r] # Unused
      BY <1>1 DEF Unused
    <3>. QED
      BY <1>1, <3>3, <3>4 DEF LogIn, UseSession, ChangeUser, SaveChange, BeginLogin, BeginGoogleLogin,
         FindForLogin, OpenSession, Answer, SendCookie, FindForRefresh, ReadOwner, Rotate, CheckStale,
         RevokeSession, FindForLogout, BeginBlock, BeginUnblock, BeginApproveAccount, BeginVerify,
         BeginReset, BeginResend, BeginForgot, BeginRegister, BeginRegisterBusiness,
         BeginRegisterGoogle, SaveUser, CommitBlock, RevokeForReset, SetUpBusiness, SendMail,
         RestoreLink, DeleteUser, Edit, Start, At
  <2>2. ASSUME NEW a \in Attempts, NEW max \in Nat, LockedOut(a, now)
        PROVE  LockedOut(Struck(a, now, max), now)
    <3>1. a.lock > now /\ now \in Nat /\ LockTtl \in Nat /\ LockTtl > 0 /\ a.lock \in Nat
      BY <1>1, <2>2, StoreAssumption DEF LockedOut, Attempts, Inv1, TypeOK
    <3>2. Struck(a, now, max).lock \in {a.lock, now + LockTtl}
      BY DEF Struck
    <3>3. Struck(a, now, max).lock > now
      BY <3>1, <3>2
    <3>. QED
      BY <3>3 DEF LockedOut
  <2>3. req[r].dev \in Devices /\ tracker \in [Identities -> Attempts]
    BY <1>1, RequestBefore DEF Fits, InPlace, Carries, Signing, Inv1, TypeOK
  <2>4. /\ tracker' = [tracker EXCEPT ![req[r].dev] = Struck(@, now, ClientMax),
                                      !["account"] = Struck(@, now, AccountMax)]
        /\ req[r].dev # "account" /\ ClientMax \in Nat /\ AccountMax \in Nat
    BY <2>1, <2>3, AccountsAssumption DEF Strike
  <2>5. tracker'[i] \in {tracker[i], Struck(tracker[i], now, ClientMax), Struck(tracker[i], now, AccountMax)}
    BY <2>3, <2>4 DEF Identities
  <2>. QED
    BY <1>1, <2>2, <2>3, <2>4, <2>5
<1>2. Inv1 /\ [Next]_vars =>
        [\A r \in Requests, i \in Identities :
           req[r].pc = "strike" /\ req'[r].pc = "failed" /\ LockedOut(tracker[i], now)
           => LockedOut(tracker'[i], now)]_vars
  BY <1>1
<1>. QED
  BY <1>2, RequestsFit, PTL DEF Spec, StrikeKeepsLock

=============================================================================
