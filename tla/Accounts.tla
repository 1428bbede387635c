-------------------------------- MODULE Accounts --------------------------------
(***************************************************************************)
(* One e-mail address, its row in the users table and its refresh          *)
(* sessions, under requests whose awaits interleave.  Every use case that  *)
(* changes the row reads all of it, and saves all of it from what it read. *)
(*                                                                         *)
(* A request is used once; what it creates (a user, a session, a token, a  *)
(* password, a link) is named after it.  Seed names what was there before. *)
(***************************************************************************)
EXTENDS LoginAttempts, FiniteSets

CONSTANTS
  Requests, Devices, Seed, None,
  Ops,           \* the use cases the instance runs
  ClientMax,     \* MAX_FAILED_ATTEMPTS of one client
  AccountMax,    \* ACCOUNT_WIDE_MAX_FAILED_ATTEMPTS
  Grace,         \* ROTATION_RACE_GRACE_MS, in ticks like what follows
  Cooldown,      \* RESEND_COOLDOWN_MS
  ResetTtl,      \* PASSWORD_RESET_EXPIRY_MS
  VerifyTtl,     \* VERIFICATION_EXPIRY_MS
  SlidingTtl,    \* REFRESH_TOKEN_TTL_MS
  AbsoluteTtl,   \* ABSOLUTE_SESSION_MAX_MS
  MaxNow         \* bound on the clock

ASSUME AccountsAssumption ==
  /\ {Seed, None} \cap (Requests \cup Devices) = {} /\ Seed # None
  /\ "account" \notin Devices
  /\ {ClientMax, AccountMax, Grace, Cooldown, ResetTtl, VerifyTtl, SlidingTtl, AbsoluteTtl, MaxNow}
       \subseteq Nat
  /\ 0 < ClientMax /\ ClientMax <= AccountMax
  /\ SlidingTtl <= AbsoluteTtl

VARIABLES
  user,       \* table users: the row of the address, or None
  sessions,   \* table refresh_sessions
  cookie,     \* the refresh token each device holds
  tracker,    \* the counters of failed logins
  mailed,     \* the links that reached the mailbox
  now,        \* the clock
  req,        \* the requests
  clobbered,  \* history: some save has overwritten a row other than the one it read
  raced       \* history: logins in flight when a block or a password reset took effect

vars  == <<user, sessions, cookie, tracker, mailed, now, req, clobbered, raced>>

Ids        == Requests \cup {Seed}
Identities == Devices \cup {"account"}

UserRow == [id : Ids, role : {"user", "business_admin"}, approval : {"pending", "approved"},
            provider : {"local", "google"}, verified : BOOLEAN,
            verifyToken : Ids \cup {None}, sentAt : Nat,
            password : Ids \cup {None},
            resetToken : Ids \cup {None}, resetAt : Nat, resetUsed : BOOLEAN,
            blocked : BOOLEAN]

SessionRow == [user : Ids, hash : Ids, prev : Ids \cup {None}, rotatedAt : Nat,
               createdAt : Nat, expiresAt : Nat, revoked : BOOLEAN]

\* SQL NULL is not a row.
ASSUME NoneIsNoRow == None \notin UserRow \cup SessionRow

Pcs == {"unused", "find", "strike", "open", "owner", "rotate", "stale", "revoke", "answer",
        "commit", "revokeAll", "save", "setup", "mail", "restore", "delete", "done", "failed"}

Request == [op : Ops \cup {None}, pc : Pcs, dev : Devices \cup {None},
            token : Ids \cup {None},          \* the refresh token or the link it presents
            pw : Ids \cup {None},             \* the password it presents
            sid : Ids \cup {None},            \* the session it works on
            row : UserRow \cup {None},        \* the row it read
            write : UserRow \cup {None}]      \* the row it will save

Unused == [op |-> None, pc |-> "unused", dev |-> None, token |-> None, pw |-> None,
           sid |-> None, row |-> None, write |-> None]

TypeOK ==
  /\ user \in UserRow \cup {None}
  /\ sessions \in [Ids -> SessionRow \cup {None}]
  /\ cookie \in [Devices -> Ids \cup {None}]
  /\ tracker \in [Identities -> Attempts]
  /\ mailed \subseteq Ids
  /\ now \in Nat
  /\ req \in [Requests -> Request]
  /\ clobbered \in BOOLEAN
  /\ raced \subseteq Requests

-----------------------------------------------------------------------------
(* The rows that use cases create.                                         *)

LocalUser(r, role, approval, verified) ==
  [id |-> r, role |-> role, approval |-> approval, provider |-> "local", verified |-> verified,
   verifyToken |-> IF verified THEN None ELSE r, sentAt |-> now, password |-> r,
   resetToken |-> None, resetAt |-> 0, resetUsed |-> FALSE, blocked |-> FALSE]

\* Mutant: the provider as the database spells it.
GoogleUserRaw(r, role, approval) ==
  [LocalUser(r, role, approval, TRUE) EXCEPT !.provider = "GOOGLE", !.password = None, !.sentAt = 0]

GoogleUser(r, role, approval) ==
  [LocalUser(r, role, approval, TRUE) EXCEPT !.provider = "google", !.password = None, !.sentAt = 0]

NewSession(uid, r) ==
  [user |-> uid, hash |-> r, prev |-> None, rotatedAt |-> 0,
   createdAt |-> now, expiresAt |-> now + SlidingTtl, revoked |-> FALSE]

Live(s)     == sessions[s] # None /\ ~sessions[s].revoked
LiveOf(uid) == {s \in Ids : Live(s) /\ sessions[s].user = uid}
HeldBy(uid) == {s \in Ids : sessions[s] # None /\ sessions[s].user = uid}

\* The address is unknown; or waits for its link; or is in use on a device.
Init ==
  /\ now = 0
  /\ req = [r \in Requests |-> Unused]
  /\ tracker = [i \in Identities |-> NoAttempts]
  /\ clobbered = FALSE /\ raced = {}
  /\ \/ /\ user = None /\ mailed = {}
        /\ sessions = [s \in Ids |-> None] /\ cookie = [d \in Devices |-> None]
     \/ /\ user \in {LocalUser(Seed, "user", "approved", FALSE),
                     LocalUser(Seed, "business_admin", "pending", FALSE)}
        /\ mailed = {Seed}
        /\ sessions = [s \in Ids |-> None] /\ cookie = [d \in Devices |-> None]
     \/ /\ user \in {LocalUser(Seed, "user", "approved", TRUE), GoogleUser(Seed, "user", "approved")}
        /\ mailed = {}
        /\ sessions = [s \in Ids |-> IF s = Seed THEN NewSession(Seed, Seed) ELSE None]
        /\ cookie \in {[e \in Devices |-> IF e = d THEN Seed ELSE None] : d \in Devices}

-----------------------------------------------------------------------------
(* Steps of a request.                                                     *)

At(r, op, pc) == req[r].op = op /\ req[r].pc = pc
Become(r, q)  == req' = [req EXCEPT ![r] = q]
Goto(r, pc)   == Become(r, [req[r] EXCEPT !.pc = pc])
End(r, pc)    == Become(r, [Unused EXCEPT !.op = req[r].op, !.token = req[r].token,
                                          !.pw = req[r].pw, !.pc = pc])
Start(r, op, pc, q) ==
  /\ op \in Ops /\ req[r] = Unused
  /\ Become(r, [q EXCEPT !.op = op, !.pc = pc])

\* A request that has read the row and decided what to save.
Edit(r, op, pc, link, new) ==
  Start(r, op, pc, [Unused EXCEPT !.token = link, !.row = user, !.write = new])

tables  == <<user, sessions>>
history == <<clobbered, raced>>
outside == <<cookie, tracker, mailed, now>>

\* PostgresUserRepo.save: an upsert by identifier of every column; the address
\* is unique, so a row of another identifier makes it fail.
Savable(row) == IF user = None THEN TRUE ELSE user.id = row.id
Overwrite(r) == /\ user' = req[r].write
                /\ clobbered' = (clobbered \/ user # req[r].row)

\* Logins between their read of the row and the creation of their session.
Opening == {r \in Requests : req[r].pc = "open"}

-----------------------------------------------------------------------------
(* Logging in.                                                             *)

BeginLogin(r, d, pw) ==
  /\ ~LockedOut(tracker[d], now) /\ ~LockedOut(tracker["account"], now)
  /\ Start(r, "login", "find", [Unused EXCEPT !.dev = d, !.pw = pw])
  /\ UNCHANGED <<tables, history, outside>>

\* Mutant: the block is left to the revocation of the sessions.
AdmitsBlocked(row) == row.verified

\* No code rejects an account, so that refusal of the use case cannot happen.
Admits(row) == ~row.blocked /\ row.verified

FindForLogin(r) ==
  LET matches == user # None /\ user.password = req[r].pw
  IN  /\ At(r, "login", "find")
      /\ \/ ~matches /\ Goto(r, "strike")
         \/ matches /\ ~Admits(user) /\ End(r, "failed")
         \/ matches /\ Admits(user) /\ Become(r, [req[r] EXCEPT !.pc = "open", !.row = user])
      /\ UNCHANGED <<tables, history, outside>>

Strike(r) ==
  /\ req[r].pc = "strike"
  /\ tracker' = [tracker EXCEPT ![req[r].dev] = Struck(@, now, ClientMax),
                                !["account"] = Struck(@, now, AccountMax)]
  /\ End(r, "failed")
  /\ UNCHANGED <<tables, history, cookie, mailed, now>>

BeginGoogleLogin(r, d) ==
  /\ \/ /\ user = None
        /\ Start(r, "google", "save", [Unused EXCEPT !.dev = d, !.write = GoogleUser(r, "user", "approved")])
     \/ /\ user # None /\ user.provider = "google" /\ ~user.blocked
        /\ Start(r, "google", "open", [Unused EXCEPT !.dev = d, !.row = user])
  /\ UNCHANGED <<tables, history, outside>>

\* The session of a user who is gone violates its foreign key.
OpenSession(r) ==
  LET known == user # None /\ user.id = req[r].row.id
      reset == \E o \in Requests : At(o, "reset", "save")
  IN  /\ req[r].pc = "open"
      /\ tracker' = IF req[r].op = "login" THEN [tracker EXCEPT ![req[r].dev] = NoAttempts] ELSE tracker
      /\ \/ known /\ Goto(r, "answer")
            /\ sessions' = [sessions EXCEPT ![r] = NewSession(user.id, r)]
            /\ raced' = IF reset THEN raced \cup {r} ELSE raced
         \/ ~known /\ End(r, "failed") /\ UNCHANGED <<sessions, raced>>
      /\ UNCHANGED <<user, clobbered, cookie, mailed, now>>

\* The answer sets or clears the cookie, unless it is lost on its way.
Answer(r, arrives) ==
  LET token == IF req[r].op = "logout" THEN None ELSE r
  IN  /\ req[r].pc = "answer"
      /\ cookie' = IF arrives THEN [cookie EXCEPT ![req[r].dev] = token] ELSE cookie
      /\ End(r, "done")
      /\ UNCHANGED <<tables, history, tracker, mailed, now>>

-----------------------------------------------------------------------------
(* Refreshing and closing a session.                                       *)

\* A tab sends the cookie; the request may reach the server much later.
SendCookie(r, op, d) ==
  /\ op \in {"refresh", "logout"} /\ cookie[d] # None
  /\ Start(r, op, "find", [Unused EXCEPT !.dev = d, !.token = cookie[d]])
  /\ UNCHANGED <<tables, history, outside>>

WithHash(token) == {s \in Ids : sessions[s] # None /\ sessions[s].hash = token}
WithPrev(token) == {s \in Ids : sessions[s] # None /\ sessions[s].prev = token}

\* The absolute expiry the code compares next is never earlier than expiresAt.
FindForRefresh(r) ==
  LET found == WithHash(req[r].token)
  IN  /\ At(r, "refresh", "find")
      /\ \/ found = {} /\ Goto(r, "stale")
         \/ \E s \in found :
              IF ~sessions[s].revoked /\ sessions[s].expiresAt >= now
              THEN Become(r, [req[r] EXCEPT !.pc = "owner", !.sid = s])
              ELSE End(r, "failed")
      /\ UNCHANGED <<tables, history, outside>>

ReadOwner(r) ==
  /\ req[r].pc = "owner"
  /\ IF user # None /\ user.id = sessions[req[r].sid].user /\ ~user.blocked
     THEN Become(r, [req[r] EXCEPT !.pc = "rotate", !.row = user]) ELSE End(r, "failed")
  /\ UNCHANGED <<tables, history, outside>>

\* Mutants: a session saved over without comparing; the revocation not compared.
MatchesAny(s, token)    == ~s.revoked
MatchesClosed(s, token) == s.hash = token

Matches(s, token) == s.hash = token /\ ~s.revoked

\* Mutant: the sliding expiry alone.
SlidOnly(s) == now + SlidingTtl

\* Whichever of the sliding and the absolute expiry comes first.
NextExpiry(s) ==
  IF now + SlidingTtl < s.createdAt + AbsoluteTtl THEN now + SlidingTtl ELSE s.createdAt + AbsoluteTtl

Rotate(r) ==
  LET s == req[r].sid
  IN  /\ req[r].pc = "rotate"
      /\ IF Matches(sessions[s], req[r].token)
         THEN /\ sessions' = [sessions EXCEPT
                   ![s] = [@ EXCEPT !.hash = r, !.prev = req[r].token,
                                    !.rotatedAt = now, !.expiresAt = NextExpiry(sessions[s])]]
              /\ Goto(r, "answer")
         ELSE End(r, "failed") /\ UNCHANGED sessions
      /\ UNCHANGED <<user, history, outside>>

\* A token nobody holds: the loser of a race just after a rotation, else a replay.
CheckStale(r) ==
  LET found == WithPrev(req[r].token)
  IN  /\ req[r].pc = "stale"
      /\ \/ found = {} /\ End(r, "failed")
         \/ \E s \in found :
              IF sessions[s].revoked \/ now - sessions[s].rotatedAt <= Grace
              THEN End(r, "failed")
              ELSE Become(r, [req[r] EXCEPT !.pc = "revoke", !.sid = s])
      /\ UNCHANGED <<tables, history, outside>>

RevokeSession(r) ==
  /\ req[r].pc = "revoke"
  /\ sessions' = [sessions EXCEPT ![req[r].sid] = [@ EXCEPT !.revoked = TRUE]]
  /\ IF req[r].op = "logout" THEN Goto(r, "answer") ELSE End(r, "failed")
  /\ UNCHANGED <<user, history, outside>>

FindForLogout(r) ==
  LET found == {s \in WithHash(req[r].token) : ~sessions[s].revoked}
  IN  /\ At(r, "logout", "find")
      /\ \/ found = {} /\ Goto(r, "answer")
         \/ \E s \in found : Become(r, [req[r] EXCEPT !.pc = "revoke", !.sid = s])
      /\ UNCHANGED <<tables, history, outside>>

-----------------------------------------------------------------------------
(* Changing the row of the user: the read, which fixes what will be saved. *)

BeginBlock(r) ==
  /\ user # None /\ ~user.blocked
  /\ Edit(r, "block", "commit", None, [user EXCEPT !.blocked = TRUE])
  /\ UNCHANGED <<tables, history, outside>>

BeginUnblock(r) ==
  /\ user # None /\ user.blocked
  /\ Edit(r, "unblock", "save", None, [user EXCEPT !.blocked = FALSE])
  /\ UNCHANGED <<tables, history, outside>>

BeginApproveAccount(r) ==
  /\ user # None /\ user.role = "business_admin"
  /\ Edit(r, "approve", "save", None, [user EXCEPT !.approval = "approved", !.verified = TRUE])
  /\ UNCHANGED <<tables, history, outside>>

BeginVerify(r, link) ==
  /\ link \in mailed
  /\ user # None /\ user.verifyToken = link
  /\ user.sentAt + VerifyTtl >= now
  /\ Edit(r, "verify", "save", link, [user EXCEPT !.verified = TRUE, !.verifyToken = None])
  /\ UNCHANGED <<tables, history, outside>>

BeginResend(r) ==
  /\ user # None /\ ~user.verified
  /\ now - user.sentAt >= Cooldown
  /\ Edit(r, "resend", "save", None, [user EXCEPT !.verifyToken = r, !.sentAt = now])
  /\ UNCHANGED <<tables, history, outside>>

BeginForgot(r) ==
  /\ user # None /\ user.provider = "local"
  /\ Edit(r, "forgot", "save", None,
          [user EXCEPT !.resetToken = r, !.resetAt = now, !.resetUsed = FALSE])
  /\ UNCHANGED <<tables, history, outside>>

BeginReset(r, link) ==
  /\ link \in mailed
  /\ user # None /\ user.resetToken = link
  /\ user.resetAt + ResetTtl >= now
  /\ ~user.resetUsed /\ user.provider = "local"
  /\ Edit(r, "reset", "revokeAll", link,
          [user EXCEPT !.password = r, !.resetToken = None, !.resetAt = 0, !.resetUsed = TRUE])
  /\ UNCHANGED <<tables, history, outside>>

BeginRegister(r) ==
  /\ user = None
  /\ Edit(r, "register", "save", None, LocalUser(r, "user", "approved", FALSE))
  /\ UNCHANGED <<tables, history, outside>>

BeginRegisterBusiness(r) ==
  /\ user = None
  /\ Edit(r, "registerBusiness", "save", None, LocalUser(r, "business_admin", "pending", FALSE))
  /\ UNCHANGED <<tables, history, outside>>

BeginRegisterGoogle(r) ==
  /\ user = None
  /\ Edit(r, "registerGoogle", "save", None, GoogleUser(r, "business_admin", "pending"))
  /\ UNCHANGED <<tables, history, outside>>

-----------------------------------------------------------------------------
(* Changing the row of the user: the saves, and what follows them.         *)

AfterSave == [unblock |-> "done", approve |-> "done", verify |-> "done", reset |-> "done",
              resend |-> "mail", forgot |-> "mail", register |-> "mail",
              registerBusiness |-> "setup", registerGoogle |-> "setup", google |-> "open"]

\* After its first save a request of a reset link can undo it: it would write
\* again the row it had read.
Undoable(q) == [q EXCEPT !.row = q.write, !.write = q.row]

SaveUser(r) ==
  LET q == req[r] IN
  /\ q.pc = "save"
  /\ \/ /\ Savable(q.write) /\ Overwrite(r)
        /\ raced' = IF q.op = "reset" THEN raced \cup Opening ELSE raced
        /\ LET pc == AfterSave[q.op]
           IN  IF pc = "done" THEN End(r, pc) ELSE Become(r, [Undoable(q) EXCEPT !.pc = pc])
     \/ ~Savable(q.write) /\ End(r, "failed") /\ UNCHANGED <<user, history>>
  /\ UNCHANGED <<sessions, outside>>

RevokeAll(uid) ==
  [s \in Ids |-> IF s \in LiveOf(uid) THEN [sessions[s] EXCEPT !.revoked = TRUE] ELSE sessions[s]]

\* One transaction: the row of the user and the revocation of the sessions.
CommitBlock(r) ==
  /\ req[r].pc = "commit"
  /\ \/ /\ Savable(req[r].write) /\ Overwrite(r)
        /\ sessions' = RevokeAll(req[r].write.id)
        /\ raced' = raced \cup Opening
        /\ End(r, "done")
     \/ ~Savable(req[r].write) /\ End(r, "failed") /\ UNCHANGED <<tables, history>>
  /\ UNCHANGED outside

\* Mutant: the sessions are left open.
KeepSessions(r) ==
  /\ req[r].pc = "revokeAll" /\ Goto(r, "save")
  /\ UNCHANGED <<tables, history, outside>>

\* The sessions are revoked by a call of its own, before the password is saved.
RevokeForReset(r) ==
  /\ req[r].pc = "revokeAll"
  /\ sessions' = RevokeAll(req[r].write.id)
  /\ Goto(r, "save")
  /\ UNCHANGED <<user, history, outside>>

\* The business of a new account, or the first failure on the way to it.
SetUpBusiness(r, created) ==
  /\ req[r].pc = "setup"
  /\ IF ~created THEN Goto(r, "delete")
     ELSE IF req[r].op = "registerGoogle" THEN End(r, "done") ELSE Goto(r, "mail")
  /\ UNCHANGED <<tables, history, outside>>

\* Mutant: the account is left behind for its owner to ask for another link.
LeaveBehind(op) == IF op = "forgot" THEN "restore" ELSE "failed"

AfterMailError(op) ==
  IF op = "forgot" THEN "restore"
  ELSE IF op \in {"register", "registerBusiness"} THEN "delete" ELSE "failed"

\* The provider may fail before or after it has delivered the link.
SendMail(r, delivered, reported) ==
  /\ req[r].pc = "mail"
  /\ reported => delivered
  /\ mailed' = IF delivered THEN mailed \cup {r} ELSE mailed
  /\ IF reported THEN End(r, "done")
     ELSE IF AfterMailError(req[r].op) = "failed" THEN End(r, "failed")
     ELSE Goto(r, AfterMailError(req[r].op))
  /\ UNCHANGED <<tables, history, cookie, tracker, now>>

RestoreLink(r) ==
  /\ req[r].pc = "restore"
  /\ IF Savable(req[r].write) THEN Overwrite(r) ELSE UNCHANGED <<user, clobbered>>
  /\ End(r, "failed")
  /\ UNCHANGED <<sessions, raced, outside>>

\* Deleting a user who has a session violates the foreign key of the session.
DeleteUser(r) ==
  LET uid == req[r].row.id
  IN  /\ req[r].pc = "delete"
      /\ user' = IF user # None /\ user.id = uid /\ HeldBy(uid) = {} THEN None ELSE user
      /\ End(r, "failed")
      /\ UNCHANGED <<sessions, history, outside>>

Tick == /\ now < MaxNow /\ now' = now + 1
        /\ UNCHANGED <<tables, history, cookie, tracker, mailed, req>>

\* What a person may type: an old password, a new one, or (their own id) a wrong one.
Passwords(r) == {Seed, r} \cup {o \in Requests : req[o].op \in {"reset", "register", "registerBusiness"}}

LogIn(r) == \/ \E d \in Devices, pw \in Passwords(r) : BeginLogin(r, d, pw)
            \/ \E d \in Devices : BeginGoogleLogin(r, d)
            \/ FindForLogin(r) \/ Strike(r) \/ OpenSession(r)
            \/ \E arrives \in BOOLEAN : Answer(r, arrives)

UseSession(r) == \/ \E op \in {"refresh", "logout"}, d \in Devices : SendCookie(r, op, d)
                 \/ FindForRefresh(r) \/ ReadOwner(r) \/ Rotate(r) \/ CheckStale(r)
                 \/ RevokeSession(r) \/ FindForLogout(r)

ChangeUser(r) == \/ BeginBlock(r) \/ BeginUnblock(r) \/ BeginApproveAccount(r)
                 \/ \E link \in Ids : BeginVerify(r, link) \/ BeginReset(r, link)
                 \/ BeginResend(r) \/ BeginForgot(r)
                 \/ BeginRegister(r) \/ BeginRegisterBusiness(r) \/ BeginRegisterGoogle(r)

SaveChange(r) == \/ SaveUser(r) \/ CommitBlock(r) \/ RevokeForReset(r)
                 \/ \E created \in BOOLEAN : SetUpBusiness(r, created)
                 \/ \E delivered, reported \in BOOLEAN : SendMail(r, delivered, reported)
                 \/ RestoreLink(r) \/ DeleteUser(r)

Next == Tick \/ \E r \in Requests : LogIn(r) \/ UseSession(r) \/ ChangeUser(r) \/ SaveChange(r)

Spec == Init /\ [][Next]_vars
=============================================================================
