--------------------------- MODULE AccountsProperties ---------------------------
(***************************************************************************)
(* What must hold of an account and its sessions.  Saves of the whole row  *)
(* lose what another request saved in between: "clobbered" says when that  *)
(* has happened, and the promises about the row are stated without it.     *)
(***************************************************************************)
EXTENDS Accounts

\* Of the requests that present one refresh token, however late and from
\* however many tabs, at most one is given a new token (RefreshTokenUseCase,
\* the compare-and-set of PostgresRefreshSessionRepo.rotate).
RedeemedOnce ==
  \A r, o \in Requests :
    /\ req[r].op = "refresh" /\ req[r].pc \in {"answer", "done"}
    /\ req[o].op = "refresh" /\ req[o].pc \in {"answer", "done"}
    /\ req[r].token = req[o].token
    => r = o

\* However often it is refreshed, a session ends at the latest at its absolute
\* age (ABSOLUTE_SESSION_MAX_MS).
AbsoluteAge ==
  \A s \in Ids : sessions[s] # None => sessions[s].expiresAt <= sessions[s].createdAt + AbsoluteTtl

\* A session that was revoked is never in use again: a refresh that had found
\* it open does not bring it back (LogoutUseCase, BlockUserUseCase).
RevokedIsFinal ==
  [][\A s \in Ids : sessions[s] # None /\ sessions[s].revoked => sessions'[s] = sessions[s]]_vars

\* While a user is blocked, the only sessions open are of logins that had
\* already been admitted when the block took effect (BlockUserUseCase).
BlockedOnlyRaced ==
  ~clobbered /\ user # None /\ user.blocked => LiveOf(user.id) \subseteq raced

\* A session opened with a password that is no longer the password belongs to
\* a login that ran beside the reset, after its revocation or before its save
\* (ResetPasswordUseCase revokes in one call and saves in the next).
OldPasswordOnlyRaced ==
  ~clobbered /\ user # None =>
    \A s \in LiveOf(user.id) \cap Requests :
      req[s].op = "login" /\ req[s].pw # user.password => s \in raced

\* A registration that answered with a failure left no account, unless its
\* link arrived after all and the account has been used (RegisterUseCase,
\* RegisterBusinessAccountUseCase).
FailedRegistrationLeavesNothing ==
  \A r \in Requests :
    /\ ~clobbered /\ user # None /\ user.id = r
    /\ req[r].op \in {"register", "registerBusiness", "registerGoogle"} /\ req[r].pc = "failed"
    => HeldBy(r) # {}

\* A failed login that was under way when the lock was set does not lift the
\* lock: only time and a successful login do (recordFailedLoginAttempt).
StrikeKeepsLock ==
  [][\A r \in Requests, i \in Identities :
       req[r].pc = "strike" /\ req'[r].pc = "failed" /\ LockedOut(tracker[i], now)
       => LockedOut(tracker'[i], now)]_vars
=============================================================================
