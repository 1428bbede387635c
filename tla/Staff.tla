---------------------------------- MODULE Staff ----------------------------------
(***************************************************************************)
(* The employees of a business and its QR codes, next to everything that   *)
(* the module Businesses lets happen to the business itself.  One person,  *)
(* Candidate, may be invited; invitations and QR codes are named after the *)
(* requests that create them.                                              *)
(***************************************************************************)
EXTENDS Businesses

CONSTANTS
  Candidate,   \* the person the invitations are for
  JobOps       \* the use cases of this module the instance runs

ASSUME StaffAssumption == Candidate \in Users \ {Owner}

VARIABLES
  invitations, \* table business_employee_invitations: the status of each, or "none"
  over,        \* the invitations whose week has passed
  mailed,      \* the invitations whose link arrived
  role,        \* table users: the role of the person, or "none"
  qrCodes,     \* table business_qr_codes: the status of each, or "none"
  jobs,        \* the requests of this module
  overwritten  \* history: an invitation was saved from a row that had changed

staffVars == <<invitations, over, mailed, role, qrCodes, jobs, overwritten>>

InvitationStates == {"none", "pending", "accepted", "revoked", "expired"}

Job == [op : JobOps \cup {None},
        pc : {"unused", "save", "mail", "account", "user", "employee", "settle", "expire", "withdraw",
              "sessions", "create", "issue", "winner", "done", "failed", "aborted"},
        on : Ids \cup {None},                 \* the invitation it is about
        read : InvitationStates,              \* and the status it read
        role : {"none", "user", "employee"}]  \* the role it read

NoJob == [op |-> None, pc |-> "unused", on |-> None, read |-> "none", role |-> "none"]

StaffTypeOK ==
  /\ invitations \in [Ids -> InvitationStates]
  /\ over \subseteq Ids /\ mailed \subseteq Ids
  /\ role \in {"none", "user", "employee"}
  /\ qrCodes \in [Ids -> {"none", "active", "retiring"}]
  /\ jobs \in [Requests -> Job]
  /\ overwritten \in BOOLEAN

\* Somebody who works here already, or an address that has been invited.
StaffInit ==
  LET employed == Candidate \in employees
      invited  == ~employed /\ business.status = "approved"
  IN  /\ role \in IF employed THEN {"employee"} ELSE {"none", "user"}
      /\ invitations = [i \in Ids |-> IF i = Seed /\ invited THEN "pending" ELSE "none"]
      /\ mailed = IF invited THEN {Seed} ELSE {}
      /\ over = {}
      /\ qrCodes = [c \in Ids |-> IF c = Seed /\ employed THEN "active" ELSE "none"]
      /\ jobs = [r \in Requests |-> NoJob]
      /\ overwritten = FALSE

-----------------------------------------------------------------------------
(* Steps of a request.                                                     *)

Doing(r, op, pc) == jobs[r].op = op /\ jobs[r].pc = pc
Put(r, j)        == jobs' = [jobs EXCEPT ![r] = j]
Move(r, pc)      == Put(r, [jobs[r] EXCEPT !.pc = pc])
Take(r, op, pc, i) ==
  /\ op \in JobOps /\ jobs[r] = NoJob
  /\ Put(r, [NoJob EXCEPT !.op = op, !.pc = pc, !.on = i,
                          !.read = IF i = None THEN "none" ELSE invitations[i]])

invites == <<invitations, over, mailed, overwritten>>
codes   == qrCodes

-----------------------------------------------------------------------------
(* Invitations and employees.                                              *)

BeginInvite(r) ==
  /\ business.status = "approved" /\ Candidate \notin employees
  /\ \A i \in Ids \ over : invitations[i] # "pending"
  /\ Take(r, "invite", "save", None)
  /\ UNCHANGED <<employees, sessions, invites, role, codes>>

SaveInvitation(r) ==
  /\ Doing(r, "invite", "save")
  /\ invitations' = [invitations EXCEPT ![r] = "pending"]
  /\ Move(r, "mail")
  /\ UNCHANGED <<employees, sessions, over, mailed, overwritten, role, codes>>

\* A failure to send fails the request; the invitation stays.
MailInvitation(r, sent) ==
  /\ Doing(r, "invite", "mail")
  /\ mailed' = IF sent THEN mailed \cup {r} ELSE mailed
  /\ Move(r, IF sent THEN "done" ELSE "failed")
  /\ UNCHANGED <<employees, sessions, invitations, over, overwritten, role, codes>>

\* Mutant: an invitation can be used as long as it has not expired.
UsableAgain(status) == status \in {"pending", "accepted"}
Usable(status)      == status = "pending"

BeginAccept(r, i) ==
  /\ i \in mailed /\ Usable(invitations[i])
  /\ business.status = "approved"
  /\ Take(r, "accept", IF i \in over THEN "expire" ELSE "account", i)
  /\ UNCHANGED <<employees, sessions, invites, role, codes>>

FindAccount(r) ==
  /\ jobs[r].pc = "account"
  /\ Put(r, [jobs[r] EXCEPT !.pc = "user", !.role = role])
  /\ UNCHANGED <<employees, sessions, invites, role, codes>>

\* The address is unique: an account created meanwhile makes a second one fail.
SaveAccount(r) ==
  /\ jobs[r].pc = "user"
  /\ IF jobs[r].role = "none" /\ role # "none"
     THEN Move(r, "failed") /\ UNCHANGED role
     ELSE Move(r, "employee") /\ role' = "employee"
  /\ UNCHANGED <<employees, sessions, invites, codes>>

\* An upsert by business and person, so that somebody revoked can come back.
SaveEmployee(r) ==
  /\ jobs[r].pc = "employee"
  /\ employees' = employees \cup {Candidate}
  /\ Move(r, "settle")
  /\ UNCHANGED <<sessions, invites, role, codes>>

BeginCancelInvitation(r, i) ==
  /\ invitations[i] = "pending"
  /\ Take(r, "cancelInvitation", "withdraw", i)
  /\ UNCHANGED <<employees, sessions, invites, role, codes>>

\* Mutant: a status the table does not have.
SettledOtherwise == [settle |-> "accepted", expire |-> "expired", withdraw |-> "cancelled"]

Settled == [settle |-> "accepted", expire |-> "expired", withdraw |-> "revoked"]

\* The whole row is saved, with what the request made of it.
SettleInvitation(r) ==
  LET j == jobs[r] IN
  /\ j.pc \in DOMAIN Settled
  /\ invitations' = [invitations EXCEPT ![j.on] = Settled[j.pc]]
  /\ overwritten' = (overwritten \/ invitations[j.on] # j.read)
  /\ Move(r, IF j.pc = "expire" THEN "failed" ELSE "done")
  /\ UNCHANGED <<employees, sessions, over, mailed, role, codes>>

Lapse(i) ==
  /\ invitations[i] # "none" /\ i \notin over
  /\ over' = over \cup {i}
  /\ UNCHANGED <<employees, sessions, invitations, mailed, overwritten, role, codes, jobs>>

RevokeEmployee(r) ==
  /\ Candidate \in employees
  /\ Take(r, "revoke", "sessions", None)
  /\ employees' = employees \ {Candidate}
  /\ UNCHANGED <<sessions, invites, role, codes>>

\* A call of its own; rows held by the transaction of a suspension are waited for.
CloseSessions(r) ==
  LET theirs == {s \in sessions : s.user = Candidate}
  IN  /\ Doing(r, "revoke", "sessions")
      /\ lock # None => theirs \cap req[lock].closed = {}
      /\ sessions' = sessions \ theirs
      /\ Move(r, "done")
      /\ UNCHANGED <<employees, invites, role, codes>>

-----------------------------------------------------------------------------
(* QR codes.                                                               *)

ActiveCodes == {c \in Ids : qrCodes[c] = "active"}

\* Mutant: several active codes are allowed.
AnyCode == TRUE

\* The partial unique index on the active code of a business.
CodeFits == ActiveCodes = {}

GetCode(r) ==
  /\ business.status = "approved"
  /\ Take(r, "getCode", IF ActiveCodes = {} THEN "create" ELSE "done", None)
  /\ UNCHANGED <<employees, sessions, invites, role, codes>>

\* Regenerating retires first, and issues the new code in a call of its own.
RetireCodes(r) ==
  /\ business.status = "approved"
  /\ Take(r, "regenerate", "issue", None)
  /\ qrCodes' = [c \in Ids |-> IF c \in ActiveCodes THEN "retiring" ELSE qrCodes[c]]
  /\ UNCHANGED <<employees, sessions, invites, role>>

\* A code that does not fit any more: getting one reads the winner's instead.
InsertCode(r) ==
  /\ jobs[r].pc \in {"create", "issue"}
  /\ \/ CodeFits /\ qrCodes' = [qrCodes EXCEPT ![r] = "active"] /\ Move(r, "done")
     \/ /\ ~CodeFits /\ UNCHANGED qrCodes
        /\ Move(r, IF jobs[r].pc = "create" THEN "winner" ELSE "failed")
  /\ UNCHANGED <<employees, sessions, invites, role>>

ReadWinner(r) ==
  /\ jobs[r].pc = "winner"
  /\ Move(r, IF ActiveCodes = {} THEN "failed" ELSE "done")
  /\ UNCHANGED <<employees, sessions, invites, role, codes>>

\* The database fails or the process stops.
AbortJob(r) ==
  /\ jobs[r].pc \notin {"unused", "done", "failed", "aborted"}
  /\ Move(r, "aborted")
  /\ UNCHANGED <<employees, sessions, invites, role, codes>>

Manage(r) ==
  \/ BeginInvite(r) \/ SaveInvitation(r) \/ \E sent \in BOOLEAN : MailInvitation(r, sent)
  \/ \E i \in Ids : BeginAccept(r, i) \/ BeginCancelInvitation(r, i)
  \/ FindAccount(r) \/ SaveAccount(r) \/ SaveEmployee(r) \/ SettleInvitation(r)
  \/ RevokeEmployee(r) \/ CloseSessions(r)
  \/ GetCode(r) \/ RetireCodes(r) \/ InsertCode(r) \/ ReadWinner(r) \/ AbortJob(r)

-----------------------------------------------------------------------------
(* The composition: a request is of one module or of the other.            *)

rest == <<business, turns, report, hours, approval, lock, req, history, clobbered>>

PanelInit == Init /\ StaffInit

PanelNext ==
  \/ \E r \in Requests : jobs[r] = NoJob /\ Step(r) /\ UNCHANGED staffVars
  \/ \E r \in Requests : req[r] = Unused /\ Manage(r) /\ UNCHANGED rest
  \/ \E i \in Ids : Lapse(i) /\ UNCHANGED rest

PanelSpec == PanelInit /\ [][PanelNext]_<<vars, staffVars>>
=============================================================================
