------------------------------ MODULE StaffProofs ------------------------------
(***************************************************************************)
(* The panel of a business: its employees and QR codes next to the         *)
(* business itself.  What Staff does is, for Businesses, a step of somebody *)
(* else's, so that the invariant proved there carries over; what is left   *)
(* is an invariant of the invitations and one of the codes.                *)
(***************************************************************************)
EXTENDS StaffProperties, BusinessesProofs

\* What a request holds at each of its steps.
JobHolds(j) ==
  /\ j.pc \in {"account", "user", "employee", "settle", "expire"} => j.op = "accept"
  /\ j.pc = "withdraw" => j.op = "cancelInvitation"
  /\ j.pc \in {"account", "user", "employee", "settle", "expire", "withdraw"} => j.read = "pending"
  /\ j.pc # "unused" /\ j.op \in {"accept", "cancelInvitation"} => j.on \in Ids
  /\ j.pc \in {"save", "mail"} => j.op = "invite"
  /\ j.pc \in {"create", "winner"} => j.op = "getCode"
  /\ j.pc = "issue" => j.op = "regenerate"
  /\ j.pc = "sessions" => j.op = "revoke"

Over == {"done", "failed", "aborted"}

\* One that has settled its invitation.
Settles(r) == jobs[r].op \in {"accept", "cancelInvitation"} /\ jobs[r].pc = "done"

\* An invitation is there for good: nobody settles one that is not, and nobody
\* has settled one that waits, unless it was overwritten.
InvitesInv ==
  /\ \A r \in Requests : JobHolds(jobs[r])
  /\ \A r \in Requests : invitations[r] # "none" => jobs[r].pc \in Over \cup {"mail"}
  /\ \A r \in Requests : jobs[r].on \in Ids => invitations[jobs[r].on] # "none"
  /\ ~overwritten => \A r \in Requests : Settles(r) => invitations[jobs[r].on] # "pending"
  /\ InvitationSettledOnce

Regenerating(r) == jobs[r].op = "regenerate" /\ jobs[r].pc \in {"issue", "aborted"}

\* At most one code is active, and one is unless it is being regenerated.
CodesInv ==
  /\ \A c, d \in ActiveCodes : c = d
  /\ (\E c \in Ids : qrCodes[c] # "none") => ActiveCodes # {} \/ \E r \in Requests : Regenerating(r)

SInv == StaffTypeOK /\ InvitesInv /\ CodesInv

-----------------------------------------------------------------------------
(* A step of the staff is a step of somebody else's.                       *)

\* Who works here changes, and only the candidate's sessions are closed.
LEMMA ManageOutside ==
  ASSUME BInv1, NEW r \in Requests, Manage(r), UNCHANGED rest
  PROVE  Outside
<1>0. employees \subseteq Users /\ Candidate \in Users /\ Candidate # Owner
  BY StaffAssumption DEF BInv1, TypeOK
<1>1. CASE UNCHANGED <<employees, sessions>>
  BY <1>0, <1>1 DEF Outside, rest
<1>2. CASE SaveEmployee(r)
  BY <1>0, <1>2 DEF SaveEmployee, Outside, rest
<1>3. CASE RevokeEmployee(r)
  BY <1>0, <1>3 DEF RevokeEmployee, Outside, rest
<1>4. CASE CloseSessions(r)
  <2>1. employees' = employees /\ sessions' = sessions \ {s \in sessions : s.user = Candidate}
    BY <1>4 DEF CloseSessions
  <2>. QED
    BY <1>0, <2>1 DEF Outside, rest
<1>. QED
  <2>1. \A sent \in BOOLEAN : MailInvitation(r, sent) => UNCHANGED <<employees, sessions>>
    BY DEF MailInvitation
  <2>2. \A i \in Ids : BeginAccept(r, i) \/ BeginCancelInvitation(r, i) => UNCHANGED <<employees, sessions>>
    BY DEF BeginAccept, BeginCancelInvitation
  <2>3. BeginInvite(r) \/ SaveInvitation(r) \/ FindAccount(r) \/ SaveAccount(r) \/ SettleInvitation(r)
        \/ GetCode(r) \/ RetireCodes(r) \/ InsertCode(r) \/ ReadWinner(r) \/ AbortJob(r)
        => UNCHANGED <<employees, sessions>>
    BY DEF BeginInvite, SaveInvitation, FindAccount, SaveAccount, SettleInvitation, GetCode,
           RetireCodes, InsertCode, ReadWinner, AbortJob
  <2>. QED
    BY <1>1, <1>2, <1>3, <1>4, <2>1, <2>2, <2>3 DEF Manage

LEMMA PanelSteps ==
  ASSUME BInv1, [PanelNext]_<<vars, staffVars>>
  PROVE  BNext
<1>1. ASSUME NEW i \in Ids, Lapse(i), UNCHANGED rest
      PROVE  UNCHANGED vars
  BY <1>1 DEF Lapse, rest, vars, approval, history
<1>. QED
  BY <1>1, ManageOutside DEF PanelNext, BNext

-----------------------------------------------------------------------------
(* The requests of the staff.                                              *)

\* What a request has become after a step of its own.
Goes(r, j) ==
  /\ j \in Job /\ JobHolds(j)
  /\ j.on \in Ids => invitations[j.on] # "none"
  /\ jobs[r].pc \notin Over
  /\ jobs[r].pc = "mail" => j.pc \in Over
  /\ j.op \in {"accept", "cancelInvitation"} /\ j.pc = "done" =>
       SettleInvitation(r) /\ j.on = jobs[r].on
  /\ Regenerating(r) =>
       InsertCode(r) \/ (j.op = "regenerate" /\ j.pc = "aborted" /\ UNCHANGED qrCodes)

Runs(r) == \E j : Put(r, j) /\ Goes(r, j)

LEMMA NoJobFields ==
  /\ NoJob \in Job /\ NoJob.pc = "unused" /\ NoJob.on = None /\ NoJob.op = None
  /\ None \notin Ids
BY BusinessesAssumption DEF NoJob, Job, InvitationStates, Ids

\* A request that begins reads the invitation it is about.
LEMMA TakeRuns ==
  ASSUME StaffTypeOK, NEW r \in Requests, NEW op, NEW i \in Ids \cup {None},
         NEW pc \in {"save", "account", "expire", "withdraw", "sessions", "create", "issue", "done"},
         Take(r, op, pc, i),
         pc = "save" => op = "invite" /\ i = None,
         pc \in {"account", "expire"} => op = "accept" /\ i \in Ids /\ invitations[i] = "pending",
         pc = "withdraw" => op = "cancelInvitation" /\ i \in Ids /\ invitations[i] = "pending",
         pc = "sessions" => op = "revoke" /\ i = None,
         pc = "create" => op = "getCode" /\ i = None,
         pc = "issue" => op = "regenerate" /\ i = None,
         pc = "done" => op = "getCode" /\ i = None
  PROVE  Runs(r)
<1>. DEFINE read == IF i = None THEN "none" ELSE invitations[i]
            j == [NoJob EXCEPT !.op = op, !.pc = pc, !.on = i, !.read = read]
<1>1. Put(r, j) /\ op \in JobOps /\ jobs[r].pc = "unused"
  BY NoJobFields DEF Take
<1>2. read \in InvitationStates /\ (i \in Ids => read = invitations[i])
  BY NoJobFields DEF StaffTypeOK, InvitationStates
<1>. HIDE DEF read
<1>3. j \in Job /\ j.op = op /\ j.pc = pc /\ j.on = i /\ j.read = read
  BY <1>1, <1>2, NoJobFields DEF Job
<1>. HIDE DEF j
<1>4. JobHolds(j)
  BY <1>2, <1>3 DEF JobHolds
<1>5. j.on \in Ids => invitations[j.on] # "none"
  BY <1>3, NoJobFields
<1>6. ~Regenerating(r)
  BY <1>1 DEF Regenerating
<1>7. ~(j.op \in {"accept", "cancelInvitation"} /\ j.pc = "done")
  BY <1>3
<1>8. jobs[r].pc \notin Over /\ jobs[r].pc # "mail"
  BY <1>1 DEF Over
<1>9. Goes(r, j)
  BY <1>3, <1>4, <1>5, <1>6, <1>7, <1>8 DEF Goes
<1>. QED
  BY <1>1, <1>9 DEF Runs

\* A request that goes on stays about what it was about.
LEMMA PutRuns ==
  ASSUME StaffTypeOK, InvitesInv, NEW r \in Requests, NEW j \in Job, Put(r, j),
         j.op = jobs[r].op, j.on = jobs[r].on, j.read = jobs[r].read,
         jobs[r].pc \notin Over, jobs[r].pc # "unused",
         \/ j.pc \in Over
         \/ <<jobs[r].pc, j.pc>> \in {<<"save", "mail">>, <<"account", "user">>, <<"user", "employee">>,
                                      <<"employee", "settle">>, <<"create", "winner">>},
         j.pc = "done" => jobs[r].pc \in {"mail", "sessions", "create", "issue", "winner"} \/ SettleInvitation(r),
         Regenerating(r) => InsertCode(r) \/ (j.pc = "aborted" /\ UNCHANGED qrCodes)
  PROVE  Runs(r)
<1>1. JobHolds(jobs[r]) /\ (j.on \in Ids => invitations[j.on] # "none")
  BY DEF InvitesInv
<1>2. JobHolds(j)
  BY <1>1 DEF JobHolds, Over
<1>3. j.op \in {"accept", "cancelInvitation"} /\ j.pc = "done" => SettleInvitation(r)
  BY <1>1 DEF JobHolds
<1>4. jobs[r].pc = "mail" => j.pc \in Over
  OBVIOUS
<1>5. Goes(r, j)
  BY <1>1, <1>2, <1>3, <1>4 DEF Goes, Regenerating
<1>. QED
  BY <1>5 DEF Runs

\* Every step of the staff is one or the other.
LEMMA ManageRuns ==
  ASSUME StaffTypeOK, InvitesInv, NEW r \in Requests, Manage(r)
  PROVE  Runs(r)
<1>0. /\ jobs[r] \in Job /\ JobHolds(jobs[r]) /\ None \in Ids \cup {None}
      /\ qrCodes \in [Ids -> {"none", "active", "retiring"}]
  BY DEF StaffTypeOK, InvitesInv
<1>a. ASSUME NEW pc \in {"mail", "employee", "settle", "winner", "done", "failed", "aborted"}
      PROVE  LET j == [jobs[r] EXCEPT !.pc = pc]
             IN  /\ j \in Job /\ j.pc = pc /\ j.op = jobs[r].op /\ j.on = jobs[r].on
                 /\ j.read = jobs[r].read
  BY <1>0 DEF Job
<1>1. BeginInvite(r) => Runs(r)
  BY <1>0, TakeRuns DEF BeginInvite
<1>2. ASSUME NEW i \in Ids, BeginAccept(r, i)
      PROVE  Runs(r)
  <2>1. PICK pc \in {"expire", "account"} : Take(r, "accept", pc, i) /\ invitations[i] = "pending"
    BY <1>2 DEF BeginAccept, Usable
  <2>. QED
    BY <2>1, TakeRuns
<1>3. ASSUME NEW i \in Ids, BeginCancelInvitation(r, i)
      PROVE  Runs(r)
  BY <1>3, TakeRuns DEF BeginCancelInvitation
<1>4. RevokeEmployee(r) => Runs(r)
  BY <1>0, TakeRuns DEF RevokeEmployee
<1>5. ASSUME GetCode(r)
      PROVE  Runs(r)
  <2>1. PICK pc \in {"create", "done"} : Take(r, "getCode", pc, None)
    BY <1>5 DEF GetCode
  <2>. QED
    BY <1>0, <2>1, TakeRuns
<1>6. RetireCodes(r) => Runs(r)
  BY <1>0, TakeRuns DEF RetireCodes
<1>7. ASSUME FindAccount(r)
      PROVE  Runs(r)
  <2>. DEFINE j == [jobs[r] EXCEPT !.pc = "user", !.role = role]
  <2>1. Put(r, j) /\ jobs[r].pc = "account"
    BY <1>7 DEF FindAccount
  <2>2. j \in Job /\ j.pc = "user" /\ j.op = jobs[r].op /\ j.on = jobs[r].on /\ j.read = jobs[r].read
    BY <1>0 DEF Job, StaffTypeOK
  <2>. HIDE DEF j
  <2>3. ~Regenerating(r) /\ jobs[r].pc \notin Over /\ <<jobs[r].pc, j.pc>> = <<"account", "user">>
    BY <2>1, <2>2 DEF Regenerating, Over
  <2>. QED
    BY <2>1, <2>2, <2>3, PutRuns DEF Over
<1>8. ASSUME NEW pc \in {"mail", "employee", "settle", "winner", "done", "failed", "aborted"}, Move(r, pc),
             jobs[r].pc \notin Over, jobs[r].pc # "unused",
             \/ pc \in Over
             \/ <<jobs[r].pc, pc>> \in {<<"save", "mail">>, <<"account", "user">>, <<"user", "employee">>,
                                        <<"employee", "settle">>, <<"create", "winner">>},
             pc = "done" => jobs[r].pc \in {"mail", "sessions", "create", "issue", "winner"}
                            \/ SettleInvitation(r),
             Regenerating(r) => InsertCode(r) \/ (pc = "aborted" /\ UNCHANGED qrCodes)
      PROVE  Runs(r)
  <2>. DEFINE j == [jobs[r] EXCEPT !.pc = pc]
  <2>1. Put(r, j)
    BY <1>8 DEF Move
  <2>2. j \in Job /\ j.pc = pc /\ j.op = jobs[r].op /\ j.on = jobs[r].on /\ j.read = jobs[r].read
    BY <1>a
  <2>. HIDE DEF j
  <2>. QED
    BY <1>8, <2>1, <2>2, PutRuns
<1>9. SaveInvitation(r) => Runs(r)
  BY <1>8 DEF SaveInvitation, Doing, Over, Regenerating
<1>10. ASSUME NEW sent \in BOOLEAN, MailInvitation(r, sent)
       PROVE  Runs(r)
  <2>1. PICK pc \in {"done", "failed"} : Move(r, pc) /\ jobs[r].pc = "mail"
    BY <1>10 DEF MailInvitation, Doing
  <2>. QED
    BY <1>8, <2>1 DEF Over, Regenerating
<1>11. ASSUME SaveAccount(r)
       PROVE  Runs(r)
  <2>1. PICK pc \in {"employee", "failed"} : Move(r, pc) /\ jobs[r].pc = "user"
    BY <1>11 DEF SaveAccount
  <2>. QED
    BY <1>8, <2>1 DEF Over, Regenerating
<1>12. SaveEmployee(r) => Runs(r)
  BY <1>8 DEF SaveEmployee, Over, Regenerating
<1>13. ASSUME SettleInvitation(r)
       PROVE  Runs(r)
  <2>1. PICK pc \in {"done", "failed"} : Move(r, pc) /\ jobs[r].pc \in {"settle", "expire", "withdraw"}
    BY <1>13 DEF SettleInvitation, Settled
  <2>. QED
    BY <1>8, <1>13, <2>1 DEF Over, Regenerating
<1>14. CloseSessions(r) => Runs(r)
  BY <1>8 DEF CloseSessions, Doing, Over, Regenerating
<1>15. ASSUME InsertCode(r)
       PROVE  Runs(r)
  <2>1. PICK pc \in {"done", "winner", "failed"} : Move(r, pc) /\ jobs[r].pc \in {"create", "issue"}
                                                  /\ (pc = "winner" => jobs[r].pc = "create")
    BY <1>15 DEF InsertCode
  <2>. QED
    BY <1>8, <1>15, <2>1 DEF Over
<1>16. ASSUME ReadWinner(r)
       PROVE  Runs(r)
  <2>1. PICK pc \in {"done", "failed"} : Move(r, pc) /\ jobs[r].pc = "winner"
    BY <1>16 DEF ReadWinner
  <2>. QED
    BY <1>8, <2>1 DEF Over, Regenerating
<1>17. AbortJob(r) => Runs(r)
  BY <1>8 DEF AbortJob, Over, codes
<1>. QED
  BY <1>1, <1>2, <1>3, <1>4, <1>5, <1>6, <1>7, <1>9, <1>10, <1>11, <1>12, <1>13, <1>14, <1>15, <1>16, <1>17
     DEF Manage

-----------------------------------------------------------------------------
(* The tables of the staff.                                                *)

LEMMA WhoWrites ==
  ASSUME NEW r \in Requests, Manage(r)
  PROVE  /\ UNCHANGED <<invitations, overwritten>> \/ SaveInvitation(r) \/ SettleInvitation(r)
         /\ UNCHANGED qrCodes \/ RetireCodes(r) \/ InsertCode(r)
         /\ over' = over /\ (mailed' = mailed \/ mailed' = mailed \cup {r})
         /\ role' \in {role, "employee"}
<1>1. \A sent \in BOOLEAN : MailInvitation(r, sent) =>
        UNCHANGED <<invitations, overwritten, qrCodes, over, role>> /\ mailed' \in {mailed, mailed \cup {r}}
  BY DEF MailInvitation, codes
<1>2. \A i \in Ids : BeginAccept(r, i) \/ BeginCancelInvitation(r, i) =>
        UNCHANGED <<invitations, overwritten, qrCodes, over, role, mailed>>
  BY DEF BeginAccept, BeginCancelInvitation, codes, invites
<1>3. BeginInvite(r) \/ FindAccount(r) \/ SaveEmployee(r) \/ RevokeEmployee(r) \/ CloseSessions(r)
      \/ GetCode(r) \/ ReadWinner(r) \/ AbortJob(r) =>
        UNCHANGED <<invitations, overwritten, qrCodes, over, role, mailed>>
  BY DEF BeginInvite, FindAccount, SaveEmployee, RevokeEmployee, CloseSessions, GetCode, ReadWinner,
         AbortJob, codes, invites
<1>4. SaveAccount(r) => UNCHANGED <<invitations, overwritten, qrCodes, over, mailed>> /\ role' \in {role, "employee"}
  BY DEF SaveAccount, codes, invites
<1>5. SaveInvitation(r) \/ SettleInvitation(r) => UNCHANGED <<qrCodes, over, role, mailed>>
  BY DEF SaveInvitation, SettleInvitation, codes
<1>6. RetireCodes(r) \/ InsertCode(r) => UNCHANGED <<invitations, overwritten, over, role, mailed>>
  BY DEF RetireCodes, InsertCode, invites
<1>. QED
  BY <1>1, <1>2, <1>3, <1>4, <1>5, <1>6 DEF Manage

\* An invitation is created waiting and, once there, never goes away; what
\* settles it has found it waiting.
LEMMA Invitations ==
  ASSUME StaffTypeOK, InvitesInv, NEW r \in Requests, Manage(r)
  PROVE  /\ invitations' \in [Ids -> InvitationStates]
         /\ \A i \in Ids : invitations[i] # "none" => invitations'[i] # "none"
         /\ overwritten' \in BOOLEAN /\ (overwritten => overwritten')
         /\ \A i \in Ids : invitations'[i] # invitations[i] =>
              \/ i = r /\ SaveInvitation(r) /\ invitations[i] = "none"
              \/ /\ i = jobs[r].on /\ SettleInvitation(r) /\ invitations'[i] # "pending"
                 /\ ~overwritten' => invitations[i] = "pending"
         /\ SettleInvitation(r) =>
              /\ jobs[r].on \in Ids /\ invitations'[jobs[r].on] # "pending"
              /\ ~overwritten' => invitations[jobs[r].on] = "pending"
<1>0. /\ invitations \in [Ids -> InvitationStates] /\ overwritten \in BOOLEAN /\ r \in Ids
      /\ JobHolds(jobs[r])
  BY DEF StaffTypeOK, InvitesInv, Ids
<1>1. CASE UNCHANGED <<invitations, overwritten>> /\ ~SettleInvitation(r)
  BY <1>0, <1>1
<1>2. CASE SaveInvitation(r)
  <2>1. /\ invitations' = [invitations EXCEPT ![r] = "pending"] /\ overwritten' = overwritten
        /\ jobs[r].pc = "save"
    BY <1>2 DEF SaveInvitation, Doing
  <2>2. invitations[r] = "none"
    BY <2>1 DEF InvitesInv, Over
  <2>3. ~SettleInvitation(r)
    BY <2>1 DEF SettleInvitation, Settled
  <2>. QED
    BY <1>0, <1>2, <2>1, <2>2, <2>3 DEF InvitationStates
<1>3. CASE SettleInvitation(r)
  <2>1. PICK st \in {"accepted", "expired", "revoked"} :
          invitations' = [invitations EXCEPT ![jobs[r].on] = st]
    <3>1. /\ jobs[r].pc \in DOMAIN Settled
          /\ invitations' = [invitations EXCEPT ![jobs[r].on] = Settled[jobs[r].pc]]
      BY <1>3 DEF SettleInvitation
    <3>2. Settled[jobs[r].pc] \in {"accepted", "expired", "revoked"}
      BY <3>1 DEF Settled
    <3>. QED
      BY <3>1, <3>2
  <2>2. /\ jobs[r].pc \in {"settle", "expire", "withdraw"}
        /\ overwritten' = (overwritten \/ invitations[jobs[r].on] # jobs[r].read)
    BY <1>3 DEF SettleInvitation, Settled
  <2>3. jobs[r].on \in Ids /\ jobs[r].read = "pending" /\ invitations[jobs[r].on] # "none"
    BY <1>0, <2>2 DEF JobHolds, InvitesInv
  <2>4. overwritten' \in BOOLEAN /\ (overwritten => overwritten')
        /\ (~overwritten' => invitations[jobs[r].on] = "pending")
    BY <1>0, <2>2, <2>3
  <2>5. /\ invitations' \in [Ids -> InvitationStates]
        /\ invitations'[jobs[r].on] = st
        /\ \A i \in Ids : i # jobs[r].on => invitations'[i] = invitations[i]
    BY <1>0, <2>1, <2>3 DEF InvitationStates
  <2>. QED
    BY <1>3, <2>3, <2>4, <2>5
<1>. QED
  BY <1>1, <1>2, <1>3, WhoWrites

LEMMA NextInvites ==
  ASSUME StaffTypeOK, InvitesInv, NEW r \in Requests, Manage(r)
  PROVE  InvitesInv' /\ jobs' \in [Requests -> Job]
<1>1. PICK j : Put(r, j) /\ Goes(r, j)
  BY ManageRuns DEF Runs
<1>2. /\ jobs' \in [Requests -> Job] /\ jobs'[r] = j
      /\ \A o \in Requests : o # r => jobs'[o] = jobs[o]
  BY <1>1 DEF Put, Goes, StaffTypeOK
<1>3. \A o \in Requests : JobHolds(jobs'[o])
  BY <1>1, <1>2 DEF Goes, InvitesInv
<1>4. /\ \A i \in Ids : invitations[i] # "none" => invitations'[i] # "none"
      /\ (overwritten => overwritten') /\ r \in Ids
      /\ \A i \in Ids : invitations'[i] # invitations[i] =>
           \/ i = r /\ SaveInvitation(r) /\ invitations[i] = "none"
           \/ /\ i = jobs[r].on /\ SettleInvitation(r) /\ invitations'[i] # "pending"
              /\ ~overwritten' => invitations[i] = "pending"
      /\ SettleInvitation(r) =>
           /\ jobs[r].on \in Ids /\ invitations'[jobs[r].on] # "pending"
           /\ ~overwritten' => invitations[jobs[r].on] = "pending"
  BY Invitations DEF Ids
<1>5. ASSUME NEW o \in Requests, jobs'[o].on \in Ids
      PROVE  invitations'[jobs'[o].on] # "none"
  BY <1>1, <1>2, <1>4, <1>5 DEF Goes, InvitesInv
<1>6. ASSUME NEW o \in Requests, invitations'[o] # "none"
      PROVE  jobs'[o].pc \in Over \cup {"mail"}
  <2>1. CASE invitations[o] # "none"
    BY <1>1, <1>2, <2>1 DEF InvitesInv, Goes
  <2>2. CASE invitations[o] = "none"
    <3>1. o \in Ids
      BY DEF Ids
    <3>2. \/ o = r /\ SaveInvitation(r)
          \/ o = jobs[r].on /\ SettleInvitation(r)
      BY <1>4, <1>6, <2>2, <3>1
    <3>3. CASE SettleInvitation(r) /\ o = jobs[r].on
      BY <2>2, <3>1, <3>3 DEF InvitesInv
    <3>4. CASE SaveInvitation(r) /\ o = r
      <4>1. jobs'[r] = [jobs[r] EXCEPT !.pc = "mail"]
        BY <3>4 DEF SaveInvitation, Move, Put, StaffTypeOK
      <4>2. jobs[r] \in Job
        BY DEF StaffTypeOK
      <4>. QED
        BY <3>4, <4>1, <4>2 DEF Job
    <3>. QED
      BY <3>2, <3>3, <3>4
  <2>. QED
    BY <2>1, <2>2
<1>7. \A o \in Requests : jobs[o].pc = "done" => o # r
  BY <1>1 DEF Goes, Over
<1>8. \A o \in Requests : Settles(o)' =>
        /\ jobs'[o].on \in Ids
        /\ \/ o = r /\ SettleInvitation(r) /\ jobs'[o].on = jobs[r].on
           \/ o # r /\ Settles(o) /\ jobs'[o].on = jobs[o].on
  BY <1>1, <1>2, <1>3 DEF Settles, Goes, JobHolds
<1>9. ASSUME ~overwritten', NEW o \in Requests, Settles(o)'
      PROVE  invitations'[jobs'[o].on] # "pending"
  <2>1. CASE o = r
    BY <1>4, <1>8, <1>9, <2>1
  <2>2. CASE o # r
    <3>1. Settles(o) /\ jobs'[o].on = jobs[o].on /\ jobs[o].on \in Ids
      BY <1>8, <1>9, <2>2
    <3>2. invitations[jobs[o].on] # "pending" /\ invitations[jobs[o].on] # "none"
      BY <1>4, <1>9, <3>1 DEF InvitesInv
    <3>. QED
      BY <1>4, <1>9, <3>1, <3>2
  <2>. QED
    BY <2>1, <2>2
<1>10. ASSUME ~overwritten', NEW o \in Requests, NEW p \in Requests, Settles(o)', Settles(p)',
              jobs'[o].on = jobs'[p].on
       PROVE  o = p
  <2>0. ~overwritten
    BY <1>4, <1>10
  <2>1. ASSUME NEW u \in Requests, NEW v \in Requests, Settles(u)', Settles(v)', jobs'[u].on = jobs'[v].on,
               u = r
        PROVE  v = r
    <3>1. SettleInvitation(r) /\ invitations[jobs[r].on] = "pending" /\ jobs'[u].on = jobs[r].on
      BY <1>4, <1>8, <1>10, <2>1
    <3>2. v # r => Settles(v) /\ jobs[v].on = jobs[r].on
      BY <1>8, <2>1, <3>1
    <3>. QED
      BY <2>0, <3>1, <3>2 DEF InvitesInv
  <2>2. CASE o # r /\ p # r
    <3>1. Settles(o) /\ Settles(p) /\ jobs[o].on = jobs[p].on
      BY <1>8, <1>10, <2>2
    <3>. QED
      BY <2>0, <3>1 DEF InvitesInv, InvitationSettledOnce, Settles
  <2>. QED
    BY <1>10, <2>1, <2>2
<1>11. InvitationSettledOnce'
  BY <1>10 DEF InvitationSettledOnce, Settles
<1>. QED
  BY <1>2, <1>3, <1>5, <1>6, <1>9, <1>11 DEF InvitesInv

\* Retiring leaves no active code and a regeneration that has still to issue
\* one; issuing is refused where there is one.
LEMMA NextCodes ==
  ASSUME StaffTypeOK, InvitesInv, CodesInv, NEW r \in Requests, Manage(r)
  PROVE  CodesInv' /\ qrCodes' \in [Ids -> {"none", "active", "retiring"}]
<1>0. qrCodes \in [Ids -> {"none", "active", "retiring"}] /\ r \in Ids /\ jobs[r] \in Job
  BY DEF StaffTypeOK, Ids
<1>1. PICK j : Put(r, j) /\ Goes(r, j)
  BY ManageRuns DEF Runs
<1>2. jobs'[r] = j /\ \A o \in Requests : o # r => jobs'[o] = jobs[o]
  BY <1>1 DEF Put, StaffTypeOK
<1>3. CASE UNCHANGED qrCodes /\ ~InsertCode(r)
  <2>1. ActiveCodes' = ActiveCodes
    BY <1>3 DEF ActiveCodes
  <2>2. \A o \in Requests : Regenerating(o) => Regenerating(o)'
    BY <1>1, <1>2, <1>3 DEF Goes, Regenerating
  <2>3. (\E o \in Requests : Regenerating(o)) => \E o \in Requests : Regenerating(o)'
    BY <2>2
  <2>. QED
    BY <1>0, <1>3, <2>1, <2>3 DEF CodesInv
<1>4. CASE RetireCodes(r)
  <2>1. qrCodes' = [c \in Ids |-> IF c \in ActiveCodes THEN "retiring" ELSE qrCodes[c]]
    BY <1>4 DEF RetireCodes
  <2>2. ActiveCodes' = {}
    BY <2>1 DEF ActiveCodes
  <2>3. jobs'[r].op = "regenerate" /\ jobs'[r].pc = "issue"
    BY <1>4 DEF RetireCodes, Take, Put, StaffTypeOK, NoJob
  <2>4. \E o \in Requests : Regenerating(o)'
    BY <2>3 DEF Regenerating
  <2>. QED
    BY <1>0, <2>1, <2>2, <2>4 DEF CodesInv
<1>5. CASE InsertCode(r) /\ CodeFits /\ qrCodes' = [qrCodes EXCEPT ![r] = "active"]
  <2>1. ActiveCodes' = {r}
    BY <1>0, <1>5 DEF ActiveCodes, CodeFits
  <2>2. qrCodes' \in [Ids -> {"none", "active", "retiring"}]
    BY <1>0, <1>5
  <2>. QED
    BY <2>1, <2>2 DEF CodesInv
<1>6. CASE ~CodeFits /\ UNCHANGED qrCodes
  <2>1. ActiveCodes' = ActiveCodes /\ ActiveCodes # {}
    BY <1>6 DEF ActiveCodes, CodeFits
  <2>. QED
    BY <1>0, <1>6, <2>1 DEF CodesInv
<1>. QED
  BY <1>3, <1>4, <1>5, <1>6, WhoWrites DEF InsertCode

-----------------------------------------------------------------------------
(* The invariant of the panel.                                             *)

LEMMA SInvInit ==
  ASSUME Init, StaffInit
  PROVE  SInv
<1>0. Seed \in Ids /\ Seed \notin Requests /\ None \notin Ids
  BY BusinessesAssumption DEF Ids
<1>1. \A r \in Requests : jobs[r] = NoJob
  BY DEF StaffInit
<1>2. PICK invited \in BOOLEAN :
        invitations = [i \in Ids |-> IF i = Seed /\ invited THEN "pending" ELSE "none"]
  BY DEF StaffInit
<1>3. PICK employed \in BOOLEAN :
        qrCodes = [c \in Ids |-> IF c = Seed /\ employed THEN "active" ELSE "none"]
  BY DEF StaffInit
<1>4. StaffTypeOK
  <2>1. jobs \in [Requests -> Job]
    BY NoJobFields DEF StaffInit
  <2>2. invitations \in [Ids -> InvitationStates]
    BY <1>2 DEF InvitationStates
  <2>3. qrCodes \in [Ids -> {"none", "active", "retiring"}]
    BY <1>3
  <2>4. over \subseteq Ids /\ mailed \subseteq Ids /\ overwritten \in BOOLEAN
        /\ role \in {"none", "user", "employee"}
    BY <1>0 DEF StaffInit
  <2>. QED
    BY <2>1, <2>2, <2>3, <2>4 DEF StaffTypeOK
<1>5. InvitesInv
  <2>1. \A r \in Requests : JobHolds(jobs[r]) /\ ~Settles(r) /\ jobs[r].on \notin Ids
    BY <1>0, <1>1, NoJobFields DEF JobHolds, Settles
  <2>2. \A r \in Requests : invitations[r] = "none"
    BY <1>0, <1>2 DEF Ids
  <2>3. InvitationSettledOnce
    BY <2>1 DEF InvitationSettledOnce, Settles
  <2>. QED
    BY <2>1, <2>2, <2>3 DEF InvitesInv
<1>6. CodesInv
  <2>1. \A c \in Ids : qrCodes[c] # "none" => c = Seed /\ employed /\ qrCodes[c] = "active"
    BY <1>3
  <2>. QED
    BY <1>0, <2>1 DEF CodesInv, ActiveCodes
<1>. QED
  BY <1>4, <1>5, <1>6 DEF SInv

LEMMA SInvNext ==
  ASSUME SInv, [PanelNext]_<<vars, staffVars>>
  PROVE  SInv'
<1>1. ASSUME UNCHANGED staffVars
      PROVE  SInv'
  BY <1>1 DEF staffVars, SInv, StaffTypeOK, InvitesInv, InvitationSettledOnce, Settles, CodesInv,
         ActiveCodes, Regenerating
<1>2. ASSUME NEW r \in Requests, Manage(r)
      PROVE  SInv'
  <2>1. over' \subseteq Ids /\ mailed' \subseteq Ids /\ role' \in {"none", "user", "employee"}
        /\ overwritten' \in BOOLEAN /\ invitations' \in [Ids -> InvitationStates]
    BY <1>2, WhoWrites, Invitations DEF SInv, StaffTypeOK, Ids
  <2>2. InvitesInv' /\ jobs' \in [Requests -> Job]
    BY <1>2, NextInvites DEF SInv
  <2>3. CodesInv' /\ qrCodes' \in [Ids -> {"none", "active", "retiring"}]
    BY <1>2, NextCodes DEF SInv
  <2>. QED
    BY <2>1, <2>2, <2>3 DEF SInv, StaffTypeOK
<1>3. ASSUME NEW i \in Ids, Lapse(i)
      PROVE  SInv'
  <2>1. UNCHANGED <<invitations, mailed, role, qrCodes, jobs, overwritten>> /\ over' = over \cup {i}
    BY <1>3 DEF Lapse, codes
  <2>. QED
    BY <2>1 DEF SInv, StaffTypeOK, InvitesInv, InvitationSettledOnce, Settles, CodesInv,
         ActiveCodes, Regenerating
<1>. QED
  BY <1>1, <1>2, <1>3 DEF PanelNext

\* Every state of the panel satisfies both invariants.
THEOREM PanelInductive == PanelSpec => [](BInv /\ SInv)
<1>1. PanelInit => BInv /\ SInv
  BY BInvInit, SInvInit DEF PanelInit
<1>2. BInv /\ SInv /\ [PanelNext]_<<vars, staffVars>> => (BInv /\ SInv)'
  BY PanelSteps, BInvNext, SInvNext DEF BInv
<1>. QED
  BY <1>1, <1>2, PTL DEF PanelSpec

-----------------------------------------------------------------------------
(* What the runs check, for every set of requests and people.              *)

\* The rows of the business and what its requests hold keep their types.
THEOREM BusinessTypeCorrect == PanelSpec => []TypeOK
BY PanelInductive, BInvTells, PTL

\* So do those of its staff.
THEOREM StaffTypeCorrect == PanelSpec => []StaffTypeOK
<1>1. SInv => StaffTypeOK
  BY DEF SInv
<1>. QED
  BY <1>1, PanelInductive, PTL

\* A suspension cuts off everything it had listed, or nothing.
THEOREM SuspensionHolds == PanelSpec => []SuspensionAllOrNothing
BY PanelInductive, BInvTells, PTL

\* A suspended business keeps no active turn but those being taken meanwhile.
THEOREM SuspendedTurnsHold == PanelSpec => []SuspendedTurnsRaced
BY PanelInductive, BInvTells, PTL

\* A report says "suspended" only if a suspension has committed.
THEOREM ReportedHolds == PanelSpec => []ReportedOnlyIfSuspended
BY PanelInductive, BInvTells, PTL

\* An approved business has all that its approval creates, once.
THEOREM ApprovalHolds == PanelSpec => []ApprovalComplete
BY PanelInductive, BInvTells, PTL

\* The stored hours are of one request, unless two were storing at once.
THEOREM HoursHold == PanelSpec => []HoursOfOneRequest
BY PanelInductive, BInvTells, PTL

\* Only a reactivation ends a suspension.
THEOREM LeavingHolds == PanelSpec => LeavesSuspensionByReactivating
<1>1. BInv /\ [PanelNext]_<<vars, staffVars>> =>
        [business.status = "suspended" /\ business'.status # "suspended" =>
           \/ "business" \in clobbered'
           \/ \E r \in Requests : At(r, "reactivate", "save") /\ req'[r].pc = "done"]_vars
  BY PanelSteps, LeavingStep DEF BInv
<1>. QED
  BY <1>1, PanelInductive, PTL DEF PanelSpec, LeavesSuspensionByReactivating

\* A report keeps its first verdict, unless two reviewers raced.
THEOREM VerdictHolds == PanelSpec => VerdictIsFinal
<1>1. BInv /\ [PanelNext]_<<vars, staffVars>> =>
        [report # None /\ report.status # "pending" /\ report' # report => "report" \in clobbered']_vars
  BY PanelSteps, VerdictStep DEF BInv
<1>. QED
  BY <1>1, PanelInductive, PTL DEF PanelSpec, VerdictIsFinal

\* An invitation is settled by one request, unless two had found it pending.
THEOREM SettledOnceHolds == PanelSpec => []InvitationSettledOnce
<1>1. SInv => InvitationSettledOnce
  BY DEF SInv, InvitesInv
<1>. QED
  BY <1>1, PanelInductive, PTL

\* A business that has had a QR code has one active, between regenerations.
THEOREM OneCodeHolds == PanelSpec => []OneActiveCode
<1>1. ASSUME SInv
      PROVE  OneActiveCode
  <2>1. SUFFICES ASSUME \E c \in Ids : qrCodes[c] # "none",
                        \A r \in Requests : jobs[r].op = "regenerate" => jobs[r].pc \in {"done", "failed"}
                 PROVE  Cardinality(ActiveCodes) = 1
    BY DEF OneActiveCode
  <2>2. \A r \in Requests : ~Regenerating(r)
    BY <2>1 DEF Regenerating
  <2>3. PICK c \in ActiveCodes : ActiveCodes = {c}
    BY <1>1, <2>1, <2>2 DEF SInv, CodesInv
  <2>. QED
    BY <2>3, FS_Singleton
<1>. QED
  BY <1>1, PanelInductive, PTL
=============================================================================
