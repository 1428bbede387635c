-------------------------- MODULE BusinessesProperties --------------------------
(***************************************************************************)
(* What must hold of a business.  As for accounts, promises about a row    *)
(* are stated while no save has overwritten what it had not read.          *)
(***************************************************************************)
EXTENDS Businesses

\* A suspension cuts off everything or nothing: until one commits no session is
\* closed and no turn cancelled for it; once it has answered, every turn it
\* had listed is closed, whoever moved it meanwhile, and every session it
\* revoked is gone (SuspendBusinessUseCase, its transaction and cancelTurn).
SuspensionAllOrNothing ==
  /\ ~everSuspended => /\ [user |-> Owner, id |-> Seed] \in sessions
                       /\ \A t \in Existing : turns[t].status # "cancelled"
  /\ \A r \in Requests : At(r, "suspend", "done") =>
       /\ req[r].seen \cap Active = {}
       /\ req[r].closed \cap sessions = {}

\* The turns still active in a suspended business were being taken while the
\* suspension was under way; nobody takes one later (CreateTurnUseCase).
SuspendedTurnsRaced ==
  "business" \notin clobbered /\ business.status = "suspended" => Active \subseteq raced

\* A business leaves suspension by being reactivated and in no other way
\* (ApproveBusinessUseCase and ReactivateBusinessUseCase).
LeavesSuspensionByReactivating ==
  [][business.status = "suspended" /\ business'.status # "suspended" =>
       \/ "business" \in clobbered'
       \/ \E r \in Requests : At(r, "reactivate", "save") /\ req'[r].pc = "done"]_vars

\* Reviewers do not see "suspended" on a report unless the suspension has
\* happened, however it was retried (SuspendReportedUseCase).
ReportedOnlyIfSuspended ==
  report # None /\ report.status = "suspended" => everSuspended

\* A report keeps its first verdict, unless two reviewers had both found it
\* pending (ResolveReport, DismissReport and SuspendReportedUseCase).
VerdictIsFinal ==
  [][report # None /\ report.status # "pending" /\ report' # report => "report" \in clobbered']_vars

\* An approved business has its owner's account approved, a subscription that
\* has begun, and one default queue (ApproveBusinessUseCase, its transaction).
ApprovalComplete ==
  "business" \notin clobbered /\ business.status = "approved" =>
    ownerApproved /\ subscription # "pending" /\ Cardinality(queues) = 1

\* The stored opening hours are those of one request, unless one was storing
\* its own while another was (PostgresBusinessHoursRepo.replaceForBusiness).
HoursOfOneRequest ==
  "hours" \notin clobbered => Cardinality(hours) <= 1

\* If a turn already reached a terminal state there is nothing left to cancel
\* (SuspendBusinessUseCase.ts:121-122): a turn that was completed stays so.
CompletedStays ==
  \A r \in Requests : At(r, "complete", "done") => turns[req[r].turn].status = "completed"
=============================================================================
