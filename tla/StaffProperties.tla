----------------------------- MODULE StaffProperties -----------------------------
(* What must hold of the employees and the QR codes of a business.         *)
EXTENDS Staff

\* Of the requests that accept or withdraw one invitation at most one
\* succeeds, unless two had both found it pending: a link is used once, and
\* one that was withdrawn lets nobody in (AcceptBusinessEmployeeInvitation,
\* CancelBusinessEmployeeInvitationUseCase).
InvitationSettledOnce ==
  ~overwritten =>
    \A r, o \in Requests :
      /\ jobs[r].op \in {"accept", "cancelInvitation"} /\ jobs[r].pc = "done"
      /\ jobs[o].op \in {"accept", "cancelInvitation"} /\ jobs[o].pc = "done"
      /\ jobs[r].on = jobs[o].on
      => r = o

\* A business that has had a QR code has exactly one that is active, except
\* while a regeneration is between retiring the old one and issuing the new
\* one, or was interrupted there (GetBusinessQrCode and
\* RegenerateBusinessQrCodeUseCase over the partial unique index).
OneActiveCode ==
  /\ \E c \in Ids : qrCodes[c] # "none"
  /\ \A r \in Requests : jobs[r].op = "regenerate" => jobs[r].pc \in {"done", "failed"}
  => Cardinality(ActiveCodes) = 1
=============================================================================
