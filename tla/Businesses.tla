------------------------------- MODULE Businesses -------------------------------
(***************************************************************************)
(* One registered business under requests whose awaits interleave: its     *)
(* approval, its suspension with the turns and sessions that go with it,   *)
(* the reports on it, and what its owner edits.  As in Accounts, a save    *)
(* writes the whole row from what was read, a request is used once, and    *)
(* what it creates or writes is named after it.                            *)
(***************************************************************************)
EXTENDS Naturals, FiniteSets

CONSTANTS
  Requests, Seed, None,
  Users, Owner,       \* the owner and those who are or become employees
  Ops,                \* the use cases the instance runs
  MaxCancelAttempts   \* MAX_CANCEL_ATTEMPTS

ASSUME BusinessesAssumption ==
  /\ {Seed, None} \cap Requests = {} /\ Seed # None
  /\ Owner \in Users
  /\ MaxCancelAttempts \in Nat \ {0}

VARIABLES
  business,      \* table businesses: the row
  turns,         \* the turns of its queues, and who wrote each one last
  employees,     \* table business_employees: the active ones
  sessions,      \* the refresh sessions of its people that are not revoked
  report,        \* table reports: the row of a report on the business
  hours,         \* the requests whose opening hours are stored
  queues,        \* the default queues, each with its window
  subscription,  \* the status of the subscription of its organization
  ownerApproved, \* the approval of the owner's account
  lock,          \* the request whose transaction holds the row of the business
  req,           \* the requests
  everSuspended, \* history: the business has been suspended
  raced,         \* history: turns being taken while a suspension was under way
  clobbered      \* history: the tables in which a save overwrote what it had not read

vars == <<business, turns, employees, sessions, report, hours, queues, subscription, ownerApproved,
          lock, req, everSuspended, raced, clobbered>>

Ids            == Requests \cup {Seed}
ActiveStates   == {"waiting", "attending"}
TerminalStates == {"completed", "cancelled"}
Operations     == {"normal", "delayed", "paused", "closed"}

BusinessRow == [status : {"pending", "approved", "rejected", "suspended"}, operational : Operations,
                suspendedBy : Ids \cup {None}, reactivatedBy : Ids \cup {None}, profile : Ids]
TurnRow     == [status : ActiveStates \cup TerminalStates, wrote : Ids]
ReportRow   == [status : {"pending", "resolved", "dismissed", "suspended"}, reviewedBy : Ids \cup {None}]
Session     == [user : Users, id : Ids]
Copy        == [turn : Ids, wrote : Ids, tries : 0..MaxCancelAttempts]

\* So that a table can be asked whether it holds a row.
ASSUME NoneIsNoRow == None \notin TurnRow

Pcs == {"unused", "find", "list", "copy", "hold", "cancel", "tolerate", "verdict", "check",
        "commit", "save", "replace", "insert", "done", "failed"}

Request == [op : Ops \cup {None}, pc : Pcs,
            row : BusinessRow \cup {None},    \* the row it read
            write : BusinessRow \cup {None},  \* the row it will save
            review : ReportRow \cup {None},   \* the report it reviews
            turn : Ids \cup {None},           \* the turn it moved
            seen : SUBSET Ids,                \* what there was when it listed
            staff : SUBSET Users,             \* the people it had listed
            left : SUBSET Ids,                \* turns still to be read
            copies : SUBSET Copy,             \* turns read and still to be cancelled
            cancelled : SUBSET Ids,           \* turns its transaction has cancelled
            closed : SUBSET Session]          \* sessions its transaction has revoked

Unused == [op |-> None, pc |-> "unused", row |-> None, write |-> None, review |-> None, turn |-> None,
           seen |-> {}, staff |-> {}, left |-> {}, copies |-> {}, cancelled |-> {}, closed |-> {}]

TypeOK ==
  /\ business \in BusinessRow
  /\ turns \in [Ids -> TurnRow \cup {None}]
  /\ employees \subseteq Users /\ sessions \subseteq Session
  /\ report \in ReportRow \cup {None}
  /\ hours \subseteq Ids /\ queues \subseteq Ids
  /\ subscription \in {"pending", "trial", "lapsed", "active", "ended"}
  /\ ownerApproved \in BOOLEAN
  /\ lock \in Requests \cup {None}
  /\ req \in [Requests -> Request]
  /\ raced \subseteq Ids
  /\ everSuspended \in BOOLEAN
  /\ clobbered \subseteq {"business", "report", "hours"}

Existing  == {t \in Ids : turns[t] # None}
Active    == {t \in Existing : turns[t].status \in ActiveStates}

\* Mutant: the status as the database spells it.
NewReportRaw == [status |-> "PENDING", reviewedBy |-> None]
NewReport    == [status |-> "pending", reviewedBy |-> None]

\* A registration that waits for its review; or a business at work, with a turn
\* waiting and its people signed in, and perhaps already reported.
Init ==
  \E status \in {"pending", "approved"} :
    /\ business = [status |-> status, operational |-> "normal",
                   suspendedBy |-> None, reactivatedBy |-> None, profile |-> Seed]
    /\ turns = [t \in Ids |-> IF t = Seed /\ status = "approved"
                              THEN [status |-> "waiting", wrote |-> Seed] ELSE None]
    /\ employees \in IF status = "approved" THEN {{}, Users \ {Owner}} ELSE {{}}
    /\ sessions = [user : employees \cup {Owner}, id : {Seed}]
    /\ report \in {None, NewReport}
    /\ hours = IF status = "approved" THEN {Seed} ELSE {}
    /\ queues = IF status = "approved" THEN {Seed} ELSE {}
    /\ subscription \in IF status = "approved" THEN {"active"} ELSE {"pending", "lapsed", "active"}
    /\ ownerApproved = (status = "approved")
    /\ lock = None
    /\ req = [r \in Requests |-> Unused]
    /\ everSuspended = FALSE /\ raced = {} /\ clobbered = {}

-----------------------------------------------------------------------------
(* Steps of a request.                                                     *)

At(r, op, pc) == req[r].op = op /\ req[r].pc = pc
Become(r, q)  == req' = [req EXCEPT ![r] = q]
Goto(r, pc)   == Become(r, [req[r] EXCEPT !.pc = pc])

\* What is still asked of a request that has answered: the turn it moved, the
\* turns it had listed and the sessions it revoked.
End(r, pc) == Become(r, [Unused EXCEPT !.op = req[r].op, !.pc = pc, !.turn = req[r].turn,
                                       !.seen = req[r].seen, !.closed = req[r].closed])
Start(r, op, pc, q) ==
  /\ op \in Ops /\ req[r] = Unused
  /\ Become(r, [q EXCEPT !.op = op, !.pc = pc])

\* A request that has read the row and decided what to save.
Edit(r, op, pc, new) == Start(r, op, pc, [Unused EXCEPT !.row = business, !.write = new])

approval == <<queues, subscription, ownerApproved>>
history  == <<everSuspended, raced>>
people   == <<turns, employees, sessions>>

\* PostgresBusinessRepo.save writes every column; on its own it waits for a
\* transaction that has written the row.
WriteBusiness(r) ==
  /\ business' = req[r].write
  /\ clobbered' = IF business = req[r].row THEN clobbered ELSE clobbered \cup {"business"}
Overwrite(r) == lock = None /\ WriteBusiness(r)

-----------------------------------------------------------------------------
(* The review of a registration.                                           *)

\* Mutant: a suspended business can be approved.
ReviewableAgain(row) == row.status # "approved"

\* A rejected business may be approved later; a suspended one may not.
Reviewable(row) == row.status \in {"pending", "rejected"}

BeginApprove(r) ==
  /\ Reviewable(business)
  /\ Edit(r, "approve", "check", [business EXCEPT !.status = "approved"])
  /\ UNCHANGED <<business, people, report, hours, approval, lock, history, clobbered>>

\* The subscription, whose trial is closed here if it has run out; "seen" are
\* the queues the business has.
CheckApproval(r) ==
  /\ At(r, "approve", "check")
  /\ subscription' = IF subscription = "lapsed" THEN "ended" ELSE subscription
  /\ IF subscription' = "ended" THEN End(r, "failed")
     ELSE Become(r, [req[r] EXCEPT !.pc = "commit", !.seen = queues])
  /\ UNCHANGED <<business, people, report, hours, queues, ownerApproved, lock, history, clobbered>>

\* Mutant: the approval of the business alone.
SaveApproval(r) ==
  /\ At(r, "approve", "commit")
  /\ Overwrite(r) /\ End(r, "done")
  /\ UNCHANGED <<people, report, hours, approval, lock, history>>

\* One transaction: the business, its owner's account, the trial, and a first
\* queue with its window.
CommitApproval(r) ==
  /\ At(r, "approve", "commit")
  /\ Overwrite(r) /\ End(r, "done")
  /\ ownerApproved' = TRUE
  /\ subscription' = IF subscription = "pending" THEN "trial" ELSE subscription
  /\ queues' = IF req[r].seen = {} THEN queues \cup {r} ELSE queues
  /\ UNCHANGED <<people, report, hours, lock, history>>

BeginReject(r) ==
  /\ business.status = "pending"
  /\ Edit(r, "reject", "save", [business EXCEPT !.status = "rejected"])
  /\ UNCHANGED <<business, people, report, hours, approval, lock, history, clobbered>>

-----------------------------------------------------------------------------
(* Suspension: SuspendBusinessUseCase, also as a step of reviewing a report *)

\* Mutant: a report that has its verdict can be reviewed again.
AnyReport(row) == row # None
Pending(row)   == row # None /\ row.status = "pending"

Suspended(r) == [business EXCEPT !.status = "suspended", !.suspendedBy = r]

BeginSuspend(r) ==
  /\ business.status = "approved"
  /\ Edit(r, "suspend", "list", Suspended(r))
  /\ UNCHANGED <<business, people, report, hours, approval, lock, history, clobbered>>

BeginSuspendReported(r) ==
  /\ Pending(report)
  /\ Start(r, "suspendReported", "find", [Unused EXCEPT !.review = report])
  /\ UNCHANGED <<business, people, report, hours, approval, lock, history, clobbered>>

FindApproved(r) ==
  /\ At(r, "suspendReported", "find")
  /\ IF business.status = "approved"
     THEN Become(r, [req[r] EXCEPT !.pc = "list", !.row = business, !.write = Suspended(r)])
     ELSE Goto(r, "tolerate")
  /\ UNCHANGED <<business, people, report, hours, approval, lock, history, clobbered>>

\* The people, and the identifiers of the active turns of every queue.
ListTurns(r) ==
  /\ req[r].pc = "list"
  /\ Become(r, [req[r] EXCEPT !.pc = IF Active = {} THEN "hold" ELSE "copy",
                              !.seen = Existing, !.left = Active, !.staff = employees \cup {Owner}])
  /\ UNCHANGED <<business, people, report, hours, approval, lock, history, clobbered>>

\* Each of them is then read on its own, whatever its status is by now.
CopyTurn(r, t) ==
  LET left == req[r].left \ {t}
  IN  /\ req[r].pc = "copy" /\ t \in req[r].left
      /\ Become(r, [req[r] EXCEPT !.pc = IF left = {} THEN "hold" ELSE "copy", !.left = left,
                         !.copies = @ \cup {[turn |-> t, wrote |-> turns[t].wrote, tries |-> 0]}])
      /\ UNCHANGED <<business, people, report, hours, approval, lock, history, clobbered>>

\* The transaction opens: the row of the business and the sessions are written.
Hold(r) ==
  /\ req[r].pc = "hold" /\ lock = None
  /\ lock' = r
  /\ Become(r, [req[r] EXCEPT !.pc = "cancel", !.closed = {s \in sessions : s.user \in req[r].staff}])
  /\ UNCHANGED <<business, people, report, hours, approval, history, clobbered>>

AfterFailure(op) == IF op = "suspendReported" THEN "tolerate" ELSE "failed"

\* Mutant: a turn that has changed is taken for closed.
GiveUp(r, c) ==
  /\ req[r].pc = "cancel" /\ c \in req[r].copies
  /\ Become(r, [req[r] EXCEPT !.copies = @ \ {c},
       !.cancelled = IF turns[c.turn].wrote = c.wrote THEN @ \cup {c.turn} ELSE @])
  /\ UNCHANGED <<business, people, report, hours, approval, lock, history, clobbered>>

\* A turn that has changed since it was read is read again, up to
\* MaxCancelAttempts times, unless it has closed by then.
CancelTurn(r, c) ==
  LET row  == turns[c.turn]
      rest == req[r].copies \ {c}
  IN  /\ req[r].pc = "cancel" /\ c \in req[r].copies
      /\ \/ /\ row.wrote = c.wrote
            /\ Become(r, [req[r] EXCEPT !.copies = rest, !.cancelled = @ \cup {c.turn}])
            /\ UNCHANGED lock
         \/ /\ row.wrote # c.wrote /\ row.status \in TerminalStates
            /\ Become(r, [req[r] EXCEPT !.copies = rest])
            /\ UNCHANGED lock
         \/ /\ row.wrote # c.wrote /\ row.status \in ActiveStates
            /\ c.tries + 1 < MaxCancelAttempts
            /\ Become(r, [req[r] EXCEPT
                 !.copies = rest \cup {[c EXCEPT !.wrote = row.wrote, !.tries = @ + 1]}])
            /\ UNCHANGED lock
         \/ /\ row.wrote # c.wrote /\ row.status \in ActiveStates
            /\ c.tries + 1 = MaxCancelAttempts
            /\ lock' = None
            /\ LET pc == AfterFailure(req[r].op)
               IN  Become(r, [Unused EXCEPT !.op = req[r].op, !.pc = pc, !.review = req[r].review])
      /\ UNCHANGED <<business, people, report, hours, approval, history, clobbered>>

Taking == {o \in Requests : At(o, "join", "insert")}

CommitSuspension(r) ==
  LET q == req[r] IN
  /\ q.pc = "cancel" /\ q.copies = {}
  /\ WriteBusiness(r)
  /\ turns' = [t \in Ids |-> IF t \in q.cancelled THEN [status |-> "cancelled", wrote |-> r] ELSE turns[t]]
  /\ sessions' = sessions \ q.closed
  /\ lock' = None
  /\ everSuspended' = TRUE
  /\ raced' = raced \cup Taking \cup (Existing \ q.seen)
  /\ IF q.op = "suspend" THEN End(r, "done") ELSE Goto(r, "verdict")
  /\ UNCHANGED <<employees, report, hours, approval>>

\* Mutant: any conflict closes the report.
TolerateAny(r) ==
  /\ req[r].pc = "tolerate" /\ Goto(r, "verdict")
  /\ UNCHANGED <<business, people, report, hours, approval, lock, history, clobbered>>

\* The suspension was refused: fine if the business is suspended already.
Tolerate(r) ==
  /\ req[r].pc = "tolerate"
  /\ IF business.status = "suspended" THEN Goto(r, "verdict") ELSE End(r, "failed")
  /\ UNCHANGED <<business, people, report, hours, approval, lock, history, clobbered>>

BeginReactivate(r) ==
  /\ business.status = "suspended"
  /\ Edit(r, "reactivate", "save", [business EXCEPT !.status = "approved", !.reactivatedBy = r])
  /\ UNCHANGED <<business, people, report, hours, approval, lock, history, clobbered>>

-----------------------------------------------------------------------------
(* Reports.                                                                *)

CreateReport(r) ==
  /\ report = None
  /\ Start(r, "report", "done", Unused)
  /\ report' = NewReport
  /\ UNCHANGED <<business, people, hours, approval, lock, history, clobbered>>

\* ResolveReportUseCase, DismissReportUseCase.
BeginReview(r, op) ==
  /\ Pending(report)
  /\ Start(r, op, "verdict", [Unused EXCEPT !.review = report])
  /\ UNCHANGED <<business, people, report, hours, approval, lock, history, clobbered>>

Verdict == [resolve |-> "resolved", dismiss |-> "dismissed", suspendReported |-> "suspended"]

SaveVerdict(r) ==
  /\ req[r].pc = "verdict"
  /\ report' = [status |-> Verdict[req[r].op], reviewedBy |-> r]
  /\ clobbered' = IF report = req[r].review THEN clobbered ELSE clobbered \cup {"report"}
  /\ End(r, "done")
  /\ UNCHANGED <<business, people, hours, approval, lock, history>>

-----------------------------------------------------------------------------
(* What the owner edits, and what the people of the business go on doing.  *)

\* No look at the status; the address is geocoded between the read and the save.
BeginProfile(r) ==
  /\ Edit(r, "profile", "save", [business EXCEPT !.profile = r])
  /\ UNCHANGED <<business, people, report, hours, approval, lock, history, clobbered>>

BeginOperational(r, s) ==
  /\ business.status = "approved"
  /\ Edit(r, "operational", "save", [business EXCEPT !.operational = s])
  /\ UNCHANGED <<business, people, report, hours, approval, lock, history, clobbered>>

\* Reject, reactivate, profile, operational status.
SaveBusiness(r) ==
  LET q == req[r] IN
  /\ q.pc = "save" /\ q.op \in {"reject", "reactivate", "profile", "operational"}
  /\ Overwrite(r) /\ End(r, "done")
  /\ UNCHANGED <<people, report, hours, approval, lock, history>>

BeginHours(r) ==
  /\ business.status = "approved"
  /\ Start(r, "hours", "replace", Unused)
  /\ UNCHANGED <<business, people, report, hours, approval, lock, history, clobbered>>

\* replaceForBusiness is a transaction that deletes the rows it can see ...
DeleteHours(r) ==
  /\ At(r, "hours", "replace")
  /\ Become(r, [req[r] EXCEPT !.pc = "insert", !.seen = hours])
  /\ UNCHANGED <<business, people, report, hours, approval, lock, history, clobbered>>

\* Mutant: the new ranges are added to the old ones.
AddHours(r) ==
  /\ At(r, "hours", "insert")
  /\ hours' = hours \cup {r}
  /\ clobbered' = IF hours = req[r].seen THEN clobbered ELSE clobbered \cup {"hours"}
  /\ End(r, "done")
  /\ UNCHANGED <<business, people, report, approval, lock, history>>

\* ... and adds its own, next to those that appeared in between.
InsertHours(r) ==
  /\ At(r, "hours", "insert")
  /\ hours' = (hours \ req[r].seen) \cup {r}
  /\ clobbered' = IF hours = req[r].seen THEN clobbered ELSE clobbered \cup {"hours"}
  /\ End(r, "done")
  /\ UNCHANGED <<business, people, report, approval, lock, history>>

\* Mutant: the switch in the panel alone decides.
AcceptsOpen(row) == row.operational \in {"normal", "delayed"}

\* CreateTurnUseCase reads the business, and inserts the turn later.
Accepts(row) == row.status = "approved" /\ row.operational \in {"normal", "delayed"}

BeginJoin(r) ==
  /\ queues # {} /\ Accepts(business)
  /\ Start(r, "join", "insert", Unused)
  /\ UNCHANGED <<business, people, report, hours, approval, lock, history, clobbered>>

InsertTurn(r) ==
  /\ At(r, "join", "insert")
  /\ turns' = [turns EXCEPT ![r] = [status |-> "waiting", wrote |-> r]]
  /\ End(r, "done")
  /\ UNCHANGED <<business, employees, sessions, report, hours, approval, lock, history, clobbered>>

\* A turn moves or closes.  Its save compares what was read, so the read and the
\* save of those that succeed are one step; it waits for a transaction that
\* has cancelled the turn.
MoveTurn(r, t, op, status) ==
  /\ t \in Active
  /\ lock # None => t \notin req[lock].cancelled
  /\ Start(r, op, "done", [Unused EXCEPT !.turn = t])
  /\ turns' = [turns EXCEPT ![t] = [status |-> status, wrote |-> r]]
  /\ UNCHANGED <<business, employees, sessions, report, hours, approval, lock, history, clobbered>>

\* Suspension revokes sessions, it does not lock accounts.
LogIn(r, u) ==
  /\ Start(r, "login", "done", Unused)
  /\ sessions' = sessions \cup {[user |-> u, id |-> r]}
  /\ UNCHANGED <<business, turns, employees, report, hours, approval, lock, history, clobbered>>

\* The database fails or the process stops: a transaction is rolled back.
Abort(r) ==
  /\ req[r].pc \notin {"unused", "done", "failed"}
  /\ lock' = IF lock = r THEN None ELSE lock
  /\ Become(r, [Unused EXCEPT !.op = req[r].op, !.pc = "failed", !.closed = req[r].closed])
  /\ UNCHANGED <<business, people, report, hours, approval, history, clobbered>>

Review(r)  == \/ BeginApprove(r) \/ CheckApproval(r) \/ CommitApproval(r) \/ BeginReject(r)
              \/ CreateReport(r) \/ BeginSuspendReported(r) \/ Tolerate(r) \/ SaveVerdict(r)
              \/ BeginReview(r, "resolve") \/ BeginReview(r, "dismiss")

Suspend(r) == \/ BeginSuspend(r) \/ FindApproved(r) \/ ListTurns(r)
              \/ \E t \in Ids : CopyTurn(r, t)
              \/ Hold(r)
              \/ \E c \in req[r].copies : CancelTurn(r, c)
              \/ CommitSuspension(r) \/ BeginReactivate(r)

Own(r)     == \/ BeginProfile(r) \/ SaveBusiness(r)
              \/ \E s \in Operations : BeginOperational(r, s)
              \/ BeginHours(r) \/ DeleteHours(r) \/ InsertHours(r)

Visit(r)   == \/ BeginJoin(r) \/ InsertTurn(r)
              \/ \E t \in Ids : MoveTurn(r, t, "attend", "attending") \/ MoveTurn(r, t, "complete", "completed")
              \/ \E u \in Users : LogIn(r, u)

Step(r) == Review(r) \/ Suspend(r) \/ Own(r) \/ Visit(r) \/ Abort(r)
Next    == \E r \in Requests : Step(r)

Spec == Init /\ [][Next]_vars
=============================================================================
