---------------------------- MODULE BusinessesProofs ----------------------------
(***************************************************************************)
(* What every step of the businesses module keeps, for every set of        *)
(* requests and people, and whatever the rest of the panel does to the     *)
(* employees and their sessions meanwhile.  The invariant comes in layers: *)
(* what a request holds, what it knows of the tables, and what the row of  *)
(* the business says as long as no save has overwritten it unread.         *)
(***************************************************************************)
EXTENDS BusinessesProperties, FiniteSetTheorems, TLAPS

\* A step of somebody else's: employees come and go, and sessions of people
\* other than the owner are closed.
Outside ==
  /\ UNCHANGED <<business, turns, report, hours, approval, lock, req, history, clobbered>>
  /\ employees' \subseteq Users
  /\ sessions' \subseteq sessions
  /\ \A s \in sessions \ sessions' : s.user # Owner

BNext == (\E r \in Requests : Step(r)) \/ Outside \/ UNCHANGED vars

-----------------------------------------------------------------------------
(* What a request holds.                                                   *)

SuspensionPcs == {"list", "copy", "hold", "cancel"}
ReviewPcs     == SuspensionPcs \cup {"find", "tolerate", "verdict"}

\* What a save makes of the status it read.
Turned(op, old, new) ==
  /\ op = "reject"     => old = "pending" /\ new = "rejected"
  /\ op = "reactivate" => old = "suspended" /\ new = "approved"
  /\ op \in {"profile", "operational"} => new = old

HoldsRows(q) == q.row \in BusinessRow /\ q.write \in BusinessRow

Holds(q) ==
  /\ q.pc \in SuspensionPcs =>
       /\ q.op \in {"suspend", "suspendReported"} /\ HoldsRows(q)
       /\ q.row.status = "approved" /\ q.write.status = "suspended"
  /\ q.pc \in {"check", "commit"} =>
       /\ q.op = "approve" /\ HoldsRows(q)
       /\ q.row.status \in {"pending", "rejected"} /\ q.write.status = "approved"
  /\ q.pc = "save" =>
       /\ q.op \in {"reject", "reactivate", "profile", "operational"} /\ HoldsRows(q)
       /\ Turned(q.op, q.row.status, q.write.status)
  /\ q.pc \in {"find", "tolerate"} => q.op = "suspendReported"
  /\ q.pc = "verdict" => q.op \in {"resolve", "dismiss", "suspendReported"}
  /\ q.pc = "verdict" \/ (q.pc \in ReviewPcs /\ q.op = "suspendReported") =>
       q.review \in ReportRow /\ q.review.status = "pending"

\* The turns it has still to read or to cancel are there.
Found(q, there) == q.left \subseteq there /\ \A c \in q.copies : c.turn \in there

BInv1 ==
  /\ TypeOK
  /\ \A r \in Requests : Holds(req[r]) /\ Found(req[r], Existing)

-----------------------------------------------------------------------------
(* What a request knows.                                                   *)

\* Every turn it listed is closed by now, or it has still to deal with it.
Accounted(q, open) ==
  \A t \in q.seen \cap open : t \in q.left \/ t \in q.cancelled \/ \E c \in q.copies : c.turn = t

Knows(q, there, open, live, qs, ever) ==
  /\ q.cancelled \subseteq there
  /\ q.pc \in {"copy", "hold", "cancel"} => q.seen \subseteq there /\ Accounted(q, open)
  /\ q.pc \in {"hold", "cancel"} => q.left = {}
  /\ q.op = "suspend" /\ q.pc = "done" =>
       q.seen \subseteq there /\ q.seen \cap open = {} /\ q.closed \cap live = {}
  /\ q.pc = "commit" => q.seen \subseteq qs
  /\ q.pc = "save" /\ q.row.status = "suspended" => ever
  /\ q.pc = "verdict" /\ q.op = "suspendReported" => ever

\* Who has answered: the names of what there is.
Answered(i) == i = Seed \/ req[i].pc = "done"

BInv2 ==
  /\ \A t \in Existing : t = Seed \/ (req[t].op = "join" /\ req[t].pc = "done")
  /\ \A s \in sessions : Answered(s.id)
  /\ \A r \in Requests : \A s \in req[r].closed : Answered(s.id)
  /\ \A r \in Requests : Knows(req[r], Existing, Active, sessions, queues, everSuspended)
  /\ business.status = "suspended" => everSuspended

-----------------------------------------------------------------------------
(* What the row says.                                                      *)

Opened == ownerApproved /\ subscription # "pending" /\ \E x \in Ids : queues = {x}

RowTells ==
  "business" \notin clobbered =>
    /\ business.status \in {"pending", "rejected"} => queues = {}
    /\ business.status \in {"approved", "suspended"} => Opened
    /\ business.status = "suspended" => Active \cup Taking \subseteq raced

NothingBefore ==
  ~everSuspended => /\ [user |-> Owner, id |-> Seed] \in sessions
                    /\ \A t \in Existing : turns[t].status # "cancelled"

OneStored == "hours" \notin clobbered => hours = {} \/ \E x \in Ids : hours = {x}

BInv == BInv1 /\ BInv2 /\ RowTells /\ NothingBefore /\ OneStored /\ ReportedOnlyIfSuspended

-----------------------------------------------------------------------------
(* The requests hold what they should.                                     *)

Fine(q) == q \in Request /\ Holds(q) /\ Found(q, Existing)

\* The worker that moves becomes a fine request, the others stay.
Moves(r) == \E q : Become(r, q) /\ Fine(q)

\* A request that has not begun, or has ended, holds nothing.
LEMMA UnusedFine ==
  /\ Unused \in Request /\ Unused.pc = "unused" /\ Unused.op = None
  /\ Unused.left = {} /\ Unused.copies = {} /\ Unused.closed = {} /\ Unused.seen = {}
  /\ Unused.row = None /\ Unused.write = None /\ Unused.review = None
BY DEF Unused, Request, Pcs

\* A request that only remembers what it did is fine.
LEMMA EndFine ==
  ASSUME BInv1, NEW r \in Requests, NEW pc \in {"done", "failed"}, End(r, pc)
  PROVE  Moves(r)
<1>. DEFINE q == [Unused EXCEPT !.op = req[r].op, !.pc = pc, !.turn = req[r].turn,
                                !.seen = req[r].seen, !.closed = req[r].closed]
<1>1. req[r] \in Request
  BY DEF BInv1, TypeOK
<1>2. q \in Request /\ q.pc = pc /\ q.left = {} /\ q.copies = {}
  BY <1>1 DEF Request, Unused, Pcs
<1>3. Fine(q)
  BY <1>2 DEF Fine, Holds, Found, SuspensionPcs, ReviewPcs
<1>. QED
  BY <1>3 DEF End, Moves

\* A request that edits the row of the business is fine when what it made of
\* the status is.
LEMMA EditFine ==
  ASSUME BInv1, NEW r \in Requests, NEW op, NEW pc \in {"check", "save", "list"}, NEW new \in BusinessRow,
         Edit(r, op, pc, new),
         pc = "check" => /\ op = "approve" /\ business.status \in {"pending", "rejected"}
                         /\ new.status = "approved",
         pc = "save" => /\ op \in {"reject", "reactivate", "profile", "operational"}
                        /\ Turned(op, business.status, new.status),
         pc = "list" => op = "suspend" /\ business.status = "approved" /\ new.status = "suspended"
  PROVE  Moves(r)
<1>. DEFINE p == [Unused EXCEPT !.row = business, !.write = new]
            q == [p EXCEPT !.op = op, !.pc = pc]
<1>1. business \in BusinessRow /\ op \in Ops
  BY DEF BInv1, TypeOK, Edit, Start
<1>2. /\ q \in Request /\ q.pc = pc /\ q.op = op /\ q.row = business /\ q.write = new
      /\ q.left = {} /\ q.copies = {}
  BY <1>1 DEF Request, Unused, Pcs
<1>3. Become(r, q)
  BY DEF Edit, Start
<1>. HIDE DEF q
<1>4. Fine(q)
  BY <1>1, <1>2 DEF Fine, Holds, HoldsRows, Found, SuspensionPcs, ReviewPcs
<1>. QED
  BY <1>3, <1>4 DEF Moves

\* A request that starts without a row is fine.
LEMMA StartFine ==
  ASSUME BInv1, NEW r \in Requests, NEW op, NEW pc \in Pcs, NEW p \in Request,
         p.left = {}, p.copies = {},
         \/ pc \in {"insert", "replace", "done"}
         \/ /\ (pc = "find" /\ op = "suspendReported") \/ (pc = "verdict" /\ op \in {"resolve", "dismiss"})
            /\ p.review \in ReportRow /\ p.review.status = "pending",
         Start(r, op, pc, p)
  PROVE  Moves(r)
<1>. DEFINE q == [p EXCEPT !.op = op, !.pc = pc]
<1>1. op \in Ops
  BY DEF Start
<1>2. /\ q \in Request /\ q.pc = pc /\ q.op = op /\ q.review = p.review
      /\ q.left = {} /\ q.copies = {}
  BY <1>1 DEF Request
<1>3. Become(r, q)
  BY DEF Start
<1>. HIDE DEF q
<1>4. Fine(q)
  BY <1>2 DEF Fine, Holds, Found, SuspensionPcs, ReviewPcs
<1>. QED
  BY <1>3, <1>4 DEF Moves

\* What the next steps of a request need of it.
LEMMA HeldFields ==
  ASSUME BInv1, NEW r \in Requests
  PROVE  /\ req[r] \in Request /\ Holds(req[r]) /\ Found(req[r], Existing)
         /\ business \in BusinessRow /\ turns \in [Ids -> TurnRow \cup {None}]
         /\ employees \subseteq Users /\ sessions \subseteq Session
         /\ Existing \subseteq Ids /\ Active \subseteq Existing
         /\ \A t \in Existing : turns[t] \in TurnRow
         /\ queues \subseteq Ids /\ hours \subseteq Ids
         /\ MaxCancelAttempts \in Nat \ {0} /\ Owner \in Users
BY BusinessesAssumption DEF BInv1, TypeOK, Existing, Active

\* The steps of a review.
LEMMA ReviewFine ==
  ASSUME BInv1, NEW r \in Requests, Review(r)
  PROVE  Moves(r)
<1>0. req[r] \in Request /\ Holds(req[r]) /\ Found(req[r], Existing) /\ business \in BusinessRow
      /\ queues \subseteq Ids /\ report \in ReportRow \cup {None}
  BY HeldFields DEF BInv1, TypeOK
<1>1. ASSUME BeginApprove(r) \/ BeginReject(r)
      PROVE  Moves(r)
  <2>1. \A st \in {"approved", "rejected"} :
          [business EXCEPT !.status = st] \in BusinessRow /\ [business EXCEPT !.status = st].status = st
    BY <1>0 DEF BusinessRow
  <2>. QED
    BY <1>1, <2>1, EditFine DEF BeginApprove, BeginReject, Reviewable, Turned
<1>2. ASSUME CheckApproval(r)
      PROVE  Moves(r)
  <2>. DEFINE q == [req[r] EXCEPT !.pc = "commit", !.seen = queues]
  <2>1. req[r].pc = "check"
    BY <1>2 DEF CheckApproval, At
  <2>2. /\ q \in Request /\ q.pc = "commit" /\ q.op = req[r].op /\ q.row = req[r].row
        /\ q.write = req[r].write /\ q.left = req[r].left /\ q.copies = req[r].copies
    BY <1>0 DEF Request, Pcs
  <2>3. End(r, "failed") \/ Become(r, q)
    BY <1>2 DEF CheckApproval
  <2>. HIDE DEF q
  <2>4. Fine(q)
    BY <1>0, <2>1, <2>2 DEF Fine, Holds, HoldsRows, Found, SuspensionPcs, ReviewPcs
  <2>. QED
    BY <2>3, <2>4, EndFine DEF Moves
<1>3. CommitApproval(r) \/ SaveVerdict(r) => Moves(r)
  BY EndFine DEF CommitApproval, SaveVerdict
<1>4. ASSUME \/ CreateReport(r) \/ BeginSuspendReported(r)
             \/ BeginReview(r, "resolve") \/ BeginReview(r, "dismiss")
      PROVE  Moves(r)
  <2>. DEFINE p == [Unused EXCEPT !.review = report]
  <2>1. p \in Request /\ p.left = {} /\ p.copies = {} /\ p.review = report
    BY <1>0 DEF Request, Unused, Pcs
  <2>. QED
    BY <1>0, <1>4, <2>1, UnusedFine, StartFine DEF CreateReport, BeginSuspendReported, BeginReview, Pending, Pcs
<1>5. ASSUME Tolerate(r)
      PROVE  Moves(r)
  <2>. DEFINE q == [req[r] EXCEPT !.pc = "verdict"]
  <2>1. req[r].pc = "tolerate"
    BY <1>5 DEF Tolerate
  <2>2. /\ q \in Request /\ q.pc = "verdict" /\ q.op = req[r].op /\ q.review = req[r].review
        /\ q.left = req[r].left /\ q.copies = req[r].copies
    BY <1>0 DEF Request, Pcs
  <2>3. End(r, "failed") \/ Become(r, q)
    BY <1>5 DEF Tolerate, Goto
  <2>. HIDE DEF q
  <2>4. Fine(q)
    BY <1>0, <2>1, <2>2 DEF Fine, Holds, Found, SuspensionPcs, ReviewPcs
  <2>. QED
    BY <2>3, <2>4, EndFine DEF Moves
<1>. QED
  BY <1>1, <1>2, <1>3, <1>4, <1>5 DEF Review

\* The steps of a suspension, and the reactivation.
LEMMA SuspendFine ==
  ASSUME BInv1, NEW r \in Requests, Suspend(r)
  PROVE  Moves(r)
<1>0. /\ req[r] \in Request /\ Holds(req[r]) /\ Found(req[r], Existing) /\ business \in BusinessRow
      /\ Existing \subseteq Ids /\ Active \subseteq Existing /\ \A t \in Existing : turns[t] \in TurnRow
      /\ employees \subseteq Users /\ sessions \subseteq Session /\ Owner \in Users
      /\ MaxCancelAttempts \in Nat \ {0} /\ None \notin Requests /\ r \in Ids
  BY HeldFields, BusinessesAssumption DEF Ids
<1>1. Suspended(r) \in BusinessRow /\ Suspended(r).status = "suspended"
  BY <1>0 DEF Suspended, BusinessRow
<1>2. ASSUME BeginSuspend(r) \/ BeginReactivate(r)
      PROVE  Moves(r)
  <2>. DEFINE new == [business EXCEPT !.status = "approved", !.reactivatedBy = r]
  <2>1. new \in BusinessRow /\ new.status = "approved"
    BY <1>0 DEF BusinessRow
  <2>. HIDE DEF new
  <2>2. \/ Edit(r, "suspend", "list", Suspended(r)) /\ business.status = "approved"
        \/ Edit(r, "reactivate", "save", new) /\ business.status = "suspended"
    BY <1>2 DEF BeginSuspend, BeginReactivate, new
  <2>3. Turned("reactivate", "suspended", "approved")
    BY DEF Turned
  <2>. QED
    BY <1>1, <2>1, <2>2, <2>3, EditFine
<1>3. ASSUME FindApproved(r)
      PROVE  Moves(r)
  <2>. DEFINE q == [req[r] EXCEPT !.pc = "list", !.row = business, !.write = Suspended(r)]
              p == [req[r] EXCEPT !.pc = "tolerate"]
  <2>1. req[r].pc = "find" /\ req[r].op = "suspendReported"
    BY <1>3 DEF FindApproved, At
  <2>2. /\ q \in Request /\ q.pc = "list" /\ q.op = req[r].op /\ q.review = req[r].review
        /\ q.row = business /\ q.write = Suspended(r)
        /\ q.left = req[r].left /\ q.copies = req[r].copies
        /\ p \in Request /\ p.pc = "tolerate" /\ p.op = req[r].op /\ p.review = req[r].review
        /\ p.left = req[r].left /\ p.copies = req[r].copies
    BY <1>0, <1>1 DEF Request, Pcs
  <2>3. (business.status = "approved" /\ Become(r, q)) \/ Become(r, p)
    BY <1>3 DEF FindApproved, Goto
  <2>. HIDE DEF q, p
  <2>4. (business.status = "approved" => Fine(q)) /\ Fine(p)
    BY <1>0, <1>1, <2>1, <2>2 DEF Fine, Holds, HoldsRows, Found, SuspensionPcs, ReviewPcs
  <2>. QED
    BY <2>3, <2>4 DEF Moves
<1>4. ASSUME ListTurns(r)
      PROVE  Moves(r)
  <2>. DEFINE pc == IF Active = {} THEN "hold" ELSE "copy"
              q  == [req[r] EXCEPT !.pc = pc, !.seen = Existing, !.left = Active, !.staff = employees \cup {Owner}]
  <2>1. req[r].pc = "list" /\ pc \in {"hold", "copy"}
    BY <1>4 DEF ListTurns
  <2>2. Become(r, q)
    BY <1>4 DEF ListTurns
  <2>. HIDE DEF pc
  <2>3. /\ q \in Request /\ q.pc = pc /\ q.op = req[r].op /\ q.review = req[r].review
        /\ q.row = req[r].row /\ q.write = req[r].write
        /\ q.left = Active /\ q.copies = req[r].copies
    BY <1>0, <2>1 DEF Request, Pcs
  <2>. HIDE DEF q
  <2>4. Fine(q)
    BY <1>0, <2>1, <2>3 DEF Fine, Holds, HoldsRows, Found, SuspensionPcs, ReviewPcs
  <2>. QED
    BY <2>2, <2>4 DEF Moves
<1>5. ASSUME NEW t \in Ids, CopyTurn(r, t)
      PROVE  Moves(r)
  <2>. DEFINE left == req[r].left \ {t}
              copy == [turn |-> t, wrote |-> turns[t].wrote, tries |-> 0]
              pc   == IF left = {} THEN "hold" ELSE "copy"
              q    == [req[r] EXCEPT !.pc = pc, !.left = left, !.copies = @ \cup {copy}]
  <2>1. req[r].pc = "copy" /\ pc \in {"hold", "copy"} /\ t \in Existing
    BY <1>0, <1>5 DEF CopyTurn, Found
  <2>2. Become(r, q)
    BY <1>5 DEF CopyTurn
  <2>3. turns[t].wrote \in Ids
    BY <1>0, <2>1 DEF TurnRow
  <2>4. copy \in Copy /\ copy.turn = t
    BY <1>0, <2>3 DEF Copy
  <2>. HIDE DEF pc, copy
  <2>5. /\ q \in Request /\ q.pc = pc /\ q.op = req[r].op /\ q.review = req[r].review
        /\ q.row = req[r].row /\ q.write = req[r].write
        /\ q.left = left /\ q.copies = req[r].copies \cup {copy}
    BY <1>0, <2>1, <2>4 DEF Request, Pcs
  <2>. HIDE DEF q
  <2>6. Fine(q)
    BY <1>0, <2>1, <2>4, <2>5 DEF Fine, Holds, HoldsRows, Found, SuspensionPcs, ReviewPcs
  <2>. QED
    BY <2>2, <2>6 DEF Moves
<1>6. ASSUME Hold(r)
      PROVE  Moves(r)
  <2>. DEFINE closed == {s \in sessions : s.user \in req[r].staff}
              q == [req[r] EXCEPT !.pc = "cancel", !.closed = closed]
  <2>1. req[r].pc = "hold" /\ Become(r, q)
    BY <1>6 DEF Hold
  <2>2. /\ q \in Request /\ q.pc = "cancel" /\ q.op = req[r].op /\ q.review = req[r].review
        /\ q.row = req[r].row /\ q.write = req[r].write
        /\ q.left = req[r].left /\ q.copies = req[r].copies
    BY <1>0 DEF Request, Pcs
  <2>. HIDE DEF q
  <2>3. Fine(q)
    BY <1>0, <2>1, <2>2 DEF Fine, Holds, HoldsRows, Found, SuspensionPcs, ReviewPcs
  <2>. QED
    BY <2>1, <2>3 DEF Moves
<1>7. ASSUME NEW c \in req[r].copies, CancelTurn(r, c)
      PROVE  Moves(r)
  <2>. DEFINE row   == turns[c.turn]
              rest  == req[r].copies \ {c}
              again == [c EXCEPT !.wrote = row.wrote, !.tries = @ + 1]
              q1 == [req[r] EXCEPT !.copies = rest, !.cancelled = @ \cup {c.turn}]
              q2 == [req[r] EXCEPT !.copies = rest]
              q3 == [req[r] EXCEPT !.copies = rest \cup {again}]
              pc == AfterFailure(req[r].op)
              q4 == [Unused EXCEPT !.op = req[r].op, !.pc = pc, !.review = req[r].review]
  <2>1. /\ req[r].pc = "cancel" /\ c \in Copy /\ c.turn \in Existing /\ row \in TurnRow
        /\ req[r].op \in {"suspend", "suspendReported"}
    BY <1>0, <1>7 DEF CancelTurn, Found, Request, Holds, SuspensionPcs
  <2>2. \/ Become(r, q1) \/ Become(r, q2)
        \/ c.tries + 1 < MaxCancelAttempts /\ Become(r, q3)
        \/ Become(r, q4)
    BY <1>7 DEF CancelTurn
  <2>3. c.tries + 1 < MaxCancelAttempts => again \in Copy /\ again.turn = c.turn
    <3>1. row.wrote \in Ids /\ c.tries \in Nat
      BY <1>0, <2>1 DEF TurnRow, Copy
    <3>2. c.tries + 1 < MaxCancelAttempts => c.tries + 1 \in 0 .. MaxCancelAttempts
      BY <1>0, <3>1
    <3>. HIDE DEF row
    <3>. QED
      BY <2>1, <3>1, <3>2 DEF Copy
  <2>4. c.turn \in Ids /\ rest \subseteq Copy /\ pc \in {"tolerate", "failed"}
        /\ (pc = "tolerate" => req[r].op = "suspendReported")
    BY <1>0, <2>1 DEF Request, AfterFailure
  <2>. HIDE DEF again, rest, pc
  <2>5. /\ q1 \in Request /\ q1.pc = "cancel" /\ q1.op = req[r].op /\ q1.review = req[r].review
        /\ q1.row = req[r].row /\ q1.write = req[r].write /\ q1.left = req[r].left /\ q1.copies = rest
    BY <1>0, <2>1, <2>4 DEF Request, Pcs
  <2>6. /\ q2 \in Request /\ q2.pc = "cancel" /\ q2.op = req[r].op /\ q2.review = req[r].review
        /\ q2.row = req[r].row /\ q2.write = req[r].write /\ q2.left = req[r].left /\ q2.copies = rest
    BY <1>0, <2>1, <2>4 DEF Request, Pcs
  <2>7. again \in Copy =>
        /\ q3 \in Request /\ q3.pc = "cancel" /\ q3.op = req[r].op /\ q3.review = req[r].review
        /\ q3.row = req[r].row /\ q3.write = req[r].write /\ q3.left = req[r].left
        /\ q3.copies = rest \cup {again}
    BY <1>0, <2>1, <2>4 DEF Request, Pcs
  <2>8. /\ q4 \in Request /\ q4.pc = pc /\ q4.op = req[r].op /\ q4.review = req[r].review
        /\ q4.left = {} /\ q4.copies = {}
    BY <1>0, <2>4 DEF Request, Pcs, Unused
  <2>9. rest \subseteq req[r].copies
    BY DEF rest
  <2>. HIDE DEF q1, q2, q3, q4
  <2>10. Fine(q1) /\ Fine(q2)
    BY <1>0, <2>1, <2>5, <2>6, <2>9 DEF Fine, Holds, HoldsRows, Found, SuspensionPcs, ReviewPcs
  <2>11. c.tries + 1 < MaxCancelAttempts => Fine(q3)
    BY <1>0, <2>1, <2>3, <2>7, <2>9 DEF Fine, Holds, HoldsRows, Found, SuspensionPcs, ReviewPcs
  <2>12. Fine(q4)
    BY <1>0, <2>1, <2>4, <2>8 DEF Fine, Holds, HoldsRows, Found, SuspensionPcs, ReviewPcs
  <2>. QED
    BY <2>2, <2>10, <2>11, <2>12 DEF Moves
<1>8. ASSUME CommitSuspension(r)
      PROVE  Moves(r)
  <2>. DEFINE q == [req[r] EXCEPT !.pc = "verdict"]
  <2>1. req[r].pc = "cancel" /\ req[r].op \in {"suspend", "suspendReported"}
    BY <1>0, <1>8 DEF CommitSuspension, Holds, SuspensionPcs
  <2>2. /\ q \in Request /\ q.pc = "verdict" /\ q.op = req[r].op /\ q.review = req[r].review
        /\ q.left = req[r].left /\ q.copies = req[r].copies
    BY <1>0 DEF Request, Pcs
  <2>3. End(r, "done") \/ (req[r].op # "suspend" /\ Become(r, q))
    BY <1>8 DEF CommitSuspension, Goto
  <2>. HIDE DEF q
  <2>4. req[r].op # "suspend" => Fine(q)
    BY <1>0, <2>1, <2>2 DEF Fine, Holds, Found, SuspensionPcs, ReviewPcs
  <2>. QED
    BY <2>3, <2>4, EndFine DEF Moves
<1>. QED
  BY <1>2, <1>3, <1>4, <1>5, <1>6, <1>7, <1>8 DEF Suspend

\* What the owner edits.
LEMMA OwnFine ==
  ASSUME BInv1, NEW r \in Requests, Own(r)
  PROVE  Moves(r)
<1>0. /\ req[r] \in Request /\ Holds(req[r]) /\ Found(req[r], Existing) /\ business \in BusinessRow
      /\ hours \subseteq Ids /\ r \in Ids
  BY HeldFields DEF Ids
<1>1. ASSUME BeginProfile(r) \/ \E s \in Operations : BeginOperational(r, s)
      PROVE  Moves(r)
  <2>1. PICK op \in {"profile", "operational"}, new \in BusinessRow :
          Edit(r, op, "save", new) /\ new.status = business.status
    <3>1. /\ [business EXCEPT !.profile = r] \in BusinessRow
          /\ [business EXCEPT !.profile = r].status = business.status
          /\ \A s \in Operations : /\ [business EXCEPT !.operational = s] \in BusinessRow
                                   /\ [business EXCEPT !.operational = s].status = business.status
      BY <1>0 DEF BusinessRow
    <3>. QED
      BY <1>1, <3>1 DEF BeginProfile, BeginOperational
  <2>. QED
    BY <2>1, EditFine DEF Turned
<1>2. SaveBusiness(r) \/ InsertHours(r) => Moves(r)
  BY EndFine DEF SaveBusiness, InsertHours
<1>3. ASSUME BeginHours(r)
      PROVE  Moves(r)
  BY <1>3, UnusedFine, StartFine DEF BeginHours, Pcs
<1>4. ASSUME DeleteHours(r)
      PROVE  Moves(r)
  <2>. DEFINE q == [req[r] EXCEPT !.pc = "insert", !.seen = hours]
  <2>1. Become(r, q)
    BY <1>4 DEF DeleteHours
  <2>2. q \in Request /\ q.pc = "insert" /\ q.left = req[r].left /\ q.copies = req[r].copies
    BY <1>0 DEF Request, Pcs
  <2>. HIDE DEF q
  <2>3. Fine(q)
    BY <1>0, <2>2 DEF Fine, Holds, Found, SuspensionPcs, ReviewPcs
  <2>. QED
    BY <2>1, <2>3 DEF Moves
<1>. QED
  BY <1>1, <1>2, <1>3, <1>4 DEF Own

\* What the people of the business do, and a request that dies.
LEMMA VisitFine ==
  ASSUME BInv1, NEW r \in Requests, Visit(r) \/ Abort(r)
  PROVE  Moves(r)
<1>0. req[r] \in Request /\ Active \subseteq Ids
  BY HeldFields
<1>1. ASSUME NEW t \in Ids
      PROVE  LET p == [Unused EXCEPT !.turn = t] IN p \in Request /\ p.left = {} /\ p.copies = {}
  BY DEF Request, Unused, Pcs
<1>2. ASSUME BeginJoin(r) \/ \E u \in Users : LogIn(r, u)
      PROVE  Moves(r)
  BY <1>2, UnusedFine, StartFine DEF BeginJoin, LogIn, Pcs
<1>3. ASSUME NEW t \in Ids, NEW op, NEW st, MoveTurn(r, t, op, st)
      PROVE  Moves(r)
  BY <1>1, <1>3, StartFine DEF MoveTurn, Pcs
<1>4. InsertTurn(r) => Moves(r)
  BY EndFine DEF InsertTurn
<1>5. ASSUME Abort(r)
      PROVE  Moves(r)
  <2>. DEFINE q == [Unused EXCEPT !.op = req[r].op, !.pc = "failed", !.closed = req[r].closed]
  <2>1. Become(r, q)
    BY <1>5 DEF Abort
  <2>2. q \in Request /\ q.pc = "failed" /\ q.left = {} /\ q.copies = {}
    BY <1>0 DEF Request, Pcs, Unused
  <2>. HIDE DEF q
  <2>3. Fine(q)
    BY <2>2 DEF Fine, Holds, Found, SuspensionPcs, ReviewPcs
  <2>. QED
    BY <2>1, <2>3 DEF Moves
<1>. QED
  BY <1>2, <1>3, <1>4, <1>5 DEF Visit

-----------------------------------------------------------------------------
(* What the steps do to the tables.                                        *)

Quiet == UNCHANGED <<business, turns, employees, sessions, report, hours, queues, subscription,
                     ownerApproved, everSuspended, raced, clobbered>>

Writes(r) ==
  \/ CheckApproval(r) \/ CommitApproval(r) \/ CreateReport(r) \/ SaveVerdict(r)
  \/ CommitSuspension(r) \/ SaveBusiness(r) \/ InsertHours(r) \/ InsertTurn(r)
  \/ (\E t \in Ids : MoveTurn(r, t, "attend", "attending") \/ MoveTurn(r, t, "complete", "completed"))
  \/ \E u \in Users : LogIn(r, u)

\* Ten of the steps write; the others read, wait or give up.
LEMMA QuietOrWrites ==
  ASSUME NEW r \in Requests, Step(r)
  PROVE  Quiet \/ Writes(r)
<1>1. Review(r) => Quiet \/ Writes(r)
  BY DEF Review, BeginApprove, BeginReject, BeginSuspendReported, Tolerate, BeginReview,
         Quiet, Writes, people, approval, history
<1>2. Suspend(r) => Quiet \/ Writes(r)
  BY DEF Suspend, BeginSuspend, FindApproved, ListTurns, CopyTurn, Hold, CancelTurn, BeginReactivate,
         Quiet, Writes, people, approval, history
<1>3. Own(r) => Quiet \/ Writes(r)
  BY DEF Own, BeginProfile, BeginOperational, BeginHours, DeleteHours,
         Quiet, Writes, people, approval, history
<1>4. Visit(r) \/ Abort(r) => Quiet \/ Writes(r)
  BY DEF Visit, BeginJoin, Abort, Quiet, Writes, people, approval, history
<1>. QED
  BY <1>1, <1>2, <1>3, <1>4 DEF Step

\* The lock is held by a request or by nobody.
LEMMA LockTyped ==
  ASSUME BInv1, NEW r \in Requests, Step(r)
  PROVE  lock' \in Requests \cup {None}
<1>0. lock \in Requests \cup {None}
  BY DEF BInv1, TypeOK
<1>1. Review(r) => lock' = lock
  BY DEF Review, BeginApprove, CheckApproval, CommitApproval, BeginReject, CreateReport,
         BeginSuspendReported, Tolerate, SaveVerdict, BeginReview
<1>2. Suspend(r) => lock' \in {lock, r, None}
  BY DEF Suspend, BeginSuspend, FindApproved, ListTurns, CopyTurn, Hold, CancelTurn,
         CommitSuspension, BeginReactivate
<1>3. Own(r) => lock' = lock
  BY DEF Own, BeginProfile, SaveBusiness, BeginOperational, BeginHours, DeleteHours, InsertHours
<1>4. Visit(r) \/ Abort(r) => lock' \in {lock, None}
  BY DEF Visit, BeginJoin, InsertTurn, MoveTurn, LogIn, Abort
<1>. QED
  BY <1>0, <1>1, <1>2, <1>3, <1>4 DEF Step

\* What a step may write of a turn: one more, one moved, or those a suspension
\* cancels.
Rewritten(t) ==
  \/ turns'[t] = turns[t]
  \/ turns'[t] \in TurnRow

\* A step of a request keeps the tables typed and loses no turn.
LEMMA StepTyped ==
  ASSUME BInv1, NEW r \in Requests, Step(r)
  PROVE  /\ business' \in BusinessRow
         /\ turns' \in [Ids -> TurnRow \cup {None}] /\ \A t \in Ids : Rewritten(t)
         /\ employees' \subseteq Users /\ sessions' \subseteq Session
         /\ report' \in ReportRow \cup {None}
         /\ hours' \subseteq Ids /\ queues' \subseteq Ids
         /\ subscription' \in {"pending", "trial", "lapsed", "active", "ended"}
         /\ ownerApproved' \in BOOLEAN /\ everSuspended' \in BOOLEAN
         /\ raced' \subseteq Ids /\ clobbered' \subseteq {"business", "report", "hours"}
<1>. USE DEF Rewritten
<1>0. /\ business \in BusinessRow /\ turns \in [Ids -> TurnRow \cup {None}]
      /\ employees \subseteq Users /\ sessions \subseteq Session
      /\ report \in ReportRow \cup {None} /\ hours \subseteq Ids /\ queues \subseteq Ids
      /\ subscription \in {"pending", "trial", "lapsed", "active", "ended"}
      /\ ownerApproved \in BOOLEAN /\ everSuspended \in BOOLEAN
      /\ raced \subseteq Ids /\ clobbered \subseteq {"business", "report", "hours"}
      /\ req[r] \in Request /\ Holds(req[r]) /\ r \in Ids
  BY DEF BInv1, TypeOK, Ids
<1>1. CASE Quiet
  BY <1>0, <1>1 DEF Quiet
<1>2. CASE CheckApproval(r)
  BY <1>0, <1>2 DEF CheckApproval, people, history
<1>3. CASE CommitApproval(r)
  <2>1. req[r].write \in BusinessRow
    BY <1>0, <1>3 DEF CommitApproval, At, Holds, HoldsRows
  <2>. QED
    BY <1>0, <1>3, <2>1 DEF CommitApproval, Overwrite, WriteBusiness, people, history
<1>4. CASE CreateReport(r)
  <2>1. NewReport \in ReportRow
    BY DEF NewReport, ReportRow
  <2>. QED
    BY <1>0, <1>4, <2>1 DEF CreateReport, people, history, approval
<1>5. CASE SaveVerdict(r)
  <2>1. req[r].op \in {"resolve", "dismiss", "suspendReported"}
    BY <1>0, <1>5 DEF SaveVerdict, Holds
  <2>2. report' \in ReportRow
    BY <1>0, <1>5, <2>1 DEF SaveVerdict, Verdict, ReportRow
  <2>. QED
    BY <1>0, <1>5, <2>2 DEF SaveVerdict, people, history, approval
<1>6. CASE CommitSuspension(r)
  <2>1. req[r].write \in BusinessRow
    BY <1>0, <1>6 DEF CommitSuspension, Holds, HoldsRows, SuspensionPcs
  <2>2. [status |-> "cancelled", wrote |-> r] \in TurnRow
    BY <1>0 DEF TurnRow, TerminalStates, ActiveStates
  <2>3. turns' \in [Ids -> TurnRow \cup {None}] /\ \A t \in Ids : Rewritten(t)
    BY <1>0, <1>6, <2>2 DEF CommitSuspension
  <2>4. Taking \cup (Existing \ req[r].seen) \subseteq Ids
    BY DEF Taking, Existing, Ids
  <2>. QED
    BY <1>0, <1>6, <2>1, <2>3, <2>4 DEF CommitSuspension, WriteBusiness, approval
<1>7. CASE SaveBusiness(r)
  <2>1. req[r].write \in BusinessRow
    BY <1>0, <1>7 DEF SaveBusiness, Holds, HoldsRows
  <2>. QED
    BY <1>0, <1>7, <2>1 DEF SaveBusiness, Overwrite, WriteBusiness, people, history, approval
<1>8. CASE InsertHours(r)
  BY <1>0, <1>8 DEF InsertHours, people, history, approval
<1>9. CASE InsertTurn(r) \/ \E t \in Ids : MoveTurn(r, t, "attend", "attending")
                                           \/ MoveTurn(r, t, "complete", "completed")
  <2>1. PICK t \in Ids, st \in {"waiting", "attending", "completed"} :
          turns' = [turns EXCEPT ![t] = [status |-> st, wrote |-> r]]
    BY <1>0, <1>9 DEF InsertTurn, MoveTurn
  <2>2. [status |-> st, wrote |-> r] \in TurnRow
    BY <1>0 DEF TurnRow, TerminalStates, ActiveStates
  <2>3. turns' \in [Ids -> TurnRow \cup {None}] /\ \A u \in Ids : Rewritten(u)
    BY <1>0, <2>1, <2>2
  <2>. QED
    BY <1>0, <1>9, <2>3 DEF InsertTurn, MoveTurn, history, approval
<1>10. CASE \E u \in Users : LogIn(r, u)
  <2>1. PICK u \in Users : LogIn(r, u)
    BY <1>10
  <2>2. [user |-> u, id |-> r] \in Session
    BY <1>0 DEF Session
  <2>. QED
    BY <1>0, <2>1, <2>2 DEF LogIn, history, approval
<1>. QED
  BY <1>1, <1>2, <1>3, <1>4, <1>5, <1>6, <1>7, <1>8, <1>9, <1>10, QuietOrWrites DEF Writes

\* No step loses a turn.
LEMMA TurnsStay ==
  ASSUME BInv1, BNext
  PROVE  Existing \subseteq Existing'
<1>1. ASSUME NEW r \in Requests, Step(r), NEW t \in Existing
      PROVE  t \in Existing'
  <2>1. t \in Ids /\ turns[t] # None /\ Rewritten(t)
    BY <1>1, StepTyped DEF Existing
  <2>2. turns'[t] # None
    BY <2>1, NoneIsNoRow DEF Rewritten
  <2>. QED
    BY <2>1, <2>2 DEF Existing
<1>. QED
  BY <1>1 DEF BNext, Outside, vars, Existing

\* Every step of a request leaves every request fine.
LEMMA StepMoves ==
  ASSUME BInv1, NEW r \in Requests, Step(r)
  PROVE  Moves(r)
BY ReviewFine, SuspendFine, OwnFine, VisitFine DEF Step

\* The first layer is inductive.
LEMMA NextBInv1 ==
  ASSUME BInv1, BNext
  PROVE  BInv1'
<1>0. Existing \subseteq Existing'
  BY TurnsStay
<1>1. ASSUME NEW r \in Requests, Step(r)
      PROVE  BInv1'
  <2>1. PICK q : Become(r, q) /\ Fine(q)
    BY <1>1, StepMoves DEF Moves
  <2>2. req' \in [Requests -> Request]
    BY <2>1 DEF Become, Fine, BInv1, TypeOK
  <2>3. ASSUME NEW o \in Requests
        PROVE  Holds(req'[o]) /\ Found(req'[o], Existing)
    BY <2>1 DEF Become, Fine, BInv1, TypeOK
  <2>4. ASSUME NEW o \in Requests
        PROVE  Found(req'[o], Existing')
    BY <1>0, <2>3 DEF Found
  <2>5. TypeOK'
    BY <1>1, <2>2, StepTyped, LockTyped DEF TypeOK
  <2>. QED
    BY <2>3, <2>4, <2>5 DEF BInv1
<1>2. ASSUME Outside \/ UNCHANGED vars
      PROVE  BInv1'
  <2>1. UNCHANGED <<business, turns, report, hours, queues, subscription, ownerApproved, lock, req,
                    everSuspended, raced, clobbered>>
        /\ employees' \subseteq Users /\ sessions' \subseteq sessions
    BY <1>2 DEF Outside, vars, approval, history, BInv1, TypeOK
  <2>. QED
    BY <2>1 DEF BInv1, TypeOK, Existing
<1>. QED
  BY <1>1, <1>2 DEF BNext

-----------------------------------------------------------------------------
(* What the steps do to what the requests know.                            *)

\* A request that has answered takes no further step.
LEMMA StepsNotDone ==
  ASSUME NEW r \in Requests, Step(r)
  PROVE  req[r].pc # "done"
<1>0. req[r] = Unused => req[r].pc = "unused"
  BY DEF Unused
<1>1. Review(r) => req[r].pc # "done"
  BY <1>0 DEF Review, BeginApprove, CheckApproval, CommitApproval, BeginReject, CreateReport,
         BeginSuspendReported, Tolerate, SaveVerdict, BeginReview, Edit, Start, At
<1>2. Suspend(r) => req[r].pc # "done"
  BY <1>0 DEF Suspend, BeginSuspend, FindApproved, ListTurns, CopyTurn, Hold, CancelTurn,
         CommitSuspension, BeginReactivate, Edit, Start, At
<1>3. Own(r) => req[r].pc # "done"
  BY <1>0 DEF Own, BeginProfile, SaveBusiness, BeginOperational, BeginHours, DeleteHours, InsertHours,
         Edit, Start, At
<1>4. Visit(r) \/ Abort(r) => req[r].pc # "done"
  BY <1>0 DEF Visit, BeginJoin, InsertTurn, MoveTurn, LogIn, Abort, Start, At
<1>. QED
  BY <1>1, <1>2, <1>3, <1>4 DEF Step

\* What a step leaves of the tables for a request that has listed something:
\* turns do not open again, what is new is named after the request that moves.
LEMMA StepWorld ==
  ASSUME BInv1, BInv2, NEW r \in Requests, Step(r)
  PROVE  /\ Active' \cap Existing \subseteq Active
         /\ Existing' \subseteq Existing \cup {r}
         /\ r \in Existing' \ Existing => InsertTurn(r)
         /\ queues \subseteq queues'
         /\ everSuspended => everSuspended'
         /\ \A s \in sessions' \ sessions : s.id = r /\ \E u \in Users : LogIn(r, u)
<1>0. /\ turns \in [Ids -> TurnRow \cup {None}] /\ r \in Ids
      /\ \A t \in Existing : turns[t] \in TurnRow
      /\ req[r].cancelled \subseteq Existing /\ r # Seed
  BY HeldFields, BusinessesAssumption DEF Ids, BInv2, Knows
<1>a. ASSUME NEW t \in Ids, NEW u \in Ids, u # t, NEW row, turns' = [turns EXCEPT ![t] = row]
      PROVE  turns'[u] = turns[u]
  <2>1. turns \in [Ids -> TurnRow \cup {None}]
    BY <1>0
  <2>. QED
    BY <1>a, <2>1
<1>1. CASE UNCHANGED <<turns, sessions>>
  <2>1. Existing' = Existing /\ Active' = Active
    BY <1>1 DEF Existing, Active
  <2>2. CommitApproval(r) => queues \subseteq queues' /\ UNCHANGED everSuspended
    BY DEF CommitApproval, history
  <2>3. queues \subseteq queues' /\ (everSuspended => everSuspended')
    <3>1. CASE Quiet \/ CheckApproval(r) \/ CreateReport(r) \/ SaveVerdict(r)
      BY <3>1 DEF Quiet, CheckApproval, CreateReport, SaveVerdict, approval, history
    <3>2. CASE CommitSuspension(r) \/ SaveBusiness(r) \/ InsertHours(r) \/ InsertTurn(r)
      BY <3>2 DEF CommitSuspension, SaveBusiness, InsertHours, InsertTurn, approval, history
    <3>3. \A u \in Users : LogIn(r, u) => UNCHANGED <<queues, everSuspended>>
      BY DEF LogIn, approval, history
    <3>4. \A t \in Ids : MoveTurn(r, t, "attend", "attending") \/ MoveTurn(r, t, "complete", "completed")
            => UNCHANGED <<queues, everSuspended>>
      BY DEF MoveTurn, approval, history
    <3>. QED
      BY <2>2, <3>1, <3>2, <3>3, <3>4, QuietOrWrites DEF Writes
  <2>. QED
    BY <1>1, <2>1, <2>3
<1>2. CASE CommitSuspension(r)
  <2>1. ASSUME NEW t \in Ids
        PROVE  \/ turns'[t] = turns[t]
               \/ turns'[t].status = "cancelled" /\ t \in Existing
    BY <1>0, <1>2 DEF CommitSuspension
  <2>2. Existing' \subseteq Existing
    BY <2>1 DEF Existing
  <2>3. Active' \subseteq Active
    <3>. SUFFICES ASSUME NEW t \in Active' PROVE t \in Active
      OBVIOUS
    <3>1. t \in Ids /\ t \in Existing' /\ turns'[t].status \in ActiveStates
      BY DEF Active, Existing
    <3>2. turns'[t] = turns[t]
      BY <2>1, <3>1 DEF ActiveStates
    <3>. QED
      BY <2>2, <3>1, <3>2 DEF Active
  <2>4. r \notin Existing' \ Existing
    BY <2>2
  <2>5. UNCHANGED queues /\ everSuspended' = TRUE /\ sessions' \subseteq sessions
    BY <1>2 DEF CommitSuspension, approval
  <2>. QED
    BY <2>2, <2>3, <2>4, <2>5
<1>3. CASE InsertTurn(r)
  <2>1. turns' = [turns EXCEPT ![r] = [status |-> "waiting", wrote |-> r]]
        /\ UNCHANGED <<sessions, queues, everSuspended>> /\ At(r, "join", "insert")
    BY <1>3 DEF InsertTurn, approval, history
  <2>2. r \notin Existing
    BY <1>0, <2>1 DEF At, BInv2
  <2>3. ASSUME NEW t \in Ids, t # r
        PROVE  turns'[t] = turns[t]
    BY <1>0, <1>a, <2>1, <2>3
  <2>4. Existing' \subseteq Existing \cup {r}
    BY <2>3 DEF Existing
  <2>5. Active' \cap Existing \subseteq Active
    BY <2>2, <2>3 DEF Active, Existing
  <2>. QED
    BY <1>3, <2>1, <2>4, <2>5
<1>4. CASE \E t \in Ids : MoveTurn(r, t, "attend", "attending") \/ MoveTurn(r, t, "complete", "completed")
  <2>1. PICK t \in Active, st \in {"attending", "completed"} :
          /\ turns' = [turns EXCEPT ![t] = [status |-> st, wrote |-> r]]
          /\ UNCHANGED <<sessions, queues, everSuspended>>
    BY <1>4 DEF MoveTurn, approval, history
  <2>2. t \in Existing
    BY <2>1 DEF Active
  <2>3. ASSUME NEW u \in Ids, u # t
        PROVE  turns'[u] = turns[u]
    BY <1>a, <2>1, <2>2, <2>3 DEF Existing
  <2>4. Existing' \subseteq Existing
    BY <2>2, <2>3 DEF Existing
  <2>5. Active' \subseteq Active
    BY <2>1, <2>3, <2>4 DEF Active, Existing
  <2>6. r \notin Existing' \ Existing
    BY <2>4
  <2>. QED
    BY <2>1, <2>4, <2>5, <2>6
<1>5. CASE \E u \in Users : LogIn(r, u)
  <2>1. PICK u \in Users : LogIn(r, u)
    BY <1>5
  <2>2. UNCHANGED <<turns, queues, everSuspended>> /\ sessions' = sessions \cup {[user |-> u, id |-> r]}
    BY <2>1 DEF LogIn, approval, history
  <2>3. Existing' = Existing /\ Active' = Active
    BY <2>2 DEF Existing, Active
  <2>4. \A s \in sessions' \ sessions : s.id = r
    BY <2>2
  <2>. QED
    BY <1>5, <2>2, <2>3, <2>4
<1>. QED
  <2>1. \/ UNCHANGED <<turns, sessions>> \/ CommitSuspension(r) \/ InsertTurn(r)
        \/ (\E t \in Ids : MoveTurn(r, t, "attend", "attending") \/ MoveTurn(r, t, "complete", "completed"))
        \/ \E u \in Users : LogIn(r, u)
    BY QuietOrWrites DEF Writes, Quiet, CheckApproval, CommitApproval, CreateReport, SaveVerdict,
         SaveBusiness, InsertHours, people
  <2>. QED
    BY <1>1, <1>2, <1>3, <1>4, <1>5, <2>1

\* The request that moves knows what it should afterwards, has closed sessions
\* there are, and is about to take a turn only if it has just begun to.
Learns(r) ==
  \E q : /\ Become(r, q)
         /\ Knows(q, Existing', Active', sessions', queues', everSuspended')
         /\ q.closed \subseteq req[r].closed \cup sessions
         /\ q.op = "join" /\ q.pc = "insert" => BeginJoin(r)

\* A request that answers knows no more than it did.
LEMMA EndLearns ==
  ASSUME BInv1, NEW r \in Requests, NEW pc \in {"done", "failed"}, End(r, pc),
         pc = "failed" \/ req[r].op # "suspend"
  PROVE  Learns(r)
<1>. DEFINE q == [Unused EXCEPT !.op = req[r].op, !.pc = pc, !.turn = req[r].turn,
                                !.seen = req[r].seen, !.closed = req[r].closed]
<1>1. q.pc = pc /\ q.op = req[r].op /\ q.closed = req[r].closed /\ q.cancelled = {}
  BY DEF Unused
<1>2. Become(r, q)
  BY DEF End
<1>. HIDE DEF q
<1>3. Knows(q, Existing', Active', sessions', queues', everSuspended')
  BY <1>1 DEF Knows
<1>. QED
  BY <1>1, <1>2, <1>3 DEF Learns

\* Nor does one that starts; what it edits it has just read.
LEMMA StartLearns ==
  ASSUME BInv1, NEW r \in Requests, NEW op, NEW pc \in Pcs, NEW p \in Request,
         p.cancelled = {}, p.closed = {},
         pc \in {"insert", "replace", "find", "check", "list", "verdict", "done", "save"},
         pc = "done" => op # "suspend",
         pc = "verdict" => op # "suspendReported",
         pc = "save" /\ p.row.status = "suspended" => everSuspended',
         pc = "insert" => BeginJoin(r),
         Start(r, op, pc, p)
  PROVE  Learns(r)
<1>. DEFINE q == [p EXCEPT !.op = op, !.pc = pc]
<1>2. q.pc = pc /\ q.op = op /\ q.row = p.row /\ q.cancelled = {} /\ q.closed = {}
  BY DEF Request
<1>3. Become(r, q)
  BY DEF Start
<1>. HIDE DEF q
<1>4. Knows(q, Existing', Active', sessions', queues', everSuspended')
  BY <1>2 DEF Knows
<1>. QED
  BY <1>2, <1>3, <1>4 DEF Learns

LEMMA EditLearns ==
  ASSUME BInv1, BInv2, NEW r \in Requests, NEW op, NEW pc \in {"check", "save", "list"},
         NEW new \in BusinessRow, Edit(r, op, pc, new), everSuspended => everSuspended'
  PROVE  Learns(r)
<1>. DEFINE p == [Unused EXCEPT !.row = business, !.write = new]
<1>1. p \in Request /\ p.cancelled = {} /\ p.closed = {} /\ p.row = business
  BY HeldFields DEF Request, Unused, Pcs
<1>2. Start(r, op, pc, p)
  BY DEF Edit
<1>. HIDE DEF p
<1>3. pc \in Pcs /\ (business.status = "suspended" => everSuspended')
  BY DEF Pcs, BInv2
<1>. QED
  BY <1>1, <1>2, <1>3, StartLearns

\* What is known before a step, and what of it the step leaves.
LEMMA Known ==
  ASSUME BInv1, BInv2, NEW r \in Requests, Step(r)
  PROVE  /\ req[r] \in Request /\ Holds(req[r]) /\ Found(req[r], Existing)
         /\ Knows(req[r], Existing, Active, sessions, queues, everSuspended)
         /\ business \in BusinessRow /\ report \in ReportRow \cup {None}
         /\ Existing \subseteq Ids /\ Active \subseteq Existing /\ queues \subseteq Ids /\ hours \subseteq Ids
         /\ employees \subseteq Users /\ sessions \subseteq Session /\ Owner \in Users
         /\ (business.status = "suspended" => everSuspended)
         /\ Existing \subseteq Existing' /\ queues \subseteq queues'
         /\ Active' \cap Existing \subseteq Active
         /\ (everSuspended => everSuspended')
BY HeldFields, StepWorld, TurnsStay DEF BInv1, TypeOK, BInv2, BNext

LEMMA ReviewLearns ==
  ASSUME BInv1, BInv2, NEW r \in Requests, Step(r), Review(r)
  PROVE  Learns(r)
<1>0. /\ req[r] \in Request /\ Holds(req[r]) /\ business \in BusinessRow
      /\ Knows(req[r], Existing, Active, sessions, queues, everSuspended)
      /\ Existing \subseteq Existing' /\ queues \subseteq queues' /\ queues \subseteq Ids
      /\ (business.status = "suspended" => everSuspended) /\ (everSuspended => everSuspended')
      /\ report \in ReportRow \cup {None}
  BY Known
<1>1. ASSUME BeginApprove(r) \/ BeginReject(r)
      PROVE  Learns(r)
  <2>1. \A st \in {"approved", "rejected"} : [business EXCEPT !.status = st] \in BusinessRow
    BY <1>0 DEF BusinessRow
  <2>. QED
    BY <1>0, <1>1, <2>1, EditLearns DEF BeginApprove, BeginReject
<1>2. ASSUME CheckApproval(r)
      PROVE  Learns(r)
  <2>. DEFINE q == [req[r] EXCEPT !.pc = "commit", !.seen = queues]
  <2>1. At(r, "approve", "check") /\ (End(r, "failed") \/ Become(r, q))
    BY <1>2 DEF CheckApproval
  <2>2. /\ q.pc = "commit" /\ q.op = req[r].op /\ q.seen = queues
        /\ q.closed = req[r].closed /\ q.cancelled = req[r].cancelled
    BY <1>0 DEF Request
  <2>. HIDE DEF q
  <2>3. Knows(q, Existing', Active', sessions', queues', everSuspended')
    BY <1>0, <2>1, <2>2 DEF Knows, At
  <2>4. Become(r, q) => Learns(r)
    BY <2>2, <2>3 DEF Learns
  <2>. QED
    BY <2>1, <2>4, EndLearns
<1>3. CommitApproval(r) => Learns(r)
  BY EndLearns DEF CommitApproval, At
<1>4. SaveVerdict(r) => Learns(r)
  BY <1>0, EndLearns DEF SaveVerdict, Holds
<1>5. ASSUME \/ CreateReport(r) \/ BeginSuspendReported(r)
             \/ BeginReview(r, "resolve") \/ BeginReview(r, "dismiss")
      PROVE  Learns(r)
  <2>. DEFINE p == [Unused EXCEPT !.review = report]
  <2>1. p \in Request /\ p.cancelled = {} /\ p.closed = {}
        /\ Unused \in Request /\ Unused.cancelled = {} /\ Unused.closed = {}
    BY <1>0 DEF Request, Unused, Pcs
  <2>. HIDE DEF p
  <2>2. \/ Start(r, "report", "done", Unused) \/ Start(r, "suspendReported", "find", p)
        \/ Start(r, "resolve", "verdict", p) \/ Start(r, "dismiss", "verdict", p)
    BY <1>5 DEF CreateReport, BeginSuspendReported, BeginReview, p
  <2>. QED
    BY <2>1, <2>2, StartLearns DEF Pcs
<1>6. ASSUME Tolerate(r)
      PROVE  Learns(r)
  <2>. DEFINE q == [req[r] EXCEPT !.pc = "verdict"]
  <2>1. req[r].pc = "tolerate" /\ (End(r, "failed") \/ (business.status = "suspended" /\ Become(r, q)))
    BY <1>6 DEF Tolerate, Goto
  <2>2. q.pc = "verdict" /\ q.op = req[r].op /\ q.closed = req[r].closed /\ q.cancelled = req[r].cancelled
    BY <1>0 DEF Request
  <2>. HIDE DEF q
  <2>3. business.status = "suspended" => Knows(q, Existing', Active', sessions', queues', everSuspended')
    BY <1>0, <2>1, <2>2 DEF Knows
  <2>4. business.status = "suspended" /\ Become(r, q) => Learns(r)
    BY <2>2, <2>3 DEF Learns
  <2>. QED
    BY <2>1, <2>4, EndLearns
<1>. QED
  BY <1>1, <1>2, <1>3, <1>4, <1>5, <1>6 DEF Review

\* One suspension, step by step: the turns it listed are closed or accounted for.
LEMMA SuspendLearns ==
  ASSUME BInv1, BInv2, NEW r \in Requests, Step(r), Suspend(r)
  PROVE  Learns(r)
<1>0. /\ req[r] \in Request /\ Holds(req[r]) /\ business \in BusinessRow /\ Found(req[r], Existing)
      /\ Knows(req[r], Existing, Active, sessions, queues, everSuspended)
      /\ Existing \subseteq Existing' /\ Active' \cap Existing \subseteq Active
      /\ Active \subseteq Existing /\ Existing \subseteq Ids
      /\ (business.status = "suspended" => everSuspended) /\ (everSuspended => everSuspended')
  BY Known
<1>a. r \in Ids
  BY DEF Ids
<1>1. ASSUME BeginSuspend(r) \/ BeginReactivate(r)
      PROVE  Learns(r)
  <2>. DEFINE new == [business EXCEPT !.status = "approved", !.reactivatedBy = r]
  <2>1. new \in BusinessRow /\ Suspended(r) \in BusinessRow
    BY <1>0, <1>a DEF BusinessRow, Suspended
  <2>2. Edit(r, "suspend", "list", Suspended(r)) \/ Edit(r, "reactivate", "save", new)
    BY <1>1 DEF BeginSuspend, BeginReactivate
  <2>. HIDE DEF new
  <2>. QED
    BY <1>0, <2>1, <2>2, EditLearns
<1>2. ASSUME FindApproved(r)
      PROVE  Learns(r)
  <2>. DEFINE q == [req[r] EXCEPT !.pc = "list", !.row = business, !.write = Suspended(r)]
              p == [req[r] EXCEPT !.pc = "tolerate"]
  <2>1. Become(r, q) \/ Become(r, p)
    BY <1>2 DEF FindApproved, Goto
  <2>2. /\ q.pc = "list" /\ q.closed = req[r].closed /\ q.cancelled = req[r].cancelled
        /\ p.pc = "tolerate" /\ p.closed = req[r].closed /\ p.cancelled = req[r].cancelled
    BY <1>0 DEF Request
  <2>. HIDE DEF p, q
  <2>3. /\ Knows(q, Existing', Active', sessions', queues', everSuspended')
        /\ Knows(p, Existing', Active', sessions', queues', everSuspended')
    BY <1>0, <2>2 DEF Knows
  <2>. QED
    BY <2>1, <2>2, <2>3 DEF Learns
<1>3. ASSUME ListTurns(r)
      PROVE  Learns(r)
  <2>. DEFINE pc == IF Active = {} THEN "hold" ELSE "copy"
              q  == [req[r] EXCEPT !.pc = pc, !.seen = Existing, !.left = Active, !.staff = employees \cup {Owner}]
  <2>1. Become(r, q) /\ pc \in {"hold", "copy"} /\ (pc = "hold" => Active = {})
    BY <1>3 DEF ListTurns
  <2>. HIDE DEF pc
  <2>2. /\ q.pc = pc /\ q.seen = Existing /\ q.left = Active
        /\ q.closed = req[r].closed /\ q.cancelled = req[r].cancelled
    BY <1>0 DEF Request
  <2>. HIDE DEF q
  <2>3. Accounted(q, Active')
    BY <1>0, <2>2 DEF Accounted
  <2>4. Knows(q, Existing', Active', sessions', queues', everSuspended')
    BY <1>0, <2>1, <2>2, <2>3 DEF Knows
  <2>. QED
    BY <2>1, <2>2, <2>4 DEF Learns
<1>4. ASSUME NEW t \in Ids, CopyTurn(r, t)
      PROVE  Learns(r)
  <2>. DEFINE left == req[r].left \ {t}
              copy == [turn |-> t, wrote |-> turns[t].wrote, tries |-> 0]
              pc   == IF left = {} THEN "hold" ELSE "copy"
              q    == [req[r] EXCEPT !.pc = pc, !.left = left, !.copies = @ \cup {copy}]
  <2>1. Become(r, q) /\ req[r].pc = "copy" /\ pc \in {"hold", "copy"} /\ (pc = "hold" => left = {})
    BY <1>4 DEF CopyTurn
  <2>2. copy.turn = t
    OBVIOUS
  <2>. HIDE DEF pc, copy
  <2>3. /\ q.pc = pc /\ q.seen = req[r].seen /\ q.left = left /\ q.copies = req[r].copies \cup {copy}
        /\ q.closed = req[r].closed /\ q.cancelled = req[r].cancelled
    BY <1>0 DEF Request
  <2>. HIDE DEF q
  <2>4. req[r].seen \subseteq Existing /\ Accounted(req[r], Active)
    BY <1>0, <2>1 DEF Knows
  <2>5. Accounted(q, Active')
    <3>. SUFFICES ASSUME NEW u \in q.seen \cap Active'
                  PROVE  u \in q.left \/ u \in q.cancelled \/ \E c \in q.copies : c.turn = u
      BY DEF Accounted
    <3>1. u \in req[r].seen \cap Active
      BY <1>0, <2>3, <2>4
    <3>. QED
      BY <2>2, <2>3, <2>4, <3>1 DEF Accounted
  <2>6. Knows(q, Existing', Active', sessions', queues', everSuspended')
    BY <1>0, <2>1, <2>3, <2>4, <2>5 DEF Knows
  <2>. QED
    BY <2>1, <2>3, <2>6 DEF Learns
<1>5. ASSUME Hold(r)
      PROVE  Learns(r)
  <2>. DEFINE mine == {s \in sessions : s.user \in req[r].staff}
              q == [req[r] EXCEPT !.pc = "cancel", !.closed = mine]
  <2>1. Become(r, q) /\ req[r].pc = "hold" /\ mine \subseteq sessions
    BY <1>5 DEF Hold
  <2>. HIDE DEF mine
  <2>2. /\ q.pc = "cancel" /\ q.seen = req[r].seen /\ q.left = req[r].left /\ q.copies = req[r].copies
        /\ q.closed = mine /\ q.cancelled = req[r].cancelled
    BY <1>0 DEF Request
  <2>. HIDE DEF q
  <2>3. req[r].seen \subseteq Existing /\ Accounted(req[r], Active) /\ req[r].left = {}
    BY <1>0, <2>1 DEF Knows
  <2>4. Accounted(q, Active')
    BY <1>0, <2>2, <2>3 DEF Accounted
  <2>5. Knows(q, Existing', Active', sessions', queues', everSuspended')
    BY <1>0, <2>2, <2>3, <2>4 DEF Knows
  <2>. QED
    BY <2>1, <2>2, <2>5 DEF Learns
<1>6. ASSUME NEW c \in req[r].copies, CancelTurn(r, c)
      PROVE  Learns(r)
  <2>. DEFINE row   == turns[c.turn]
              rest  == req[r].copies \ {c}
              again == [c EXCEPT !.wrote = row.wrote, !.tries = @ + 1]
              q1 == [req[r] EXCEPT !.copies = rest, !.cancelled = @ \cup {c.turn}]
              q2 == [req[r] EXCEPT !.copies = rest]
              q3 == [req[r] EXCEPT !.copies = rest \cup {again}]
              pc == AfterFailure(req[r].op)
              q4 == [Unused EXCEPT !.op = req[r].op, !.pc = pc, !.review = req[r].review]
  <2>1. req[r].pc = "cancel" /\ c \in Copy /\ c.turn \in Existing /\ pc \in {"tolerate", "failed"}
    BY <1>0, <1>6 DEF CancelTurn, Found, Request, AfterFailure
  <2>2. \/ Become(r, q1)
        \/ Become(r, q2) /\ row.status \in TerminalStates
        \/ Become(r, q3)
        \/ Become(r, q4)
    BY <1>6 DEF CancelTurn
  <2>3. again.turn = c.turn
    BY <2>1 DEF Copy
  <2>4. row.status \in TerminalStates => c.turn \notin Active
    BY DEF Active, TerminalStates, ActiveStates
  <2>. HIDE DEF again, rest, pc, row
  <2>5. /\ q1.pc = "cancel" /\ q1.seen = req[r].seen /\ q1.left = req[r].left /\ q1.copies = rest
        /\ q1.closed = req[r].closed /\ q1.cancelled = req[r].cancelled \cup {c.turn}
    BY <1>0, <2>1 DEF Request
  <2>6. /\ q2.pc = "cancel" /\ q2.seen = req[r].seen /\ q2.left = req[r].left /\ q2.copies = rest
        /\ q2.closed = req[r].closed /\ q2.cancelled = req[r].cancelled
    BY <1>0, <2>1 DEF Request
  <2>7. /\ q3.pc = "cancel" /\ q3.seen = req[r].seen /\ q3.left = req[r].left /\ q3.copies = rest \cup {again}
        /\ q3.closed = req[r].closed /\ q3.cancelled = req[r].cancelled
    BY <1>0, <2>1 DEF Request
  <2>8. q4.pc = pc /\ q4.closed = {} /\ q4.cancelled = {}
    BY DEF Unused
  <2>9. \A d \in req[r].copies : d = c \/ d \in rest
    BY DEF rest
  <2>. HIDE DEF q1, q2, q3, q4
  <2>10. req[r].seen \subseteq Existing /\ Accounted(req[r], Active) /\ req[r].left = {}
         /\ req[r].cancelled \subseteq Existing
    BY <1>0, <2>1 DEF Knows
  <2>11. ASSUME NEW u \in req[r].seen \cap Active'
         PROVE  u \in Active /\ (u \in req[r].cancelled \/ u = c.turn \/ \E d \in rest : d.turn = u)
    <3>1. u \in req[r].seen \cap Active
      BY <1>0, <2>10
    <3>. QED
      BY <2>9, <2>10, <3>1 DEF Accounted
  <2>12. Accounted(q1, Active') /\ (row.status \in TerminalStates => Accounted(q2, Active'))
    BY <2>4, <2>5, <2>6, <2>11 DEF Accounted
  <2>13. Accounted(q3, Active')
    BY <2>3, <2>7, <2>11 DEF Accounted
  <2>14. /\ Knows(q1, Existing', Active', sessions', queues', everSuspended')
         /\ row.status \in TerminalStates => Knows(q2, Existing', Active', sessions', queues', everSuspended')
         /\ Knows(q3, Existing', Active', sessions', queues', everSuspended')
    BY <1>0, <2>1, <2>5, <2>6, <2>7, <2>10, <2>12, <2>13 DEF Knows
  <2>15. Knows(q4, Existing', Active', sessions', queues', everSuspended')
    BY <2>1, <2>8 DEF Knows
  <2>. QED
    BY <2>1, <2>2, <2>5, <2>6, <2>7, <2>8, <2>14, <2>15 DEF Learns
<1>7. ASSUME CommitSuspension(r)
      PROVE  Learns(r)
  <2>1. /\ req[r].pc = "cancel" /\ req[r].copies = {}
        /\ turns' = [t \in Ids |-> IF t \in req[r].cancelled THEN [status |-> "cancelled", wrote |-> r] ELSE turns[t]]
        /\ sessions' = sessions \ req[r].closed /\ everSuspended' = TRUE
    BY <1>7 DEF CommitSuspension
  <2>2. req[r].seen \subseteq Existing /\ Accounted(req[r], Active) /\ req[r].left = {}
    BY <1>0, <2>1 DEF Knows
  <2>3. \A t \in req[r].cancelled : t \notin Active'
    BY <2>1 DEF Active, Existing, ActiveStates
  <2>4. req[r].seen \cap Active' = {}
    BY <1>0, <2>1, <2>2, <2>3 DEF Accounted
  <2>5. req[r].closed \cap sessions' = {}
    BY <2>1
  <2>6. CASE req[r].op = "suspend"
    <3>. DEFINE q == [Unused EXCEPT !.op = req[r].op, !.pc = "done", !.turn = req[r].turn,
                                    !.seen = req[r].seen, !.closed = req[r].closed]
    <3>1. Become(r, q)
      BY <1>7, <2>6 DEF CommitSuspension, End
    <3>2. q.pc = "done" /\ q.seen = req[r].seen /\ q.closed = req[r].closed /\ q.cancelled = {}
      BY DEF Unused
    <3>. HIDE DEF q
    <3>3. Knows(q, Existing', Active', sessions', queues', everSuspended')
      BY <1>0, <2>2, <2>4, <2>5, <3>2 DEF Knows
    <3>. QED
      BY <3>1, <3>2, <3>3 DEF Learns
  <2>7. CASE req[r].op # "suspend"
    <3>. DEFINE q == [req[r] EXCEPT !.pc = "verdict"]
    <3>1. Become(r, q)
      BY <1>7, <2>7 DEF CommitSuspension, Goto
    <3>2. q.pc = "verdict" /\ q.closed = req[r].closed /\ q.cancelled = req[r].cancelled
      BY <1>0 DEF Request
    <3>. HIDE DEF q
    <3>3. Knows(q, Existing', Active', sessions', queues', everSuspended')
      BY <1>0, <2>1, <3>2 DEF Knows
    <3>. QED
      BY <3>1, <3>2, <3>3 DEF Learns
  <2>. QED
    BY <2>6, <2>7
<1>. QED
  BY <1>1, <1>2, <1>3, <1>4, <1>5, <1>6, <1>7 DEF Suspend

LEMMA OwnLearns ==
  ASSUME BInv1, BInv2, NEW r \in Requests, Step(r), Own(r)
  PROVE  Learns(r)
<1>0. /\ req[r] \in Request /\ Holds(req[r]) /\ business \in BusinessRow
      /\ Knows(req[r], Existing, Active, sessions, queues, everSuspended)
      /\ Existing \subseteq Existing' /\ (everSuspended => everSuspended')
  BY Known
<1>a. r \in Ids
  BY DEF Ids
<1>1. ASSUME BeginProfile(r) \/ \E s \in Operations : BeginOperational(r, s)
      PROVE  Learns(r)
  <2>1. PICK op \in {"profile", "operational"}, new \in BusinessRow : Edit(r, op, "save", new)
    <3>1. /\ [business EXCEPT !.profile = r] \in BusinessRow
          /\ \A s \in Operations : [business EXCEPT !.operational = s] \in BusinessRow
      BY <1>0, <1>a DEF BusinessRow
    <3>. QED
      BY <1>1, <3>1 DEF BeginProfile, BeginOperational
  <2>. QED
    BY <1>0, <2>1, EditLearns
<1>2. SaveBusiness(r) => Learns(r)
  BY EndLearns DEF SaveBusiness
<1>3. InsertHours(r) => Learns(r)
  BY EndLearns DEF InsertHours, At
<1>4. ASSUME BeginHours(r)
      PROVE  Learns(r)
  <2>1. Unused.cancelled = {}
    BY DEF Unused
  <2>. QED
    BY <1>4, <2>1, UnusedFine, StartLearns DEF BeginHours, Pcs
<1>5. ASSUME DeleteHours(r)
      PROVE  Learns(r)
  <2>. DEFINE q == [req[r] EXCEPT !.pc = "insert", !.seen = hours]
  <2>1. Become(r, q) /\ req[r].op = "hours"
    BY <1>5 DEF DeleteHours, At
  <2>2. q.pc = "insert" /\ q.op = req[r].op /\ q.closed = req[r].closed /\ q.cancelled = req[r].cancelled
    BY <1>0 DEF Request
  <2>. HIDE DEF q
  <2>3. Knows(q, Existing', Active', sessions', queues', everSuspended')
    BY <1>0, <2>2 DEF Knows
  <2>. QED
    BY <2>1, <2>2, <2>3 DEF Learns
<1>. QED
  BY <1>1, <1>2, <1>3, <1>4, <1>5 DEF Own

LEMMA VisitLearns ==
  ASSUME BInv1, BInv2, NEW r \in Requests, Step(r), Visit(r) \/ Abort(r)
  PROVE  Learns(r)
<1>0. Unused \in Request /\ Unused.cancelled = {} /\ Unused.closed = {}
  BY UnusedFine DEF Unused
<1>1. BeginJoin(r) => Learns(r)
  BY <1>0, StartLearns DEF BeginJoin, Pcs
<1>2. (\E u \in Users : LogIn(r, u)) => Learns(r)
  BY <1>0, StartLearns DEF LogIn, Pcs
<1>3. ASSUME NEW t \in Ids, MoveTurn(r, t, "attend", "attending") \/ MoveTurn(r, t, "complete", "completed")
      PROVE  Learns(r)
  <2>. DEFINE p == [Unused EXCEPT !.turn = t]
  <2>1. p \in Request /\ p.cancelled = {} /\ p.closed = {}
    BY DEF Request, Unused, Pcs
  <2>2. Start(r, "attend", "done", p) \/ Start(r, "complete", "done", p)
    BY <1>3 DEF MoveTurn
  <2>. HIDE DEF p
  <2>. QED
    BY <2>1, <2>2, StartLearns DEF Pcs
<1>4. InsertTurn(r) => Learns(r)
  BY EndLearns DEF InsertTurn, At
<1>5. ASSUME Abort(r)
      PROVE  Learns(r)
  <2>. DEFINE q == [Unused EXCEPT !.op = req[r].op, !.pc = "failed", !.closed = req[r].closed]
  <2>1. Become(r, q)
    BY <1>5 DEF Abort
  <2>2. q.pc = "failed" /\ q.closed = req[r].closed /\ q.cancelled = {}
    BY DEF Unused
  <2>. HIDE DEF q
  <2>3. Knows(q, Existing', Active', sessions', queues', everSuspended')
    BY <2>2 DEF Knows
  <2>. QED
    BY <2>1, <2>2, <2>3 DEF Learns
<1>. QED
  BY <1>1, <1>2, <1>3, <1>4, <1>5 DEF Visit

LEMMA StepLearns ==
  ASSUME BInv1, BInv2, NEW r \in Requests, Step(r)
  PROVE  Learns(r)
BY ReviewLearns, SuspendLearns, OwnLearns, VisitLearns DEF Step

\* A save that writes "suspended" has read it, or is the commit of a suspension.
LEMMA SuspendedOnce ==
  ASSUME BInv1, BInv2, NEW r \in Requests, Step(r), business'.status = "suspended"
  PROVE  everSuspended'
<1>0. /\ Holds(req[r]) /\ Knows(req[r], Existing, Active, sessions, queues, everSuspended)
      /\ (business.status = "suspended" => everSuspended) /\ (everSuspended => everSuspended')
  BY Known
<1>1. CASE CommitApproval(r)
  BY <1>0, <1>1 DEF CommitApproval, Overwrite, WriteBusiness, At, Holds
<1>2. CASE SaveBusiness(r)
  <2>1. req[r].row.status = "suspended" /\ req[r].pc = "save"
    BY <1>0, <1>2 DEF SaveBusiness, Overwrite, WriteBusiness, Holds, Turned
  <2>. QED
    BY <1>0, <2>1 DEF Knows
<1>3. CASE CommitSuspension(r)
  BY <1>3 DEF CommitSuspension
<1>4. CASE UNCHANGED business
  BY <1>0, <1>4
<1>. QED
  <2>1. \/ UNCHANGED business \/ CommitApproval(r) \/ SaveBusiness(r) \/ CommitSuspension(r)
    <3>1. \A u \in Users : LogIn(r, u) => UNCHANGED business
      BY DEF LogIn
    <3>2. \A t \in Ids : MoveTurn(r, t, "attend", "attending") \/ MoveTurn(r, t, "complete", "completed")
            => UNCHANGED business
      BY DEF MoveTurn
    <3>3. Quiet \/ CheckApproval(r) \/ CreateReport(r) \/ SaveVerdict(r) \/ InsertHours(r) \/ InsertTurn(r)
            => UNCHANGED business
      BY DEF Quiet, CheckApproval, CreateReport, SaveVerdict, InsertHours, InsertTurn
    <3>. QED
      BY <3>1, <3>2, <3>3, QuietOrWrites DEF Writes
  <2>. QED
    BY <1>1, <1>2, <1>3, <1>4, <2>1

\* What others know a step leaves true.
LEMMA OthersKnow ==
  ASSUME BInv1, BInv2, NEW r \in Requests, Step(r), NEW o \in Requests, o # r
  PROVE  Knows(req[o], Existing', Active', sessions', queues', everSuspended')
<1>0. /\ Knows(req[o], Existing, Active, sessions, queues, everSuspended)
      /\ Existing \subseteq Existing' /\ queues \subseteq queues'
      /\ Active' \cap Existing \subseteq Active
      /\ (everSuspended => everSuspended')
  BY Known DEF BInv2
<1>1. Accounted(req[o], Active) /\ req[o].seen \subseteq Existing => Accounted(req[o], Active')
  BY <1>0 DEF Accounted
<1>2. req[o].closed \cap sessions = {} => req[o].closed \cap sessions' = {}
  <2>. SUFFICES ASSUME req[o].closed \cap sessions = {}, NEW s \in req[o].closed, s \in sessions'
                PROVE  FALSE
    OBVIOUS
  <2>1. Answered(s.id) /\ s.id = r
    BY StepWorld DEF BInv2
  <2>. QED
    BY <2>1, StepsNotDone, BusinessesAssumption DEF Answered
<1>3. req[o].seen \subseteq Existing /\ req[o].seen \cap Active = {} => req[o].seen \cap Active' = {}
  BY <1>0
<1>. QED
  BY <1>0, <1>1, <1>2, <1>3 DEF Knows

\* The second layer is inductive.
LEMMA NextBInv2 ==
  ASSUME BInv1, BInv2, BNext
  PROVE  BInv2'
<1>1. ASSUME NEW r \in Requests, Step(r)
      PROVE  BInv2'
  <2>1. PICK q : /\ Become(r, q)
                 /\ Knows(q, Existing', Active', sessions', queues', everSuspended')
                 /\ q.closed \subseteq req[r].closed \cup sessions
    BY <1>1, StepLearns DEF Learns
  <2>2. req'[r] = q /\ \A o \in Requests : o # r => req'[o] = req[o]
    BY <2>1 DEF Become, BInv1, TypeOK
  <2>3. r # Seed /\ req[r].pc # "done"
    BY <1>1, StepsNotDone, BusinessesAssumption
  <2>4. ASSUME NEW i \in Ids, Answered(i)
        PROVE  Answered(i)'
    BY <2>2, <2>3, <2>4 DEF Answered, Ids
  <2>5. ASSUME NEW t \in Existing'
        PROVE  t = Seed \/ (req'[t].op = "join" /\ req'[t].pc = "done")
    <3>1. CASE t \in Existing
      BY <2>2, <2>3, <3>1 DEF BInv2, Existing, Ids
    <3>2. CASE t \notin Existing
      <4>1. t = r /\ InsertTurn(r)
        BY <1>1, <3>2, StepWorld
      <4>2. req'[r] = [Unused EXCEPT !.op = req[r].op, !.pc = "done", !.turn = req[r].turn,
                                     !.seen = req[r].seen, !.closed = req[r].closed]
            /\ req[r].op = "join"
        BY <4>1 DEF InsertTurn, End, Become, At, BInv1, TypeOK
      <4>. QED
        BY <4>1, <4>2 DEF Unused
    <3>. QED
      BY <3>1, <3>2
  <2>6. ASSUME NEW s \in sessions'
        PROVE  Answered(s.id)'
    <3>1. CASE s \in sessions
      <4>1. s.id \in Ids
        BY <3>1 DEF BInv1, TypeOK, Session
      <4>. QED
        BY <2>4, <3>1, <4>1 DEF BInv2
    <3>2. CASE s \notin sessions
      <4>1. s.id = r /\ \E u \in Users : LogIn(r, u)
        BY <1>1, <3>2, StepWorld
      <4>2. req'[r] = [Unused EXCEPT !.op = "login", !.pc = "done"]
        BY <4>1 DEF LogIn, Start, Become, BInv1, TypeOK
      <4>. QED
        BY <4>1, <4>2 DEF Unused, Answered
    <3>. QED
      BY <3>1, <3>2
  <2>7. ASSUME NEW o \in Requests, NEW s \in req'[o].closed
        PROVE  Answered(s.id)'
    <3>1. s \in req[o].closed \cup sessions
      BY <2>1, <2>2
    <3>2. Answered(s.id)
      BY <3>1 DEF BInv2
    <3>3. s.id \in Ids
      BY <3>1 DEF BInv1, TypeOK, Session, Request
    <3>. QED
      BY <2>4, <3>2, <3>3
  <2>8. \A o \in Requests : Knows(req'[o], Existing', Active', sessions', queues', everSuspended')
    BY <1>1, <2>1, <2>2, OthersKnow
  <2>9. business'.status = "suspended" => everSuspended'
    BY <1>1, SuspendedOnce
  <2>. QED
    BY <2>5, <2>6, <2>7, <2>8, <2>9 DEF BInv2
<1>2. ASSUME Outside \/ UNCHANGED vars
      PROVE  BInv2'
  <2>1. UNCHANGED <<business, turns, queues, req, everSuspended>> /\ sessions' \subseteq sessions
    BY <1>2 DEF Outside, vars, approval, history
  <2>2. Existing' = Existing /\ Active' = Active
    BY <2>1 DEF Existing, Active
  <2>3. ASSUME NEW o \in Requests
        PROVE  Knows(req[o], Existing', Active', sessions', queues', everSuspended')
    <3>1. Knows(req[o], Existing, Active, sessions, queues, everSuspended)
      BY DEF BInv2
    <3>. QED
      BY <2>1, <2>2, <3>1 DEF Knows
  <2>. QED
    BY <2>1, <2>2, <2>3 DEF BInv2, Answered
<1>. QED
  BY <1>1, <1>2 DEF BNext

-----------------------------------------------------------------------------
(* What the row says, while no save has overwritten it unread.             *)

\* Only who finds the business open begins to take a turn.
LEMMA StepTaking ==
  ASSUME BInv1, BInv2, NEW r \in Requests, Step(r)
  PROVE  /\ Taking' \subseteq Taking \cup {r}
         /\ r \in Taking' => BeginJoin(r)
<1>1. PICK q : Become(r, q) /\ (q.op = "join" /\ q.pc = "insert" => BeginJoin(r))
  BY StepLearns DEF Learns
<1>2. req'[r] = q /\ \A o \in Requests : o # r => req'[o] = req[o]
  BY <1>1 DEF Become, BInv1, TypeOK
<1>. QED
  BY <1>1, <1>2 DEF Taking, At

\* The commit of a suspension closes every turn the request had listed; the
\* others appeared meanwhile, and who is about to take one is known.
LEMMA SuspensionRaced ==
  ASSUME BInv1, BInv2, NEW r \in Requests, Step(r), CommitSuspension(r)
  PROVE  Active' \cup Taking' \subseteq raced'
<1>0. /\ Knows(req[r], Existing, Active, sessions, queues, everSuspended) /\ Holds(req[r])
      /\ Active' \cap Existing \subseteq Active
  BY Known
<1>1. /\ req[r].pc = "cancel" /\ req[r].copies = {}
      /\ turns' = [t \in Ids |-> IF t \in req[r].cancelled THEN [status |-> "cancelled", wrote |-> r] ELSE turns[t]]
      /\ raced' = raced \cup Taking \cup (Existing \ req[r].seen)
  BY DEF CommitSuspension
<1>2. Accounted(req[r], Active) /\ req[r].left = {} /\ req[r].cancelled \subseteq Existing
  BY <1>0, <1>1 DEF Knows
<1>3. \A t \in req[r].cancelled : t \notin Active'
  BY <1>1 DEF Active, Existing, ActiveStates
<1>4. req[r].seen \cap Active' \cap Existing = {}
  BY <1>0, <1>1, <1>2, <1>3 DEF Accounted
<1>5. Existing' \subseteq Existing
  BY <1>1, <1>2 DEF Existing
<1>6. Active' \subseteq Existing \ req[r].seen
  BY <1>4, <1>5 DEF Active
<1>7. ~BeginJoin(r)
  BY <1>1 DEF BeginJoin, Start, Unused
<1>8. Taking' \subseteq Taking
  BY <1>7, StepTaking
<1>. QED
  BY <1>1, <1>6, <1>8

\* What the row of the business says outlives every step.
LEMMA NextRowTells ==
  ASSUME BInv1, BInv2, RowTells, BNext
  PROVE  RowTells'
<1>1. ASSUME NEW r \in Requests, Step(r), "business" \notin clobbered'
      PROVE  /\ business'.status \in {"pending", "rejected"} => queues' = {}
             /\ business'.status \in {"approved", "suspended"} => Opened'
             /\ business'.status = "suspended" => Active' \cup Taking' \subseteq raced'
  <2>0. /\ Holds(req[r]) /\ Knows(req[r], Existing, Active, sessions, queues, everSuspended)
        /\ Taking' \subseteq Taking \cup {r} /\ (r \in Taking' => BeginJoin(r))
        /\ Active' \cap Existing \subseteq Active /\ Existing' \subseteq Existing \cup {r}
        /\ (r \in Existing' \ Existing => InsertTurn(r)) /\ Active' \subseteq Existing' /\ r \in Ids
    BY <1>1, Known, StepTaking, StepWorld DEF Active, Ids
  <2>1. CASE CommitApproval(r)
    <3>1. /\ business' = req[r].write /\ business = req[r].row /\ "business" \notin clobbered
          /\ req[r].pc = "commit"
      BY <1>1, <2>1 DEF CommitApproval, Overwrite, WriteBusiness, At
    <3>2. business.status \in {"pending", "rejected"} /\ business'.status = "approved"
      BY <2>0, <3>1 DEF Holds
    <3>3. queues = {} /\ req[r].seen = {}
      BY <2>0, <3>1, <3>2 DEF RowTells, Knows
    <3>4. queues' = {r} /\ ownerApproved' /\ subscription' # "pending"
      BY <2>1, <3>3 DEF CommitApproval
    <3>. QED
      BY <2>0, <3>2, <3>4 DEF Opened
  <2>2. CASE SaveBusiness(r)
    <3>1. /\ business' = req[r].write /\ business = req[r].row /\ "business" \notin clobbered
          /\ req[r].pc = "save"
          /\ UNCHANGED <<turns, queues, subscription, ownerApproved, raced>>
      BY <1>1, <2>2 DEF SaveBusiness, Overwrite, WriteBusiness, people, approval, history
    <3>2. \/ business'.status = business.status
          \/ business.status = "pending" /\ business'.status = "rejected"
          \/ business.status = "suspended" /\ business'.status = "approved"
      BY <2>0, <3>1 DEF Holds, Turned
    <3>3. ~BeginJoin(r)
      BY <3>1 DEF BeginJoin, Start, Unused
    <3>4. Taking' \subseteq Taking /\ Active' = Active
      BY <2>0, <3>1, <3>3 DEF Active, Existing
    <3>. QED
      BY <3>1, <3>2, <3>4 DEF RowTells, Opened
  <2>3. CASE CommitSuspension(r)
    <3>1. /\ business' = req[r].write /\ business = req[r].row /\ "business" \notin clobbered
          /\ req[r].pc = "cancel"
          /\ UNCHANGED <<queues, subscription, ownerApproved>>
      BY <1>1, <2>3 DEF CommitSuspension, WriteBusiness, approval
    <3>2. business.status = "approved" /\ business'.status = "suspended"
      BY <2>0, <3>1 DEF Holds, SuspensionPcs
    <3>. QED
      BY <1>1, <2>3, <3>1, <3>2, SuspensionRaced DEF RowTells, Opened
  <2>4. CASE CheckApproval(r)
    <3>1. /\ UNCHANGED <<business, turns, queues, ownerApproved, raced, clobbered>>
          /\ (subscription # "pending" => subscription' # "pending") /\ req[r].pc = "check"
      BY <2>4 DEF CheckApproval, people, history, At
    <3>2. ~BeginJoin(r)
      BY <3>1 DEF BeginJoin, Start, Unused
    <3>3. Taking' \subseteq Taking /\ Active' = Active
      BY <2>0, <3>1, <3>2 DEF Active, Existing
    <3>. QED
      BY <1>1, <3>1, <3>3 DEF RowTells, Opened
  <2>5. CASE UNCHANGED <<business, queues, subscription, ownerApproved, raced>>
             /\ ("business" \notin clobbered' => "business" \notin clobbered)
    <3>1. business.status = "suspended" => Taking' \subseteq Taking
      BY <2>0 DEF BeginJoin, Accepts
    <3>2. r \in Existing' \ Existing => r \in Taking
      BY <2>0 DEF InsertTurn, Taking
    <3>3. Active' \subseteq Active \cup (Existing' \ Existing)
      BY <2>0
    <3>. QED
      BY <1>1, <2>0, <2>5, <3>1, <3>2, <3>3 DEF RowTells, Opened
  <2>6. \/ CommitApproval(r) \/ SaveBusiness(r) \/ CommitSuspension(r) \/ CheckApproval(r)
        \/ /\ UNCHANGED <<business, queues, subscription, ownerApproved, raced>>
           /\ "business" \notin clobbered' => "business" \notin clobbered
    <3>1. \A u \in Users : LogIn(r, u) => UNCHANGED <<business, approval, history, clobbered>>
      BY DEF LogIn
    <3>2. \A t \in Ids : MoveTurn(r, t, "attend", "attending") \/ MoveTurn(r, t, "complete", "completed")
            => UNCHANGED <<business, approval, history, clobbered>>
      BY DEF MoveTurn
    <3>3. Quiet \/ CreateReport(r) \/ SaveVerdict(r) \/ InsertHours(r) \/ InsertTurn(r)
            => /\ UNCHANGED <<business, approval, history>>
               /\ "business" \notin clobbered' => "business" \notin clobbered
      BY DEF Quiet, CreateReport, SaveVerdict, InsertHours, InsertTurn, approval, history
    <3>. QED
      BY <1>1, <3>1, <3>2, <3>3, QuietOrWrites DEF Writes, approval, history
  <2>. QED
    BY <2>1, <2>2, <2>3, <2>4, <2>5, <2>6
<1>2. ASSUME Outside \/ UNCHANGED vars
      PROVE  RowTells'
  <2>1. UNCHANGED <<business, turns, queues, subscription, ownerApproved, req, raced, clobbered>>
    BY <1>2 DEF Outside, vars, approval, history
  <2>. QED
    BY <2>1 DEF RowTells, Opened, Active, Existing, Taking, At
<1>. QED
  BY <1>1, <1>2 DEF BNext, RowTells

-----------------------------------------------------------------------------
(* The other tables.                                                       *)

\* Until a suspension commits, nothing is cancelled and the owner stays.
LEMMA NextNothingBefore ==
  ASSUME BInv1, BInv2, NothingBefore, BNext
  PROVE  NothingBefore'
<1>1. ASSUME NEW r \in Requests, Step(r), ~everSuspended'
      PROVE  /\ [user |-> Owner, id |-> Seed] \in sessions'
             /\ \A t \in Existing' : turns'[t].status # "cancelled"
  <2>0. /\ [user |-> Owner, id |-> Seed] \in sessions
        /\ \A t \in Existing : turns[t].status # "cancelled"
        /\ turns \in [Ids -> TurnRow \cup {None}] /\ r \in Ids
    BY <1>1, Known DEF NothingBefore, BInv1, TypeOK, Ids
  <2>1. sessions \subseteq sessions'
    <3>1. \A u \in Users : LogIn(r, u) => sessions \subseteq sessions'
      BY DEF LogIn
    <3>2. \A t \in Ids : MoveTurn(r, t, "attend", "attending") \/ MoveTurn(r, t, "complete", "completed")
            => UNCHANGED sessions
      BY DEF MoveTurn
    <3>3. Quiet \/ CreateReport(r) \/ SaveVerdict(r) \/ InsertHours(r) \/ InsertTurn(r)
          \/ CheckApproval(r) \/ CommitApproval(r) \/ SaveBusiness(r) => UNCHANGED sessions
      BY DEF Quiet, CreateReport, SaveVerdict, InsertHours, InsertTurn, CheckApproval, CommitApproval,
             SaveBusiness, people
    <3>4. ~CommitSuspension(r)
      BY <1>1 DEF CommitSuspension
    <3>. QED
      BY <1>1, <3>1, <3>2, <3>3, <3>4, QuietOrWrites DEF Writes
  <2>2. ASSUME NEW t \in Existing'
        PROVE  turns'[t].status # "cancelled"
    <3>1. \/ turns' = turns
          \/ \E u \in Ids : \E st \in {"waiting", "attending", "completed"} :
               turns' = [turns EXCEPT ![u] = [status |-> st, wrote |-> r]]
      <4>1. \A u \in Ids : MoveTurn(r, u, "attend", "attending") =>
              turns' = [turns EXCEPT ![u] = [status |-> "attending", wrote |-> r]]
        BY DEF MoveTurn
      <4>2. \A u \in Ids : MoveTurn(r, u, "complete", "completed") =>
              turns' = [turns EXCEPT ![u] = [status |-> "completed", wrote |-> r]]
        BY DEF MoveTurn
      <4>3. InsertTurn(r) => turns' = [turns EXCEPT ![r] = [status |-> "waiting", wrote |-> r]]
        BY DEF InsertTurn
      <4>4. Quiet \/ CreateReport(r) \/ SaveVerdict(r) \/ InsertHours(r) \/ (\E u \in Users : LogIn(r, u))
            \/ CheckApproval(r) \/ CommitApproval(r) \/ SaveBusiness(r) => turns' = turns
        BY DEF Quiet, CreateReport, SaveVerdict, InsertHours, LogIn, CheckApproval, CommitApproval,
               SaveBusiness, people
      <4>5. ~CommitSuspension(r)
        BY <1>1 DEF CommitSuspension
      <4>. QED
        BY <1>1, <2>0, <4>1, <4>2, <4>3, <4>4, <4>5, QuietOrWrites DEF Writes
    <3>2. CASE turns' = turns
      BY <2>0, <3>2 DEF Existing
    <3>3. ASSUME NEW u \in Ids, NEW st \in {"waiting", "attending", "completed"},
                 turns' = [turns EXCEPT ![u] = [status |-> st, wrote |-> r]]
          PROVE  turns'[t].status # "cancelled"
      <4>1. t \in Ids /\ turns'[t] # None
        BY DEF Existing
      <4>2. CASE t = u
        BY <2>0, <3>3, <4>2
      <4>3. CASE t # u
        <5>1. turns'[t] = turns[t]
          BY <2>0, <3>3, <4>1, <4>3
        <5>. QED
          BY <2>0, <4>1, <5>1 DEF Existing
      <4>. QED
        BY <4>2, <4>3
    <3>. QED
      BY <3>1, <3>2, <3>3
  <2>. QED
    BY <2>0, <2>1, <2>2
<1>2. ASSUME Outside
      PROVE  NothingBefore'
  <2>1. UNCHANGED <<turns, everSuspended>> /\ \A s \in sessions \ sessions' : s.user # Owner
    BY <1>2 DEF Outside, history
  <2>. QED
    BY <2>1 DEF NothingBefore, Existing
<1>3. UNCHANGED vars => NothingBefore'
  BY DEF vars, NothingBefore, Existing
<1>. QED
  BY <1>1, <1>2, <1>3 DEF BNext, NothingBefore

\* Who stores hours leaves his own alone, unless others appeared meanwhile.
LEMMA NextOneStored ==
  ASSUME BInv1, OneStored, BNext
  PROVE  OneStored'
<1>1. ASSUME NEW r \in Requests, Step(r)
      PROVE  \/ UNCHANGED hours /\ ("hours" \notin clobbered' => "hours" \notin clobbered)
             \/ "hours" \notin clobbered' => hours' = {r}
  <2>1. \A u \in Users : LogIn(r, u) => UNCHANGED <<hours, clobbered>>
    BY DEF LogIn
  <2>2. \A t \in Ids : MoveTurn(r, t, "attend", "attending") \/ MoveTurn(r, t, "complete", "completed")
          => UNCHANGED <<hours, clobbered>>
    BY DEF MoveTurn
  <2>3. Quiet \/ CreateReport(r) \/ SaveVerdict(r) \/ InsertTurn(r) \/ CheckApproval(r)
        \/ CommitApproval(r) \/ SaveBusiness(r) \/ CommitSuspension(r)
        => UNCHANGED hours /\ ("hours" \notin clobbered' => "hours" \notin clobbered)
    BY DEF Quiet, CreateReport, SaveVerdict, InsertTurn, CheckApproval, CommitApproval, SaveBusiness,
           CommitSuspension, Overwrite, WriteBusiness
  <2>4. InsertHours(r) => ("hours" \notin clobbered' => hours' = {r})
    BY DEF InsertHours
  <2>. QED
    BY <1>1, <2>1, <2>2, <2>3, <2>4, QuietOrWrites DEF Writes
<1>2. Outside \/ UNCHANGED vars => UNCHANGED <<hours, clobbered>>
  BY DEF Outside, vars
<1>. QED
  BY <1>1, <1>2 DEF BNext, OneStored, Ids

\* A verdict is the reviewer's; "suspended" is given after the commit.
LEMMA NextReported ==
  ASSUME BInv1, BInv2, ReportedOnlyIfSuspended, BNext
  PROVE  ReportedOnlyIfSuspended'
<1>1. ASSUME NEW r \in Requests, Step(r)
      PROVE  ReportedOnlyIfSuspended'
  <2>0. /\ Holds(req[r]) /\ Knows(req[r], Existing, Active, sessions, queues, everSuspended)
        /\ (everSuspended => everSuspended')
    BY <1>1, Known
  <2>1. CASE SaveVerdict(r)
    <3>1. req[r].pc = "verdict" /\ report' = [status |-> Verdict[req[r].op], reviewedBy |-> r]
      BY <2>1 DEF SaveVerdict
    <3>2. report'.status = "suspended" => req[r].op = "suspendReported"
      BY <2>0, <3>1 DEF Holds, Verdict
    <3>. QED
      BY <2>0, <3>1, <3>2 DEF ReportedOnlyIfSuspended, Knows
  <2>2. CASE CreateReport(r)
    BY <2>2 DEF CreateReport, NewReport, ReportedOnlyIfSuspended
  <2>3. CASE UNCHANGED report
    BY <2>0, <2>3 DEF ReportedOnlyIfSuspended
  <2>. QED
    <3>1. \A u \in Users : LogIn(r, u) => UNCHANGED report
      BY DEF LogIn
    <3>2. \A t \in Ids : MoveTurn(r, t, "attend", "attending") \/ MoveTurn(r, t, "complete", "completed")
            => UNCHANGED report
      BY DEF MoveTurn
    <3>3. Quiet \/ InsertTurn(r) \/ InsertHours(r) \/ CheckApproval(r)
          \/ CommitApproval(r) \/ SaveBusiness(r) \/ CommitSuspension(r) => UNCHANGED report
      BY DEF Quiet, InsertTurn, InsertHours, CheckApproval, CommitApproval, SaveBusiness, CommitSuspension
    <3>. QED
      BY <1>1, <2>1, <2>2, <2>3, <3>1, <3>2, <3>3, QuietOrWrites DEF Writes
<1>2. Outside \/ UNCHANGED vars => ReportedOnlyIfSuspended'
  BY DEF Outside, vars, history, ReportedOnlyIfSuspended
<1>. QED
  BY <1>1, <1>2 DEF BNext

-----------------------------------------------------------------------------
(* The whole, and the two promises about steps.                            *)

LEMMA BInvInit ==
  ASSUME Init
  PROVE  BInv
<1>0. /\ Seed \in Ids /\ Owner \in Users /\ Users \ {Owner} \subseteq Users /\ None \in Ids \cup {None}
  BY BusinessesAssumption DEF Ids
<1>1. PICK status \in {"pending", "approved"} :
        /\ business = [status |-> status, operational |-> "normal",
                       suspendedBy |-> None, reactivatedBy |-> None, profile |-> Seed]
        /\ turns = [t \in Ids |-> IF t = Seed /\ status = "approved"
                                  THEN [status |-> "waiting", wrote |-> Seed] ELSE None]
        /\ employees \subseteq Users
        /\ sessions = [user : employees \cup {Owner}, id : {Seed}]
        /\ report \in {None, NewReport}
        /\ hours = IF status = "approved" THEN {Seed} ELSE {}
        /\ queues = IF status = "approved" THEN {Seed} ELSE {}
        /\ subscription \in IF status = "approved" THEN {"active"} ELSE {"pending", "lapsed", "active"}
        /\ ownerApproved = (status = "approved")
        /\ lock = None
        /\ req = [r \in Requests |-> Unused]
        /\ everSuspended = FALSE /\ raced = {} /\ clobbered = {}
  BY <1>0 DEF Init
<1>2. business \in BusinessRow /\ business.status = status
  BY <1>0, <1>1 DEF BusinessRow, Operations
<1>3. turns \in [Ids -> TurnRow \cup {None}]
  <2>1. [status |-> "waiting", wrote |-> Seed] \in TurnRow
    BY <1>0 DEF TurnRow, ActiveStates
  <2>. QED
    BY <1>1, <2>1
<1>4. report \in ReportRow \cup {None} /\ (report # None => report.status = "pending")
  BY <1>1 DEF NewReport, ReportRow
<1>5. sessions \subseteq Session
  <2>1. employees \cup {Owner} \subseteq Users /\ {Seed} \subseteq Ids
    BY <1>0, <1>1
  <2>. QED
    BY <1>1, <2>1 DEF Session
<1>6. \A s \in sessions : s.id = Seed
  BY <1>1
<1>7. [user |-> Owner, id |-> Seed] \in sessions
  BY <1>1
<1>8. \A t \in Existing : t = Seed /\ turns[t].status = "waiting"
  BY <1>1 DEF Existing
<1>9. \A r \in Requests : req[r] = Unused
  BY <1>1
<1>10. /\ Unused \in Request /\ Unused.pc = "unused" /\ Unused.op = None /\ Unused.left = {}
       /\ Unused.copies = {} /\ Unused.closed = {} /\ Unused.cancelled = {}
  BY UnusedFine DEF Unused
<1>11. TypeOK
  <2>1. subscription \in {"pending", "trial", "lapsed", "active", "ended"} /\ hours \subseteq Ids
        /\ queues \subseteq Ids /\ ownerApproved \in BOOLEAN
    BY <1>0, <1>1
  <2>2. req \in [Requests -> Request]
    BY <1>1, <1>10
  <2>. QED
    BY <1>1, <1>2, <1>3, <1>4, <1>5, <2>1, <2>2 DEF TypeOK
<1>12. \A r \in Requests : Holds(req[r]) /\ Found(req[r], Existing)
  BY <1>9, <1>10 DEF Holds, Found, SuspensionPcs, ReviewPcs
<1>13. \A r \in Requests : Knows(req[r], Existing, Active, sessions, queues, everSuspended)
  BY <1>9, <1>10 DEF Knows
<1>14. BInv2
  BY <1>1, <1>2, <1>6, <1>8, <1>9, <1>10, <1>13 DEF BInv2, Answered
<1>15. RowTells
  <2>1. status = "approved" => queues = {Seed} /\ ownerApproved /\ subscription = "active"
    BY <1>1
  <2>2. status = "pending" => queues = {}
    BY <1>1
  <2>. QED
    BY <1>0, <1>2, <2>1, <2>2 DEF RowTells, Opened
<1>16. OneStored
  BY <1>0, <1>1 DEF OneStored
<1>. QED
  BY <1>4, <1>7, <1>8, <1>11, <1>12, <1>14, <1>15, <1>16
     DEF BInv, BInv1, NothingBefore, ReportedOnlyIfSuspended

LEMMA BInvNext ==
  ASSUME BInv, BNext
  PROVE  BInv'
BY NextBInv1, NextBInv2, NextRowTells, NextNothingBefore, NextOneStored, NextReported DEF BInv

\* Of the saves that do not overwrite anything unread only a reactivation
\* finds the business suspended and leaves it otherwise.
LEMMA LeavingStep ==
  ASSUME BInv, BNext, business.status = "suspended", business'.status # "suspended",
         "business" \notin clobbered'
  PROVE  \E r \in Requests : At(r, "reactivate", "save") /\ req'[r].pc = "done"
<1>1. PICK r \in Requests : Step(r)
  BY DEF BNext, Outside, vars
<1>2. Holds(req[r]) /\ req[r] \in Request
  BY <1>1, Known DEF BInv
<1>3. CASE CommitApproval(r)
  BY <1>2, <1>3 DEF CommitApproval, Overwrite, WriteBusiness, At, Holds
<1>4. CASE CommitSuspension(r)
  BY <1>2, <1>4 DEF CommitSuspension, WriteBusiness, Holds, SuspensionPcs
<1>5. CASE SaveBusiness(r)
  <2>1. At(r, "reactivate", "save")
    BY <1>2, <1>5 DEF SaveBusiness, Overwrite, WriteBusiness, Holds, Turned, At
  <2>2. req'[r] = [Unused EXCEPT !.op = req[r].op, !.pc = "done", !.turn = req[r].turn,
                                 !.seen = req[r].seen, !.closed = req[r].closed]
    BY <1>5 DEF SaveBusiness, End, Become, BInv, BInv1, TypeOK
  <2>3. req'[r].pc = "done"
    BY <2>2 DEF Unused
  <2>. QED
    BY <2>1, <2>3
<1>6. \/ UNCHANGED business \/ CommitApproval(r) \/ SaveBusiness(r) \/ CommitSuspension(r)
  <2>1. \A u \in Users : LogIn(r, u) => UNCHANGED business
    BY DEF LogIn
  <2>2. \A t \in Ids : MoveTurn(r, t, "attend", "attending") \/ MoveTurn(r, t, "complete", "completed")
          => UNCHANGED business
    BY DEF MoveTurn
  <2>3. Quiet \/ CheckApproval(r) \/ CreateReport(r) \/ SaveVerdict(r) \/ InsertHours(r) \/ InsertTurn(r)
          => UNCHANGED business
    BY DEF Quiet, CheckApproval, CreateReport, SaveVerdict, InsertHours, InsertTurn
  <2>. QED
    BY <1>1, <2>1, <2>2, <2>3, QuietOrWrites DEF Writes
<1>. QED
  BY <1>3, <1>4, <1>5, <1>6

\* A report that has its verdict is written again only by a reviewer who had
\* found it pending, and that counts as overwriting it.
LEMMA VerdictStep ==
  ASSUME BInv, BNext, report # None, report.status # "pending", report' # report
  PROVE  "report" \in clobbered'
<1>1. PICK r \in Requests : Step(r)
  BY DEF BNext, Outside, vars
<1>2. Holds(req[r])
  BY <1>1, Known DEF BInv
<1>3. CASE SaveVerdict(r)
  <2>1. req[r].review.status = "pending"
    BY <1>2, <1>3 DEF SaveVerdict, Holds
  <2>. QED
    BY <1>3, <2>1 DEF SaveVerdict
<1>4. ~CreateReport(r)
  BY DEF CreateReport
<1>5. \/ UNCHANGED report \/ SaveVerdict(r) \/ CreateReport(r)
  <2>1. \A u \in Users : LogIn(r, u) => UNCHANGED report
    BY DEF LogIn
  <2>2. \A t \in Ids : MoveTurn(r, t, "attend", "attending") \/ MoveTurn(r, t, "complete", "completed")
          => UNCHANGED report
    BY DEF MoveTurn
  <2>3. Quiet \/ InsertTurn(r) \/ InsertHours(r) \/ CheckApproval(r)
        \/ CommitApproval(r) \/ SaveBusiness(r) \/ CommitSuspension(r) => UNCHANGED report
    BY DEF Quiet, InsertTurn, InsertHours, CheckApproval, CommitApproval, SaveBusiness, CommitSuspension
  <2>. QED
    BY <1>1, <2>1, <2>2, <2>3, QuietOrWrites DEF Writes
<1>. QED
  BY <1>3, <1>4, <1>5

\* What the invariant says of the properties.
LEMMA BInvTells ==
  ASSUME BInv
  PROVE  /\ TypeOK /\ SuspensionAllOrNothing /\ SuspendedTurnsRaced
         /\ ReportedOnlyIfSuspended /\ ApprovalComplete /\ HoursOfOneRequest
<1>1. SuspensionAllOrNothing
  BY DEF BInv, NothingBefore, BInv2, Knows, At, SuspensionAllOrNothing
<1>2. ApprovalComplete
  BY FS_Singleton DEF BInv, RowTells, Opened, ApprovalComplete
<1>3. HoursOfOneRequest
  <2>1. Cardinality({}) = 0 /\ \A x \in Ids : Cardinality({x}) = 1
    BY FS_EmptySet, FS_Singleton
  <2>. QED
    BY <2>1 DEF BInv, OneStored, HoursOfOneRequest
<1>4. SuspendedTurnsRaced
  BY DEF BInv, RowTells, SuspendedTurnsRaced
<1>. QED
  BY <1>1, <1>2, <1>3, <1>4 DEF BInv, BInv1

\* The business on its own: the invariant holds of every run of its requests.
THEOREM BusinessInductive == Spec => []BInv
<1>1. ASSUME BInv, [Next]_vars
      PROVE  BInv'
  BY <1>1, BInvNext DEF Next, BNext
<1>. QED
  BY <1>1, BInvInit, PTL DEF Spec
=============================================================================
