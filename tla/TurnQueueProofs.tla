--------------------------- MODULE TurnQueueProofs ---------------------------
(***************************************************************************)
(* Proofs about the queue module for every set of turns, workers, windows, *)
(* customers and queues, and every choice of operations.  The inductive    *)
(* invariant says what a request in flight knows: a draft is a fresh       *)
(* waiting row, and a decision about a turn is one legal edge away from    *)
(* the row as long as the version it was made from is current.             *)
(***************************************************************************)
EXTENDS TurnQueueProperties, FiniteSetTheorems, TLAPS

-----------------------------------------------------------------------------
(* The inductive invariant.                                                *)

DraftPcs  == {"existing", "lock", "count", "insert"}
WindowPcs == {"siblings", "inUse", "saveWindow", "deletable", "deleteWindow"}

IsDraft(e) ==
  /\ e \in Row
  /\ e.status = "waiting" /\ e.window = None /\ e.stamps = {} /\ e.updated = 0

\* One row's share of AuditTrail.
Audited(e) ==
  LET s  == e.status
      ss == e.stamps
  IN  /\ s = "waiting"   => ss = {}
      /\ s = "called"    => ss = {"calledAt"}
      /\ s \in OccupyingStatuses => ss = {"calledAt", "startedAttentionAt"}
      /\ s = "completed" => ss = {"calledAt", "startedAttentionAt", "attendedAt"}
      /\ s = "no_show"   => ss = {"calledAt", "noShowAt"}
      /\ s = "cancelled" => /\ "cancelledAt" \in ss
                            /\ ss \cap {"attendedAt", "noShowAt"} = {}
                            /\ "startedAttentionAt" \in ss => "calledAt" \in ss

\* A turn is redirected to some window, and a save that keeps the status can
\* only give back the window it read, after a deletion took it away.
Seats(row, e) ==
  /\ row.status = "attending" /\ e.status = "redirected" => e.window # None
  /\ row.status = e.status => row.window \in {e.window, None}

\* A decision e about the row of turn t in table tt.
Decides(tt, t, e) ==
  /\ t \in Stored(tt)
  /\ e \in Row
  /\ Audited(e)
  /\ e.updated <= tt[t].updated
  /\ e.updated = tt[t].updated => Follows(tt[t], e) /\ Seats(tt[t], e)

GoodRequest(tt, r) ==
  /\ r.pc \in DraftPcs    => IsDraft(r.entity) /\ r.queue \in Queues
  /\ r.pc \in {"countGuests", "gate", "findCalled", "findNext"} => r.queue \in Queues
  /\ r.pc \in DecidingPcs => Decides(tt, r.turn, r.entity)
  /\ r.pc \in WindowPcs   => r.window \in Windows

IInv ==
  /\ TypeOK
  /\ AuditTrail
  /\ \A w \in Workers : GoodRequest(turns, req[w])

\* The four things a step may do to the table of turns.
Inserts(w, t) ==
  /\ t \in TurnIds \ Stored(turns)
  /\ IsDraft(req[w].entity)
  /\ CustomerFree(req[w].entity.customer)
  /\ turns' = [turns EXCEPT ![t] = req[w].entity]
  /\ windows' = windows

Saves(t, e) ==
  /\ Decides(turns, t, e)
  /\ Savable(t, e)
  /\ turns' = [turns EXCEPT ![t] = Written(turns[t], e)]
  /\ windows' = windows

Detaches(v) ==
  /\ turns' = Detached(v)
  /\ windows' = [windows EXCEPT ![v] = "deleted"]

Keeps ==
  /\ turns' = turns
  /\ \A v \in Windows : windows'[v] = windows[v] \/ windows'[v] \in Existing

TurnsStep ==
  \/ \E w \in Workers, t \in TurnIds : Inserts(w, t)
  \/ \E t \in TurnIds, e \in Row : Saves(t, e)
  \/ \E v \in Windows : Detaches(v)
  \/ Keeps

-----------------------------------------------------------------------------
(* Rows.                                                                   *)

\* What a stored row is.
LEMMA StoredRow ==
  ASSUME TypeOK, NEW t \in Stored(turns)
  PROVE  t \in TurnIds /\ turns[t] # None /\ turns[t] \in Row
BY DEF TypeOK, Stored

\* The columns of a row, and that it is not NULL.
LEMMA RowFields ==
  ASSUME NEW e \in Row
  PROVE  /\ e.queue \in Queues /\ e.customer \in Customers \cup {None}
         /\ e.source \in Sources /\ e.priority \in Priorities
         /\ e.status \in Statuses /\ e.window \in Windows \cup {None}
         /\ e.number \in Nat /\ e.date \in Nat /\ e.joined \in Nat
         /\ e.stamps \in SUBSET Stamps /\ e.updated \in Nat
         /\ e # None
BY NoneIsNotARow DEF Row

\* A change of status and stamps leaves a row a row, with the rest as it was.
LEMMA MovedRow ==
  ASSUME TypeOK, NEW t \in Stored(turns), NEW s \in Statuses, NEW p \in Stamps
  PROVE  LET m == Moved(t, s, p) IN
         /\ m \in Row
         /\ m.status = s
         /\ m.stamps = turns[t].stamps \cup {p}
         /\ m.priority = turns[t].priority
         /\ m.updated = turns[t].updated
         /\ m.window = turns[t].window
BY StoredRow DEF Moved, Row

\* A save writes four columns, bumps the version and keeps the others.
LEMMA WrittenRow ==
  ASSUME NEW row \in Row, NEW e \in Row
  PROVE  LET x == Written(row, e) IN
         /\ x \in Row
         /\ x.status = e.status /\ x.priority = e.priority
         /\ x.window = e.window /\ x.stamps = e.stamps
         /\ x.updated = e.updated + 1
         /\ x.queue = row.queue /\ x.customer = row.customer /\ x.source = row.source
         /\ x.number = row.number /\ x.date = row.date /\ x.joined = row.joined
<1>. DEFINE x == [row EXCEPT !.status = e.status, !.priority = e.priority, !.window = e.window,
                             !.stamps = e.stamps, !.updated = e.updated + 1]
<1>1. /\ x.status = e.status /\ x.priority = e.priority
      /\ x.window = e.window /\ x.stamps = e.stamps
      /\ x.updated = e.updated + 1
      /\ x.queue = row.queue /\ x.customer = row.customer /\ x.source = row.source
      /\ x.number = row.number /\ x.date = row.date /\ x.joined = row.joined
  BY DEF Row
<1>2. ASSUME NEW st \in Statuses, NEW pr \in Priorities, NEW wi \in Windows \cup {None},
             NEW ss \in SUBSET Stamps, NEW up \in Nat
      PROVE  [row EXCEPT !.status = st, !.priority = pr, !.window = wi,
                         !.stamps = ss, !.updated = up] \in Row
  BY DEF Row
<1>3. x \in Row
  <2>1. e.updated + 1 \in Nat
    BY RowFields
  <2>. QED
    BY <1>2, <2>1, RowFields
<1>. QED
  BY <1>1, <1>3 DEF Written

\* Detaching a window changes nothing of a row but its window.
LEMMA DetachedRow ==
  ASSUME TypeOK, NEW v \in Windows, NEW t \in TurnIds
  PROVE  LET old == turns[t]
             new == Detached(v)[t] IN
         /\ new = None <=> old = None
         /\ old # None =>
              /\ new \in Row
              /\ new.window = (IF old.window = v THEN None ELSE old.window)
              /\ new.status = old.status /\ new.priority = old.priority
              /\ new.stamps = old.stamps /\ new.updated = old.updated
              /\ new.queue = old.queue /\ new.customer = old.customer
              /\ new.source = old.source /\ new.number = old.number
              /\ new.date = old.date /\ new.joined = old.joined
<1>1. turns[t] = None => Detached(v)[t] = None
  BY DEF Detached
<1>2. ASSUME turns[t] # None, turns[t].window # v
      PROVE  Detached(v)[t] = turns[t] /\ turns[t] \in Row
  BY <1>2 DEF Detached, TypeOK
<1>3. ASSUME turns[t] # None, turns[t].window = v
      PROVE  Detached(v)[t] = [turns[t] EXCEPT !.window = None] /\ turns[t] \in Row
  BY <1>3 DEF Detached, TypeOK
<1>4. ASSUME turns[t] # None, turns[t].window = v
      PROVE  [turns[t] EXCEPT !.window = None] \in Row
  BY <1>3, <1>4 DEF Row
<1>. QED
  BY <1>1, <1>2, <1>3, <1>4, RowFields, NoneIsNotARow DEF Row

-----------------------------------------------------------------------------
(* What a step of the table keeps.                                         *)

\* A decision stays current or is outdated: no step of the table makes a
\* stale decision current again.
LEMMA DecisionKept ==
  ASSUME IInv, TurnsStep, NEW t \in TurnIds \cup {None}, NEW e \in Row, Decides(turns, t, e)
  PROVE  Decides(turns', t, e)
<1>. t \in Stored(turns) /\ t \in TurnIds /\ turns[t] # None /\ turns[t] \in Row
  BY StoredRow DEF Decides, IInv
<1>1. ASSUME NEW w \in Workers, NEW u \in TurnIds, Inserts(w, u)
      PROVE  Decides(turns', t, e)
  <2>1. turns'[t] = turns[t]
    BY <1>1 DEF Inserts, IInv, TypeOK
  <2>. QED
    BY <2>1 DEF Decides, Stored
<1>2. ASSUME NEW u \in TurnIds, NEW f \in Row, Saves(u, f)
      PROVE  Decides(turns', t, e)
  <2>1. CASE u # t
    <3>1. turns'[t] = turns[t]
      BY <1>2, <2>1 DEF Saves, IInv, TypeOK
    <3>. QED
      BY <3>1 DEF Decides, Stored
  <2>2. CASE u = t
    <3>1. turns'[t] = Written(turns[t], f)
      BY <1>2, <2>2 DEF Saves, IInv, TypeOK
    <3>2. turns'[t] \in Row /\ turns'[t].updated = f.updated + 1
      BY <3>1, WrittenRow
    <3>3. f.updated = turns[t].updated
      BY <1>2, <2>2 DEF Saves, Savable, Fresh
    <3>4. e.updated \in Nat /\ f.updated \in Nat /\ e.updated <= turns[t].updated
      BY RowFields DEF Decides
    <3>5. e.updated < turns'[t].updated
      BY <3>2, <3>3, <3>4
    <3>6. e.updated <= turns'[t].updated /\ e.updated # turns'[t].updated
      BY <3>2, <3>4, <3>5
    <3>7. t \in Stored(turns')
      BY <3>2, RowFields DEF Stored
    <3>. QED
      BY <3>6, <3>7 DEF Decides
  <2>. QED
    BY <2>1, <2>2
<1>3. ASSUME NEW v \in Windows, Detaches(v)
      PROVE  Decides(turns', t, e)
  <2>1. /\ turns'[t] # None
        /\ turns'[t].status = turns[t].status /\ turns'[t].priority = turns[t].priority
        /\ turns'[t].stamps = turns[t].stamps /\ turns'[t].updated = turns[t].updated
    BY <1>3, DetachedRow DEF Detaches, IInv
  <2>2. turns'[t].window \in {turns[t].window, None}
    BY <1>3, DetachedRow DEF Detaches, IInv
  <2>3. Follows(turns[t], e) /\ Seats(turns[t], e) => Follows(turns'[t], e) /\ Seats(turns'[t], e)
    BY <2>1, <2>2 DEF Follows, Seats
  <2>. QED
    BY <2>1, <2>3 DEF Decides, Stored
<1>4. ASSUME Keeps
      PROVE  Decides(turns', t, e)
  BY <1>4 DEF Keeps
<1>. QED
  BY <1>1, <1>2, <1>3, <1>4 DEF TurnsStep

\* The table keeps its type and its audit trail.
LEMMA TableKept ==
  ASSUME IInv, TurnsStep
  PROVE  turns' \in [TurnIds -> Row \cup {None}] /\ AuditTrail'
<1>. TypeOK /\ turns \in [TurnIds -> Row \cup {None}]
  BY DEF IInv, TypeOK
<1>0. \A t \in Stored(turns) : Audited(turns[t])
  BY DEF IInv, AuditTrail, Audited
<1>1. ASSUME NEW w \in Workers, NEW u \in TurnIds, Inserts(w, u)
      PROVE  /\ turns' \in [TurnIds -> Row \cup {None}]
             /\ \A t \in Stored(turns') : Audited(turns'[t])
  <2>1. req[w].entity \in Row /\ Audited(req[w].entity)
    BY <1>1 DEF Inserts, IsDraft, Audited, OccupyingStatuses
  <2>. QED
    BY <1>0, <1>1, <2>1 DEF Inserts, Stored
<1>2. ASSUME NEW u \in TurnIds, NEW f \in Row, Saves(u, f)
      PROVE  /\ turns' \in [TurnIds -> Row \cup {None}]
             /\ \A t \in Stored(turns') : Audited(turns'[t])
  <2>1. Written(turns[u], f) \in Row /\ Audited(Written(turns[u], f))
    <3>1. turns[u] \in Row
      BY <1>2, StoredRow DEF Saves, Decides
    <3>. QED
      BY <1>2, <3>1, WrittenRow DEF Saves, Decides, Audited
  <2>. QED
    BY <1>0, <1>2, <2>1 DEF Saves, Stored
<1>3. ASSUME NEW v \in Windows, Detaches(v)
      PROVE  /\ turns' \in [TurnIds -> Row \cup {None}]
             /\ \A t \in Stored(turns') : Audited(turns'[t])
  <2>1. \A t \in TurnIds : turns'[t] = Detached(v)[t] /\ turns'[t] \in Row \cup {None}
    BY <1>3, DetachedRow DEF Detaches
  <2>2. turns' \in [TurnIds -> Row \cup {None}]
    BY <1>3, <2>1 DEF Detaches, Detached
  <2>3. ASSUME NEW t \in Stored(turns')
        PROVE  Audited(turns'[t])
    BY <1>0, <2>1, <2>3, DetachedRow DEF Stored, Audited
  <2>. QED
    BY <2>2, <2>3
<1>4. ASSUME Keeps
      PROVE  /\ turns' \in [TurnIds -> Row \cup {None}]
             /\ \A t \in Stored(turns') : Audited(turns'[t])
  BY <1>0, <1>4 DEF Keeps
<1>5. (\A t \in Stored(turns') : Audited(turns'[t])) => AuditTrail'
  BY DEF AuditTrail, Audited
<1>. QED
  BY <1>1, <1>2, <1>3, <1>4, <1>5 DEF TurnsStep

-----------------------------------------------------------------------------
(* What a step makes of the requests.                                      *)

\* A worker with nothing to do knows nothing, which is always good.
LEMMA IdleGood ==
  ASSUME NEW tt
  PROVE  Idle \in Request /\ GoodRequest(tt, Idle)
BY DEF Idle, Request, Pcs, Existing, GoodRequest, DraftPcs, DecidingPcs, WindowPcs

AllGood ==
  /\ req' \in [Workers -> Request]
  /\ \A u \in Workers : GoodRequest(turns, req'[u])

\* All requests stay good when the one that moves becomes a good one.
LEMMA BecomeGood ==
  ASSUME IInv, NEW w \in Workers, NEW r \in Request, GoodRequest(turns, r), Become(w, r)
  PROVE  AllGood
BY DEF IInv, TypeOK, Become, AllGood

\* A request that is answered leaves the others as they were.
LEMMA ReplyGood ==
  ASSUME IInv, NEW w \in Workers, Reply(w)
  PROVE  AllGood
BY IdleGood, BecomeGood DEF Reply

\* A request that only advances keeps what it knows.
LEMMA GotoGood ==
  ASSUME IInv, NEW w \in Workers, NEW pc \in Pcs, Goto(w, pc),
         \/ req[w].pc \in DecidingPcs /\ pc \in DecidingPcs
         \/ req[w].pc \in DraftPcs /\ pc \in DraftPcs
         \/ req[w].queue \in Queues /\ pc \in {"gate", "findNext"}
         \/ req[w].pc \in WindowPcs /\ pc \in WindowPcs
  PROVE  AllGood
<1>. DEFINE r == [req[w] EXCEPT !.pc = pc]
<1>1. req[w] \in Request /\ GoodRequest(turns, req[w])
  BY DEF IInv, TypeOK
<1>2. /\ r \in Request /\ r.pc = pc /\ r.turn = req[w].turn /\ r.entity = req[w].entity
      /\ r.queue = req[w].queue /\ r.window = req[w].window
  BY <1>1 DEF Request
<1>3. GoodRequest(turns, r)
  BY <1>1, <1>2 DEF GoodRequest, DraftPcs, DecidingPcs, WindowPcs
<1>. QED
  BY <1>2, <1>3, BecomeGood DEF Goto

\* A new draft is a waiting row.
LEMMA NewTurnIsDraft ==
  ASSUME TypeOK, NEW q \in Queues, NEW c \in Customers \cup {None}, NEW src \in Sources, NEW eta \in Nat
  PROVE  IsDraft(NewTurn(q, c, src, eta)) /\ NewTurn(q, c, src, eta).customer = c
<1>1. now + eta \in Nat /\ today \in Nat
  BY DEF TypeOK
<1>. QED
  BY <1>1 DEF NewTurn, IsDraft, Row, PriorityOnJoining, Priorities, Statuses, ActiveStatuses

\* A request that starts on a draft is good.
LEMMA DraftGood ==
  ASSUME NEW q \in Queues, NEW e, IsDraft(e), NEW pc \in DraftPcs
  PROVE  LET r == [Idle EXCEPT !.pc = pc, !.queue = q, !.entity = e] IN
         r \in Request /\ GoodRequest(turns, r)
BY DEF Idle, Request, Pcs, Existing, GoodRequest, DraftPcs, DecidingPcs, WindowPcs, IsDraft

\* A request that proposes a decision on what it just read is good.
LEMMA ProposeGood ==
  ASSUME IInv, NEW w \in Workers, NEW t \in Stored(turns), NEW pc \in DecidingPcs,
         NEW e \in Row, Audited(e), e.updated = turns[t].updated,
         Follows(turns[t], e), Seats(turns[t], e),
         Propose(w, t, pc, e)
  PROVE  AllGood
<1>. DEFINE r == [Idle EXCEPT !.pc = pc, !.turn = t, !.entity = e, !.queue = turns[t].queue]
<1>1. t \in TurnIds /\ turns[t] \in Row
  BY StoredRow DEF IInv
<1>2. turns[t].queue \in Queues /\ turns[t].updated \in Nat
  BY <1>1, RowFields
<1>3. r \in Request
  BY <1>1, <1>2 DEF Idle, Request, Pcs, Existing, DecidingPcs
<1>4. r.pc = pc /\ r.turn = t /\ r.entity = e
  BY DEF Idle
<1>5. Decides(turns, t, e)
  BY <1>2 DEF Decides
<1>6. GoodRequest(turns, r)
  BY <1>4, <1>5 DEF GoodRequest, DraftPcs, DecidingPcs, WindowPcs
<1>. QED
  BY <1>3, <1>6, BecomeGood DEF Propose

\* A request on a service window is good.
LEMMA ForWindowGood ==
  ASSUME IInv, NEW w \in Workers, NEW v \in Windows, NEW st \in Existing,
         NEW pc \in {"inUse", "siblings", "saveWindow", "deletable"}, ForWindow(w, v, pc, st)
  PROVE  AllGood
<1>. DEFINE r == [Idle EXCEPT !.pc = pc, !.window = v, !.queue = WindowQueue[v], !.state = st]
<1>1. WindowQueue[v] \in Queues
  BY InstanceAssumption
<1>2. r \in Request /\ GoodRequest(turns, r)
  BY <1>1 DEF Idle, Request, Pcs, GoodRequest, DraftPcs, DecidingPcs, WindowPcs
<1>. QED
  BY <1>2, BecomeGood DEF ForWindow

-----------------------------------------------------------------------------
(* Every action leaves good requests.                                      *)

\* The requests that take a turn start from a draft or from a queue.
LEMMA JoinGood ==
  ASSUME IInv, NEW w \in Workers, Join(w)
  PROVE  AllGood
<1>1. TypeOK /\ Etas \subseteq Nat
  BY InstanceAssumption DEF IInv
<1>2. ASSUME NEW q \in Queues, NEW c \in Customers, BeginAppTurn(w, q, c)
      PROVE  AllGood
  <2>1. IsDraft(NewTurn(q, c, "app", 0))
    BY <1>1, NewTurnIsDraft DEF Sources
  <2>. QED
    BY <1>2, <2>1, DraftGood, BecomeGood DEF BeginAppTurn, DraftPcs
<1>3. ASSUME NEW q \in Queues, BeginGuestTurn(w, q)
      PROVE  AllGood
  <2>. DEFINE r == [Idle EXCEPT !.pc = "countGuests", !.queue = q]
  <2>1. r \in Request /\ GoodRequest(turns, r)
    BY DEF Idle, Request, Pcs, Existing, GoodRequest, DraftPcs, DecidingPcs, WindowPcs
  <2>. QED
    BY <1>3, <2>1, BecomeGood DEF BeginGuestTurn
<1>4. ASSUME NEW q \in Queues, NEW src \in {"manual", "phone"}, NEW eta \in Etas \cup {0},
             BeginManualTurn(w, q, src, eta)
      PROVE  AllGood
  <2>1. IsDraft(NewTurn(q, None, src, eta))
    BY <1>1, NewTurnIsDraft DEF Sources
  <2>. QED
    BY <1>4, <2>1, DraftGood, BecomeGood DEF BeginManualTurn, DraftPcs
<1>. QED
  BY <1>2, <1>3, <1>4 DEF Join

\* The requests on service windows start from a window.
LEMMA ConfigureGood ==
  ASSUME IInv, NEW w \in Workers, Configure(w)
  PROVE  AllGood
<1>1. PICK v \in Windows : \/ BeginCreateWindow(w, v) \/ BeginToggleWindow(w, v)
                          \/ BeginUpdateWindow(w, v) \/ BeginDeleteWindow(w, v)
  BY DEF Configure
<1>2. \E st \in Existing, pc \in {"inUse", "siblings", "saveWindow", "deletable"} : ForWindow(w, v, pc, st)
  BY <1>1 DEF BeginCreateWindow, BeginToggleWindow, BeginUpdateWindow, BeginDeleteWindow, Existing
<1>. QED
  BY <1>2, ForWindowGood

\* The requests on a stored turn decide one legal edge from what they read.
LEMMA OperateGood ==
  ASSUME IInv, NEW w \in Workers, Operate(w)
  PROVE  AllGood
<1>0. TypeOK /\ \A t \in Stored(turns) : Audited(turns[t])
  BY DEF IInv, AuditTrail, Audited
<1>1. ASSUME NEW q \in Queues, BeginCallNext(w, q)
      PROVE  AllGood
  <2>. DEFINE r == [Idle EXCEPT !.pc = "findCalled", !.queue = q]
  <2>1. r \in Request /\ GoodRequest(turns, r)
    BY DEF Idle, Request, Pcs, Existing, GoodRequest, DraftPcs, DecidingPcs, WindowPcs
  <2>. QED
    BY <1>1, <2>1, BecomeGood DEF BeginCallNext
<1>2. ASSUME NEW t \in Stored(turns), NEW v \in Windows \cup {None}, BeginAttend(w, t, v)
      PROVE  AllGood
  <2>. DEFINE target == IF v # None THEN v ELSE turns[t].window
              m      == Moved(t, "attending", "startedAttentionAt")
              e      == [m EXCEPT !.window = target]
  <2>1. turns[t] \in Row /\ turns[t].window \in Windows \cup {None}
        /\ RankOf[turns[t].priority] <= RankOf[turns[t].priority]
    BY <1>0, StoredRow, RowFields DEF RankOf, Priorities
  <2>2. /\ m \in Row /\ m.status = "attending" /\ m.stamps = turns[t].stamps \cup {"startedAttentionAt"}
        /\ m.priority = turns[t].priority /\ m.updated = turns[t].updated
    BY <1>0, MovedRow DEF Statuses, ActiveStatuses, Stamps
  <2>3. target \in Windows \cup {None}
    BY <2>1
  <2>4. /\ e \in Row /\ e.status = "attending" /\ e.stamps = turns[t].stamps \cup {"startedAttentionAt"}
        /\ e.priority = turns[t].priority /\ e.updated = turns[t].updated
    BY <2>2, <2>3 DEF Row
  <2>5. turns[t].status \in {"called", "redirected"}
    BY <1>2 DEF BeginAttend, Attendable
  <2>6. Audited(e)
    BY <1>0, <2>4, <2>5 DEF Audited, OccupyingStatuses
  <2>7. Follows(turns[t], e) /\ Seats(turns[t], e)
    BY <2>1, <2>4, <2>5 DEF Follows, StatusEdge, Attendable, Seats
  <2>8. \E pc \in DecidingPcs : Propose(w, t, pc, e)
    BY <1>2 DEF BeginAttend, DecidingPcs
  <2>. QED
    BY <2>4, <2>6, <2>7, <2>8, ProposeGood
<1>3. ASSUME NEW t \in Stored(turns), NEW v \in Windows, BeginRedirect(w, t, v)
      PROVE  AllGood
  <2>. DEFINE e == [turns[t] EXCEPT !.status = "redirected", !.window = v]
  <2>1. turns[t] \in Row /\ RankOf[turns[t].priority] <= RankOf[turns[t].priority]
    BY <1>0, StoredRow, RowFields DEF RankOf, Priorities
  <2>2. /\ e \in Row /\ e.status = "redirected" /\ e.stamps = turns[t].stamps
        /\ e.priority = turns[t].priority /\ e.updated = turns[t].updated
        /\ e.window # None
    BY <2>1, NoneIsNull DEF Row, Statuses, ActiveStatuses
  <2>3. turns[t].status = "attending"
    BY <1>3 DEF BeginRedirect
  <2>4. Audited(e) /\ Follows(turns[t], e) /\ Seats(turns[t], e)
    BY <1>0, <2>1, <2>2, <2>3 DEF Audited, OccupyingStatuses, Follows, StatusEdge, Seats
  <2>. QED
    BY <1>3, <2>2, <2>4, ProposeGood DEF BeginRedirect, DecidingPcs
<1>4. ASSUME NEW t \in Stored(turns), BeginConfirm(w, t)
      PROVE  AllGood
  <2>. DEFINE e == [turns[t] EXCEPT !.priority = Confirmed[@]]
  <2>1. turns[t] \in Row /\ turns[t].priority \in {"registered", "in_transit"} /\ turns[t].status \in ActiveStatuses
    BY <1>0, <1>4, StoredRow DEF BeginConfirm, Confirmed
  <2>2. /\ Confirmed[turns[t].priority] \in Priorities
        /\ RankOf[Confirmed[turns[t].priority]] <= RankOf[turns[t].priority]
    BY <2>1 DEF Confirmed, Priorities, RankOf
  <2>3. /\ e \in Row /\ e.status = turns[t].status /\ e.stamps = turns[t].stamps
        /\ e.priority = Confirmed[turns[t].priority] /\ e.updated = turns[t].updated
        /\ e.window = turns[t].window
    BY <2>1, <2>2 DEF Row
  <2>4. Audited(e) /\ Follows(turns[t], e) /\ Seats(turns[t], e)
    BY <1>0, <2>1, <2>2, <2>3 DEF Audited, Follows, StatusEdge, Seats
  <2>. QED
    BY <1>4, <2>3, <2>4, ProposeGood DEF BeginConfirm, DecidingPcs
<1>5. ASSUME NEW t \in Stored(turns),
             \/ BeginComplete(w, t) \/ BeginNoShow(w, t) \/ BeginCancelOwn(w, t)
             \/ BeginCancelGuest(w, t) \/ BeginCancelByEmployee(w, t)
      PROVE  AllGood
  <2>1. PICK s \in {"completed", "no_show", "cancelled"}, p \in {"attendedAt", "noShowAt", "cancelledAt"} :
          /\ Propose(w, t, "save", Moved(t, s, p))
          /\ \/ turns[t].status = "attending" /\ s = "completed" /\ p = "attendedAt"
             \/ turns[t].status = "called" /\ s = "no_show" /\ p = "noShowAt"
             \/ turns[t].status \in StaffCancel /\ s = "cancelled" /\ p = "cancelledAt"
    BY <1>5 DEF BeginComplete, BeginNoShow, BeginCancelOwn, BeginCancelGuest, BeginCancelByEmployee,
                OwnCancel, GuestCancel, StaffCancel
  <2>2. turns[t] \in Row /\ RankOf[turns[t].priority] <= RankOf[turns[t].priority]
    BY <1>0, StoredRow, RowFields DEF RankOf, Priorities
  <2>. DEFINE m == Moved(t, s, p)
  <2>3. /\ m \in Row /\ m.status = s /\ m.stamps = turns[t].stamps \cup {p}
        /\ m.priority = turns[t].priority /\ m.updated = turns[t].updated
    BY <1>0, MovedRow DEF Statuses, TerminalStatuses, Stamps
  <2>4. Audited(m)
    BY <1>0, <2>1, <2>3 DEF Audited, OccupyingStatuses, StaffCancel
  <2>5. Follows(turns[t], m) /\ Seats(turns[t], m)
    BY <2>1, <2>2, <2>3 DEF Follows, StatusEdge, StaffCancel, Seats
  <2>. QED
    BY <2>1, <2>3, <2>4, <2>5, ProposeGood DEF DecidingPcs
<1>. QED
  BY <1>1, <1>2, <1>3, <1>4, <1>5 DEF Operate

\* The number given to a draft is a number.
LEMMA CountIsNat ==
  ASSUME NEW q, NEW d
  PROVE  Cardinality(IssuedOn(turns, q, d)) \in Nat
<1>1. IssuedOn(turns, q, d) \subseteq TurnIds
  BY DEF IssuedOn, Stored
<1>. QED
  BY <1>1, TurnIdsFinite, FS_Subset, FS_CardinalityType

\* A request under way keeps what it knows, or replies.
LEMMA ProceedGood ==
  ASSUME IInv, NEW w \in Workers, Proceed(w) \/ LockQueue(w) \/ Abort(w)
  PROVE  AllGood
<1>0. TypeOK /\ req[w] \in Request /\ GoodRequest(turns, req[w])
      /\ \A t \in Stored(turns) : Audited(turns[t])
  BY DEF IInv, TypeOK, AuditTrail, Audited
<1>1. ASSUME CheckExistingTurn(w)
      PROVE  AllGood
  <2>. DEFINE e == NewTurn(req[w].queue, req[w].entity.customer, "app", 0)
              r == [req[w] EXCEPT !.pc = "lock", !.entity = e]
  <2>1. req[w].queue \in Queues /\ req[w].entity.customer \in Customers \cup {None}
    BY <1>0, <1>1, RowFields DEF CheckExistingTurn, At, GoodRequest, DraftPcs, IsDraft
  <2>2. IsDraft(e)
    BY <1>0, <2>1, NewTurnIsDraft DEF Sources
  <2>3. r \in Request /\ GoodRequest(turns, r)
    BY <1>0, <2>1, <2>2 DEF Request, Pcs, GoodRequest, DraftPcs, DecidingPcs, WindowPcs, IsDraft
  <2>. QED
    BY <1>1, <2>3, BecomeGood, ReplyGood DEF CheckExistingTurn
<1>2. ASSUME CountGuests(w)
      PROVE  AllGood
  BY <1>0, <1>2, GotoGood, ReplyGood DEF CountGuests, At, GoodRequest, Pcs
<1>3. ASSUME CheckGate(w)
      PROVE  AllGood
  <2>. DEFINE e == NewTurn(req[w].queue, None, "web", 0)
              r == [req[w] EXCEPT !.pc = "lock", !.entity = e]
  <2>1. req[w].queue \in Queues
    BY <1>0, <1>3 DEF CheckGate, At, GoodRequest
  <2>2. IsDraft(e)
    BY <1>0, <2>1, NewTurnIsDraft DEF Sources
  <2>3. r \in Request /\ GoodRequest(turns, r)
    BY <1>0, <2>1, <2>2 DEF Request, Pcs, GoodRequest, DraftPcs, DecidingPcs, WindowPcs, IsDraft
  <2>. QED
    BY <1>3, <2>3, BecomeGood, ReplyGood DEF CheckGate
<1>4. ASSUME CountIssued(w)
      PROVE  AllGood
  <2>. DEFINE n == Cardinality(IssuedOn(turns, req[w].queue, req[w].entity.date)) + 1
              e == [req[w].entity EXCEPT !.number = n]
              r == [req[w] EXCEPT !.pc = "insert", !.entity.number = n]
  <2>1. req[w].queue \in Queues /\ IsDraft(req[w].entity)
    BY <1>0, <1>4 DEF CountIssued, At, GoodRequest, DraftPcs
  <2>2. n \in Nat
    BY CountIsNat
  <2>. HIDE DEF n
  <2>3. IsDraft(e)
    BY <2>1, <2>2 DEF IsDraft, Row
  <2>4. r.pc = "insert" /\ r.entity = e /\ r.queue = req[w].queue /\ r \in Request
    BY <1>0, <2>3 DEF Request, Pcs, IsDraft
  <2>5. GoodRequest(turns, r)
    BY <2>1, <2>3, <2>4 DEF GoodRequest, DraftPcs, DecidingPcs, WindowPcs
  <2>6. Become(w, r)
    BY <1>4 DEF CountIssued, n
  <2>. QED
    BY <2>4, <2>5, <2>6, BecomeGood
<1>5. ASSUME FindCalledTurn(w)
      PROVE  AllGood
  BY <1>0, <1>5, GotoGood, ReplyGood DEF FindCalledTurn, At, GoodRequest, Pcs
<1>6. ASSUME FindNextWaitingTurn(w)
      PROVE  AllGood
  <2>1. PICK t \in NextIn(turns, req[w].queue, now) : Propose(w, t, "save", Moved(t, "called", "calledAt"))
    BY <1>6 DEF FindNextWaitingTurn
  <2>2. t \in Stored(turns) /\ turns[t].status = "waiting"
    BY DEF NextIn, DueIn, WaitingIn
  <2>. DEFINE m == Moved(t, "called", "calledAt")
  <2>3. turns[t] \in Row /\ RankOf[turns[t].priority] <= RankOf[turns[t].priority]
    BY <1>0, <2>2, StoredRow, RowFields DEF RankOf, Priorities
  <2>4. /\ m \in Row /\ m.status = "called" /\ m.stamps = turns[t].stamps \cup {"calledAt"}
        /\ m.priority = turns[t].priority /\ m.updated = turns[t].updated
    BY <1>0, <2>2, MovedRow DEF Statuses, ActiveStatuses, Stamps
  <2>5. Audited(m) /\ Follows(turns[t], m) /\ Seats(turns[t], m)
    BY <1>0, <2>2, <2>3, <2>4 DEF Audited, OccupyingStatuses, Follows, StatusEdge, Callable, Seats
  <2>. QED
    BY <2>1, <2>2, <2>4, <2>5, ProposeGood DEF DecidingPcs
<1>7. ASSUME CheckNoWindowNeeded(w) \/ CheckTargetWindow(w) \/ CheckOccupant(w)
      PROVE  AllGood
  BY <1>7, GotoGood, ReplyGood
     DEF CheckNoWindowNeeded, CheckTargetWindow, CheckOccupant, At, DecidingPcs, Pcs
<1>8. ASSUME CheckWindowInUse(w) \/ CheckSiblings(w)
      PROVE  AllGood
  BY <1>8, GotoGood, ReplyGood DEF CheckWindowInUse, CheckSiblings, At, WindowPcs, Pcs
<1>9. ASSUME LockQueue(w)
      PROVE  AllGood
  BY <1>9, GotoGood DEF LockQueue, At, DraftPcs, Pcs
<1>10. ASSUME \/ Insert(w) \/ InsertRefused(w) \/ QueueEmpty(w) \/ Save(w) \/ SaveRefused(w)
              \/ SaveWindow(w) \/ DeleteWindow(w) \/ Abort(w)
       PROVE  AllGood
  BY <1>10, ReplyGood DEF Insert, InsertRefused, QueueEmpty, Save, SaveRefused, SaveWindow,
                          DeleteWindow, Abort
<1>. QED
  BY <1>1, <1>2, <1>3, <1>4, <1>5, <1>6, <1>7, <1>8, <1>9, <1>10 DEF Proceed

\* Every step of the queue module leaves every request good.
LEMMA NextGood ==
  ASSUME IInv, [Next]_vars
  PROVE  AllGood
<1>1. ASSUME Environment \/ UNCHANGED vars
      PROVE  AllGood
  BY <1>1 DEF Environment, SetGate, Tick, NewDay, vars, IInv, TypeOK, AllGood
<1>. QED
  BY <1>1, JoinGood, OperateGood, ConfigureGood, ProceedGood DEF Next

-----------------------------------------------------------------------------
(* Every action makes one of the four steps of the table.                  *)

\* The reads, the refusals and the lock change no table.
LEMMA OnlySavesTouchTurns ==
  ASSUME NEW w \in Workers,
         \/ Join(w) \/ Operate(w) \/ Configure(w) \/ LockQueue(w) \/ Abort(w)
         \/ CheckExistingTurn(w) \/ CountGuests(w) \/ CheckGate(w) \/ CountIssued(w) \/ InsertRefused(w)
         \/ FindCalledTurn(w) \/ FindNextWaitingTurn(w) \/ QueueEmpty(w)
         \/ CheckNoWindowNeeded(w) \/ CheckTargetWindow(w) \/ CheckOccupant(w) \/ SaveRefused(w)
         \/ CheckWindowInUse(w) \/ CheckSiblings(w)
  PROVE  UNCHANGED <<turns, windows, gate, now, today>>
BY DEF Join, BeginAppTurn, BeginGuestTurn, BeginManualTurn, Operate, BeginCallNext, BeginAttend,
       BeginRedirect, BeginComplete, BeginNoShow, BeginCancelOwn, BeginCancelGuest,
       BeginCancelByEmployee, BeginConfirm, Configure, BeginCreateWindow, BeginToggleWindow,
       BeginUpdateWindow, BeginDeleteWindow, ForWindow, Propose, LockQueue, Abort,
       CheckExistingTurn, CountGuests, CheckGate, CountIssued, InsertRefused, FindCalledTurn,
       FindNextWaitingTurn, QueueEmpty, CheckNoWindowNeeded, CheckTargetWindow, CheckOccupant,
       SaveRefused, CheckWindowInUse, CheckSiblings, data, clock

\* Every step of the queue module inserts a draft, saves a decision, detaches
\* a window or leaves the table of turns alone.
LEMMA NextTurns ==
  ASSUME IInv, [Next]_vars
  PROVE  TurnsStep
<1>0. TypeOK /\ \A w \in Workers : req[w] \in Request /\ GoodRequest(turns, req[w])
  BY DEF IInv, TypeOK
<1>1. ASSUME NEW w \in Workers, Insert(w)
      PROVE  TurnsStep
  <2>1. IsDraft(req[w].entity)
    BY <1>0, <1>1 DEF Insert, At, GoodRequest, DraftPcs
  <2>2. PICK t \in TurnIds \ Stored(turns) : turns' = [turns EXCEPT ![t] = req[w].entity]
    BY <1>1 DEF Insert
  <2>3. Inserts(w, t)
    BY <1>1, <2>1, <2>2 DEF Insert, Inserts
  <2>. QED
    BY <2>3 DEF TurnsStep
<1>2. ASSUME NEW w \in Workers, Save(w)
      PROVE  TurnsStep
  <2>1. Decides(turns, req[w].turn, req[w].entity)
    BY <1>0, <1>2 DEF Save, At, GoodRequest, DecidingPcs
  <2>2. Saves(req[w].turn, req[w].entity)
    BY <1>2, <2>1 DEF Save, Saves
  <2>3. req[w].turn \in TurnIds /\ req[w].entity \in Row
    BY <2>1 DEF Decides, Stored
  <2>. QED
    BY <2>2, <2>3 DEF TurnsStep
<1>3. ASSUME NEW w \in Workers, SaveWindow(w)
      PROVE  TurnsStep
  <2>1. req[w].window \in Windows /\ req[w].state \in Existing
    BY <1>0, <1>3 DEF SaveWindow, At, GoodRequest, WindowPcs, Request
  <2>2. Keeps
    BY <1>0, <1>3, <2>1 DEF SaveWindow, Keeps, TypeOK
  <2>. QED
    BY <2>2 DEF TurnsStep
<1>4. ASSUME NEW w \in Workers, DeleteWindow(w)
      PROVE  TurnsStep
  <2>1. req[w].window \in Windows
    BY <1>0, <1>4 DEF DeleteWindow, At, GoodRequest, WindowPcs
  <2>2. Detaches(req[w].window) \/ Keeps
    BY <1>4 DEF DeleteWindow, Detaches, Keeps
  <2>. QED
    BY <2>1, <2>2 DEF TurnsStep
<1>5. ASSUME UNCHANGED <<turns, windows>>
      PROVE  TurnsStep
  BY <1>5 DEF Keeps, TurnsStep
<1>6. Environment \/ UNCHANGED vars => UNCHANGED <<turns, windows>>
  BY DEF Environment, SetGate, Tick, NewDay, vars
<1>. QED
  BY <1>1, <1>2, <1>3, <1>4, <1>5, <1>6, OnlySavesTouchTurns DEF Next, Proceed

\* The tables of windows, gates and locks, the clock and the requests keep
\* their types.
LEMMA OthersTyped ==
  ASSUME IInv, [Next]_vars
  PROVE  /\ windows' \in [Windows -> WindowStates]
         /\ gate' \in [Queues -> GateStates]
         /\ lock' \in [Queues -> Workers \cup {None}]
         /\ now' \in Nat /\ today' \in Nat
         /\ req' \in [Workers -> Request]
<1>0. TypeOK /\ \A w \in Workers : req[w] \in Request /\ GoodRequest(turns, req[w])
  BY DEF IInv, TypeOK
<1>1. windows' \in [Windows -> WindowStates]
  <2>1. ASSUME NEW w \in Workers, SaveWindow(w)
        PROVE  windows' \in [Windows -> WindowStates]
    BY <1>0, <2>1 DEF SaveWindow, Request, Existing, WindowStates, TypeOK
  <2>2. ASSUME NEW w \in Workers, DeleteWindow(w)
        PROVE  windows' \in [Windows -> WindowStates]
    BY <1>0, <2>2 DEF DeleteWindow, WindowStates, TypeOK
  <2>3. ASSUME NEW w \in Workers, Insert(w) \/ Save(w)
        PROVE  windows' = windows
    BY <2>3 DEF Insert, Save
  <2>4. Environment \/ UNCHANGED vars => windows' = windows
    BY DEF Environment, SetGate, Tick, NewDay, vars
  <2>. QED
    BY <1>0, <2>1, <2>2, <2>3, <2>4, OnlySavesTouchTurns DEF Next, Proceed, TypeOK
<1>2. gate' \in [Queues -> GateStates] /\ now' \in Nat /\ today' \in Nat
  <2>1. ASSUME NEW w \in Workers, Insert(w) \/ Save(w) \/ SaveWindow(w) \/ DeleteWindow(w)
        PROVE  UNCHANGED <<gate, now, today>>
    BY <2>1 DEF Insert, Save, SaveWindow, DeleteWindow, clock
  <2>2. ASSUME Environment \/ UNCHANGED vars
        PROVE  gate' \in [Queues -> GateStates] /\ now' \in Nat /\ today' \in Nat
    <3>1. now \in Nat /\ today \in Nat /\ gate \in [Queues -> GateStates]
      BY <1>0 DEF TypeOK
    <3>2. (now' = now \/ now' = now + 1) /\ (today' = today \/ today' = today + 1)
      BY <2>2 DEF Environment, SetGate, Tick, NewDay, vars, clock
    <3>3. gate' = gate \/ \E q \in Queues, g \in GateStates : gate' = [gate EXCEPT ![q] = g]
      BY <2>2 DEF Environment, SetGate, Tick, NewDay, vars
    <3>. QED
      BY <3>1, <3>2, <3>3
  <2>. QED
    BY <1>0, <2>1, <2>2, OnlySavesTouchTurns DEF Next, Proceed, TypeOK
<1>3. lock' \in [Queues -> Workers \cup {None}]
  <2>1. \A w \in Workers : Unlocked(w) \in [Queues -> Workers \cup {None}]
    BY <1>0 DEF Unlocked, TypeOK
  <2>2. ASSUME NEW w \in Workers,
               Join(w) \/ Operate(w) \/ Configure(w) \/ LockQueue(w) \/ Proceed(w) \/ Abort(w)
        PROVE  lock' = lock \/ lock' = Unlocked(w) \/ lock' = [lock EXCEPT ![req[w].queue] = w]
    BY <2>2 DEF Join, BeginAppTurn, BeginGuestTurn, BeginManualTurn, Operate, BeginCallNext,
         BeginAttend, BeginRedirect, BeginComplete, BeginNoShow, BeginCancelOwn, BeginCancelGuest,
         BeginCancelByEmployee, BeginConfirm, Configure, BeginCreateWindow, BeginToggleWindow,
         BeginUpdateWindow, BeginDeleteWindow, ForWindow, Propose, LockQueue, Abort, Proceed,
         CheckExistingTurn, CountGuests, CheckGate, CountIssued, Insert, InsertRefused,
         FindCalledTurn, FindNextWaitingTurn, QueueEmpty, CheckNoWindowNeeded, CheckTargetWindow,
         CheckOccupant, Save, SaveRefused, CheckWindowInUse, CheckSiblings, SaveWindow,
         DeleteWindow, data
  <2>3. Environment \/ UNCHANGED vars => lock' = lock
    BY DEF Environment, SetGate, Tick, NewDay, vars
  <2>. QED
    BY <1>0, <2>1, <2>2, <2>3 DEF Next, TypeOK
<1>4. req' \in [Workers -> Request]
  BY NextGood DEF AllGood
<1>. QED
  BY <1>1, <1>2, <1>3, <1>4

-----------------------------------------------------------------------------
(* The invariant is inductive.                                             *)

\* The empty queue satisfies the inductive invariant.
LEMMA InitIInv == Init => IInv
<1>. SUFFICES ASSUME Init PROVE IInv
  OBVIOUS
<1>1. windows \in [Windows -> WindowStates]
  BY DEF Init, WindowStates
<1>2. TypeOK
  BY <1>1, IdleGood DEF Init, TypeOK, GateStates
<1>3. AuditTrail
  BY DEF Init, AuditTrail, Stored
<1>4. \A w \in Workers : GoodRequest(turns, req[w])
  BY IdleGood DEF Init
<1>. QED
  BY <1>2, <1>3, <1>4 DEF IInv

\* Every step of the queue module preserves the inductive invariant.
LEMMA NextIInv == IInv /\ [Next]_vars => IInv'
<1>. SUFFICES ASSUME IInv, [Next]_vars PROVE IInv'
  OBVIOUS
<1>1. TurnsStep /\ AllGood
  BY NextTurns, NextGood
<1>2. TypeOK' /\ AuditTrail'
  BY <1>1, TableKept, OthersTyped DEF TypeOK
<1>3. ASSUME NEW w \in Workers
      PROVE  GoodRequest(turns', req'[w])
  <2>1. GoodRequest(turns, req'[w]) /\ req'[w] \in Request
    BY <1>1 DEF AllGood
  <2>2. ASSUME req'[w].pc \in DecidingPcs
        PROVE  Decides(turns', req'[w].turn, req'[w].entity)
    BY <1>1, <2>1, <2>2, DecisionKept DEF GoodRequest, Decides, Request
  <2>. QED
    BY <2>1, <2>2 DEF GoodRequest
<1>. QED
  BY <1>2, <1>3 DEF IInv

\* The inductive invariant: the types, the audit trail of every stored turn and
\* what every request in flight knows about the turn it read (the entities of
\* the use cases between their first read and saveTurnOrThrowConflict).
THEOREM Inductive == Spec => []IInv
<1>. QED
  BY InitIInv, NextIInv, PTL DEF Spec

\* Type correctness of the queue module: every reachable table, lock and
\* request in flight is of its type, whatever the requests interleave.
THEOREM TypeCorrect == Spec => []TypeOK
<1>1. IInv => TypeOK
  BY DEF IInv
<1>. QED
  BY <1>1, Inductive, PTL

\* The audit columns of every stored turn tell the story of its status
\* (AttendTurn, MarkTurnNoShow, the three cancel use cases, CallNext).
THEOREM AuditTrailHolds == Spec => []AuditTrail
<1>1. IInv => AuditTrail
  BY DEF IInv
<1>. QED
  BY <1>1, Inductive, PTL

\* A decision made on a version that is still current is one edge of the
\* status graph away from the row, so the compare-and-set of saveWithClient
\* is enough against every interleaving of two requests on one turn.
THEOREM DecisionsHold == Spec => []DecisionsAreCurrent
<1>1. IInv => DecisionsAreCurrent
  BY DEF IInv, GoodRequest, Decides, DecisionsAreCurrent
<1>. QED
  BY <1>1, Inductive, PTL

-----------------------------------------------------------------------------
(* The table's uniqueness rules.                                           *)

\* A save rewrites one stored row and leaves the others alone.
LEMMA AfterSave ==
  ASSUME IInv, NEW t \in TurnIds, NEW e \in Row, Saves(t, e)
  PROVE  /\ t \in Stored(turns) /\ turns[t] \in Row
         /\ turns'[t] = Written(turns[t], e)
         /\ turns'[t] \in Row
         /\ turns'[t].status = e.status /\ turns'[t].window = e.window
         /\ turns'[t].customer = turns[t].customer
         /\ Stored(turns') = Stored(turns)
         /\ \A u \in TurnIds \ {t} : turns'[u] = turns[u]
<1>1. t \in Stored(turns) /\ turns[t] \in Row
  BY StoredRow DEF Saves, Decides, IInv
<1>2. turns'[t] = Written(turns[t], e) /\ \A u \in TurnIds \ {t} : turns'[u] = turns[u]
  BY DEF Saves, IInv, TypeOK
<1>3. Written(turns[t], e) # None
  BY <1>1, WrittenRow, RowFields
<1>4. Stored(turns') = Stored(turns)
  BY <1>1, <1>2, <1>3 DEF Stored
<1>. QED
  BY <1>1, <1>2, <1>4, WrittenRow

\* An insert adds one draft and leaves the other rows alone.
LEMMA AfterInsert ==
  ASSUME IInv, NEW w \in Workers, NEW t \in TurnIds, Inserts(w, t)
  PROVE  /\ t \notin Stored(turns)
         /\ turns'[t] = req[w].entity /\ IsDraft(turns'[t])
         /\ Stored(turns') = Stored(turns) \cup {t}
         /\ \A u \in TurnIds \ {t} : turns'[u] = turns[u]
<1>1. turns'[t] = req[w].entity /\ \A u \in TurnIds \ {t} : turns'[u] = turns[u]
  BY DEF Inserts, IInv, TypeOK
<1>2. turns'[t] # None /\ IsDraft(turns'[t])
  BY <1>1, RowFields DEF Inserts, IsDraft
<1>. QED
  BY <1>1, <1>2 DEF Inserts, Stored

\* A deletion takes its window from the turns at it and changes nothing else.
LEMMA AfterDetach ==
  ASSUME IInv, NEW v \in Windows, Detaches(v)
  PROVE  /\ Stored(turns') = Stored(turns)
         /\ \A u \in Stored(turns) :
              /\ turns'[u] \in Row
              /\ turns'[u].status = turns[u].status /\ turns'[u].customer = turns[u].customer
              /\ turns'[u].window = (IF turns[u].window = v THEN None ELSE turns[u].window)
         /\ windows'[v] = "deleted"
         /\ \A u \in Windows \ {v} : windows'[u] = windows[u]
<1>1. TypeOK /\ turns' = Detached(v)
  BY DEF Detaches, IInv
<1>2. \A u \in TurnIds : turns'[u] = None <=> turns[u] = None
  BY <1>1, DetachedRow
<1>3. \A u \in Stored(turns) :
        /\ turns'[u] \in Row
        /\ turns'[u].status = turns[u].status /\ turns'[u].customer = turns[u].customer
        /\ turns'[u].window = (IF turns[u].window = v THEN None ELSE turns[u].window)
  BY <1>1, DetachedRow, StoredRow
<1>. QED
  BY <1>1, <1>2, <1>3 DEF Stored, Detaches, TypeOK

\* No step of the table gives a window a second occupant.
LEMMA KeepsOneTurnPerWindow ==
  ASSUME IInv, TurnsStep, OneTurnPerWindow
  PROVE  OneTurnPerWindow'
<1>. SUFFICES ASSUME NEW v \in Windows, NEW a \in OccupantsOf(turns', v), NEW b \in OccupantsOf(turns', v)
              PROVE  a = b
  BY DEF OneTurnPerWindow
<1>0. /\ a \in TurnIds /\ b \in TurnIds /\ a \in Stored(turns') /\ b \in Stored(turns')
      /\ turns'[a].window = v /\ turns'[b].window = v
      /\ turns'[a].status \in OccupyingStatuses /\ turns'[b].status \in OccupyingStatuses
      /\ v # None
  BY NoneIsNull DEF OccupantsOf, Stored
<1>1. ASSUME NEW w \in Workers, NEW t \in TurnIds, Inserts(w, t)
      PROVE  a = b
  <2>1. a # t /\ b # t
    BY <1>0, <1>1, AfterInsert DEF IsDraft
  <2>2. a \in OccupantsOf(turns, v) /\ b \in OccupantsOf(turns, v)
    BY <1>0, <1>1, <2>1, AfterInsert DEF OccupantsOf
  <2>. QED
    BY <2>2 DEF OneTurnPerWindow
<1>2. ASSUME NEW t \in TurnIds, NEW e \in Row, Saves(t, e)
      PROVE  a = b
  <2>1. \A u \in {a, b} \ {t} : u \in OccupantsOf(turns, v)
    BY <1>0, <1>2, AfterSave DEF OccupantsOf
  <2>2. ASSUME t \in {a, b}
        PROVE  OccupantsOf(turns, v) \subseteq {t}
    <3>1. turns'[t].window = v /\ turns'[t].status \in OccupyingStatuses
      BY <1>0, <2>2
    <3>2. e.window = v /\ e.status \in OccupyingStatuses
      BY <1>2, <3>1, AfterSave
    <3>3. WindowFree(t, e)
      BY <1>2 DEF Saves, Savable
    <3>. QED
      BY <1>0, <3>2, <3>3 DEF WindowFree
  <2>. QED
    BY <2>1, <2>2 DEF OneTurnPerWindow
<1>3. ASSUME NEW d \in Windows, Detaches(d)
      PROVE  a = b
  <2>1. a \in OccupantsOf(turns, v) /\ b \in OccupantsOf(turns, v)
    BY <1>0, <1>3, AfterDetach DEF OccupantsOf
  <2>. QED
    BY <2>1 DEF OneTurnPerWindow
<1>4. Keeps => a = b
  BY DEF Keeps, OneTurnPerWindow
<1>. QED
  BY <1>1, <1>2, <1>3, <1>4 DEF TurnsStep

\* Two attend or redirect requests that both saw a window free, and the
\* configuration requests around them, never leave two turns at it.
THEOREM WindowsServeOne == Spec => []OneTurnPerWindow
<1>1. Init => OneTurnPerWindow
  BY DEF Init, OneTurnPerWindow, OccupantsOf, Stored
<1>2. IInv /\ OneTurnPerWindow /\ [Next]_vars => OneTurnPerWindow'
  BY NextTurns, KeepsOneTurnPerWindow
<1>. QED
  BY <1>1, <1>2, Inductive, PTL DEF Spec

\* No step of the table gives an account a second place.
LEMMA KeepsOneTurnPerCustomer ==
  ASSUME IInv, TurnsStep, OneTurnPerCustomer
  PROVE  OneTurnPerCustomer'
<1>. SUFFICES ASSUME NEW c \in Customers, NEW a \in HoldersOf(turns', c), NEW b \in HoldersOf(turns', c)
              PROVE  a = b
  BY DEF OneTurnPerCustomer
<1>0. /\ a \in TurnIds /\ b \in TurnIds /\ a \in Stored(turns') /\ b \in Stored(turns')
      /\ turns'[a].customer = c /\ turns'[b].customer = c
      /\ turns'[a].status \in ActiveStatuses /\ turns'[b].status \in ActiveStatuses
      /\ c # None
  BY NoneIsNull DEF HoldersOf, Stored
<1>1. ASSUME NEW w \in Workers, NEW t \in TurnIds, Inserts(w, t)
      PROVE  a = b
  <2>1. \A u \in {a, b} \ {t} : u \in HoldersOf(turns, c)
    BY <1>0, <1>1, AfterInsert DEF HoldersOf
  <2>2. t \in {a, b} => HoldersOf(turns, c) = {}
    BY <1>0, <1>1, AfterInsert DEF Inserts, CustomerFree
  <2>. QED
    BY <2>1, <2>2 DEF OneTurnPerCustomer
<1>2. ASSUME NEW t \in TurnIds, NEW e \in Row, Saves(t, e)
      PROVE  a = b
  <2>1. e.status \in ActiveStatuses => turns[t].status \in ActiveStatuses
    <3>1. Follows(turns[t], e)
      BY <1>2 DEF Saves, Savable, Fresh, Decides
    <3>. QED
      BY <3>1 DEF Follows, StatusEdge, ActiveStatuses, Callable, Attendable, StaffCancel
  <2>2. a \in HoldersOf(turns, c) /\ b \in HoldersOf(turns, c)
    BY <1>0, <1>2, <2>1, AfterSave DEF HoldersOf
  <2>. QED
    BY <2>2 DEF OneTurnPerCustomer
<1>3. ASSUME NEW d \in Windows, Detaches(d)
      PROVE  a = b
  <2>1. a \in HoldersOf(turns, c) /\ b \in HoldersOf(turns, c)
    BY <1>0, <1>3, AfterDetach DEF HoldersOf
  <2>. QED
    BY <2>1 DEF OneTurnPerCustomer
<1>4. Keeps => a = b
  BY DEF Keeps, OneTurnPerCustomer
<1>. QED
  BY <1>1, <1>2, <1>3, <1>4 DEF TurnsStep

\* An account never holds two places, though the use case checks and inserts
\* in two calls; it needs DecisionsAreCurrent, since a save that revived a
\* closed turn would pass the index's check of inserts unseen.
THEOREM CustomersHoldOne == Spec => []OneTurnPerCustomer
<1>1. Init => OneTurnPerCustomer
  BY DEF Init, OneTurnPerCustomer, HoldersOf, Stored
<1>2. IInv /\ OneTurnPerCustomer /\ [Next]_vars => OneTurnPerCustomer'
  BY NextTurns, KeepsOneTurnPerCustomer
<1>. QED
  BY <1>1, <1>2, Inductive, PTL DEF Spec

\* No step of the tables leaves a turn at a window that is gone.
LEMMA KeepsNoDanglingWindow ==
  ASSUME IInv, TurnsStep, NoDanglingWindow
  PROVE  NoDanglingWindow'
<1>. SUFFICES ASSUME NEW a \in Stored(turns'), turns'[a].window # None
              PROVE  windows'[turns'[a].window] \in Existing
  BY DEF NoDanglingWindow
<1>0. a \in TurnIds /\ \A u \in Stored(turns) : turns[u].window # None => windows[turns[u].window] \in Existing
  BY DEF NoDanglingWindow, Stored
<1>1. ASSUME NEW w \in Workers, NEW t \in TurnIds, Inserts(w, t)
      PROVE  windows'[turns'[a].window] \in Existing
  <2>1. a # t
    BY <1>1, AfterInsert DEF IsDraft
  <2>2. a \in Stored(turns) /\ turns'[a] = turns[a]
    BY <1>0, <1>1, <2>1, AfterInsert
  <2>3. windows' = windows
    BY <1>1 DEF Inserts
  <2>. QED
    BY <1>0, <2>2, <2>3
<1>2. ASSUME NEW t \in TurnIds, NEW e \in Row, Saves(t, e)
      PROVE  windows'[turns'[a].window] \in Existing
  <2>1. a \in Stored(turns) /\ windows' = windows
    BY <1>2, AfterSave DEF Saves
  <2>2. CASE a = t
    <3>1. turns'[a].window = e.window /\ WindowExists(e)
      BY <1>2, <2>2, AfterSave DEF Saves, Savable
    <3>. QED
      BY <2>1, <3>1 DEF WindowExists
  <2>3. CASE a # t
    <3>1. turns'[a] = turns[a]
      BY <1>0, <1>2, <2>3, AfterSave
    <3>. QED
      BY <1>0, <2>1, <3>1
  <2>. QED
    BY <2>2, <2>3
<1>3. ASSUME NEW d \in Windows, Detaches(d)
      PROVE  windows'[turns'[a].window] \in Existing
  <2>1. a \in Stored(turns) /\ turns'[a].window = (IF turns[a].window = d THEN None ELSE turns[a].window)
    BY <1>3, AfterDetach
  <2>2. turns'[a].window = turns[a].window /\ turns[a].window \in Windows \ {d}
    BY <2>1, StoredRow, RowFields DEF IInv
  <2>3. windows'[turns[a].window] = windows[turns[a].window]
    BY <1>3, <2>2, AfterDetach
  <2>. QED
    BY <1>0, <2>1, <2>2, <2>3
<1>4. ASSUME Keeps
      PROVE  windows'[turns'[a].window] \in Existing
  <2>1. turns' = turns /\ a \in Stored(turns)
    BY <1>4 DEF Keeps
  <2>2. turns[a].window \in Windows
    BY <2>1, StoredRow, RowFields DEF IInv
  <2>. QED
    BY <1>0, <1>4, <2>1, <2>2 DEF Keeps
<1>. QED
  BY <1>1, <1>2, <1>3, <1>4 DEF TurnsStep

\* No stored turn refers to a deleted window, though a save may carry a window
\* it read before the deletion and an upsert may bring the window back.
THEOREM WindowsDoNotDangle == Spec => []NoDanglingWindow
<1>1. Init => NoDanglingWindow
  BY DEF Init, NoDanglingWindow, Stored
<1>2. IInv /\ NoDanglingWindow /\ [Next]_vars => NoDanglingWindow'
  BY NextTurns, KeepsNoDanglingWindow
<1>. QED
  BY <1>1, <1>2, Inductive, PTL DEF Spec
=============================================================================
