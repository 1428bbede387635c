---------------------------- MODULE TurnPlaceProofs ----------------------------
(***************************************************************************)
(* The places a queue gives out, for every instance: the numbers of a day  *)
(* are dense, nobody is called before they said they would come, "you are  *)
(* next" is true exactly of the turns call-next may pick, and the guests   *)
(* pass their cap by no more than the requests in flight.                  *)
(***************************************************************************)
EXTENDS TurnRefinementProofs

-----------------------------------------------------------------------------
(* The inductive invariant.                                                *)

\* What a row or a draft promises: it is of today or earlier, only a phone
\* reservation joins later, a web guest has no account, and nobody is called
\* before they joined.
Booked(e, nn, td) ==
  /\ e.date <= td
  /\ nn < e.joined => e.priority = "registered" /\ e.customer = None
  /\ e.source = "web" => e.customer = None
  /\ e.status = "called" => e.joined <= nn

\* What a decision e about a row may not do.
Respects(row, e, nn) ==
  /\ row.customer = None => e.priority = row.priority
  /\ e.status = "called" => row.joined <= nn

\* What the request r of worker w knows about the tables of turns and locks.
Knows(tt, ll, nn, td, w, r) ==
  /\ r.pc \in DraftPcs => Booked(r.entity, nn, td) /\ r.entity.queue = r.queue
  /\ r.pc \in {"count", "insert"} => ll[r.queue] = w
  /\ r.pc = "insert" => r.entity.number = Cardinality(IssuedOn(tt, r.queue, r.entity.date)) + 1
  /\ r.pc \in DecidingPcs => Respects(tt[r.turn], r.entity, nn)

PInv ==
  /\ \A t \in Stored(turns) : Booked(turns[t], now, today)
  /\ \A w \in Workers : Knows(turns, lock, now, today, w, req[w])

\* The web guests of a queue, and the requests that passed the guest count
\* and did not insert their turn yet.
WebGuests(tt, q) == {t \in ActiveIn(tt, q) : tt[t].source = "web"}

LetIn(rr, q) ==
  {w \in Workers : /\ rr[w].queue = q
                   /\ \/ rr[w].pc = "gate"
                      \/ rr[w].pc \in {"lock", "count", "insert"} /\ rr[w].entity.source = "web"}

GuestsAccounted ==
  \A q \in Queues :
    Cardinality(WebGuests(turns, q)) + Cardinality(LetIn(req, q)) <= MaxGuests + Cardinality(Workers) - 1

-----------------------------------------------------------------------------
(* What the request that moves knows.                                      *)

\* An answered request knows nothing.
LEMMA IdleKnows ==
  ASSUME NEW tt, NEW ll, NEW nn, NEW td, NEW w
  PROVE  Knows(tt, ll, nn, td, w, Idle)
BY DEF Idle, Knows, DraftPcs, DecidingPcs

\* A request that becomes r is r afterwards, and the others are as before.
LEMMA Becomes ==
  ASSUME IInv, NEW w \in Workers, NEW r, Become(w, r)
  PROVE  req'[w] = r /\ \A u \in Workers \ {w} : req'[u] = req[u]
BY DEF IInv, TypeOK, Become

\* A draft is made for today, and later than now only by phone.
LEMMA NewTurnBooked ==
  ASSUME TypeOK, NEW q \in Queues, NEW c \in Customers \cup {None}, NEW src \in Sources, NEW eta \in Nat,
         eta # 0 => src = "phone" /\ c = None,
         src = "web" => c = None
  PROVE  LET e == NewTurn(q, c, src, eta) IN
         Booked(e, now, today) /\ e.queue = q /\ e.source = src
<1>. DEFINE e == NewTurn(q, c, src, eta)
<1>1. /\ e.queue = q /\ e.customer = c /\ e.source = src /\ e.status = "waiting"
      /\ e.date = today /\ e.joined = now + eta
      /\ e.priority = (IF src = "manual" THEN "physical" ELSE "registered")
  BY DEF NewTurn, PriorityOnJoining
<1>2. now \in Nat /\ today \in Nat
  BY DEF TypeOK
<1>3. today <= today /\ (now < now + eta => eta # 0)
  BY <1>2
<1>. QED
  BY <1>1, <1>3 DEF Booked

\* A request that starts on a draft knows what the draft promises.
LEMMA DraftKnows ==
  ASSUME IInv, NEW w \in Workers, NEW q \in Queues, NEW e, Booked(e, now, today), e.queue = q,
         NEW pc \in {"existing", "lock"},
         Become(w, [Idle EXCEPT !.pc = pc, !.queue = q, !.entity = e])
  PROVE  Knows(turns, lock, now, today, w, req'[w])
<1>. DEFINE r == [Idle EXCEPT !.pc = pc, !.queue = q, !.entity = e]
<1>1. r.pc = pc /\ r.queue = q /\ r.entity = e
  BY DEF Idle
<1>2. Knows(turns, lock, now, today, w, r)
  BY <1>1 DEF Knows, DraftPcs, DecidingPcs
<1>. QED
  BY <1>2, Becomes

\* The requests that take a turn know what they promise.
LEMMA JoinKnows ==
  ASSUME IInv, NEW w \in Workers, Join(w)
  PROVE  Knows(turns, lock, now, today, w, req'[w])
<1>1. TypeOK /\ Etas \subseteq Nat
  BY InstanceAssumption DEF IInv
<1>2. ASSUME NEW q \in Queues, NEW c \in Customers, BeginAppTurn(w, q, c)
      PROVE  Knows(turns, lock, now, today, w, req'[w])
  <2>1. Booked(NewTurn(q, c, "app", 0), now, today) /\ NewTurn(q, c, "app", 0).queue = q
    BY <1>1, NewTurnBooked DEF Sources
  <2>. QED
    BY <1>2, <2>1, DraftKnows DEF BeginAppTurn
<1>3. ASSUME NEW q \in Queues, BeginGuestTurn(w, q)
      PROVE  Knows(turns, lock, now, today, w, req'[w])
  <2>. DEFINE r == [Idle EXCEPT !.pc = "countGuests", !.queue = q]
  <2>1. Knows(turns, lock, now, today, w, r)
    BY DEF Idle, Knows, DraftPcs, DecidingPcs
  <2>. QED
    BY <1>3, <2>1, Becomes DEF BeginGuestTurn
<1>4. ASSUME NEW q \in Queues, NEW src \in {"manual", "phone"}, NEW eta \in Etas \cup {0},
             BeginManualTurn(w, q, src, eta)
      PROVE  Knows(turns, lock, now, today, w, req'[w])
  <2>1. src = "manual" => eta = 0
    BY <1>4 DEF BeginManualTurn
  <2>2. Booked(NewTurn(q, None, src, eta), now, today) /\ NewTurn(q, None, src, eta).queue = q
    BY <1>1, <2>1, NewTurnBooked DEF Sources
  <2>. QED
    BY <1>4, <2>2, DraftKnows DEF BeginManualTurn
<1>. QED
  BY <1>2, <1>3, <1>4 DEF Join

\* A request that proposes what its row allows knows it.
LEMMA ProposeKnows ==
  ASSUME IInv, NEW w \in Workers, NEW t \in Stored(turns), NEW pc \in DecidingPcs, NEW e,
         Respects(turns[t], e, now), Propose(w, t, pc, e)
  PROVE  Knows(turns, lock, now, today, w, req'[w])
<1>. DEFINE r == [Idle EXCEPT !.pc = pc, !.turn = t, !.entity = e, !.queue = turns[t].queue]
<1>1. r.pc = pc /\ r.turn = t /\ r.entity = e
  BY DEF Idle
<1>2. Knows(turns, lock, now, today, w, r)
  BY <1>1 DEF Knows, DraftPcs, DecidingPcs
<1>. QED
  BY <1>2, Becomes DEF Propose

\* A move that keeps the priority and does not call is always allowed.
LEMMA MoveRespects ==
  ASSUME TypeOK, NEW t \in Stored(turns), NEW s \in Statuses, NEW p \in Stamps,
         s = "called" => turns[t].joined <= now
  PROVE  Respects(turns[t], Moved(t, s, p), now)
BY MovedRow DEF Respects

\* The requests on a stored turn propose what its row allows.
LEMMA OperateKnows ==
  ASSUME IInv, PInv, NEW w \in Workers, Operate(w)
  PROVE  Knows(turns, lock, now, today, w, req'[w])
<1>0. TypeOK /\ \A t \in Stored(turns) : Booked(turns[t], now, today)
  BY DEF IInv, PInv
<1>1. ASSUME NEW q \in Queues, BeginCallNext(w, q)
      PROVE  Knows(turns, lock, now, today, w, req'[w])
  <2>. DEFINE r == [Idle EXCEPT !.pc = "findCalled", !.queue = q]
  <2>1. Knows(turns, lock, now, today, w, r)
    BY DEF Idle, Knows, DraftPcs, DecidingPcs
  <2>. QED
    BY <1>1, <2>1, Becomes DEF BeginCallNext
<1>2. ASSUME NEW t \in Stored(turns), NEW v \in Windows \cup {None}, BeginAttend(w, t, v)
      PROVE  Knows(turns, lock, now, today, w, req'[w])
  <2>. DEFINE target == IF v # None THEN v ELSE turns[t].window
              m      == Moved(t, "attending", "startedAttentionAt")
              e      == [m EXCEPT !.window = target]
  <2>1. m \in Row /\ m.status = "attending" /\ m.priority = turns[t].priority
    BY <1>0, MovedRow DEF Statuses, ActiveStatuses, Stamps
  <2>2. e.status = "attending" /\ e.priority = turns[t].priority
    BY <2>1 DEF Row
  <2>3. Respects(turns[t], e, now)
    BY <2>2 DEF Respects
  <2>4. \E pc \in DecidingPcs : Propose(w, t, pc, e)
    BY <1>2 DEF BeginAttend, DecidingPcs
  <2>. QED
    BY <2>3, <2>4, ProposeKnows
<1>3. ASSUME NEW t \in Stored(turns), NEW v \in Windows, BeginRedirect(w, t, v)
      PROVE  Knows(turns, lock, now, today, w, req'[w])
  <2>. DEFINE e == [turns[t] EXCEPT !.status = "redirected", !.window = v]
  <2>1. e.status = "redirected" /\ e.priority = turns[t].priority
    BY <1>0, StoredRow DEF Row
  <2>2. Respects(turns[t], e, now)
    BY <2>1 DEF Respects
  <2>. QED
    BY <1>3, <2>2, ProposeKnows DEF BeginRedirect, DecidingPcs
<1>4. ASSUME NEW t \in Stored(turns), BeginConfirm(w, t)
      PROVE  Knows(turns, lock, now, today, w, req'[w])
  <2>. DEFINE e == [turns[t] EXCEPT !.priority = Confirmed[@]]
  <2>1. turns[t].customer # None
    BY <1>4 DEF BeginConfirm
  <2>2. e.status = turns[t].status
    BY <1>0, StoredRow DEF Row
  <2>3. Respects(turns[t], e, now)
    BY <1>0, <2>1, <2>2 DEF Respects, Booked
  <2>. QED
    BY <1>4, <2>3, ProposeKnows DEF BeginConfirm, DecidingPcs
<1>5. ASSUME NEW t \in Stored(turns),
             \/ BeginComplete(w, t) \/ BeginNoShow(w, t) \/ BeginCancelOwn(w, t)
             \/ BeginCancelGuest(w, t) \/ BeginCancelByEmployee(w, t)
      PROVE  Knows(turns, lock, now, today, w, req'[w])
  <2>1. PICK s \in {"completed", "no_show", "cancelled"}, p \in {"attendedAt", "noShowAt", "cancelledAt"} :
          Propose(w, t, "save", Moved(t, s, p))
    BY <1>5 DEF BeginComplete, BeginNoShow, BeginCancelOwn, BeginCancelGuest, BeginCancelByEmployee
  <2>2. Respects(turns[t], Moved(t, s, p), now)
    BY <1>0, MoveRespects DEF Statuses, TerminalStatuses, Stamps
  <2>. QED
    BY <2>1, <2>2, ProposeKnows DEF DecidingPcs
<1>. QED
  BY <1>1, <1>2, <1>3, <1>4, <1>5 DEF Operate

\* The requests on service windows know nothing of turns.
LEMMA ConfigureKnows ==
  ASSUME IInv, NEW w \in Workers, Configure(w)
  PROVE  Knows(turns, lock, now, today, w, req'[w])
<1>1. PICK v \in Windows : \/ BeginCreateWindow(w, v) \/ BeginToggleWindow(w, v)
                          \/ BeginUpdateWindow(w, v) \/ BeginDeleteWindow(w, v)
  BY DEF Configure
<1>2. PICK st \in Existing, pc \in {"inUse", "siblings", "saveWindow", "deletable"} : ForWindow(w, v, pc, st)
  BY <1>1 DEF BeginCreateWindow, BeginToggleWindow, BeginUpdateWindow, BeginDeleteWindow, Existing
<1>. DEFINE r == [Idle EXCEPT !.pc = pc, !.window = v, !.queue = WindowQueue[v], !.state = st]
<1>3. Knows(turns, lock, now, today, w, r)
  BY DEF Idle, Knows, DraftPcs, DecidingPcs
<1>. QED
  BY <1>2, <1>3, Becomes DEF ForWindow

\* A request that advances without its draft or its decision in question.
LEMMA GotoKnows ==
  ASSUME IInv, PInv, NEW w \in Workers, NEW pc \in Pcs, Goto(w, pc),
         \/ req[w].pc \in DecidingPcs /\ pc \in DecidingPcs
         \/ pc \in {"gate", "findNext"} \cup WindowPcs
  PROVE  Knows(turns, lock, now, today, w, req'[w])
<1>. DEFINE r == [req[w] EXCEPT !.pc = pc]
<1>1. req[w] \in Request /\ Knows(turns, lock, now, today, w, req[w])
  BY DEF IInv, TypeOK, PInv
<1>2. r.pc = pc /\ r.turn = req[w].turn /\ r.entity = req[w].entity
  BY <1>1 DEF Request
<1>3. Knows(turns, lock, now, today, w, r)
  BY <1>1, <1>2 DEF Knows, DraftPcs, DecidingPcs, WindowPcs
<1>. QED
  BY <1>3, Becomes DEF Goto

\* The reads of a request under way: a draft is made again for the moment it
\* passes the check, and the number is counted while the queue is locked.
LEMMA ReadKnows ==
  ASSUME IInv, PInv, NEW w \in Workers,
         \/ CheckExistingTurn(w) \/ CountGuests(w) \/ CheckGate(w) \/ CountIssued(w)
         \/ FindCalledTurn(w) \/ FindNextWaitingTurn(w) \/ QueueEmpty(w)
         \/ CheckNoWindowNeeded(w) \/ CheckTargetWindow(w) \/ CheckOccupant(w) \/ SaveRefused(w)
         \/ CheckWindowInUse(w) \/ CheckSiblings(w)
  PROVE  Knows(turns, lock, now, today, w, req'[w])
<1>0. TypeOK /\ req[w] \in Request /\ GoodRequest(turns, req[w]) /\ Knows(turns, lock, now, today, w, req[w])
  BY DEF IInv, TypeOK, PInv
<1>1. Reply(w) => Knows(turns, lock, now, today, w, req'[w])
  BY IdleKnows, Becomes DEF Reply
<1>2. ASSUME NEW e, Booked(e, now, today), e.queue = req[w].queue,
             Become(w, [req[w] EXCEPT !.pc = "lock", !.entity = e])
      PROVE  Knows(turns, lock, now, today, w, req'[w])
  <2>. DEFINE r == [req[w] EXCEPT !.pc = "lock", !.entity = e]
  <2>1. r.pc = "lock" /\ r.entity = e /\ r.queue = req[w].queue
    BY <1>0 DEF Request
  <2>2. Knows(turns, lock, now, today, w, r)
    BY <1>2, <2>1 DEF Knows, DraftPcs, DecidingPcs
  <2>. QED
    BY <1>2, <2>2, Becomes
<1>3. ASSUME CheckExistingTurn(w)
      PROVE  Knows(turns, lock, now, today, w, req'[w])
  <2>. DEFINE e == NewTurn(req[w].queue, req[w].entity.customer, "app", 0)
  <2>1. req[w].queue \in Queues /\ req[w].entity.customer \in Customers \cup {None}
    BY <1>0, <1>3, RowFields DEF CheckExistingTurn, At, GoodRequest, DraftPcs, IsDraft
  <2>2. Booked(e, now, today) /\ e.queue = req[w].queue
    BY <1>0, <2>1, NewTurnBooked DEF Sources
  <2>. QED
    BY <1>1, <1>2, <1>3, <2>2 DEF CheckExistingTurn
<1>4. ASSUME CheckGate(w)
      PROVE  Knows(turns, lock, now, today, w, req'[w])
  <2>. DEFINE e == NewTurn(req[w].queue, None, "web", 0)
  <2>1. req[w].queue \in Queues
    BY <1>0, <1>4 DEF CheckGate, At, GoodRequest
  <2>2. Booked(e, now, today) /\ e.queue = req[w].queue
    BY <1>0, <2>1, NewTurnBooked DEF Sources
  <2>. QED
    BY <1>1, <1>2, <1>4, <2>2 DEF CheckGate
<1>5. ASSUME CountIssued(w)
      PROVE  Knows(turns, lock, now, today, w, req'[w])
  <2>. DEFINE n == Cardinality(IssuedOn(turns, req[w].queue, req[w].entity.date)) + 1
              r == [req[w] EXCEPT !.pc = "insert", !.entity.number = n]
  <2>1. /\ req[w].entity \in Row /\ Booked(req[w].entity, now, today)
        /\ req[w].entity.queue = req[w].queue /\ lock[req[w].queue] = w
    BY <1>0, <1>5 DEF CountIssued, At, GoodRequest, DraftPcs, IsDraft, Knows
  <2>2. Become(w, r)
    BY <1>5 DEF CountIssued
  <2>. HIDE DEF n
  <2>3. /\ r.pc = "insert" /\ r.queue = req[w].queue /\ r.entity.number = n
        /\ r.entity.date = req[w].entity.date /\ r.entity.joined = req[w].entity.joined
        /\ r.entity.priority = req[w].entity.priority /\ r.entity.customer = req[w].entity.customer
        /\ r.entity.source = req[w].entity.source /\ r.entity.status = req[w].entity.status
        /\ r.entity.queue = req[w].entity.queue
    BY <1>0, <2>1 DEF Request, Row
  <2>4. Booked(r.entity, now, today)
    BY <2>1, <2>3 DEF Booked
  <2>5. r.entity.number = Cardinality(IssuedOn(turns, r.queue, r.entity.date)) + 1
    BY <2>3 DEF n
  <2>. HIDE DEF r
  <2>6. Knows(turns, lock, now, today, w, r)
    BY <2>1, <2>3, <2>4, <2>5 DEF Knows, DraftPcs, DecidingPcs
  <2>. QED
    BY <2>2, <2>6, Becomes
<1>6. ASSUME FindNextWaitingTurn(w)
      PROVE  Knows(turns, lock, now, today, w, req'[w])
  <2>1. PICK t \in NextIn(turns, req[w].queue, now) : Propose(w, t, "save", Moved(t, "called", "calledAt"))
    BY <1>6 DEF FindNextWaitingTurn
  <2>2. t \in Stored(turns) /\ turns[t].joined <= now
    BY DEF NextIn, DueIn, WaitingIn
  <2>3. Respects(turns[t], Moved(t, "called", "calledAt"), now)
    BY <1>0, <2>2, MoveRespects DEF Statuses, ActiveStatuses, Stamps
  <2>. QED
    BY <2>1, <2>2, <2>3, ProposeKnows DEF DecidingPcs
<1>7. ASSUME \/ CountGuests(w) \/ FindCalledTurn(w) \/ CheckNoWindowNeeded(w) \/ CheckTargetWindow(w)
             \/ CheckOccupant(w) \/ CheckWindowInUse(w) \/ CheckSiblings(w)
      PROVE  Knows(turns, lock, now, today, w, req'[w])
  BY <1>1, <1>7, GotoKnows
     DEF CountGuests, FindCalledTurn, CheckNoWindowNeeded, CheckTargetWindow, CheckOccupant,
         CheckWindowInUse, CheckSiblings, At, DecidingPcs, WindowPcs, Pcs
<1>8. QueueEmpty(w) \/ SaveRefused(w) => Knows(turns, lock, now, today, w, req'[w])
  BY <1>1 DEF QueueEmpty, SaveRefused
<1>. QED
  BY <1>3, <1>4, <1>5, <1>6, <1>7, <1>8

-----------------------------------------------------------------------------
(* What a step keeps of the rows and of the others' knowledge.             *)

\* What a stored turn keeps through every step, and what its new status needs.
Lasts(old, new) ==
  /\ RewritesWell(old, new)
  /\ old.customer = None => new.priority = old.priority
  /\ new.status = "called" => old.joined <= now

\* A stored turn stays stored, keeps what it was created with, and is called
\* only when it is due.
LEMMA RowsLast ==
  ASSUME IInv, PInv, [Next]_vars, NEW t \in Stored(turns)
  PROVE  t \in Stored(turns') /\ Lasts(turns[t], turns'[t])
<1>0. TypeOK /\ TurnsStep /\ RewritesWell(turns[t], turns'[t]) /\ Booked(turns[t], now, today)
  BY NextTurns, TableKeepsHistory DEF IInv, PInv
<1>1. t \in TurnIds /\ turns'[t] # None
  BY <1>0, RowFields, StoredRow DEF RewritesWell
<1>2. turns'[t] = turns[t] => Lasts(turns[t], turns'[t])
  BY <1>0 DEF Lasts, Booked
<1>3. ASSUME NEW w \in Workers, Save(w)
      PROVE  Lasts(turns[t], turns'[t])
  <2>. DEFINE e == req[w].entity
  <2>1. Decides(turns, req[w].turn, e) /\ Respects(turns[req[w].turn], e, now)
    BY <1>3 DEF Save, At, IInv, PInv, GoodRequest, Knows, DecidingPcs
  <2>2. CASE req[w].turn = t
    <3>1. turns'[t] = Written(turns[t], e)
      BY <1>0, <1>1, <1>3, <2>2 DEF Save, TypeOK
    <3>2. turns'[t].priority = e.priority /\ turns'[t].status = e.status
      BY <1>0, <2>1, <3>1, StoredRow, WrittenRow DEF Decides
    <3>. QED
      BY <1>0, <2>1, <2>2, <3>2 DEF Lasts, Respects
  <2>3. CASE req[w].turn # t
    BY <1>0, <1>2, <1>3, <2>3 DEF Save, TypeOK
  <2>. QED
    BY <2>2, <2>3
<1>4. ASSUME NEW v \in Windows, Detaches(v)
      PROVE  Lasts(turns[t], turns'[t])
  <2>1. turns'[t].priority = turns[t].priority /\ turns'[t].status = turns[t].status
    BY <1>0, <1>1, <1>4, DetachedRow DEF Detaches, Stored
  <2>. QED
    BY <1>0, <2>1 DEF Lasts, Booked
<1>5. ASSUME NEW w \in Workers, DeleteWindow(w)
      PROVE  Lasts(turns[t], turns'[t])
  <2>1. req[w].window \in Windows
    BY <1>5 DEF DeleteWindow, At, IInv, GoodRequest, WindowPcs
  <2>2. Detaches(req[w].window) \/ turns' = turns
    BY <1>5 DEF DeleteWindow, Detaches
  <2>. QED
    BY <1>2, <1>4, <2>1, <2>2
<1>6. ASSUME NEW w \in Workers, Insert(w)
      PROVE  Lasts(turns[t], turns'[t])
  <2>1. turns'[t] = turns[t]
    BY <1>0, <1>1, <1>6 DEF Insert, TypeOK
  <2>. QED
    BY <1>2, <2>1
<1>7. ASSUME NEW w \in Workers, SaveWindow(w)
      PROVE  turns' = turns
  BY <1>7 DEF SaveWindow
<1>8. Environment \/ UNCHANGED vars => turns' = turns
  BY DEF Environment, SetGate, Tick, NewDay, vars
<1>9. Lasts(turns[t], turns'[t])
  BY <1>2, <1>3, <1>5, <1>6, <1>7, <1>8, OnlySavesTouchTurns DEF Next, Proceed
<1>. QED
  BY <1>1, <1>9 DEF Stored

\* A table that stores the same turns with the same queues and dates has
\* issued the same numbers.
LEMMA SameIssued ==
  ASSUME NEW tt, NEW t2, Stored(t2) = Stored(tt),
         \A t \in Stored(tt) : t2[t].queue = tt[t].queue /\ t2[t].date = tt[t].date
  PROVE  \A q, d : IssuedOn(t2, q, d) = IssuedOn(tt, q, d)
BY DEF IssuedOn

\* The clocks never go back.
LEMMA ClocksAdvance ==
  ASSUME TypeOK, [Next]_vars
  PROVE  /\ now' \in Nat /\ today' \in Nat /\ now <= now' /\ today <= today'
         /\ turns' # turns \/ lock' # lock \/ req' # req => now' = now /\ today' = today
<1>0. now \in Nat /\ today \in Nat /\ now <= now /\ today <= today
  BY DEF TypeOK
<1>1. ASSUME NEW w \in Workers, Insert(w) \/ Save(w) \/ SaveWindow(w) \/ DeleteWindow(w)
      PROVE  UNCHANGED <<now, today>>
  BY <1>1 DEF Insert, Save, SaveWindow, DeleteWindow, clock
<1>2. ASSUME Environment \/ UNCHANGED vars
      PROVE  /\ now' = now \/ now' = now + 1
             /\ today' = today \/ today' = today + 1
             /\ UNCHANGED <<turns, lock, req>>
  BY <1>2 DEF Environment, SetGate, Tick, NewDay, vars, clock
<1>3. UNCHANGED <<now, today>> \/ Environment \/ UNCHANGED vars
  BY <1>1, OnlySavesTouchTurns DEF Next, Proceed
<1>. QED
  BY <1>0, <1>2, <1>3

\* What a request knows stays true while its lock is kept and its queue
\* issues no number.
LEMMA KnowledgeKept ==
  ASSUME IInv, PInv, [Next]_vars,
         NEW u \in Workers, NEW r \in Request, GoodRequest(turns, r),
         Knows(turns, lock, now, today, u, r),
         r.pc \in {"count", "insert"} => lock'[r.queue] = lock[r.queue],
         r.pc = "insert" => \A d \in Nat : IssuedOn(turns', r.queue, d) = IssuedOn(turns, r.queue, d)
  PROVE  Knows(turns', lock', now', today', u, r)
<1>0. /\ TypeOK /\ now \in Nat /\ today \in Nat
      /\ now' \in Nat /\ today' \in Nat /\ now <= now' /\ today <= today'
  BY ClocksAdvance DEF IInv, TypeOK
<1>1. ASSUME r.pc \in DraftPcs
      PROVE  Booked(r.entity, now', today') /\ r.entity.queue = r.queue
  <2>1. r.entity \in Row /\ Booked(r.entity, now, today) /\ r.entity.queue = r.queue
    BY <1>1 DEF GoodRequest, IsDraft, Knows
  <2>2. r.entity.date \in Nat /\ r.entity.joined \in Nat
    BY <2>1, RowFields
  <2>3. r.entity.date <= today
    BY <2>1 DEF Booked
  <2>4. /\ r.entity.date <= today'
        /\ (now' < r.entity.joined => now < r.entity.joined)
        /\ (r.entity.joined <= now => r.entity.joined <= now')
    BY <1>0, <2>2, <2>3
  <2>. QED
    BY <2>1, <2>4 DEF Booked
<1>2. ASSUME r.pc = "insert"
      PROVE  r.entity.number = Cardinality(IssuedOn(turns', r.queue, r.entity.date)) + 1
  <2>1. r.entity \in Row
    BY <1>2 DEF GoodRequest, IsDraft, DraftPcs
  <2>2. IssuedOn(turns', r.queue, r.entity.date) = IssuedOn(turns, r.queue, r.entity.date)
    BY <1>2, <2>1, RowFields
  <2>. QED
    BY <1>2, <2>2 DEF Knows
<1>3. ASSUME r.pc \in DecidingPcs
      PROVE  Respects(turns'[r.turn], r.entity, now')
  <2>1. r.turn \in Stored(turns) /\ Respects(turns[r.turn], r.entity, now)
    BY <1>3 DEF GoodRequest, Decides, Knows
  <2>2. Lasts(turns[r.turn], turns'[r.turn]) /\ turns[r.turn].joined \in Nat
    BY <1>0, <2>1, RowsLast, StoredRow, RowFields
  <2>3. turns[r.turn].joined <= now => turns[r.turn].joined <= now'
    BY <1>0, <2>2
  <2>. QED
    BY <2>1, <2>2, <2>3 DEF Respects, Lasts, RewritesWell
<1>4. r.pc \in {"count", "insert"} => lock'[r.queue] = u
  BY DEF Knows
<1>. QED
  BY <1>1, <1>2, <1>3, <1>4 DEF Knows

\* A stored row keeps its promises.
LEMMA RowsStayBooked ==
  ASSUME IInv, PInv, [Next]_vars, NEW t \in Stored(turns)
  PROVE  Booked(turns'[t], now', today')
<1>0. /\ TypeOK /\ now \in Nat /\ today \in Nat
      /\ now' \in Nat /\ today' \in Nat /\ now <= now' /\ today <= today'
  BY ClocksAdvance DEF IInv, TypeOK
<1>1. Lasts(turns[t], turns'[t]) /\ Booked(turns[t], now, today)
  BY RowsLast DEF PInv
<1>2. turns[t].date \in Nat /\ turns[t].joined \in Nat
  BY <1>0, StoredRow, RowFields
<1>3. turns'[t].date = turns[t].date /\ turns'[t].joined = turns[t].joined
      /\ turns'[t].customer = turns[t].customer /\ turns'[t].source = turns[t].source
  BY <1>1 DEF Lasts, RewritesWell
<1>4. /\ turns[t].date <= today => turns[t].date <= today'
      /\ now' < turns[t].joined => now < turns[t].joined
      /\ turns[t].joined <= now => turns[t].joined <= now'
  BY <1>0, <1>2
<1>5. turns'[t].status = "called" => turns[t].joined <= now'
  BY <1>1, <1>4 DEF Lasts
<1>6. now' < turns'[t].joined => turns'[t].priority = "registered" /\ turns'[t].customer = None
  BY <1>1, <1>3, <1>4 DEF Lasts, Booked
<1>. QED
  BY <1>1, <1>3, <1>4, <1>5, <1>6 DEF Booked

-----------------------------------------------------------------------------
(* The invariant is inductive.                                             *)

\* The empty queue promises nothing.
LEMMA InitPInv == Init => PInv /\ NumbersDense
<1>. SUFFICES ASSUME Init PROVE PInv /\ NumbersDense
  OBVIOUS
<1>1. Stored(turns) = {} /\ \A q, d : IssuedOn(turns, q, d) = {}
  BY DEF Init, Stored, IssuedOn
<1>2. PInv
  BY <1>1, IdleKnows DEF Init, PInv
<1>3. NumbersDense
  BY <1>1, FS_EmptySet DEF NumbersDense
<1>. QED
  BY <1>2, <1>3

\* A step of worker w that leaves the tables of turns and locks alone.
LEMMA QuietStep ==
  ASSUME IInv, PInv, [Next]_vars, NEW w \in Workers, UNCHANGED <<turns, lock>>,
         Knows(turns, lock, now, today, w, req'[w]),
         \A u \in Workers \ {w} : req'[u] = req[u]
  PROVE  PInv'
<1>1. AllGood
  BY NextGood
<1>2. ASSUME NEW u \in Workers
      PROVE  Knows(turns', lock', now', today', u, req'[u])
  <2>1. Knows(turns, lock, now, today, u, req'[u])
    BY DEF PInv
  <2>2. req'[u] \in Request /\ GoodRequest(turns, req'[u])
    BY <1>1 DEF AllGood
  <2>. QED
    BY <2>1, <2>2, KnowledgeKept
<1>3. \A t \in Stored(turns') : Booked(turns'[t], now', today')
  BY RowsStayBooked
<1>. QED
  BY <1>2, <1>3 DEF PInv

\* A step of worker w that answers it, stores no turn and at most gives its
\* lock back.
LEMMA AnswerStep ==
  ASSUME IInv, PInv, [Next]_vars, NEW w \in Workers, Reply(w),
         Stored(turns') = Stored(turns),
         lock' = lock \/ lock' = Unlocked(w)
  PROVE  PInv'
<1>0. TypeOK /\ AllGood /\ req'[w] = Idle /\ \A u \in Workers \ {w} : req'[u] = req[u]
  BY NextGood, Becomes DEF Reply, IInv
<1>1. \A q, d : IssuedOn(turns', q, d) = IssuedOn(turns, q, d)
  BY RowsLast, SameIssued DEF Lasts, RewritesWell
<1>2. ASSUME NEW u \in Workers \ {w}
      PROVE  Knows(turns', lock', now', today', u, req'[u])
  <2>1. Knows(turns, lock, now, today, u, req'[u]) /\ req'[u] \in Request /\ GoodRequest(turns, req'[u])
    BY <1>0 DEF PInv, AllGood
  <2>2. ASSUME req'[u].pc \in {"count", "insert"}
        PROVE  lock'[req'[u].queue] = lock[req'[u].queue]
    <3>1. req'[u].queue \in Queues /\ lock[req'[u].queue] = u
      BY <2>1, <2>2 DEF Knows, GoodRequest, DraftPcs
    <3>. QED
      BY <3>1 DEF Unlocked
  <2>. QED
    BY <1>1, <2>1, <2>2, KnowledgeKept
<1>3. Knows(turns', lock', now', today', w, req'[w])
  BY <1>0, IdleKnows
<1>4. \A t \in Stored(turns') : Booked(turns'[t], now', today')
  BY RowsStayBooked
<1>. QED
  BY <1>2, <1>3, <1>4 DEF PInv

\* Only the holder of a queue's lock inserts into it, so the number it counted
\* is still the next one.
LEMMA InsertStep ==
  ASSUME IInv, PInv, [Next]_vars, NEW w \in Workers, Insert(w),
         NEW t \in TurnIds \ Stored(turns), turns' = [turns EXCEPT ![t] = req[w].entity]
  PROVE  /\ PInv'
         /\ Stored(turns') = Stored(turns) \cup {t} /\ \A u \in Stored(turns) : turns'[u] = turns[u]
         /\ turns'[t] = req[w].entity /\ req[w].entity.queue = req[w].queue
         /\ req[w].queue \in Queues /\ req[w].entity \in Row
         /\ req[w].entity.number = Cardinality(IssuedOn(turns, req[w].queue, req[w].entity.date)) + 1
<1>. DEFINE e == req[w].entity
            q == req[w].queue
<1>0. TypeOK /\ AllGood /\ req'[w] = Idle /\ \A u \in Workers \ {w} : req'[u] = req[u]
  BY NextGood, Becomes DEF Reply, Insert, IInv
<1>1. Knows(turns, lock, now, today, w, req[w]) /\ req[w].pc = "insert" /\ IsDraft(e) /\ q \in Queues
  BY DEF PInv, IInv, Insert, At, GoodRequest, DraftPcs
<1>2. /\ Booked(e, now, today) /\ e.queue = q /\ lock[q] = w /\ e \in Row
      /\ e.number = Cardinality(IssuedOn(turns, q, e.date)) + 1
  BY <1>1 DEF Knows, DraftPcs, IsDraft
<1>3. turns'[t] = e /\ \A u \in TurnIds \ {t} : turns'[u] = turns[u]
  BY <1>0 DEF TypeOK
<1>4. Stored(turns') = Stored(turns) \cup {t} /\ \A u \in Stored(turns) : turns'[u] = turns[u]
  BY <1>2, <1>3, RowFields DEF Stored
<1>5. now' = now /\ today' = today /\ lock' = Unlocked(w)
  BY DEF Insert, clock
<1>6. ASSUME NEW u \in Workers \ {w}
      PROVE  Knows(turns', lock', now', today', u, req'[u])
  <2>1. Knows(turns, lock, now, today, u, req'[u]) /\ req'[u] \in Request /\ GoodRequest(turns, req'[u])
    BY <1>0 DEF PInv, AllGood
  <2>2. ASSUME req'[u].pc \in {"count", "insert"}
        PROVE  /\ lock'[req'[u].queue] = lock[req'[u].queue]
               /\ req'[u].queue # q
    <3>1. req'[u].queue \in Queues /\ lock[req'[u].queue] = u
      BY <2>1, <2>2 DEF Knows, GoodRequest, DraftPcs
    <3>. QED
      BY <1>2, <1>5, <3>1 DEF Unlocked
  <2>3. ASSUME req'[u].pc = "insert", NEW d \in Nat
        PROVE  IssuedOn(turns', req'[u].queue, d) = IssuedOn(turns, req'[u].queue, d)
    BY <1>2, <1>3, <1>4, <2>2, <2>3 DEF IssuedOn
  <2>. QED
    BY <2>1, <2>2, <2>3, KnowledgeKept
<1>7. Knows(turns', lock', now', today', w, req'[w])
  BY <1>0, IdleKnows
<1>8. \A u \in Stored(turns') : Booked(turns'[u], now', today')
  BY <1>2, <1>3, <1>4, <1>5, RowsStayBooked
<1>9. PInv'
  BY <1>6, <1>7, <1>8 DEF PInv
<1>. QED
  BY <1>1, <1>2, <1>3, <1>4, <1>9

\* Nobody holds the lock of the queue that is locked.
LEMMA LockStep ==
  ASSUME IInv, PInv, [Next]_vars, NEW w \in Workers, LockQueue(w)
  PROVE  PInv'
<1>. DEFINE q == req[w].queue
            r == [req[w] EXCEPT !.pc = "count"]
<1>0. TypeOK /\ AllGood /\ req'[w] = r /\ \A u \in Workers \ {w} : req'[u] = req[u]
  BY NextGood, Becomes DEF LockQueue, Goto, IInv
<1>1. /\ req[w].pc = "lock" /\ q \in Queues /\ req[w] \in Request
      /\ Knows(turns, lock, now, today, w, req[w])
  BY <1>0 DEF PInv, IInv, TypeOK, LockQueue, At, GoodRequest, DraftPcs
<1>2. lock[q] = None /\ lock'[q] = w /\ \A p \in Queues \ {q} : lock'[p] = lock[p]
  BY <1>0, <1>1 DEF LockQueue, TypeOK
<1>3. UNCHANGED <<turns, now, today>>
  BY DEF LockQueue, clock
<1>4. ASSUME NEW u \in Workers \ {w}
      PROVE  Knows(turns', lock', now', today', u, req'[u])
  <2>1. Knows(turns, lock, now, today, u, req'[u]) /\ req'[u] \in Request /\ GoodRequest(turns, req'[u])
    BY <1>0 DEF PInv, AllGood
  <2>2. ASSUME req'[u].pc \in {"count", "insert"}
        PROVE  lock'[req'[u].queue] = lock[req'[u].queue]
    <3>1. req'[u].queue \in Queues /\ lock[req'[u].queue] = u /\ u # None
      BY <2>1, <2>2, InstanceAssumption DEF Knows, GoodRequest, DraftPcs
    <3>. QED
      BY <1>2, <3>1
  <2>. QED
    BY <1>3, <2>1, <2>2, KnowledgeKept
<1>5. r.pc = "count" /\ r.entity = req[w].entity /\ r.queue = q
  BY <1>1 DEF Request
<1>6. Knows(turns', lock', now', today', w, req'[w])
  BY <1>0, <1>1, <1>2, <1>3, <1>5 DEF Knows, DraftPcs, DecidingPcs
<1>7. \A t \in Stored(turns') : Booked(turns'[t], now', today')
  BY <1>3, RowsStayBooked
<1>. QED
  BY <1>4, <1>6, <1>7 DEF PInv

\* The clocks, the gates and a stuttering step leave the requests alone.
LEMMA AroundStep ==
  ASSUME IInv, PInv, [Next]_vars, Environment \/ UNCHANGED vars
  PROVE  PInv'
<1>1. UNCHANGED <<turns, lock, req>>
  BY DEF Environment, SetGate, Tick, NewDay, vars
<1>2. ASSUME NEW u \in Workers
      PROVE  Knows(turns', lock', now', today', u, req'[u])
  <2>1. Knows(turns, lock, now, today, u, req[u]) /\ req[u] \in Request /\ GoodRequest(turns, req[u])
    BY DEF PInv, IInv, TypeOK
  <2>. QED
    BY <1>1, <2>1, KnowledgeKept
<1>3. \A t \in Stored(turns') : Booked(turns'[t], now', today')
  BY <1>1, RowsStayBooked
<1>. QED
  BY <1>2, <1>3 DEF PInv

\* Saves and deletions store no turn and lose none.
LEMMA SameStored ==
  ASSUME IInv, [Next]_vars, NEW w \in Workers,
         Save(w) \/ DeleteWindow(w) \/ SaveWindow(w)
  PROVE  Stored(turns') = Stored(turns)
<1>0. TypeOK
  BY DEF IInv
<1>1. ASSUME Save(w)
      PROVE  Stored(turns') = Stored(turns)
  <2>1. /\ req[w].turn \in TurnIds /\ req[w].entity \in Row
        /\ Decides(turns, req[w].turn, req[w].entity)
    BY <1>1 DEF Save, At, IInv, GoodRequest, DecidingPcs, Decides, Stored
  <2>2. Saves(req[w].turn, req[w].entity)
    BY <1>1, <2>1 DEF Save, Saves
  <2>. QED
    BY <2>1, <2>2, AfterSave
<1>2. ASSUME DeleteWindow(w)
      PROVE  Stored(turns') = Stored(turns)
  <2>1. req[w].window \in Windows
    BY <1>2 DEF DeleteWindow, At, IInv, GoodRequest, WindowPcs
  <2>2. turns' = turns \/ turns' = Detached(req[w].window)
    BY <1>2 DEF DeleteWindow
  <2>. QED
    BY <1>0, <2>1, <2>2, DetachedRow DEF Stored
<1>3. SaveWindow(w) => turns' = turns
  BY DEF SaveWindow
<1>. QED
  BY <1>1, <1>2, <1>3

\* Every step of the queue module preserves the invariant.
LEMMA NextPInv == IInv /\ PInv /\ [Next]_vars => PInv'
<1>. SUFFICES ASSUME IInv, PInv, [Next]_vars PROVE PInv'
  OBVIOUS
<1>1. ASSUME NEW w \in Workers,
             \/ Join(w) \/ Operate(w) \/ Configure(w)
             \/ CheckExistingTurn(w) \/ CountGuests(w) \/ CheckGate(w) \/ CountIssued(w)
             \/ FindCalledTurn(w) \/ FindNextWaitingTurn(w) \/ QueueEmpty(w)
             \/ CheckNoWindowNeeded(w) \/ CheckTargetWindow(w) \/ CheckOccupant(w) \/ SaveRefused(w)
             \/ CheckWindowInUse(w) \/ CheckSiblings(w)
      PROVE  PInv'
  <2>1. Knows(turns, lock, now, today, w, req'[w])
    BY <1>1, JoinKnows, OperateKnows, ConfigureKnows, ReadKnows
  <2>2. (\E r : Become(w, r)) /\ UNCHANGED <<turns, lock>>
    BY <1>1 DEF Join, BeginAppTurn, BeginGuestTurn, BeginManualTurn, Operate, BeginCallNext, BeginAttend,
       BeginRedirect, BeginComplete, BeginNoShow, BeginCancelOwn, BeginCancelGuest,
       BeginCancelByEmployee, BeginConfirm, Configure, BeginCreateWindow, BeginToggleWindow,
       BeginUpdateWindow, BeginDeleteWindow, ForWindow, Propose,
       CheckExistingTurn, CountGuests, CheckGate, CountIssued, FindCalledTurn,
       FindNextWaitingTurn, QueueEmpty, CheckNoWindowNeeded, CheckTargetWindow, CheckOccupant,
       SaveRefused, CheckWindowInUse, CheckSiblings, data, Reply, Goto
  <2>3. \A u \in Workers \ {w} : req'[u] = req[u]
    BY <2>2, Becomes
  <2>. QED
    BY <2>1, <2>2, <2>3, QuietStep
<1>2. ASSUME NEW w \in Workers,
             \/ InsertRefused(w) \/ Abort(w) \/ Save(w) \/ SaveWindow(w) \/ DeleteWindow(w)
      PROVE  PInv'
  <2>1. Reply(w) /\ (lock' = lock \/ lock' = Unlocked(w))
    BY <1>2 DEF InsertRefused, Abort, Save, SaveWindow, DeleteWindow
  <2>2. Stored(turns') = Stored(turns)
    BY <1>2, SameStored DEF InsertRefused, Abort
  <2>. QED
    BY <2>1, <2>2, AnswerStep
<1>3. ASSUME NEW w \in Workers, Insert(w)
      PROVE  PInv'
  <2>1. PICK t \in TurnIds \ Stored(turns) : turns' = [turns EXCEPT ![t] = req[w].entity]
    BY <1>3 DEF Insert
  <2>. QED
    BY <1>3, <2>1, InsertStep
<1>. QED
  BY <1>1, <1>2, <1>3, LockStep, AroundStep DEF Next, Proceed

\* Every step keeps the numbers of a day dense.
LEMMA NextNumbers == IInv /\ PInv /\ NumbersDense /\ [Next]_vars => NumbersDense'
<1>. SUFFICES ASSUME IInv, PInv, NumbersDense, [Next]_vars,
                     NEW q \in Queues, NEW d \in 0 .. today'
              PROVE  {turns'[t].number : t \in IssuedOn(turns', q, d)}
                       = 1 .. Cardinality(IssuedOn(turns', q, d))
  BY DEF NumbersDense
<1>. DEFINE old == IssuedOn(turns, q, d)
            new == IssuedOn(turns', q, d)
<1>0. TypeOK /\ today \in Nat /\ today' \in Nat
  BY ClocksAdvance DEF IInv, TypeOK
<1>1. IsFiniteSet(old) /\ Cardinality(old) \in Nat
  BY TurnIdsFinite, FS_Subset, FS_CardinalityType DEF IssuedOn, Stored
<1>2. {turns[t].number : t \in old} = 1 .. Cardinality(old)
  <2>1. CASE d \in 0 .. today
    BY <2>1 DEF NumbersDense
  <2>2. CASE d \notin 0 .. today
    <3>1. \A t \in Stored(turns) : turns[t].date \in 0 .. today
      BY <1>0, StoredRow, RowFields DEF PInv, Booked
    <3>2. old = {}
      BY <2>2, <3>1 DEF IssuedOn
    <3>. QED
      BY <3>2, FS_EmptySet
  <2>. QED
    BY <2>1, <2>2
<1>3. ASSUME Stored(turns') = Stored(turns)
      PROVE  new = old /\ {turns'[t].number : t \in new} = {turns[t].number : t \in old}
  <2>1. \A t \in Stored(turns) : /\ turns'[t].queue = turns[t].queue /\ turns'[t].date = turns[t].date
                                 /\ turns'[t].number = turns[t].number
    BY RowsLast DEF Lasts, RewritesWell
  <2>2. new = old
    BY <1>3, <2>1, SameIssued
  <2>3. \A t \in old : turns'[t].number = turns[t].number
    BY <2>1 DEF IssuedOn
  <2>. QED
    BY <2>2, <2>3
<1>4. ASSUME NEW w \in Workers, Insert(w)
      PROVE  {turns'[t].number : t \in new} = 1 .. Cardinality(new)
  <2>1. PICK t \in TurnIds \ Stored(turns) : turns' = [turns EXCEPT ![t] = req[w].entity]
    BY <1>4 DEF Insert
  <2>. DEFINE e == req[w].entity
  <2>2. /\ Stored(turns') = Stored(turns) \cup {t} /\ \A u \in Stored(turns) : turns'[u] = turns[u]
        /\ turns'[t] = e
        /\ e.number = Cardinality(IssuedOn(turns, e.queue, e.date)) + 1
    BY <1>4, <2>1, InsertStep
  <2>3. t \notin old /\ \A u \in old : turns'[u] = turns[u]
    BY <2>2 DEF IssuedOn
  <2>4. CASE e.queue = q /\ e.date = d
    <3>1. new = old \cup {t}
      BY <2>2, <2>4 DEF IssuedOn
    <3>2. Cardinality(new) = Cardinality(old) + 1
      BY <1>1, <2>3, <3>1, FS_AddElement
    <3>3. {turns'[u].number : u \in new} = {turns[u].number : u \in old} \cup {e.number}
      BY <2>2, <2>3, <3>1
    <3>4. e.number = Cardinality(old) + 1
      BY <2>2, <2>4
    <3>. HIDE DEF old, new, e
    <3>5. 1 .. (Cardinality(old) + 1) = (1 .. Cardinality(old)) \cup {Cardinality(old) + 1}
      BY <1>1
    <3>. QED
      BY <1>2, <3>2, <3>3, <3>4, <3>5
  <2>5. CASE ~(e.queue = q /\ e.date = d)
    <3>1. new = old
      BY <2>2, <2>5 DEF IssuedOn
    <3>. QED
      BY <1>2, <2>3, <3>1
  <2>. QED
    BY <2>4, <2>5
<1>5. ASSUME NEW w \in Workers, Save(w) \/ DeleteWindow(w) \/ SaveWindow(w)
      PROVE  Stored(turns') = Stored(turns)
  BY <1>5, SameStored
<1>6. Environment \/ UNCHANGED vars => turns' = turns
  BY DEF Environment, SetGate, Tick, NewDay, vars
<1>7. Stored(turns') = Stored(turns) \/ \E w \in Workers : Insert(w)
  BY <1>5, <1>6, OnlySavesTouchTurns DEF Next, Proceed
<1>. QED
  BY <1>2, <1>3, <1>4, <1>7

\* The places a queue gave out and what the requests know of them: the
\* invariant behind the numbers, the calls and the positions.
THEOREM PlacesInductive == Spec => [](IInv /\ PInv)
<1>1. Init => PInv
  BY InitPInv
<1>. QED
  BY <1>1, Inductive, NextPInv, PTL DEF Spec

\* The numbers a queue gives out in a day are 1, 2, ..., n, however many
\* creations count and insert at once (createWithNextNumber: the row lock makes
\* the count of its holder the last one).
THEOREM NumbersAreDense == Spec => []NumbersDense
<1>1. Init => NumbersDense
  BY InitPInv
<1>. QED
  BY <1>1, PlacesInductive, NextNumbers, PTL DEF Spec

\* Nobody is called before the time they said they would arrive, although the
\* call is saved some awaits after the waiting turns were read.
THEOREM NobodyCalledEarly == Spec => NoEarlyCall
<1>1. IInv /\ PInv /\ [Next]_vars =>
        [\A t \in Stored(turns) :
           turns[t].status = "waiting" /\ turns'[t].status = "called" => turns[t].joined <= now]_vars
  BY RowsLast DEF Lasts
<1>. QED
  BY <1>1, PlacesInductive, PTL DEF Spec, NoEarlyCall

-----------------------------------------------------------------------------
(* Who is next.                                                            *)

\* Nobody is ahead of a turn exactly when no waiting turn is before it.
LEMMA NobodyAhead ==
  ASSUME TypeOK, NEW t \in Stored(turns)
  PROVE  WaitingAhead(turns, t) = 0 <=>
           \A u \in WaitingIn(turns, turns[t].queue) : ~Before(turns[u], turns[t])
<1>. DEFINE mine   == turns[t]
            higher == {u \in WaitingIn(turns, mine.queue) :
                         RankOf[turns[u].priority] < RankOf[mine.priority]}
            same   == {u \in WaitingIn(turns, mine.queue) :
                         /\ turns[u].priority = mine.priority
                         /\ \/ turns[u].joined < mine.joined
                            \/ turns[u].joined = mine.joined /\ turns[u].number < mine.number}
<1>1. WaitingAhead(turns, t) = Cardinality(higher) + Cardinality(same)
  BY DEF WaitingAhead
<1>2. higher \subseteq TurnIds /\ same \subseteq TurnIds
  BY DEF WaitingIn, Stored
<1>3. /\ IsFiniteSet(higher) /\ Cardinality(higher) \in Nat
      /\ IsFiniteSet(same) /\ Cardinality(same) \in Nat
  BY <1>2, TurnIdsFinite, FS_Subset, FS_CardinalityType
<1>4. (Cardinality(higher) = 0 <=> higher = {}) /\ (Cardinality(same) = 0 <=> same = {})
  BY <1>3, FS_EmptySet
<1>5. mine.priority \in Priorities
      /\ \A u \in WaitingIn(turns, mine.queue) : turns[u].priority \in Priorities
  BY StoredRow, RowFields DEF WaitingIn
<1>6. \A p, r \in Priorities : RankOf[p] = RankOf[r] <=> p = r
  BY DEF RankOf, Priorities
<1>7. (higher = {} /\ same = {}) <=>
        \A u \in WaitingIn(turns, mine.queue) : ~Before(turns[u], mine)
  BY <1>5, <1>6 DEF Before
<1>. HIDE DEF higher, same
<1>. QED
  BY <1>1, <1>3, <1>4, <1>7

\* A waiting turn that is not due is before no turn that is.
LEMMA NotDueNotBefore ==
  ASSUME TypeOK, PInv, NEW t \in Stored(turns), NEW u \in Stored(turns),
         turns[t].joined <= now, now < turns[u].joined
  PROVE  ~Before(turns[u], turns[t])
<1>1. turns[u].priority = "registered"
  BY DEF PInv, Booked
<1>2. /\ turns[t].priority \in Priorities
      /\ turns[t].joined \in Nat /\ turns[u].joined \in Nat /\ now \in Nat
  BY StoredRow, RowFields DEF TypeOK
<1>3. ~(RankOf[turns[u].priority] < RankOf[turns[t].priority])
  BY <1>1, <1>2 DEF RankOf, Priorities
<1>4. turns[t].joined < turns[u].joined
  BY <1>2
<1>. QED
  BY <1>2, <1>3, <1>4 DEF Before

\* The customer who is told "nobody is ahead of you" is one call-next may
\* pick, and the reverse: countWaitingAhead and findNextWaitingTurn agree on
\* every turn that is due, because a reservation that is not due never ranks
\* before one that is.
THEOREM PositionIsOrder == Spec => []PositionIsCallOrder
<1>1. ASSUME IInv, PInv
      PROVE  PositionIsCallOrder
  <2>. SUFFICES ASSUME NEW q \in Queues, NEW t \in DueIn(turns, q, now)
                PROVE  WaitingAhead(turns, t) = 0 <=> t \in NextIn(turns, q, now)
    BY DEF PositionIsCallOrder
  <2>1. TypeOK /\ t \in Stored(turns) /\ turns[t].queue = q /\ turns[t].joined <= now
    BY <1>1 DEF IInv, DueIn, WaitingIn
  <2>2. ASSUME NEW u \in WaitingIn(turns, q), u \notin DueIn(turns, q, now)
        PROVE  ~Before(turns[u], turns[t])
    <3>1. u \in Stored(turns) /\ ~(turns[u].joined <= now)
      BY <2>2 DEF DueIn, WaitingIn
    <3>2. turns[u].joined \in Nat /\ now \in Nat
      BY <2>1, <3>1, StoredRow, RowFields DEF TypeOK
    <3>. QED
      BY <1>1, <2>1, <3>1, <3>2, NotDueNotBefore
  <2>3. t \in NextIn(turns, q, now) <=> \A u \in WaitingIn(turns, q) : ~Before(turns[u], turns[t])
    BY <2>2 DEF NextIn, DueIn
  <2>. QED
    BY <2>1, <2>3, NobodyAhead
<1>. QED
  BY <1>1, PlacesInductive, PTL

-----------------------------------------------------------------------------
(* The cap on guests.                                                      *)

\* The web guests of a queue and the requests let in are finitely many.
LEMMA GuestsFinite ==
  ASSUME NEW tt, NEW rr, NEW q
  PROVE  /\ IsFiniteSet(WebGuests(tt, q)) /\ Cardinality(WebGuests(tt, q)) \in Nat
         /\ IsFiniteSet(LetIn(rr, q)) /\ Cardinality(LetIn(rr, q)) \in Nat
         /\ Cardinality(LetIn(rr, q)) <= Cardinality(Workers)
         /\ Cardinality(Workers) \in Nat
<1>1. WebGuests(tt, q) \subseteq TurnIds /\ LetIn(rr, q) \subseteq Workers
  BY DEF WebGuests, ActiveIn, Stored, LetIn
<1>. QED
  BY <1>1, TurnIdsFinite, WorkersAssumption, FS_Subset, FS_CardinalityType

\* What a step of the module does to the guests of a queue: nothing, or fewer;
\* one more let in, below the cap; or one let in whose turn is inserted.
Shrinks(q) ==
  WebGuests(turns', q) \subseteq WebGuests(turns, q) /\ LetIn(req', q) \subseteq LetIn(req, q)

LetsIn(q) ==
  WebGuests(turns', q) = WebGuests(turns, q) /\ Cardinality(WebGuests(turns, q)) < MaxGuests

Enters(q) ==
  \E w \in Workers, t \in TurnIds :
    /\ WebGuests(turns', q) \subseteq WebGuests(turns, q) \cup {t}
    /\ w \in LetIn(req, q) /\ LetIn(req', q) \subseteq LetIn(req, q) \ {w}

\* The three of them keep the account.
LEMMA AccountKept ==
  ASSUME NEW q \in Queues, Shrinks(q) \/ LetsIn(q) \/ Enters(q),
         Cardinality(WebGuests(turns, q)) + Cardinality(LetIn(req, q))
           <= MaxGuests + Cardinality(Workers) - 1
  PROVE  Cardinality(WebGuests(turns', q)) + Cardinality(LetIn(req', q))
           <= MaxGuests + Cardinality(Workers) - 1
<1>. DEFINE g  == WebGuests(turns, q)
            g2 == WebGuests(turns', q)
            l  == LetIn(req, q)
            l2 == LetIn(req', q)
            W  == Cardinality(Workers)
<1>1. /\ IsFiniteSet(g) /\ IsFiniteSet(l) /\ IsFiniteSet(g2) /\ IsFiniteSet(l2)
      /\ Cardinality(g) \in Nat /\ Cardinality(l) \in Nat
      /\ Cardinality(g2) \in Nat /\ Cardinality(l2) \in Nat
      /\ W \in Nat /\ MaxGuests \in Nat /\ Cardinality(l2) <= W
  BY GuestsFinite, InstanceAssumption
<1>2. Cardinality(g) + Cardinality(l) <= MaxGuests + W - 1
  OBVIOUS
<1>3. ASSUME Shrinks(q)
      PROVE  Cardinality(g2) + Cardinality(l2) <= MaxGuests + W - 1
  <2>1. Cardinality(g2) <= Cardinality(g) /\ Cardinality(l2) <= Cardinality(l)
    BY <1>1, <1>3, FS_Subset DEF Shrinks
  <2>. HIDE DEF g, g2, l, l2, W
  <2>. QED
    BY <1>1, <1>2, <2>1
<1>4. ASSUME LetsIn(q)
      PROVE  Cardinality(g2) + Cardinality(l2) <= MaxGuests + W - 1
  <2>1. Cardinality(g2) < MaxGuests
    BY <1>4 DEF LetsIn
  <2>. HIDE DEF g, g2, l, l2, W
  <2>. QED
    BY <1>1, <2>1
<1>5. ASSUME Enters(q)
      PROVE  Cardinality(g2) + Cardinality(l2) <= MaxGuests + W - 1
  <2>1. PICK w \in Workers, t \in TurnIds : g2 \subseteq g \cup {t} /\ w \in l /\ l2 \subseteq l \ {w}
    BY <1>5 DEF Enters
  <2>. HIDE DEF g, g2, l, l2, W
  <2>2. IsFiniteSet(g \cup {t}) /\ Cardinality(g \cup {t}) <= Cardinality(g) + 1
    <3>1. /\ IsFiniteSet(g \cup {t})
          /\ \/ Cardinality(g \cup {t}) = Cardinality(g)
             \/ Cardinality(g \cup {t}) = Cardinality(g) + 1
      BY <1>1, FS_AddElement
    <3>. QED
      BY <1>1, <3>1
  <2>3. IsFiniteSet(l \ {w}) /\ Cardinality(l \ {w}) = Cardinality(l) - 1
    BY <1>1, <2>1, FS_RemoveElement
  <2>4. Cardinality(g2) <= Cardinality(g \cup {t}) /\ Cardinality(l2) <= Cardinality(l \ {w})
    BY <2>1, <2>2, <2>3, FS_Subset
  <2>5. Cardinality(g \cup {t}) \in Nat /\ Cardinality(l \ {w}) \in Nat
    BY <2>2, <2>3, FS_CardinalityType
  <2>. QED
    BY <1>1, <1>2, <2>2, <2>3, <2>4, <2>5
<1>. QED
  BY <1>3, <1>4, <1>5

\* A turn the guests count is a turn they counted before, unless it is new.
LEMMA GuestsReopenNot ==
  ASSUME IInv, PInv, [Next]_vars, NEW q, NEW t \in WebGuests(turns', q), t \in Stored(turns)
  PROVE  t \in WebGuests(turns, q)
<1>1. TypeOK /\ RewritesWell(turns[t], turns'[t]) /\ turns[t] \in Row
  BY RowsLast, StoredRow DEF Lasts, IInv
<1>2. turns'[t].queue = q /\ turns'[t].status \in ActiveStatuses /\ turns'[t].source = "web"
  BY DEF WebGuests, ActiveIn
<1>3. turns[t].status \in ActiveStatuses
  BY <1>1, <1>2, RowFields DEF RewritesWell, Statuses, ActiveStatuses, TerminalStatuses
<1>. QED
  BY <1>1, <1>2, <1>3 DEF WebGuests, ActiveIn, RewritesWell

\* The request a step moves is let in only by the gate and the guest count.
LEMMA MoverNotLetIn ==
  ASSUME IInv, NEW w \in Workers, NEW r, Become(w, r), NEW q,
         \/ r.pc \notin {"gate", "lock", "count", "insert"}
         \/ r.pc \in {"lock", "count", "insert"} /\ r.entity.source # "web"
         \/ w \in LetIn(req, q)
         \/ r.queue # q
  PROVE  LetIn(req', q) \subseteq LetIn(req, q)
<1>1. req'[w] = r /\ \A u \in Workers \ {w} : req'[u] = req[u]
  BY Becomes
<1>. QED
  BY <1>1 DEF LetIn

\* The requests that begin are let in by none of their first steps.
LEMMA BeginsOutside ==
  ASSUME IInv, NEW w \in Workers, NEW q, Join(w) \/ Operate(w) \/ Configure(w)
  PROVE  LetIn(req', q) \subseteq LetIn(req, q)
<1>0. TypeOK
  BY DEF IInv
<1>1. ASSUME NEW p \in Queues, NEW c \in Customers, BeginAppTurn(w, p, c)
      PROVE  LetIn(req', q) \subseteq LetIn(req, q)
  <2>. DEFINE r == [Idle EXCEPT !.pc = "existing", !.queue = p, !.entity = NewTurn(p, c, "app", 0)]
  <2>1. r.pc = "existing"
    BY DEF Idle
  <2>2. Become(w, r)
    BY <1>1 DEF BeginAppTurn
  <2>. HIDE DEF r
  <2>. QED
    BY <2>1, <2>2, MoverNotLetIn
<1>2. ASSUME NEW p \in Queues, BeginGuestTurn(w, p)
      PROVE  LetIn(req', q) \subseteq LetIn(req, q)
  <2>. DEFINE r == [Idle EXCEPT !.pc = "countGuests", !.queue = p]
  <2>1. r.pc = "countGuests"
    BY DEF Idle
  <2>2. Become(w, r)
    BY <1>2 DEF BeginGuestTurn
  <2>. HIDE DEF r
  <2>. QED
    BY <2>1, <2>2, MoverNotLetIn
<1>3. ASSUME NEW p \in Queues, NEW src \in {"manual", "phone"}, NEW eta \in Etas \cup {0},
             BeginManualTurn(w, p, src, eta)
      PROVE  LetIn(req', q) \subseteq LetIn(req, q)
  <2>. DEFINE r == [Idle EXCEPT !.pc = "lock", !.queue = p, !.entity = NewTurn(p, None, src, eta)]
  <2>1. r.pc = "lock" /\ r.entity.source = src
    BY DEF Idle, NewTurn
  <2>2. Become(w, r)
    BY <1>3 DEF BeginManualTurn
  <2>. HIDE DEF r
  <2>. QED
    BY <2>1, <2>2, MoverNotLetIn
<1>4. ASSUME NEW p \in Queues, BeginCallNext(w, p)
      PROVE  LetIn(req', q) \subseteq LetIn(req, q)
  <2>. DEFINE r == [Idle EXCEPT !.pc = "findCalled", !.queue = p]
  <2>1. r.pc = "findCalled"
    BY DEF Idle
  <2>2. Become(w, r)
    BY <1>4 DEF BeginCallNext
  <2>. HIDE DEF r
  <2>. QED
    BY <2>1, <2>2, MoverNotLetIn
<1>5. ASSUME NEW t, NEW pc \in DecidingPcs, NEW e, Propose(w, t, pc, e)
      PROVE  LetIn(req', q) \subseteq LetIn(req, q)
  <2>. DEFINE r == [Idle EXCEPT !.pc = pc, !.turn = t, !.entity = e, !.queue = turns[t].queue]
  <2>1. r.pc = pc
    BY DEF Idle
  <2>2. Become(w, r)
    BY <1>5 DEF Propose
  <2>. HIDE DEF r
  <2>. QED
    BY <2>1, <2>2, MoverNotLetIn DEF DecidingPcs
<1>6. ASSUME NEW v, NEW st, NEW pc \in WindowPcs, ForWindow(w, v, pc, st)
      PROVE  LetIn(req', q) \subseteq LetIn(req, q)
  <2>. DEFINE r == [Idle EXCEPT !.pc = pc, !.window = v, !.queue = WindowQueue[v], !.state = st]
  <2>1. r.pc = pc
    BY DEF Idle
  <2>2. Become(w, r)
    BY <1>6 DEF ForWindow
  <2>. HIDE DEF r
  <2>. QED
    BY <2>1, <2>2, MoverNotLetIn DEF WindowPcs
<1>7. Join(w) => LetIn(req', q) \subseteq LetIn(req, q)
  BY <1>1, <1>2, <1>3 DEF Join
<1>8. ASSUME NEW t \in Stored(turns),
             \/ \E v \in Windows \cup {None} : BeginAttend(w, t, v)
             \/ \E v \in Windows : BeginRedirect(w, t, v)
             \/ BeginComplete(w, t) \/ BeginNoShow(w, t) \/ BeginCancelOwn(w, t)
             \/ BeginCancelGuest(w, t) \/ BeginCancelByEmployee(w, t) \/ BeginConfirm(w, t)
      PROVE  LetIn(req', q) \subseteq LetIn(req, q)
  <2>1. \E pc \in DecidingPcs : \E e : Propose(w, t, pc, e)
    BY <1>8 DEF BeginAttend, BeginRedirect, BeginComplete, BeginNoShow, BeginCancelOwn,
                BeginCancelGuest, BeginCancelByEmployee, BeginConfirm, DecidingPcs
  <2>. QED
    BY <1>5, <2>1
<1>9. Operate(w) => LetIn(req', q) \subseteq LetIn(req, q)
  BY <1>4, <1>8 DEF Operate
<1>10. ASSUME NEW v \in Windows,
              \/ BeginCreateWindow(w, v) \/ BeginToggleWindow(w, v)
              \/ BeginUpdateWindow(w, v) \/ BeginDeleteWindow(w, v)
       PROVE  LetIn(req', q) \subseteq LetIn(req, q)
  <2>1. \E pc \in WindowPcs : \E st : ForWindow(w, v, pc, st)
    BY <1>10 DEF BeginCreateWindow, BeginToggleWindow, BeginUpdateWindow, BeginDeleteWindow, WindowPcs
  <2>. QED
    BY <1>6, <2>1
<1>11. Configure(w) => LetIn(req', q) \subseteq LetIn(req, q)
  BY <1>10 DEF Configure
<1>. QED
  BY <1>7, <1>9, <1>11

\* A request under way is let in by its guest count and by nothing else.
LEMMA ProceedsInside ==
  ASSUME IInv, NEW w \in Workers, NEW q, LockQueue(w) \/ Proceed(w) \/ Abort(w)
  PROVE  \/ LetIn(req', q) \subseteq LetIn(req, q)
         \/ CountGuests(w) /\ req[w].queue = q
            /\ Cardinality(AccountlessIn(turns, q)) < MaxGuests
<1>0. TypeOK /\ req[w] \in Request /\ MaxGuests \in Nat
      /\ Cardinality(AccountlessIn(turns, req[w].queue)) \in Nat
  <2>1. AccountlessIn(turns, req[w].queue) \subseteq TurnIds
    BY DEF AccountlessIn, ActiveIn, Stored
  <2>. QED
    BY <2>1, TurnIdsFinite, FS_Subset, FS_CardinalityType, InstanceAssumption DEF IInv, TypeOK
<1>1. Reply(w) => LetIn(req', q) \subseteq LetIn(req, q)
  <2>1. Idle.pc = "idle"
    BY DEF Idle
  <2>. QED
    BY <2>1, MoverNotLetIn DEF Reply
<1>2. ASSUME NEW pc \in Pcs \ {"gate", "lock", "count", "insert"}, Goto(w, pc)
      PROVE  LetIn(req', q) \subseteq LetIn(req, q)
  <2>. DEFINE r == [req[w] EXCEPT !.pc = pc]
  <2>1. r.pc = pc
    BY <1>0 DEF Request
  <2>2. Become(w, r)
    BY <1>2 DEF Goto
  <2>. HIDE DEF r
  <2>. QED
    BY <2>1, <2>2, MoverNotLetIn
<1>3. ASSUME LockQueue(w)
      PROVE  LetIn(req', q) \subseteq LetIn(req, q)
  <2>. DEFINE r == [req[w] EXCEPT !.pc = "count"]
  <2>1. r.pc = "count" /\ r.queue = req[w].queue /\ r.entity = req[w].entity /\ req[w].pc = "lock"
    BY <1>0, <1>3 DEF Request, LockQueue, At
  <2>2. Become(w, r)
    BY <1>3 DEF LockQueue, Goto
  <2>. HIDE DEF r
  <2>. QED
    BY <2>1, <2>2, MoverNotLetIn DEF LetIn
<1>4. ASSUME CountIssued(w)
      PROVE  LetIn(req', q) \subseteq LetIn(req, q)
  <2>. DEFINE n == Cardinality(IssuedOn(turns, req[w].queue, req[w].entity.date)) + 1
              r == [req[w] EXCEPT !.pc = "insert", !.entity.number = n]
  <2>1. req[w].pc = "count" /\ req[w].entity \in Row
    BY <1>4 DEF CountIssued, At, IInv, GoodRequest, DraftPcs, IsDraft
  <2>2. Become(w, r)
    BY <1>4 DEF CountIssued
  <2>. HIDE DEF n
  <2>3. r.pc = "insert" /\ r.queue = req[w].queue /\ r.entity.source = req[w].entity.source
    BY <1>0, <2>1 DEF Request, Row
  <2>. HIDE DEF r
  <2>. QED
    BY <2>1, <2>2, <2>3, MoverNotLetIn DEF LetIn
<1>5. ASSUME CheckExistingTurn(w)
      PROVE  LetIn(req', q) \subseteq LetIn(req, q)
  <2>. DEFINE e == NewTurn(req[w].queue, req[w].entity.customer, "app", 0)
              r == [req[w] EXCEPT !.pc = "lock", !.entity = e]
  <2>1. e.source = "app"
    BY DEF NewTurn
  <2>. HIDE DEF e
  <2>2. r.pc = "lock" /\ r.entity.source = "app"
    BY <1>0, <2>1 DEF Request
  <2>3. Become(w, r) \/ Reply(w)
    BY <1>5 DEF CheckExistingTurn, e
  <2>. HIDE DEF r
  <2>. QED
    BY <1>1, <2>2, <2>3, MoverNotLetIn
<1>6. ASSUME CheckGate(w)
      PROVE  LetIn(req', q) \subseteq LetIn(req, q)
  <2>. DEFINE e == NewTurn(req[w].queue, None, "web", 0)
              r == [req[w] EXCEPT !.pc = "lock", !.entity = e]
  <2>. HIDE DEF e
  <2>1. r.pc = "lock" /\ r.queue = req[w].queue /\ req[w].pc = "gate"
    BY <1>0, <1>6 DEF Request, CheckGate, At
  <2>2. Become(w, r) \/ Reply(w)
    BY <1>6 DEF CheckGate, e
  <2>. HIDE DEF r
  <2>. QED
    BY <1>1, <2>1, <2>2, MoverNotLetIn DEF LetIn
<1>7. ASSUME CountGuests(w)
      PROVE  \/ LetIn(req', q) \subseteq LetIn(req, q)
             \/ CountGuests(w) /\ req[w].queue = q
                /\ Cardinality(AccountlessIn(turns, q)) < MaxGuests
  <2>. DEFINE r == [req[w] EXCEPT !.pc = "gate"]
  <2>1. r.queue = req[w].queue
    BY <1>0 DEF Request
  <2>2. \/ Reply(w)
        \/ Become(w, r) /\ ~(Cardinality(AccountlessIn(turns, req[w].queue)) >= MaxGuests)
    BY <1>7 DEF CountGuests, Goto
  <2>. HIDE DEF r
  <2>3. req[w].queue # q /\ Become(w, r) => LetIn(req', q) \subseteq LetIn(req, q)
    BY <2>1, MoverNotLetIn
  <2>4. ~(Cardinality(AccountlessIn(turns, req[w].queue)) >= MaxGuests)
          => Cardinality(AccountlessIn(turns, req[w].queue)) < MaxGuests
    BY <1>0
  <2>. QED
    BY <1>1, <1>7, <2>2, <2>3, <2>4
<1>8. ASSUME \/ FindCalledTurn(w) \/ CheckNoWindowNeeded(w) \/ CheckTargetWindow(w) \/ CheckOccupant(w)
             \/ CheckWindowInUse(w) \/ CheckSiblings(w)
             \/ QueueEmpty(w) \/ SaveRefused(w) \/ Insert(w) \/ InsertRefused(w) \/ Save(w)
             \/ SaveWindow(w) \/ DeleteWindow(w) \/ Abort(w)
      PROVE  LetIn(req', q) \subseteq LetIn(req, q)
  BY <1>1, <1>2, <1>8
     DEF FindCalledTurn, CheckNoWindowNeeded, CheckTargetWindow, CheckOccupant, CheckWindowInUse,
         CheckSiblings, QueueEmpty, SaveRefused, Insert, InsertRefused, Save, SaveWindow,
         DeleteWindow, Abort, Pcs
<1>9. ASSUME FindNextWaitingTurn(w)
      PROVE  LetIn(req', q) \subseteq LetIn(req, q)
  <2>1. PICK t : Propose(w, t, "save", Moved(t, "called", "calledAt"))
    BY <1>9 DEF FindNextWaitingTurn
  <2>. DEFINE r == [Idle EXCEPT !.pc = "save", !.turn = t, !.entity = Moved(t, "called", "calledAt"),
                                !.queue = turns[t].queue]
  <2>2. r.pc = "save"
    BY DEF Idle
  <2>3. Become(w, r)
    BY <2>1 DEF Propose
  <2>. HIDE DEF r
  <2>. QED
    BY <2>2, <2>3, MoverNotLetIn
<1>. QED
  BY <1>3, <1>4, <1>5, <1>6, <1>7, <1>8, <1>9 DEF Proceed

\* Every step does one of the three things to the guests of a queue.
LEMMA GuestsStep ==
  ASSUME IInv, PInv, [Next]_vars, NEW q \in Queues
  PROVE  Shrinks(q) \/ LetsIn(q) \/ Enters(q)
<1>1. Stored(turns') = Stored(turns) => WebGuests(turns', q) \subseteq WebGuests(turns, q)
  <2>1. \A t \in WebGuests(turns', q) : t \in Stored(turns')
    BY DEF WebGuests, ActiveIn
  <2>. QED
    BY <2>1, GuestsReopenNot
<1>2. ASSUME NEW w \in Workers, Insert(w)
      PROVE  Shrinks(q) \/ Enters(q)
  <2>. DEFINE e == req[w].entity
  <2>1. PICK t \in TurnIds \ Stored(turns) : turns' = [turns EXCEPT ![t] = e]
    BY <1>2 DEF Insert
  <2>2. /\ Stored(turns') = Stored(turns) \cup {t}
        /\ turns'[t] = e /\ e.queue = req[w].queue
    BY <1>2, <2>1, InsertStep
  <2>3. WebGuests(turns', q) \subseteq WebGuests(turns, q) \cup {t}
    BY <2>2, GuestsReopenNot DEF WebGuests, ActiveIn
  <2>4. req'[w] = Idle /\ \A u \in Workers \ {w} : req'[u] = req[u]
    BY <1>2, Becomes DEF Insert, Reply
  <2>5. LetIn(req', q) \subseteq LetIn(req, q) \ {w}
    BY <2>4 DEF LetIn, Idle
  <2>6. CASE e.queue = q /\ e.source = "web"
    <3>1. w \in LetIn(req, q)
      BY <1>2, <2>2, <2>6 DEF LetIn, Insert, At
    <3>. QED
      BY <2>3, <2>5, <3>1 DEF Enters
  <2>7. CASE ~(e.queue = q /\ e.source = "web")
    <3>1. t \notin WebGuests(turns', q)
      BY <2>2, <2>7 DEF WebGuests, ActiveIn
    <3>. QED
      BY <2>3, <2>5, <3>1 DEF Shrinks
  <2>. QED
    BY <2>6, <2>7
<1>3. ASSUME NEW w \in Workers, CountGuests(w), req[w].queue = q,
             Cardinality(AccountlessIn(turns, q)) < MaxGuests
      PROVE  LetsIn(q)
  <2>1. turns' = turns
    BY <1>3, OnlySavesTouchTurns
  <2>2. WebGuests(turns, q) \subseteq AccountlessIn(turns, q)
    BY DEF WebGuests, AccountlessIn, PInv, Booked, ActiveIn
  <2>3. AccountlessIn(turns, q) \subseteq TurnIds
    BY DEF AccountlessIn, ActiveIn, Stored
  <2>4. /\ Cardinality(WebGuests(turns, q)) <= Cardinality(AccountlessIn(turns, q))
        /\ Cardinality(WebGuests(turns, q)) \in Nat
        /\ Cardinality(AccountlessIn(turns, q)) \in Nat
        /\ MaxGuests \in Nat
    BY <2>2, <2>3, TurnIdsFinite, FS_Subset, FS_CardinalityType, GuestsFinite, InstanceAssumption
  <2>5. Cardinality(WebGuests(turns, q)) < MaxGuests
    BY <1>3, <2>4
  <2>. QED
    BY <2>1, <2>5 DEF LetsIn
<1>4. Environment \/ UNCHANGED vars => UNCHANGED <<turns, req>>
  BY DEF Environment, SetGate, Tick, NewDay, vars
<1>5. Stored(turns') = Stored(turns) \/ \E w \in Workers : Insert(w)
  BY <1>4, SameStored, OnlySavesTouchTurns DEF Next, Proceed
<1>6. \/ LetIn(req', q) \subseteq LetIn(req, q)
      \/ \E w \in Workers : CountGuests(w) /\ req[w].queue = q
                            /\ Cardinality(AccountlessIn(turns, q)) < MaxGuests
  BY <1>4, BeginsOutside, ProceedsInside DEF Next
<1>. QED
  BY <1>1, <1>2, <1>3, <1>5, <1>6 DEF Shrinks

\* The guests of a queue and the requests let in stay within the cap and the
\* requests in flight.
LEMMA GuestsStayAccounted == IInv /\ PInv /\ GuestsAccounted /\ [Next]_vars => GuestsAccounted'
BY GuestsStep, AccountKept DEF GuestsAccounted

\* The web guests of a queue pass MAX_ACTIVE_GUEST_TURNS_PER_QUEUE by no more
\* than the other requests in flight (CreateGuestTurnUseCase counts without a
\* lock; each request that was let in is counted until its turn is inserted).
THEOREM GuestsBounded == Spec => []GuestOvershootBounded
<1>1. Init => GuestsAccounted
  <2>. SUFFICES ASSUME Init, NEW q \in Queues
                PROVE  Cardinality(WebGuests(turns, q)) + Cardinality(LetIn(req, q))
                         <= MaxGuests + Cardinality(Workers) - 1
    BY DEF GuestsAccounted
  <2>1. WebGuests(turns, q) = {} /\ LetIn(req, q) = {}
    BY DEF Init, WebGuests, ActiveIn, Stored, LetIn, Idle
  <2>2. Cardinality(Workers) \in Nat /\ Cardinality(Workers) # 0 /\ MaxGuests \in Nat
    BY WorkersAssumption, FS_CardinalityType, FS_EmptySet, InstanceAssumption
  <2>3. Cardinality({}) = 0
    BY FS_EmptySet
  <2>. QED
    BY <2>1, <2>2, <2>3
<1>2. GuestsAccounted => GuestOvershootBounded
  <2>. SUFFICES ASSUME GuestsAccounted, NEW q \in Queues
                PROVE  Cardinality(WebGuests(turns, q)) <= MaxGuests + Cardinality(Workers) - 1
    BY DEF GuestOvershootBounded, WebGuests
  <2>1. Cardinality(WebGuests(turns, q)) + Cardinality(LetIn(req, q))
          <= MaxGuests + Cardinality(Workers) - 1
    BY DEF GuestsAccounted
  <2>2. /\ Cardinality(WebGuests(turns, q)) \in Nat /\ Cardinality(LetIn(req, q)) \in Nat
        /\ Cardinality(Workers) \in Nat /\ MaxGuests \in Nat
    BY GuestsFinite, InstanceAssumption
  <2>. QED
    BY <2>1, <2>2
<1>. QED
  BY <1>1, <1>2, PlacesInductive, GuestsStayAccounted, PTL DEF Spec
=============================================================================
