------------------------------- MODULE TurnQueue -------------------------------
(***************************************************************************)
(* The queue module at the granularity of its awaits.  Workers are the     *)
(* HTTP requests in flight; each one runs a use case whose database calls  *)
(* are separate steps, so that the steps of two requests interleave.  A    *)
(* use case that changes a turn reads it, decides, and saves a whole       *)
(* entity made from what it read; the save is a compare-and-set on         *)
(* updatedAt, guarded by the two partial unique indexes and the foreign    *)
(* key of the turns table.  A refused request changes nothing, so the      *)
(* refusals of a first read are the absence of a step.                     *)
(***************************************************************************)
EXTENDS TurnDomain

CONSTANTS
  Workers,           \* requests in flight at once
  WindowQueue,       \* the queue each service window belongs to
  OpenAtStart,       \* windows already active when the instance starts
  Ops,               \* the operations the clients of the instance call
  Etas,              \* minutes a phone caller may declare, in units of the clock
  MaxGuests,         \* MAX_ACTIVE_GUEST_TURNS_PER_QUEUE
  MaxActiveWindows,  \* PLAN_LIMITS[plan].maxServiceWindowsPerQueue
  MaxNow,            \* bound on the clock
  MaxDay,            \* bound on the calendar
  MaxStamp           \* bound on the saves of a turn after which it is not redirected again

ASSUME InstanceAssumption ==
  /\ None \notin Workers
  /\ WindowQueue \in [Windows -> Queues]
  /\ OpenAtStart \subseteq Windows
  /\ Etas \subseteq Nat
  /\ {MaxGuests, MaxActiveWindows, MaxNow, MaxDay, MaxStamp} \subseteq Nat

\* The server answers finitely many requests at once, and at least one.
ASSUME WorkersAssumption == IsFiniteSet(Workers) /\ Workers # {}

VARIABLES
  turns,     \* table turns
  windows,   \* table service_windows: the state of each row
  gate,      \* what the queue and its business admit
  lock,      \* who holds the row lock on each queue (SELECT ... FOR UPDATE)
  now,       \* the clock
  today,     \* the calendar day
  req        \* the request each worker runs

vars  == <<turns, windows, gate, lock, now, today, req>>
clock == <<now, today>>
data  == <<turns, windows, gate, lock, now, today>>

WindowStates == {"unborn", "active", "inactive", "deleted"}
Existing     == {"active", "inactive"}
GateStates   == {"open", "afterHours", "paused", "inactive"}

Pcs == {"idle",
        "existing", "countGuests", "gate", "lock", "count", "insert",
        "findCalled", "findNext", "needWindow", "target", "occupant", "save",
        "siblings", "inUse", "saveWindow", "deletable", "deleteWindow"}

Request == [pc     : Pcs,
            turn   : TurnIds \cup {None},
            entity : Row \cup {None},        \* the row this request will write
            queue  : Queues \cup {None},
            window : Windows \cup {None},
            state  : Existing]               \* the isActive this request will write

Idle == [pc |-> "idle", turn |-> None, entity |-> None,
         queue |-> None, window |-> None, state |-> "active"]

TypeOK ==
  /\ turns   \in [TurnIds -> Row \cup {None}]
  /\ windows \in [Windows -> WindowStates]
  /\ gate    \in [Queues -> GateStates]
  /\ lock    \in [Queues -> Workers \cup {None}]
  /\ now     \in Nat
  /\ today   \in Nat
  /\ req     \in [Workers -> Request]

Init ==
  /\ turns   = [t \in TurnIds |-> None]
  /\ windows = [v \in Windows |-> IF v \in OpenAtStart THEN "active" ELSE "unborn"]
  /\ gate    = [q \in Queues |-> "open"]
  /\ lock    = [q \in Queues |-> None]
  /\ now     = 0
  /\ today   = 0
  /\ req     = [w \in Workers |-> Idle]

-----------------------------------------------------------------------------
(* Steps of a request.                                                     *)

At(w, pc)     == req[w].pc = pc
Become(w, r)  == req' = [req EXCEPT ![w] = r]
Goto(w, pc)   == Become(w, [req[w] EXCEPT !.pc = pc])
Reply(w)      == Become(w, Idle)
Begin(w, op)  == op \in Ops /\ req[w] = Idle

ActiveWindows(q) == {v \in Windows : WindowQueue[v] = q /\ windows[v] = "active"}

Unlocked(w) == [q \in Queues |-> IF lock[q] = w THEN None ELSE lock[q]]

-----------------------------------------------------------------------------
(* Taking a turn.                                                          *)

\* Staff may enter people outside the opening hours, customers may not.
Admits(q, source) ==
  \/ gate[q] = "open"
  \/ gate[q] = "afterHours" /\ source \in {"manual", "phone"}

\* Mutants: the source kept as the priority; a reservation treated like a walk-in.
PriorityUnconverted(source) == source
PriorityOfStaffEntry(source) == IF source \in {"manual", "phone"} THEN "physical" ELSE "registered"

\* Someone standing at the counter goes ahead of those who are not there yet.
PriorityOnJoining(source) == IF source = "manual" THEN "physical" ELSE "registered"

NewTurn(q, c, source, eta) ==
  [queue |-> q, customer |-> c, source |-> source, priority |-> PriorityOnJoining(source),
   status |-> "waiting", window |-> None, number |-> 0, date |-> today,
   joined |-> now + eta, stamps |-> {}, updated |-> 0]

\* Bound of the instance: an identifier is left for every turn being created.
Creating == {w \in Workers : req[w].pc \in {"existing", "countGuests", "gate", "lock", "count", "insert"}}
RoomForTurn == Cardinality(Creating) + Cardinality(Stored(turns)) < Cardinality(TurnIds)

BeginAppTurn(w, q, c) ==
  /\ Begin(w, "app") /\ RoomForTurn
  /\ Admits(q, "app")
  /\ Become(w, [Idle EXCEPT !.pc = "existing", !.queue = q, !.entity = NewTurn(q, c, "app", 0)])
  /\ UNCHANGED data

BeginGuestTurn(w, q) ==
  /\ Begin(w, "web") /\ RoomForTurn
  /\ gate[q] # "inactive"
  /\ Become(w, [Idle EXCEPT !.pc = "countGuests", !.queue = q])
  /\ UNCHANGED data

BeginManualTurn(w, q, source, eta) ==
  /\ Begin(w, source) /\ RoomForTurn
  /\ Admits(q, source)
  /\ source = "manual" => eta = 0
  /\ Become(w, [Idle EXCEPT !.pc = "lock", !.queue = q, !.entity = NewTurn(q, None, source, eta)])
  /\ UNCHANGED data

CheckExistingTurn(w) ==
  LET r == req[w] IN
  /\ At(w, "existing")
  /\ IF HoldersOf(turns, r.entity.customer) # {}
     THEN Reply(w)
     ELSE Become(w, [r EXCEPT !.pc = "lock", !.entity = NewTurn(r.queue, r.entity.customer, "app", 0)])
  /\ UNCHANGED data

\* Mutant: the guest past the cap is let in.
CountGuestsOffByOne(w) ==
  /\ At(w, "countGuests")
  /\ IF Cardinality(AccountlessIn(turns, req[w].queue)) > MaxGuests
     THEN Reply(w)
     ELSE Goto(w, "gate")
  /\ UNCHANGED data

CountGuests(w) ==
  /\ At(w, "countGuests")
  /\ IF Cardinality(AccountlessIn(turns, req[w].queue)) >= MaxGuests
     THEN Reply(w)
     ELSE Goto(w, "gate")
  /\ UNCHANGED data

CheckGate(w) ==
  LET r == req[w] IN
  /\ At(w, "gate")
  /\ IF ~Admits(r.queue, "web")
     THEN Reply(w)
     ELSE Become(w, [r EXCEPT !.pc = "lock", !.entity = NewTurn(r.queue, None, "web", 0)])
  /\ UNCHANGED data

\* Mutant: the row is selected without FOR UPDATE.
SelectQueue(w) ==
  /\ At(w, "lock")
  /\ Goto(w, "count")
  /\ UNCHANGED data

\* createWithNextNumber: one transaction that holds the queue's row lock.
LockQueue(w) ==
  /\ At(w, "lock")
  /\ lock[req[w].queue] = None
  /\ lock' = [lock EXCEPT ![req[w].queue] = w]
  /\ Goto(w, "count")
  /\ UNCHANGED <<turns, windows, gate, clock>>

CountIssued(w) ==
  LET r == req[w] IN
  /\ At(w, "count")
  /\ Become(w, [r EXCEPT !.pc = "insert",
                  !.entity.number = Cardinality(IssuedOn(turns, r.queue, r.entity.date)) + 1])
  /\ UNCHANGED data

\* Mutant: no index, only the check before the insert.
CustomerUnchecked(c) == TRUE

\* turns_active_customer_unique
CustomerFree(c) == c # None => HoldersOf(turns, c) = {}

Insert(w) ==
  /\ At(w, "insert")
  /\ CustomerFree(req[w].entity.customer)
  /\ \E t \in TurnIds \ Stored(turns) : turns' = [turns EXCEPT ![t] = req[w].entity]
  /\ lock' = Unlocked(w)
  /\ Reply(w)
  /\ UNCHANGED <<windows, gate, clock>>

\* Mutant: the refused insert leaves its transaction open.
InsertRefusedKeepsLock(w) ==
  /\ At(w, "insert")
  /\ ~CustomerFree(req[w].entity.customer)
  /\ Reply(w)
  /\ UNCHANGED data

InsertRefused(w) ==
  /\ At(w, "insert")
  /\ ~CustomerFree(req[w].entity.customer)
  /\ lock' = Unlocked(w)
  /\ Reply(w)
  /\ UNCHANGED <<turns, windows, gate, clock>>

-----------------------------------------------------------------------------
(* Saving a turn.                                                          *)

\* Mutant: the update is keyed by the identifier alone.
Present(t, e) == turns[t] # None

Fresh(t, e) == turns[t] # None /\ turns[t].updated = e.updated

\* Mutant: no index, only the check before the save.
WindowUnchecked(t, e) == TRUE

\* turns_active_service_window_unique
WindowFree(t, e) ==
  (e.status \in OccupyingStatuses /\ e.window # None) => OccupantsOf(turns, e.window) \subseteq {t}

\* Mutant: serviceWindowId is a plain column.
AnyWindow(e) == TRUE

\* Foreign key on serviceWindowId
WindowExists(e) == e.window # None => windows[e.window] \in Existing

Savable(t, e) == Fresh(t, e) /\ WindowFree(t, e) /\ WindowExists(e)

\* Mutant: updatedAt is not bumped.
WrittenInPlace(row, e) ==
  [row EXCEPT !.status = e.status, !.priority = e.priority, !.window = e.window, !.stamps = e.stamps]

\* The columns a save writes; the others keep what the row holds.
Written(row, e) ==
  [row EXCEPT !.status = e.status, !.priority = e.priority, !.window = e.window,
              !.stamps = e.stamps, !.updated = e.updated + 1]

Save(w) ==
  LET t == req[w].turn
      e == req[w].entity
  IN  /\ At(w, "save")
      /\ Savable(t, e)
      /\ turns' = [turns EXCEPT ![t] = Written(@, e)]
      /\ Reply(w)
      /\ UNCHANGED <<windows, gate, lock, clock>>

\* TURN_CONFLICT, SERVICE_WINDOW_OCCUPIED, or the foreign key's error.
SaveRefused(w) ==
  /\ At(w, "save")
  /\ ~Savable(req[w].turn, req[w].entity)
  /\ Reply(w)
  /\ UNCHANGED data

\* Mutant: the new stamp replaces the others.
MovedForgetting(t, status, stamp) == [turns[t] EXCEPT !.status = status, !.stamps = {stamp}]

\* The entity a handler will save: what it read of t with a status and a stamp changed.
Moved(t, status, stamp) == [turns[t] EXCEPT !.status = status, !.stamps = @ \cup {stamp}]

Propose(w, t, pc, e) ==
  /\ Become(w, [Idle EXCEPT !.pc = pc, !.turn = t, !.entity = e, !.queue = turns[t].queue])
  /\ UNCHANGED data

-----------------------------------------------------------------------------
(* Calling the next turn.                                                  *)

BeginCallNext(w, q) ==
  /\ Begin(w, "call")
  /\ gate[q] # "inactive"
  /\ Become(w, [Idle EXCEPT !.pc = "findCalled", !.queue = q])
  /\ UNCHANGED data

FindCalledTurn(w) ==
  /\ At(w, "findCalled")
  /\ IF CalledIn(turns, req[w].queue) # {} THEN Reply(w) ELSE Goto(w, "findNext")
  /\ UNCHANGED data

FindNextWaitingTurn(w) ==
  /\ At(w, "findNext")
  /\ \E t \in NextIn(turns, req[w].queue, now) : Propose(w, t, "save", Moved(t, "called", "calledAt"))

QueueEmpty(w) ==
  /\ At(w, "findNext")
  /\ NextIn(turns, req[w].queue, now) = {}
  /\ Reply(w)
  /\ UNCHANGED data

-----------------------------------------------------------------------------
(* Attending, redirecting, closing a turn.                                 *)

BeginAttend(w, t, v) ==
  LET target == IF v # None THEN v ELSE turns[t].window IN
  /\ Begin(w, "attend")
  /\ turns[t].status \in Attendable
  /\ Propose(w, t, IF target = None THEN "needWindow" ELSE "occupant",
             [Moved(t, "attending", "startedAttentionAt") EXCEPT !.window = target])

BeginComplete(w, t) ==
  /\ Begin(w, "attend")
  /\ turns[t].status = "attending"
  /\ Propose(w, t, "save", Moved(t, "completed", "attendedAt"))

BeginRedirect(w, t, v) ==
  /\ Begin(w, "redirect")
  /\ turns[t].status = "attending"
  /\ turns[t].window # v
  /\ turns[t].updated < MaxStamp
  /\ Propose(w, t, "target", [turns[t] EXCEPT !.status = "redirected", !.window = v])

BeginNoShow(w, t) ==
  /\ Begin(w, "noShow")
  /\ turns[t].status = "called"
  /\ Propose(w, t, "save", Moved(t, "no_show", "noShowAt"))

BeginCancelOwn(w, t) ==
  /\ Begin(w, "cancelOwn")
  /\ turns[t].customer # None
  /\ turns[t].status \in OwnCancel
  /\ Propose(w, t, "save", Moved(t, "cancelled", "cancelledAt"))

BeginCancelGuest(w, t) ==
  /\ Begin(w, "cancelGuest")
  /\ turns[t].customer = None
  /\ turns[t].status \in GuestCancel
  /\ Propose(w, t, "save", Moved(t, "cancelled", "cancelledAt"))

BeginCancelByEmployee(w, t) ==
  /\ Begin(w, "cancelStaff")
  /\ turns[t].status \in StaffCancel
  /\ Propose(w, t, "save", Moved(t, "cancelled", "cancelledAt"))

\* A customer announces being on the way, then being there; the status is not looked at.
Confirmed == [registered |-> "in_transit", in_transit |-> "arrived"]

BeginConfirm(w, t) ==
  /\ Begin(w, "confirm")
  /\ turns[t].customer # None
  /\ turns[t].status \in ActiveStatuses
  /\ turns[t].priority \in DOMAIN Confirmed
  /\ Propose(w, t, "save", [turns[t] EXCEPT !.priority = Confirmed[@]])

\* A queue with active windows must attend through one of them.
CheckNoWindowNeeded(w) ==
  /\ At(w, "needWindow")
  /\ IF ActiveWindows(req[w].queue) # {} THEN Reply(w) ELSE Goto(w, "save")
  /\ UNCHANGED data

CheckTargetWindow(w) ==
  LET v == req[w].entity.window IN
  /\ At(w, "target")
  /\ IF windows[v] \in Existing /\ WindowQueue[v] = req[w].queue
     THEN Goto(w, "occupant")
     ELSE Reply(w)
  /\ UNCHANGED data

CheckOccupant(w) ==
  /\ At(w, "occupant")
  /\ IF OccupantsOf(turns, req[w].entity.window) \subseteq {req[w].turn}
     THEN Goto(w, "save")
     ELSE Reply(w)
  /\ UNCHANGED data

-----------------------------------------------------------------------------
(* Service windows.                                                        *)

BelowPlanLimit(q, except) == Cardinality(ActiveWindows(q) \ except) < MaxActiveWindows

ForWindow(w, v, pc, state) ==
  /\ Become(w, [Idle EXCEPT !.pc = pc, !.window = v, !.queue = WindowQueue[v], !.state = state])
  /\ UNCHANGED data

BeginCreateWindow(w, v) ==
  /\ Begin(w, "createWindow")
  /\ windows[v] = "unborn"
  /\ \A u \in Workers : req[u].window # v      \* a new identifier is nobody else's
  /\ BelowPlanLimit(WindowQueue[v], {})
  /\ ForWindow(w, v, "saveWindow", "active")

BeginToggleWindow(w, v) ==
  /\ Begin(w, "toggleWindow")
  /\ windows[v] \in Existing
  /\ IF windows[v] = "active"
     THEN ForWindow(w, v, "inUse", "inactive")
     ELSE ForWindow(w, v, "siblings", "active")

BeginUpdateWindow(w, v) ==
  /\ Begin(w, "updateWindow")
  /\ windows[v] \in Existing
  /\ ForWindow(w, v, "saveWindow", windows[v])

BeginDeleteWindow(w, v) ==
  /\ Begin(w, "deleteWindow")
  /\ windows[v] \in Existing
  /\ ForWindow(w, v, "deletable", windows[v])

\* The occupancy check of a deactivation and of a deletion.
CheckWindowInUse(w) ==
  /\ req[w].pc \in {"inUse", "deletable"}
  /\ IF OccupantsOf(turns, req[w].window) # {}
     THEN Reply(w)
     ELSE Goto(w, IF At(w, "inUse") THEN "saveWindow" ELSE "deleteWindow")
  /\ UNCHANGED data

CheckSiblings(w) ==
  /\ At(w, "siblings")
  /\ IF BelowPlanLimit(req[w].queue, {req[w].window}) THEN Goto(w, "saveWindow") ELSE Reply(w)
  /\ UNCHANGED data

\* An upsert: it writes the isActive the request read or decided, and makes
\* the row again if it is gone.
SaveWindow(w) ==
  /\ At(w, "saveWindow")
  /\ windows' = [windows EXCEPT ![req[w].window] = req[w].state]
  /\ Reply(w)
  /\ UNCHANGED <<turns, gate, lock, clock>>

\* Mutant: ON DELETE CASCADE.
Cascaded(v) == [t \in TurnIds |-> IF turns[t] # None /\ turns[t].window = v THEN None ELSE turns[t]]

\* ON DELETE SET NULL; updatedAt of the turns is left alone.
Detached(v) ==
  [t \in TurnIds |-> IF turns[t] # None /\ turns[t].window = v
                     THEN [turns[t] EXCEPT !.window = None]
                     ELSE turns[t]]

DeleteWindow(w) ==
  LET v == req[w].window IN
  /\ At(w, "deleteWindow")
  /\ IF windows[v] \in Existing
     THEN windows' = [windows EXCEPT ![v] = "deleted"] /\ turns' = Detached(v)
     ELSE UNCHANGED <<windows, turns>>           \* nothing to delete: an error
  /\ Reply(w)
  /\ UNCHANGED <<gate, lock, clock>>

-----------------------------------------------------------------------------
(* Around the requests.                                                    *)

\* A request dies between two awaits; the database rolls its transaction back.
Abort(w) ==
  /\ "abort" \in Ops
  /\ req[w] # Idle
  /\ lock' = Unlocked(w)
  /\ Reply(w)
  /\ UNCHANGED <<turns, windows, gate, clock>>

\* ToggleQueue, the operational status, the opening hours, approval and suspension.
SetGate(q, g) ==
  /\ "gate" \in Ops
  /\ gate[q] # g
  /\ gate' = [gate EXCEPT ![q] = g]
  /\ UNCHANGED <<turns, windows, lock, clock, req>>

Tick ==
  /\ now < MaxNow
  /\ now' = now + 1
  /\ UNCHANGED <<turns, windows, gate, lock, today, req>>

NewDay ==
  /\ today < MaxDay
  /\ today' = today + 1
  /\ UNCHANGED <<turns, windows, gate, lock, now, req>>

-----------------------------------------------------------------------------
Join(w) ==
  \E q \in Queues :
    \/ \E c \in Customers : BeginAppTurn(w, q, c)
    \/ BeginGuestTurn(w, q)
    \/ \E eta \in Etas \cup {0} :
         BeginManualTurn(w, q, "manual", eta) \/ BeginManualTurn(w, q, "phone", eta)

Operate(w) ==
  \/ \E q \in Queues : BeginCallNext(w, q)
  \/ \E t \in Stored(turns) :
       \/ \E v \in Windows \cup {None} : BeginAttend(w, t, v)
       \/ \E v \in Windows : BeginRedirect(w, t, v)
       \/ BeginComplete(w, t)
       \/ BeginNoShow(w, t)
       \/ BeginCancelOwn(w, t)
       \/ BeginCancelGuest(w, t)
       \/ BeginCancelByEmployee(w, t)
       \/ BeginConfirm(w, t)

Configure(w) ==
  \E v \in Windows :
    \/ BeginCreateWindow(w, v)
    \/ BeginToggleWindow(w, v)
    \/ BeginUpdateWindow(w, v)
    \/ BeginDeleteWindow(w, v)

\* Every step of a request under way except the wait for the queue's lock.
Proceed(w) ==
  \/ CheckExistingTurn(w) \/ CountGuests(w) \/ CheckGate(w)
  \/ CountIssued(w) \/ Insert(w) \/ InsertRefused(w)
  \/ FindCalledTurn(w) \/ FindNextWaitingTurn(w) \/ QueueEmpty(w)
  \/ CheckNoWindowNeeded(w) \/ CheckTargetWindow(w) \/ CheckOccupant(w)
  \/ Save(w) \/ SaveRefused(w)
  \/ CheckWindowInUse(w) \/ CheckSiblings(w) \/ SaveWindow(w) \/ DeleteWindow(w)

Environment ==
  \/ \E q \in Queues, g \in GateStates : SetGate(q, g)
  \/ Tick
  \/ NewDay

Next ==
  \/ \E w \in Workers : Join(w) \/ Operate(w) \/ Configure(w) \/ LockQueue(w) \/ Proceed(w) \/ Abort(w)
  \/ Environment

Spec == Init /\ [][Next]_vars

\* The event loop resumes every request whose database call was answered, and
\* PostgreSQL grants a row lock in the order of the waiters.
Fairness == \A w \in Workers : WF_vars(Proceed(w)) /\ SF_vars(LockQueue(w))

FairSpec == Spec /\ Fairness
=============================================================================
