------------------------- MODULE TurnQueueProperties -------------------------
(***************************************************************************)
(* What must hold of the queue module whatever its requests interleave.    *)
(***************************************************************************)
EXTENDS TurnQueue

\* A service window serves at most one turn, however many attend, redirect
\* and configuration requests race for it (migration 20260820000000).
OneTurnPerWindow ==
  \A v \in Windows : \A t, u \in OccupantsOf(turns, v) : t = u

\* An account holds at most one place, in whatever queue or business: two
\* devices that both saw "no active turn" do not both get one (migration
\* 20260918010000).
OneTurnPerCustomer ==
  \A c \in Customers : \A t, u \in HoldersOf(turns, c) : t = u

\* The numbers a queue gives out in a day are 1, 2, ..., n with no gap and no
\* repetition, although they are counted and written in two calls
\* (PostgresTurnRepo.createWithNextNumber).
NumbersDense ==
  \A q \in Queues : \A d \in 0 .. today :
    {turns[t].number : t \in IssuedOn(turns, q, d)} = 1 .. Cardinality(IssuedOn(turns, q, d))

\* A turn never refers to a window that is gone, even when a deletion races
\* with a save that carries the window it read before (foreign key of migration
\* 20260729000001, DeleteServiceWindowUseCase).
NoDanglingWindow ==
  \A t \in Stored(turns) : turns[t].window # None => windows[turns[t].window] \in Existing

\* The audit columns tell the story of the status: nobody is completed who was
\* not called and attended, a no-show was called and never attended, and a
\* cancelled turn carries no other ending.
AuditTrail ==
  \A t \in Stored(turns) :
    LET s  == turns[t].status
        ss == turns[t].stamps
    IN  /\ s = "waiting"   => ss = {}
        /\ s = "called"    => ss = {"calledAt"}
        /\ s \in OccupyingStatuses => ss = {"calledAt", "startedAttentionAt"}
        /\ s = "completed" => ss = {"calledAt", "startedAttentionAt", "attendedAt"}
        /\ s = "no_show"   => ss = {"calledAt", "noShowAt"}
        /\ s = "cancelled" => /\ "cancelledAt" \in ss
                              /\ ss \cap {"attendedAt", "noShowAt"} = {}
                              /\ "startedAttentionAt" \in ss => "calledAt" \in ss

\* A request that decided on a state of its turn can only save over that very
\* state: while the version it read is current, what it is about to write is
\* one edge of the status graph away, forgets no stamp and demotes nobody.
DecidingPcs == {"needWindow", "target", "occupant", "save"}

Follows(row, e) ==
  /\ StatusEdge(row.status, e.status)
  /\ row.stamps \subseteq e.stamps
  /\ RankOf[e.priority] <= RankOf[row.priority]

DecisionsAreCurrent ==
  \A w \in Workers : req[w].pc \in DecidingPcs =>
    /\ req[w].turn \in Stored(turns)
    /\ req[w].entity.updated <= turns[req[w].turn].updated
    /\ req[w].entity.updated = turns[req[w].turn].updated => Follows(turns[req[w].turn], req[w].entity)

\* Whoever is told "you are next" is next: a turn that is due has nobody ahead
\* exactly when call-next may pick it, although the two answers come from
\* different queries (countWaitingAhead counts reservations that are not due,
\* findNextWaitingTurn leaves them out).
PositionIsCallOrder ==
  \A q \in Queues : \A t \in DueIn(turns, q, now) :
    WaitingAhead(turns, t) = 0 <=> t \in NextIn(turns, q, now)

\* The cap on web guests is checked before the insert without a lock, so the
\* guests of a queue can pass it, but only by the requests in flight.
GuestOvershootBounded ==
  \A q \in Queues :
    LET guests == {t \in ActiveIn(turns, q) : turns[t].source = "web"}
    IN  Cardinality(guests) <= MaxGuests + Cardinality(Workers) - 1

-----------------------------------------------------------------------------
\* No save, stale or not, rewrites history: a closed turn stays closed, a
\* stamp once set stays set, a customer who confirmed being on the way is
\* never put back, and what a turn was created with never changes.
HistoryKept ==
  [][\A t \in Stored(turns) :
       LET old == turns[t]
           new == turns'[t]
       IN  /\ new \in Row
           /\ old.status \in TerminalStatuses => new.status = old.status
           /\ old.stamps \subseteq new.stamps
           /\ RankOf[new.priority] <= RankOf[old.priority]
           /\ <<new.queue, new.customer, new.source, new.number, new.date, new.joined>>
              = <<old.queue, old.customer, old.source, old.number, old.date, old.joined>>]_vars

\* Nobody is called before the time they said they would arrive.
NoEarlyCall ==
  [][\A t \in Stored(turns) :
       turns[t].status = "waiting" /\ turns'[t].status = "called" => turns[t].joined <= now]_vars

\* The queue module implements the lifecycle: hiding requests, locks, clocks
\* and versions, every step is one move of one turn, or changes nothing.
BoardOf(row) ==
  [status |-> row.status, who |-> row.customer,
   desk |-> IF row.status \in OccupyingStatuses THEN row.window ELSE None]

Board == [t \in TurnIds |-> IF turns[t] = None THEN None ELSE BoardOf(turns[t])]

Lifecycle == INSTANCE TurnLifecycle
  WITH Turns <- TurnIds, Desks <- Windows, People <- Customers, Null <- None, board <- Board

\* So that a board can be asked whether a turn was taken.
ASSUME NoneIsNoEntry == None \notin Lifecycle!Entry

ImplementsLifecycle == Lifecycle!Spec

\* Every request gets an answer: none is left waiting for a queue's lock that
\* a refused or finished creation kept.
RequestsFinish == \A w \in Workers : req[w] # Idle ~> req[w] = Idle

-----------------------------------------------------------------------------
(* What the sources claim and the code does not do.                        *)

\* "A turn still called must be resolved explicitly before the queue can
\* advance" (CallNextUseCase.ts:48).
OneCalledPerQueue == \A q \in Queues : Cardinality(CalledIn(turns, q)) <= 1

\* "Cannot delete / deactivate a service window that is currently attending a
\* turn" (DeleteServiceWindowUseCase.ts:55, ToggleServiceWindowUseCase.ts:54).
WindowsInUseStay ==
  [][\A v \in Windows :
       OccupantsOf(turns, v) # {} /\ windows[v] = "active" => windows'[v] = "active"]_vars

\* "Staff can still create manual turns, which are not counted here"
\* (CreateGuestTurnUseCase.ts:20).
OnlyGuestsFillTheCap ==
  [][\A w \in Workers :
       At(w, "countGuests") /\ req'[w] = Idle =>
         Cardinality({t \in ActiveIn(turns, req[w].queue) : turns[t].source = "web"}) >= MaxGuests]_vars
=============================================================================
