------------------------------ MODULE TurnDomain ------------------------------
(***************************************************************************)
(* The vocabulary of a queue's turns: the row of the "turns" table as the  *)
(* properties see it, the order in which waiting turns are served, the     *)
(* status graph the use cases walk, and the queries of PostgresTurnRepo as *)
(* pure operators over a table.  A table is a function from turn           *)
(* identifiers to rows, None where no row was inserted yet.                *)
(***************************************************************************)
EXTENDS Integers, FiniteSets

CONSTANTS
  TurnIds,      \* turn identifiers (randomUUID)
  Queues,       \* queue identifiers
  Windows,      \* service window identifiers
  Customers,    \* app accounts
  None          \* SQL NULL: no customer, no window, no row

ASSUME NoneIsNull ==
  /\ None \notin Queues
  /\ None \notin Windows
  /\ None \notin Customers
  /\ None \notin TurnIds

ASSUME TurnIdsFinite == IsFiniteSet(TurnIds)

-----------------------------------------------------------------------------
ActiveStatuses    == {"waiting", "called", "attending", "redirected"}
OccupyingStatuses == {"attending", "redirected"}
TerminalStatuses  == {"cancelled", "completed", "no_show"}
Statuses          == ActiveStatuses \cup TerminalStatuses

Sources    == {"app", "web", "manual", "phone"}
Priorities == {"arrived", "physical", "in_transit", "registered"}

\* The audit columns calledAt, startedAttentionAt, ... a row has filled in.
Stamps == {"calledAt", "startedAttentionAt", "attendedAt", "cancelledAt", "noShowAt"}

Row == [queue    : Queues,
        customer : Customers \cup {None},
        source   : Sources,
        priority : Priorities,
        status   : Statuses,
        window   : Windows \cup {None},
        number   : Nat,               \* position of the day, from which displayNumber is made
        date     : Nat,               \* turnDate, a calendar day
        joined   : Nat,               \* queueJoinedAt
        stamps   : SUBSET Stamps,
        updated  : Nat]               \* updatedAt: one more at every save

\* So that a table can be asked whether it holds a row under an identifier.
ASSUME NoneIsNotARow == None \notin Row

-----------------------------------------------------------------------------
(* Queries over a table tt \in [TurnIds -> Row \cup {None}].               *)

Stored(tt) == {t \in TurnIds : tt[t] # None}

ActiveIn(tt, q)  == {t \in Stored(tt) : tt[t].queue = q /\ tt[t].status \in ActiveStatuses}
WaitingIn(tt, q) == {t \in Stored(tt) : tt[t].queue = q /\ tt[t].status = "waiting"}
CalledIn(tt, q)  == {t \in Stored(tt) : tt[t].queue = q /\ tt[t].status = "called"}

HoldersOf(tt, c) == {t \in Stored(tt) : tt[t].customer = c /\ tt[t].status \in ActiveStatuses}
OccupantsOf(tt, v) == {t \in Stored(tt) : tt[t].window = v /\ tt[t].status \in OccupyingStatuses}

\* Accountless turns still holding a place: customerId IS NULL, whatever the source.
AccountlessIn(tt, q) == {t \in ActiveIn(tt, q) : tt[t].customer = None}

IssuedOn(tt, q, d) == {t \in Stored(tt) : tt[t].queue = q /\ tt[t].date = d}

-----------------------------------------------------------------------------
(* Who is served first: priority rank, then arrival, then number.          *)

RankOf == [arrived |-> 1, physical |-> 2, in_transit |-> 3, registered |-> 4]

Before(a, b) ==
  \/ RankOf[a.priority] < RankOf[b.priority]
  \/ /\ RankOf[a.priority] = RankOf[b.priority]
     /\ \/ a.joined < b.joined
        \/ a.joined = b.joined /\ a.number < b.number

\* Mutant: a reservation is callable as soon as it is made.
WaitingDueOrNot(tt, q, now) == WaitingIn(tt, q)

\* A reservation is not callable before the time its caller said they would arrive.
DueIn(tt, q, now) == {t \in WaitingIn(tt, q) : tt[t].joined <= now}

\* Mutant: the order of the SQL query alone, without the sort by priority.
FirstJoined(tt, q, now) ==
  {t \in DueIn(tt, q, now) : \A u \in DueIn(tt, q, now) :
     \/ tt[t].joined < tt[u].joined
     \/ tt[t].joined = tt[u].joined /\ tt[t].number <= tt[u].number}

\* The turns findNextWaitingTurn may return: sort()[0], any of them on a full tie.
NextIn(tt, q, now) ==
  {t \in DueIn(tt, q, now) : \A u \in DueIn(tt, q, now) : ~Before(tt[u], tt[t])}

\* The people a customer is told are ahead; reservations not due yet count too.
WaitingAhead(tt, t) ==
  LET mine   == tt[t]
      higher == {u \in WaitingIn(tt, mine.queue) : RankOf[tt[u].priority] < RankOf[mine.priority]}
      same   == {u \in WaitingIn(tt, mine.queue) :
                   /\ tt[u].priority = mine.priority
                   /\ \/ tt[u].joined < mine.joined
                      \/ tt[u].joined = mine.joined /\ tt[u].number < mine.number}
  IN  Cardinality(higher) + Cardinality(same)

-----------------------------------------------------------------------------
(* The status graph.                                                       *)

Callable      == {"waiting"}
Attendable    == {"called", "redirected"}
OwnCancel     == {"waiting", "called"}
GuestCancel   == {"waiting"}
StaffCancelAny == ActiveStatuses             \* mutant: a redirected turn too
StaffCancel   == {"waiting", "called", "attending"}

\* What one save may do to a status; equal statuses are a change of priority.
StatusEdge(s, t) ==
  \/ s = t /\ s \in ActiveStatuses
  \/ s \in Callable /\ t = "called"
  \/ s \in Attendable /\ t = "attending"
  \/ s = "attending" /\ t \in {"redirected", "completed"}
  \/ s = "called" /\ t = "no_show"
  \/ s \in StaffCancel /\ t = "cancelled"
=============================================================================
