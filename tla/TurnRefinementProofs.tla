------------------------- MODULE TurnRefinementProofs -------------------------
(***************************************************************************)
(* The queue module keeps the history of its turns and implements the      *)
(* lifecycle, for every instance: each of the four things a step may do to *)
(* the table of turns is one move of TurnLifecycle or none.                *)
(***************************************************************************)
EXTENDS TurnQueueProofs

-----------------------------------------------------------------------------
(* History.                                                                *)

\* What a save may do to a stored row.
RewritesWell(old, new) ==
  /\ new \in Row
  /\ old.status \in TerminalStatuses => new.status = old.status
  /\ old.stamps \subseteq new.stamps
  /\ RankOf[new.priority] <= RankOf[old.priority]
  /\ <<new.queue, new.customer, new.source, new.number, new.date, new.joined>>
     = <<old.queue, old.customer, old.source, old.number, old.date, old.joined>>

\* A row that keeps everything but its window is well rewritten.
LEMMA SameStory ==
  ASSUME NEW old \in Row, NEW new \in Row,
         new.status = old.status, new.stamps = old.stamps, new.priority = old.priority,
         new.queue = old.queue, new.customer = old.customer, new.source = old.source,
         new.number = old.number, new.date = old.date, new.joined = old.joined
  PROVE  RewritesWell(old, new)
<1>1. RankOf[new.priority] <= RankOf[old.priority]
  BY RowFields DEF RankOf, Priorities
<1>. QED
  BY <1>1 DEF RewritesWell

\* No step of the table rewrites the history of a stored turn.
LEMMA TableKeepsHistory ==
  ASSUME IInv, TurnsStep, NEW t \in Stored(turns)
  PROVE  RewritesWell(turns[t], turns'[t])
<1>0. TypeOK /\ t \in TurnIds /\ turns[t] # None /\ turns[t] \in Row
  BY StoredRow DEF IInv
<1>1. turns'[t] = turns[t] => RewritesWell(turns[t], turns'[t])
  BY <1>0, SameStory
<1>2. ASSUME NEW w \in Workers, NEW u \in TurnIds, Inserts(w, u)
      PROVE  RewritesWell(turns[t], turns'[t])
  BY <1>0, <1>1, <1>2, AfterInsert
<1>3. ASSUME NEW u \in TurnIds, NEW e \in Row, Saves(u, e)
      PROVE  RewritesWell(turns[t], turns'[t])
  <2>1. CASE u # t
    BY <1>0, <1>1, <1>3, <2>1, AfterSave
  <2>2. CASE u = t
    <3>1. Follows(turns[t], e)
      BY <1>3, <2>2 DEF Saves, Savable, Fresh, Decides
    <3>2. turns'[t] = Written(turns[t], e)
      BY <1>3, <2>2, AfterSave
    <3>3. turns[t].status \in TerminalStatuses => FALSE
      BY <3>1 DEF Follows, StatusEdge, TerminalStatuses, ActiveStatuses, Callable, Attendable, StaffCancel
    <3>. QED
      BY <1>0, <3>1, <3>2, <3>3, WrittenRow DEF RewritesWell, Follows
  <2>. QED
    BY <2>1, <2>2
<1>4. ASSUME NEW v \in Windows, Detaches(v)
      PROVE  RewritesWell(turns[t], turns'[t])
  <2>1. turns'[t] = Detached(v)[t]
    BY <1>4 DEF Detaches
  <2>. QED
    BY <1>0, <2>1, DetachedRow, SameStory
<1>5. Keeps => RewritesWell(turns[t], turns'[t])
  BY <1>1 DEF Keeps
<1>. QED
  BY <1>2, <1>3, <1>4, <1>5 DEF TurnsStep

\* No interleaving of use cases reopens a closed turn, clears an audit column,
\* demotes a customer or changes what a turn was created with.
THEOREM HistoryIsKept == Spec => HistoryKept
<1>1. IInv /\ [Next]_vars =>
        [\A t \in Stored(turns) :
           LET old == turns[t]
               new == turns'[t]
           IN  /\ new \in Row
               /\ old.status \in TerminalStatuses => new.status = old.status
               /\ old.stamps \subseteq new.stamps
               /\ RankOf[new.priority] <= RankOf[old.priority]
               /\ <<new.queue, new.customer, new.source, new.number, new.date, new.joined>>
                  = <<old.queue, old.customer, old.source, old.number, old.date, old.joined>>]_vars
  BY NextTurns, TableKeepsHistory DEF RewritesWell
<1>. QED
  BY <1>1, Inductive, PTL DEF Spec, HistoryKept

-----------------------------------------------------------------------------
(* Refinement.                                                             *)

\* A row shows as an entry of the board, never as an empty place.
LEMMA BoardEntry ==
  ASSUME NEW row \in Row
  PROVE  BoardOf(row) \in Lifecycle!Entry /\ BoardOf(row) # None
<1>1. row.status \in Statuses /\ row.customer \in Customers \cup {None} /\ row.window \in Windows \cup {None}
  BY RowFields
<1>2. BoardOf(row) \in Lifecycle!Entry
  BY <1>1 DEF BoardOf, Lifecycle!Entry, Lifecycle!Open, Lifecycle!Closed,
              Statuses, ActiveStatuses, TerminalStatuses
<1>. QED
  BY <1>2, NoneIsNoEntry

\* The places taken on the board are the stored turns.
LEMMA BoardTaken ==
  ASSUME TypeOK
  PROVE  /\ Lifecycle!Taken = Stored(turns)
         /\ \A t \in Stored(turns) : Board[t] = BoardOf(turns[t])
BY StoredRow, BoardEntry DEF Lifecycle!Taken, Stored, Board

\* A window nobody else occupies is a desk that is not busy.
LEMMA FreeDesk ==
  ASSUME TypeOK, NEW t \in TurnIds, NEW d \in Windows \cup {None},
         d # None => OccupantsOf(turns, d) \subseteq {t}
  PROVE  ~Lifecycle!IsBusy(d, t)
<1>. SUFFICES ASSUME d # None,
                     NEW u \in Stored(turns) \ {t},
                     BoardOf(turns[u]).desk = d, BoardOf(turns[u]).status \in OccupyingStatuses
              PROVE  FALSE
  BY BoardTaken DEF Lifecycle!IsBusy, Lifecycle!AtADesk, OccupyingStatuses
<1>1. turns[u].status \in OccupyingStatuses /\ turns[u].window = d
  BY DEF BoardOf
<1>2. u \in OccupantsOf(turns, d)
  BY <1>1 DEF OccupantsOf
<1>. QED
  BY <1>2

\* A draft enters the board as a turn that is taken.
LEMMA InsertTakes ==
  ASSUME IInv, NEW w \in Workers, NEW t \in TurnIds, Inserts(w, t)
  PROVE  \E p \in Customers \cup {None} : Lifecycle!Take(t, p)
<1>. DEFINE p == req[w].entity.customer
<1>0. TypeOK /\ p \in Customers \cup {None}
  BY RowFields DEF IInv, Inserts, IsDraft
<1>1. t \notin Lifecycle!Taken
  BY <1>0, AfterInsert, BoardTaken
<1>2. ~Lifecycle!HasPlace(p)
  <2>. SUFFICES ASSUME p # None, NEW u \in Stored(turns), BoardOf(turns[u]).who = p,
                       BoardOf(turns[u]).status \in ActiveStatuses
                PROVE  FALSE
    BY <1>0, BoardTaken DEF Lifecycle!HasPlace, Lifecycle!Open, ActiveStatuses
  <2>1. u \in HoldersOf(turns, p)
    BY DEF HoldersOf, BoardOf
  <2>. QED
    BY <2>1 DEF Inserts, CustomerFree
<1>3. Board' = [Board EXCEPT ![t] = [status |-> "waiting", who |-> p, desk |-> None]]
  <2>1. turns'[t] # None /\ BoardOf(turns'[t]) = [status |-> "waiting", who |-> p, desk |-> None]
    BY AfterInsert, RowFields DEF IsDraft, BoardOf, OccupyingStatuses
  <2>2. \A u \in TurnIds \ {t} : turns'[u] = turns[u]
    BY AfterInsert
  <2>. QED
    BY <2>1, <2>2 DEF Board
<1>. QED
  BY <1>0, <1>1, <1>2, <1>3 DEF Lifecycle!Take

\* A save shows on the board as a change of one entry's status and desk.
LEMMA SaveShows ==
  ASSUME IInv, NEW t \in TurnIds, NEW e \in Row, Saves(t, e)
  PROVE  LET d == IF e.status \in OccupyingStatuses THEN e.window ELSE None IN
         Board' = [Board EXCEPT ![t] = [status |-> e.status, who |-> Board[t].who, desk |-> d]]
<1>. DEFINE d == IF e.status \in OccupyingStatuses THEN e.window ELSE None
<1>1. /\ t \in Stored(turns)
      /\ turns'[t] \in Row /\ turns'[t] # None
      /\ turns'[t].status = e.status /\ turns'[t].window = e.window
      /\ turns'[t].customer = turns[t].customer
      /\ \A u \in TurnIds \ {t} : turns'[u] = turns[u]
  BY AfterSave, RowFields
<1>2. Board[t].who = turns[t].customer
  <2>1. Board[t] = BoardOf(turns[t])
    BY <1>1, BoardTaken DEF IInv
  <2>. QED
    BY <2>1 DEF BoardOf
<1>3. BoardOf(turns'[t]) = [status |-> e.status, who |-> Board[t].who, desk |-> d]
  BY <1>1, <1>2 DEF BoardOf
<1>. QED
  BY <1>1, <1>3 DEF Board

\* A save is one move of its turn, or shows nothing (a change of priority).
LEMMA SaveMoves ==
  ASSUME IInv, NEW t \in TurnIds, NEW e \in Row, Saves(t, e)
  PROVE  [Lifecycle!Next]_Board
<1>. DEFINE old == turns[t]
            d   == IF e.status \in OccupyingStatuses THEN e.window ELSE None
            b   == Board[t]
<1>1. /\ TypeOK /\ t \in Stored(turns) /\ old \in Row
      /\ Follows(old, e) /\ Seats(old, e)
      /\ d \in Windows \cup {None}
  BY AfterSave, RowFields DEF IInv, Saves, Savable, Fresh, Decides
<1>2. /\ t \in Lifecycle!Taken
      /\ b = [status |-> old.status, who |-> old.customer,
              desk |-> IF old.status \in OccupyingStatuses THEN old.window ELSE None]
  BY <1>1, BoardTaken DEF BoardOf
<1>3. Board' = [Board EXCEPT ![t] = [status |-> e.status, who |-> b.who, desk |-> d]]
  BY SaveShows
<1>4. Board' = [Board EXCEPT ![t] = [@ EXCEPT !.status = e.status, !.desk = d]]
  BY <1>2, <1>3
<1>5. d # None => OccupantsOf(turns, d) \subseteq {t}
  BY DEF Saves, Savable, WindowFree
<1>6. ~Lifecycle!IsBusy(d, t)
  BY <1>1, <1>5, FreeDesk
<1>. HIDE DEF b
<1>7. StatusEdge(old.status, e.status)
  BY <1>1 DEF Follows
<1>8. CASE old.status = e.status
  <2>1. CASE b.desk = d
    <3>1. [status |-> e.status, who |-> b.who, desk |-> d] = b
      BY <1>2, <1>8, <2>1
    <3>2. Board' = Board
      BY <1>3, <3>1 DEF b, Board
    <3>. QED
      BY <3>2
  <2>2. CASE b.desk # d
    <3>1. old.status \in OccupyingStatuses /\ b.desk = None /\ d # None
      BY <1>1, <1>2, <1>8, <2>2 DEF Seats
    <3>. HIDE DEF d
    <3>2. [status |-> e.status, who |-> b.who, desk |-> d] = [b EXCEPT !.desk = d]
      BY <1>2, <1>8
    <3>3. Board' = [Board EXCEPT ![t] = [Board[t] EXCEPT !.desk = d]]
      BY <1>3, <3>2 DEF b
    <3>4. Board' = [Board EXCEPT ![t].desk = d]
      BY <3>3
    <3>5. Lifecycle!Return(t, d)
      BY <1>2, <1>6, <3>1, <3>4 DEF Lifecycle!Return, Lifecycle!AtADesk, OccupyingStatuses, b
    <3>. QED
      BY <1>1, <3>5 DEF Lifecycle!Next
  <2>. QED
    BY <2>1, <2>2
<1>9. ASSUME old.status # e.status
      PROVE  Lifecycle!Next
  <2>0. b.status = old.status
    BY <1>2
  <2>1. \A from : old.status \in from => Lifecycle!Move(t, from, e.status, d)
    BY <1>2, <1>4, <2>0 DEF Lifecycle!Move, b
  <2>2. CASE old.status \in Callable /\ e.status = "called"
    BY <2>1, <2>2 DEF Lifecycle!Next, Lifecycle!Call, Callable, OccupyingStatuses
  <2>3. CASE old.status \in Attendable /\ e.status = "attending"
    BY <1>1, <1>6, <2>1, <2>3 DEF Lifecycle!Next, Lifecycle!Attend, Attendable
  <2>4. CASE old.status = "attending" /\ e.status = "redirected"
    <3>1. d # None
      BY <1>1, <2>4 DEF Seats, OccupyingStatuses
    <3>. QED
      BY <1>1, <1>6, <2>1, <2>4, <3>1 DEF Lifecycle!Next, Lifecycle!Redirect
  <2>5. CASE old.status = "attending" /\ e.status = "completed"
    BY <2>1, <2>5 DEF Lifecycle!Next, Lifecycle!Complete, OccupyingStatuses
  <2>6. CASE old.status = "called" /\ e.status = "no_show"
    BY <2>1, <2>6 DEF Lifecycle!Next, Lifecycle!NoShow, OccupyingStatuses
  <2>7. CASE old.status \in StaffCancel /\ e.status = "cancelled"
    BY <2>1, <2>7 DEF Lifecycle!Next, Lifecycle!Cancel, StaffCancel, OccupyingStatuses
  <2>. QED
    BY <1>7, <1>9, <2>2, <2>3, <2>4, <2>5, <2>6, <2>7 DEF StatusEdge
<1>. QED
  BY <1>8, <1>9

\* The deletion of a window removes a desk.
LEMMA DetachRemoves ==
  ASSUME IInv, NEW v \in Windows, Detaches(v)
  PROVE  Lifecycle!Remove(v)
<1>1. TypeOK /\ v # None
  BY NoneIsNull DEF IInv
<1>2. Board' = [t \in TurnIds |-> IF turns'[t] = None THEN None ELSE BoardOf(turns'[t])]
  BY DEF Board
<1>3. ASSUME NEW t \in TurnIds
      PROVE  (IF turns'[t] = None THEN None ELSE BoardOf(turns'[t]))
             = (IF t \in Lifecycle!Taken /\ Board[t].desk = v
                THEN [Board[t] EXCEPT !.desk = None] ELSE Board[t])
  <2>1. CASE turns[t] = None
    BY <1>1, <2>1, AfterDetach, BoardTaken DEF Stored, Board
  <2>2. CASE turns[t] # None
    <3>1. /\ t \in Stored(turns) /\ t \in Stored(turns')
          /\ turns'[t].status = turns[t].status /\ turns'[t].customer = turns[t].customer
          /\ turns'[t].window = (IF turns[t].window = v THEN None ELSE turns[t].window)
      BY <2>2, AfterDetach DEF Stored
    <3>2. Board[t] = BoardOf(turns[t]) /\ t \in Lifecycle!Taken /\ turns'[t] # None
      BY <1>1, <3>1, BoardTaken DEF Stored
    <3>. QED
      BY <1>1, <3>1, <3>2 DEF BoardOf
  <2>. QED
    BY <2>1, <2>2
<1>. QED
  BY <1>2, <1>3 DEF Lifecycle!Remove

\* The queue module implements the lifecycle: whatever its requests interleave,
\* a turn moves one edge at a time, at a desk nobody else is served at, and is
\* taken only by somebody without a place (all use cases of the queue module).
THEOREM LifecycleImplemented == Spec => ImplementsLifecycle
<1>1. Init => Lifecycle!Init
  BY DEF Init, Lifecycle!Init, Board
<1>2. IInv /\ [Next]_vars => [Lifecycle!Next]_Board
  <2>. SUFFICES ASSUME IInv, [Next]_vars PROVE [Lifecycle!Next]_Board
    OBVIOUS
  <2>1. ASSUME NEW w \in Workers, NEW t \in TurnIds, Inserts(w, t)
        PROVE  Lifecycle!Next
    BY <2>1, InsertTakes DEF Lifecycle!Next
  <2>2. ASSUME NEW v \in Windows, Detaches(v)
        PROVE  Lifecycle!Next
    BY <2>2, DetachRemoves DEF Lifecycle!Next
  <2>3. Keeps => Board' = Board
    BY DEF Keeps, Board
  <2>. QED
    BY NextTurns, SaveMoves, <2>1, <2>2, <2>3 DEF TurnsStep
<1>. QED
  BY <1>1, <1>2, Inductive, PTL DEF Spec, ImplementsLifecycle, Lifecycle!Spec
=============================================================================
