---------------------------- MODULE TurnLifecycle ----------------------------
(***************************************************************************)
(* What the queue module promises about turns, with no requests, clocks,   *)
(* locks or versions in it: a turn moves along the status graph one edge   *)
(* at a time, a service window serves one turn at a time, and a customer   *)
(* holds one place in one queue at a time.                                 *)
(***************************************************************************)
CONSTANTS Turns, Desks, People, Null

VARIABLE board    \* what is known of each turn: Null until it is taken

Open      == {"waiting", "called", "attending", "redirected"}
AtADesk   == {"attending", "redirected"}
Closed    == {"cancelled", "completed", "no_show"}

\* "who" is Null for a guest; "desk" is Null unless the turn is being served at one.
Entry == [status : Open \cup Closed, who : People \cup {Null}, desk : Desks \cup {Null}]

TypeInv == board \in [Turns -> Entry \cup {Null}]

Init == board = [t \in Turns |-> Null]

Taken == {t \in Turns : board[t] # Null}

HasPlace(p) == p # Null /\ \E t \in Taken : board[t].who = p /\ board[t].status \in Open
IsBusy(d, t) == d # Null /\ \E u \in Taken \ {t} : board[u].desk = d /\ board[u].status \in AtADesk

\* Turn t goes from one of the statuses "from" to "to", at desk d.
Move(t, from, to, d) ==
  /\ t \in Taken
  /\ board[t].status \in from
  /\ board' = [board EXCEPT ![t] = [@ EXCEPT !.status = to, !.desk = d]]

Take(t, p) ==
  /\ t \notin Taken
  /\ ~HasPlace(p)
  /\ board' = [board EXCEPT ![t] = [status |-> "waiting", who |-> p, desk |-> Null]]

Call(t)        == Move(t, {"waiting"}, "called", Null)
Attend(t, d)   == ~IsBusy(d, t) /\ Move(t, {"called", "redirected"}, "attending", d)
Redirect(t, d) == ~IsBusy(d, t) /\ d # Null /\ Move(t, {"attending"}, "redirected", d)
Complete(t)    == Move(t, {"attending"}, "completed", Null)
NoShow(t)      == Move(t, {"called"}, "no_show", Null)
Cancel(t)      == Move(t, {"waiting", "called", "attending"}, "cancelled", Null)

\* A desk is removed: whoever is served at it goes on being served, nowhere in particular.
Remove(d) ==
  board' = [t \in Turns |-> IF t \in Taken /\ board[t].desk = d
                            THEN [board[t] EXCEPT !.desk = Null]
                            ELSE board[t]]

\* ... until the desk is put back by someone who had not heard of its removal.
Return(t, d) ==
  /\ t \in Taken
  /\ board[t].status \in AtADesk /\ board[t].desk = Null
  /\ ~IsBusy(d, t)
  /\ board' = [board EXCEPT ![t].desk = d]

Next ==
  \/ \E t \in Turns :
       \/ \E p \in People \cup {Null} : Take(t, p)
       \/ Call(t) \/ Complete(t) \/ NoShow(t) \/ Cancel(t)
       \/ \E d \in Desks \cup {Null} : Attend(t, d) \/ Redirect(t, d) \/ Return(t, d)
  \/ \E d \in Desks : Remove(d)

Spec == Init /\ [][Next]_board
=============================================================================
