------------------------------- MODULE Delivery -------------------------------
(***************************************************************************)
(* What the event pipeline promises of the events it is given: each event  *)
(* in scope is displayed once, in the order of arrival, until the display  *)
(* is closed; events out of scope disappear on the way.  Nothing else      *)
(* does, and nothing is displayed that did not arrive.                     *)
(***************************************************************************)
EXTENDS Naturals, Sequences, SequencesExt

CONSTANT MaxEvents  \* bound: events that arrive

VARIABLES
  arrived,  \* the number of events so far, which number them
  pending,  \* events on the way: [id, scoped], oldest first
  shown,    \* the last event displayed
  closed    \* nobody is looking any more

deliveryVars == <<arrived, pending, shown, closed>>

Init == arrived = 0 /\ pending = <<>> /\ shown = 0 /\ closed = FALSE

Arrive ==
  /\ arrived < MaxEvents
  /\ arrived' = arrived + 1
  /\ \E scoped \in BOOLEAN :
       pending' = IF closed THEN <<>>
                  ELSE Append(pending, [id |-> arrived + 1, scoped |-> scoped])
  /\ UNCHANGED <<shown, closed>>

LeaveOut ==
  /\ \E i \in DOMAIN pending : ~pending[i].scoped /\ pending' = RemoveAt(pending, i)
  /\ UNCHANGED <<arrived, shown, closed>>

Display ==
  /\ pending # <<>> /\ Head(pending).scoped
  /\ shown' = Head(pending).id
  /\ pending' = Tail(pending)
  /\ UNCHANGED <<arrived, closed>>

Close ==
  /\ closed' = TRUE /\ pending' = <<>>
  /\ UNCHANGED <<arrived, shown>>

Next == Arrive \/ LeaveOut \/ Display \/ Close

Spec == Init /\ [][Next]_deliveryVars

=============================================================================
