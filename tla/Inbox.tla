------------------------------- MODULE Inbox -------------------------------
(***************************************************************************)
(* What the notifications promise, without queue or worker: a change that  *)
(* was accepted is told to all its recipients at once, and only once; they *)
(* read it, and it stays read.  Implemented by Jobs.                       *)
(***************************************************************************)
EXTENDS Naturals

CONSTANTS Change, User, Recipients(_)

VARIABLES
  accepted,  \* the changes the queue has accepted
  inbox,     \* inbox[c][u]: notifications of the change c that u has
  read       \* read[c][u]: they are marked as read

Told(c) == [u \in User |-> IF u \in Recipients(c) THEN 1 ELSE 0]
Untold == [u \in User |-> 0]

Init ==
  /\ accepted = {}
  /\ inbox = [c \in Change |-> Untold]
  /\ read = [c \in Change |-> [u \in User |-> FALSE]]

Accept(c) ==
  /\ accepted' = accepted \union {c}
  /\ UNCHANGED <<inbox, read>>

Tell(c) ==
  /\ c \in accepted
  /\ inbox[c] = Untold
  /\ inbox' = [inbox EXCEPT ![c] = Told(c)]
  /\ UNCHANGED <<accepted, read>>

\* Some of what the user has is marked, never unmarked.
Mark(u) ==
  /\ \A c \in Change :
       /\ read[c][u] => read'[c][u]
       /\ read'[c][u] => read[c][u] \/ inbox[c][u] > 0
       /\ \A v \in User \ {u} : read'[c][v] = read[c][v]
  /\ read' \in [Change -> [User -> BOOLEAN]]
  /\ UNCHANGED <<accepted, inbox>>

Next ==
  \/ \E c \in Change : Accept(c) \/ Tell(c)
  \/ \E u \in User : Mark(u)

Spec == Init /\ [][Next]_<<accepted, inbox, read>>

=============================================================================
