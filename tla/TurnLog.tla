------------------------------- MODULE TurnLog -------------------------------
(***************************************************************************)
(* What a turn's event plane promises its clients (D39): the turn writes   *)
(* one totally ordered log, and what a client holds is at every moment a   *)
(* prefix of that log, growing until the client forgets it (a page reload).*)
(***************************************************************************)
EXTENDS Naturals

CONSTANT Clients

VARIABLES
    length,     \* events the turn has emitted
    view        \* the events each client holds

Init ==
    /\ length = 0
    /\ view = [c \in Clients |-> {}]

Emit == length' = length + 1 /\ UNCHANGED view

\* The client catches up, by one event or by a whole snapshot.
Read(c) ==
    /\ \E n \in 0 .. length :
           /\ view[c] \subseteq 1 .. n
           /\ view' = [view EXCEPT ![c] = 1 .. n]
    /\ UNCHANGED length

Forget(c) == view' = [view EXCEPT ![c] = {}] /\ UNCHANGED length

Next == Emit \/ \E c \in Clients : Read(c) \/ Forget(c)

Spec == Init /\ [][Next]_<<length, view>>

=============================================================================
