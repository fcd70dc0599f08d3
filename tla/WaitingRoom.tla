----------------------------- MODULE WaitingRoom -----------------------------
(***************************************************************************)
(* What the virtual queue promises, without saying how: visitors arrive    *)
(* at an event with a place in line, are called strictly from the front,   *)
(* and a called visitor is given one admission.  The promise is silent on  *)
(* what may be lost: a called visitor need not ever be admitted.           *)
(***************************************************************************)
EXTENDS SortedSet

CONSTANTS Event, Ticket, EventOf

VARIABLES waiting,   \* [Event -> SUBSET Ticket]: who stands in line
          place,     \* [Ticket -> Nat]: the place a ticket was given
          called,    \* tickets taken from the front, not yet admitted
          admitted   \* tickets that have been given their admission

roomVars == <<waiting, place, called, admitted>>

Init == /\ waiting = [e \in Event |-> {}]
        /\ place \in [Ticket -> Nat]
        /\ called = {}
        /\ admitted = {}

Waiting(t) == t \in waiting[EventOf[t]]

\* A ticket that was never seen before takes its place in the line of its event.
Arrive(t) == /\ ~Waiting(t) /\ t \notin called /\ t \notin admitted
             /\ place' \in [Ticket -> Nat]
             /\ \A u \in Ticket \ {t} : place'[u] = place[u]
             /\ waiting' = [waiting EXCEPT ![EventOf[t]] = @ \union {t}]
             /\ UNCHANGED <<called, admitted>>

\* A group is called from the front of a line: nobody left behind was ahead.
Call(e, S) == /\ S \subseteq waiting[e]
              /\ FrontClosed(place, waiting[e], S)
              /\ waiting' = [waiting EXCEPT ![e] = @ \ S]
              /\ called' = called \union S
              /\ UNCHANGED <<place, admitted>>

\* A called ticket receives its one admission.
Admit(t) == /\ t \in called
            /\ called' = called \ {t}
            /\ admitted' = admitted \union {t}
            /\ UNCHANGED <<waiting, place>>

Next == \/ \E t \in Ticket : Arrive(t) \/ Admit(t)
        \/ \E e \in Event, S \in SUBSET Ticket : Call(e, S)

Spec == Init /\ [][Next]_roomVars
==============================================================================
