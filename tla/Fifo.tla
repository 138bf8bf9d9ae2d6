--------------------------------- MODULE Fifo ---------------------------------
(***************************************************************************)
(* What the dispatcher expects of the input queue: every event put in is   *)
(* handed out, once, in the order of arrival.                              *)
(***************************************************************************)
EXTENDS Sequences

CONSTANTS Event

VARIABLES items,   \* the events waiting
          taken    \* the last one handed out

vars == <<items, taken>>

Init == items = << >> /\ taken \in Event

Put(ev) == items' = Append(items, ev) /\ UNCHANGED taken

Get == items # << >> /\ taken' = Head(items) /\ items' = Tail(items)

Next == (\E ev \in Event : Put(ev)) \/ Get

Spec == Init /\ [][Next]_vars
=============================================================================
