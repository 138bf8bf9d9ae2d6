------------------------------- MODULE EventLoop -------------------------------
(***************************************************************************)
(* The main loop of proj.c and the input queue of events.c.  Each turn     *)
(* waits for a message, lets the interrupt handlers of ih.c decode what    *)
(* the devices delivered and push the events, then dispatches every event  *)
(* of the queue.  A key may ask to quit; the loop looks at that only       *)
(* between two turns.                                                      *)
(*                                                                         *)
(* What an event does to the rest of the program is left out.              *)
(***************************************************************************)
EXTENDS Integers, Sequences

CONSTANTS KeyEvent, MouseEvent, SerialEvent,
          Size,         \* INPUT_EVENT_QUEUE_SIZE
          MaxPackets    \* the packets one serial_process call can complete

\* serial_ih reads at most the 16 bytes the software FIFO holds, and a packet
\* has 3 bytes or more: 6 packets at most, the first begun in an earlier turn.
ASSUME SizeAssumption == Size \in Nat /\ MaxPackets \in Nat /\ MaxPackets + 3 <= Size

ASSUME EventAssumption == KeyEvent # {}

Event == KeyEvent \cup MouseEvent \cup SerialEvent

VARIABLES queue, head, tail, count,   \* the ring of events.c
          ev,         \* the event in the hands of input_dispatch
          quit,       \* quit_flag of commands.c
          stage,      \* what the loop runs now
          packets     \* packets completed in this turn

ring == <<queue, head, tail, count>>
vars == <<queue, head, tail, count, ev, quit, stage, packets>>

Init ==
  /\ queue \in [0 .. Size - 1 -> KeyEvent]      \* never read before written
  /\ head = 0 /\ tail = 0 /\ count = 0
  /\ ev \in KeyEvent
  /\ quit = FALSE
  /\ stage = "receive"
  /\ packets = 0

-----------------------------------------------------------------------------
(* events.c                                                                *)

\* Fault: the write index does not wrap.
FaultyPush(e) ==
  /\ queue' = [queue EXCEPT ![tail] = e]
  /\ tail' = tail + 1
  /\ count' = count + 1
  /\ UNCHANGED head

\* A full ring loses its oldest event.
input_event_push(e) ==
  LET full == count >= Size
  IN  /\ queue' = [queue EXCEPT ![tail] = e]
      /\ tail' = (tail + 1) % Size
      /\ head' = IF full THEN (head + 1) % Size ELSE head
      /\ count' = IF full THEN count ELSE count + 1

\* Fault: the newest event is handed out first.
FaultyPop ==
  /\ count > 0
  /\ ev' = queue[(head + count - 1) % Size]
  /\ tail' = (head + count - 1) % Size
  /\ count' = count - 1
  /\ UNCHANGED <<queue, head>>

\* Fault: the event handed out is still counted.
FaultyPopUncounted ==
  /\ count > 0
  /\ ev' = queue[head]
  /\ head' = (head + 1) % Size
  /\ UNCHANGED <<queue, tail, count>>

input_event_pop ==
  /\ count > 0
  /\ ev' = queue[head]
  /\ head' = (head + 1) % Size
  /\ count' = count - 1
  /\ UNCHANGED <<queue, tail>>

-----------------------------------------------------------------------------
(* interrupts_handler: the devices in its order, each of them only when    *)
(* its bit is set in the mask and its handler has completed something.     *)

\* The loop takes the next message, unless it was asked to quit.
Receive ==
  /\ stage = "receive" /\ ~quit
  /\ stage' = "keyboard" /\ packets' = 0
  /\ UNCHANGED <<ring, ev, quit>>

\* One device's turn ends in stage next, with or without an event.
Pushes(from, next, events) ==
  /\ stage = from /\ stage' = next
  /\ \/ \E e \in events : input_event_push(e)
     \/ UNCHANGED ring
  /\ UNCHANGED <<ev, quit, packets>>

Keyboard == Pushes("keyboard", "serial", KeyEvent)

SerialPacket ==
  /\ stage = "serial" /\ packets < MaxPackets
  /\ \E e \in SerialEvent : input_event_push(e)
  /\ packets' = packets + 1
  /\ UNCHANGED <<ev, quit, stage>>

SerialDone == stage = "serial" /\ stage' = "mouse" /\ UNCHANGED <<ring, ev, quit, packets>>

\* mouse_process pushes a press or a hold, then the wheel's event.
Button == Pushes("mouse", "wheel", MouseEvent)
Wheel  == Pushes("wheel", "dispatch", MouseEvent)

-----------------------------------------------------------------------------
(* input_dispatch                                                          *)

\* One event is popped and its handler runs; that of a key may set the flag.
Dispatch ==
  /\ stage = "dispatch"
  /\ input_event_pop
  /\ \/ UNCHANGED quit
     \/ ev' \in KeyEvent /\ quit' = TRUE
  /\ UNCHANGED <<stage, packets>>

\* Fault: the loop does not look at the flag again.
FaultyAfterDispatch == "receive"

\* Where the loop goes from an empty queue.
AfterDispatch == IF quit THEN "exit" ELSE "receive"

Drained ==
  /\ stage = "dispatch" /\ count = 0
  /\ stage' = AfterDispatch
  /\ UNCHANGED <<ring, ev, quit, packets>>

Turn == \/ Keyboard \/ SerialPacket \/ SerialDone \/ Button \/ Wheel
        \/ Dispatch \/ Drained

Next == Receive \/ Turn

\* Nothing obliges a device to interrupt, but the program does not stop in the
\* middle of a turn.
Spec == Init /\ [][Next]_vars /\ WF_vars(Turn)

-----------------------------------------------------------------------------
(* Properties                                                              *)

Stages == {"receive", "keyboard", "serial", "mouse", "wheel", "dispatch", "exit"}

\* The indices stay in the array and agree with each other.
TypeOK ==
  /\ queue \in [0 .. Size - 1 -> Event]
  /\ head \in 0 .. Size - 1 /\ tail \in 0 .. Size - 1 /\ count \in 0 .. Size
  /\ ev \in Event
  /\ quit \in BOOLEAN
  /\ stage \in Stages
  /\ packets \in 0 .. MaxPackets

\* Where the n-th event of the ring, counted from 0, is.
Slot(n) == IF head + n < Size THEN head + n ELSE head + n - Size

\* The events of the ring, oldest first.
Waiting == [i \in 1 .. count |-> queue[Slot(i - 1)]]

Queue == INSTANCE Fifo WITH items <- Waiting, taken <- ev

\* The ring with its two indices hands every event over, once and in order: a
\* turn never pushes so many that the oldest is dropped, because each turn
\* leaves the queue empty.
Lossless == Queue!Spec

\* Once a key asked to quit the loop ends, with no further interrupt, and no
\* event is left behind.
QuitEnds == quit ~> (stage = "exit" /\ count = 0)

\* A turn that began is finished: the loop comes back to where it waits.
TurnEnds == stage = "keyboard" ~> stage \in {"receive", "exit"}
=============================================================================
