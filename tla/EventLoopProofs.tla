---------------------------- MODULE EventLoopProofs ----------------------------
(***************************************************************************)
(* The input queue loses, repeats and reorders nothing, for a ring of any  *)
(* size that one turn of the loop cannot overflow.  The invariant that is  *)
(* inductive adds to the types how the indices depend on each other        *)
(* (Agree) and how much a turn has pushed by each of its stages (Room).    *)
(***************************************************************************)
EXTENDS EventLoop, SequenceTheorems, TLAPS

Agree == tail = Slot(count)

Room ==
  /\ stage \in {"receive", "keyboard", "exit"} => count = 0
  /\ stage = "serial" => count <= packets + 1
  /\ stage = "mouse"  => count <= MaxPackets + 1
  /\ stage = "wheel"  => count <= MaxPackets + 2

Inv == TypeOK /\ Agree /\ Room

-----------------------------------------------------------------------------
(* The ring                                                                *)

\* One step round the ring.
LEMMA NextSlot ==
  ASSUME NEW i \in 0 .. Size - 1
  PROVE  (i + 1) % Size = IF i + 1 < Size THEN i + 1 ELSE 0
BY SizeAssumption

\* A sequence is the function of its elements.
LEMMA SeqIsFunction ==
  ASSUME NEW S, NEW s \in Seq(S)
  PROVE  s = [i \in 1 .. Len(s) |-> s[i]]
<1>1. s \in [1 .. Len(s) -> S]
  BY LenProperties
<1> QED
  BY <1>1

\* The waiting events are a sequence, as long as count says.
LEMMA WaitingSeq ==
  ASSUME TypeOK
  PROVE  /\ Waiting \in Seq(Event) /\ Len(Waiting) = count
         /\ \A i \in 1 .. count : Waiting[i] = queue[Slot(i - 1)]
         /\ \A n \in 0 .. Size - 1 : Slot(n) \in 0 .. Size - 1
<1>1. \A n \in 0 .. Size - 1 : Slot(n) \in 0 .. Size - 1
  BY SizeAssumption DEF TypeOK, Slot
<1>2. \A i \in 1 .. count : queue[Slot(i - 1)] \in Event
  BY <1>1, SizeAssumption DEF TypeOK
<1>3. count \in Nat
  BY SizeAssumption DEF TypeOK
<1> QED
  BY <1>1, <1>2, <1>3 DEF Waiting

\* A push with room left appends.
LEMMA PushAppends ==
  ASSUME Inv, count < Size, NEW e \in Event, input_event_push(e)
  PROVE  /\ queue' \in [0 .. Size - 1 -> Event]
         /\ head' = head /\ tail' \in 0 .. Size - 1 /\ count' = count + 1
         /\ Agree' /\ Waiting' = Append(Waiting, e)
<1>1. /\ queue' = [queue EXCEPT ![tail] = e] /\ head' = head
      /\ count' = count + 1 /\ tail' = (tail + 1) % Size
  BY SizeAssumption DEF input_event_push, Inv, TypeOK
<1>2. /\ Size \in Nat /\ head \in 0 .. Size - 1 /\ tail \in 0 .. Size - 1
      /\ count \in 0 .. Size - 1 /\ queue \in [0 .. Size - 1 -> Event]
  BY SizeAssumption DEF Inv, TypeOK
<1>3. tail = Slot(count)
  BY DEF Inv, Agree
<1>4. tail' = IF tail + 1 < Size THEN tail + 1 ELSE 0
  BY <1>1, <1>2, NextSlot
<1>5. queue' \in [0 .. Size - 1 -> Event] /\ tail' \in 0 .. Size - 1
  BY <1>1, <1>2, <1>4
<1>6. Agree'
  BY <1>1, <1>2, <1>3, <1>4 DEF Agree, Slot
<1>7. Waiting' = Append(Waiting, e)
  <2>1. /\ Waiting \in Seq(Event) /\ Len(Waiting) = count
        /\ \A i \in 1 .. count : Waiting[i] = queue[Slot(i - 1)]
    BY WaitingSeq DEF Inv
  <2>2. Waiting' = [i \in 1 .. count + 1 |-> queue'[Slot(i - 1)]]
    BY <1>1 DEF Waiting, Slot
  <2>3. \A i \in 1 .. count : queue'[Slot(i - 1)] = Waiting[i]
    <3> SUFFICES ASSUME NEW i \in 1 .. count
                 PROVE  queue'[Slot(i - 1)] = Waiting[i]
      OBVIOUS
    <3>1. Slot(i - 1) # tail /\ Slot(i - 1) \in 0 .. Size - 1
      BY <1>2, <1>3 DEF Slot
    <3>2. queue'[Slot(i - 1)] = queue[Slot(i - 1)]
      BY <1>1, <1>2, <3>1
    <3> QED BY <2>1, <3>2
  <2>4. queue'[Slot(count)] = e
    BY <1>1, <1>2, <1>3
  <2>5. \A i \in 1 .. count + 1 :
          queue'[Slot(i - 1)] = IF i = count + 1 THEN e ELSE Waiting[i]
    <3> SUFFICES ASSUME NEW i \in 1 .. count + 1
                 PROVE  queue'[Slot(i - 1)] = IF i = count + 1 THEN e ELSE Waiting[i]
      OBVIOUS
    <3>1. CASE i = count + 1
      <4>1. i - 1 = count
        BY <1>2, <3>1
      <4> QED BY <2>4, <3>1, <4>1
    <3>2. CASE i # count + 1
      BY <1>2, <2>3, <3>2
    <3> QED BY <3>1, <3>2
  <2>6. Append(Waiting, e)
          = [i \in 1 .. count + 1 |-> IF i = count + 1 THEN e ELSE Waiting[i]]
    <3> DEFINE a == Append(Waiting, e)
    <3>1. /\ a \in Seq(Event) /\ Len(a) = count + 1
          /\ \A i \in 1 .. count : a[i] = Waiting[i]
          /\ a[count + 1] = e
      BY <2>1, AppendProperties
    <3>2. a = [i \in 1 .. count + 1 |-> a[i]]
      <4> HIDE DEF a
      <4> QED BY <3>1, SeqIsFunction
    <3>3. \A i \in 1 .. count + 1 : a[i] = IF i = count + 1 THEN e ELSE Waiting[i]
      <4> HIDE DEF a
      <4> QED BY <1>2, <3>1
    <3> HIDE DEF a
    <3> QED BY <3>2, <3>3 DEF a
  <2> QED BY <2>2, <2>5, <2>6
<1> QED
  BY <1>1, <1>5, <1>6, <1>7

\* A pop hands out the head of the sequence.
LEMMA PopTakes ==
  ASSUME Inv, input_event_pop
  PROVE  /\ Waiting # << >> /\ ev' = Head(Waiting) /\ Waiting' = Tail(Waiting)
         /\ ev' \in Event /\ head' \in 0 .. Size - 1 /\ count' = count - 1
         /\ Agree'
<1>1. /\ count > 0 /\ ev' = queue[head] /\ head' = (head + 1) % Size
      /\ count' = count - 1 /\ queue' = queue /\ tail' = tail
  BY DEF input_event_pop
<1>2. /\ Size \in Nat /\ head \in 0 .. Size - 1 /\ count \in 1 .. Size
      /\ queue \in [0 .. Size - 1 -> Event] /\ tail = Slot(count)
  BY <1>1, SizeAssumption DEF Inv, TypeOK, Agree
<1>3. head' = IF head + 1 < Size THEN head + 1 ELSE 0
  BY <1>1, <1>2, NextSlot
<1>4. head' \in 0 .. Size - 1 /\ ev' \in Event
  BY <1>1, <1>2, <1>3
<1>5. Agree'
  BY <1>1, <1>2, <1>3 DEF Agree, Slot
<1>6. /\ Waiting \in Seq(Event) /\ Len(Waiting) = count
      /\ \A i \in 1 .. count : Waiting[i] = queue[Slot(i - 1)]
  BY WaitingSeq DEF Inv
<1>7. Waiting # << >> /\ ev' = Head(Waiting)
  <2>1. Slot(0) = head
    BY <1>2 DEF Slot
  <2>2. Waiting[1] = queue[head]
    BY <1>2, <1>6, <2>1
  <2> QED BY <1>1, <1>2, <1>6, <2>2, EmptySeq
<1>8. Waiting' = Tail(Waiting)
  <2>1. Waiting' = [i \in 1 .. count - 1 |-> queue[Slot(i - 1)']]
    BY <1>1 DEF Waiting, Slot
  <2>2. \A i \in 1 .. count - 1 : queue[Slot(i - 1)'] = Waiting[i + 1]
    <3> SUFFICES ASSUME NEW i \in 1 .. count - 1
                 PROVE  queue[Slot(i - 1)'] = Waiting[i + 1]
      OBVIOUS
    <3>1. Slot(i - 1)' = Slot(i)
      BY <1>2, <1>3 DEF Slot
    <3>2. i + 1 \in 1 .. count /\ (i + 1) - 1 = i
      BY <1>2
    <3> QED BY <1>6, <3>1, <3>2
  <2>3. Tail(Waiting) = [i \in 1 .. count - 1 |-> Waiting[i + 1]]
    <3> DEFINE t == Tail(Waiting)
    <3>1. /\ t \in Seq(Event) /\ Len(t) = count - 1
          /\ \A i \in 1 .. Len(t) : t[i] = Waiting[i + 1]
      BY <1>6, <1>7, HeadTailProperties
    <3>2. t = [i \in 1 .. Len(t) |-> t[i]]
      <4> HIDE DEF t
      <4> QED BY <3>1, SeqIsFunction
    <3> HIDE DEF t
    <3> QED BY <3>1, <3>2 DEF t
  <2> QED BY <2>1, <2>2, <2>3
<1> QED
  BY <1>1, <1>4, <1>5, <1>7, <1>8

-----------------------------------------------------------------------------
(* The loop                                                                *)

\* A device's stage pushes one event where there is room for it, or none.
LEMMA PushesStep ==
  ASSUME Inv, count < Size, NEW from, NEW next, NEW events \in SUBSET Event,
         Pushes(from, next, events)
  PROVE  /\ queue' \in [0 .. Size - 1 -> Event]
         /\ head' \in 0 .. Size - 1 /\ tail' \in 0 .. Size - 1
         /\ count' \in {count, count + 1} /\ Agree'
         /\ stage' = next /\ UNCHANGED <<ev, quit, packets>>
         /\ Queue!Next \/ UNCHANGED Queue!vars
<1>1. stage' = next /\ UNCHANGED <<ev, quit, packets>>
  BY DEF Pushes
<1>2. ASSUME NEW e \in events, input_event_push(e)
      PROVE  /\ queue' \in [0 .. Size - 1 -> Event]
             /\ head' \in 0 .. Size - 1 /\ tail' \in 0 .. Size - 1
             /\ count' = count + 1 /\ Agree' /\ Queue!Next
  <2>1. e \in Event
    OBVIOUS
  <2>2. /\ queue' \in [0 .. Size - 1 -> Event] /\ head' = head
        /\ tail' \in 0 .. Size - 1 /\ count' = count + 1
        /\ Agree' /\ Waiting' = Append(Waiting, e)
    BY <1>2, <2>1, PushAppends
  <2>3. Queue!Next
    BY <1>1, <2>1, <2>2 DEF Queue!Next, Queue!Put
  <2> QED BY <2>2, <2>3 DEF Inv, TypeOK
<1>3. CASE UNCHANGED ring
  BY <1>1, <1>3 DEF ring, Inv, TypeOK, Agree, Slot, Queue!vars, Waiting
<1> QED
  BY <1>1, <1>2, <1>3 DEF Pushes

\* Every step keeps the invariant and is a step of the queue, or none.
LEMMA StepSound ==
  ASSUME Inv, [Next]_vars
  PROVE  Inv' /\ (Queue!Next \/ UNCHANGED Queue!vars)
<1> USE SizeAssumption DEF Inv
<1>0. KeyEvent \in SUBSET Event /\ MouseEvent \in SUBSET Event /\ SerialEvent \subseteq Event
  BY DEF Event
<1>1. CASE Receive
  BY <1>1 DEF Receive, ring, TypeOK, Stages, Agree, Slot, Room, Waiting, Queue!vars
<1>2. CASE Keyboard
  <2>1. count = 0 /\ count < Size
    BY <1>2 DEF Keyboard, Pushes, Room, TypeOK
  <2>2. /\ queue' \in [0 .. Size - 1 -> Event]
        /\ head' \in 0 .. Size - 1 /\ tail' \in 0 .. Size - 1
        /\ count' \in {count, count + 1} /\ Agree'
        /\ stage' = "serial" /\ UNCHANGED <<ev, quit, packets>>
        /\ Queue!Next \/ UNCHANGED Queue!vars
    BY <1>0, <1>2, <2>1, PushesStep DEF Keyboard
  <2> QED BY <2>1, <2>2 DEF TypeOK, Stages, Room
<1>3. CASE SerialPacket
  <2>1. PICK e \in SerialEvent : input_event_push(e)
    BY <1>3 DEF SerialPacket
  <2>2. count < Size /\ e \in Event
    BY <1>0, <1>3 DEF SerialPacket, Room, TypeOK
  <2>3. /\ queue' \in [0 .. Size - 1 -> Event] /\ head' = head
        /\ tail' \in 0 .. Size - 1 /\ count' = count + 1
        /\ Agree' /\ Waiting' = Append(Waiting, e)
    BY <2>1, <2>2, PushAppends
  <2>4. Queue!Next
    BY <1>3, <2>2, <2>3 DEF SerialPacket, Queue!Next, Queue!Put
  <2> QED BY <1>3, <2>2, <2>3, <2>4 DEF SerialPacket, TypeOK, Stages, Room
<1>4. CASE SerialDone
  BY <1>4 DEF SerialDone, ring, TypeOK, Stages, Agree, Slot, Room, Waiting, Queue!vars
<1>5. CASE Button
  <2>1. count <= MaxPackets + 1 /\ count < Size
    BY <1>5 DEF Button, Pushes, Room, TypeOK
  <2>2. /\ queue' \in [0 .. Size - 1 -> Event]
        /\ head' \in 0 .. Size - 1 /\ tail' \in 0 .. Size - 1
        /\ count' \in {count, count + 1} /\ Agree'
        /\ stage' = "wheel" /\ UNCHANGED <<ev, quit, packets>>
        /\ Queue!Next \/ UNCHANGED Queue!vars
    BY <1>0, <1>5, <2>1, PushesStep DEF Button
  <2> QED BY <2>1, <2>2 DEF TypeOK, Stages, Room
<1>6. CASE Wheel
  <2>1. count <= MaxPackets + 2 /\ count < Size
    BY <1>6 DEF Wheel, Pushes, Room, TypeOK
  <2>2. /\ queue' \in [0 .. Size - 1 -> Event]
        /\ head' \in 0 .. Size - 1 /\ tail' \in 0 .. Size - 1
        /\ count' \in {count, count + 1} /\ Agree'
        /\ stage' = "dispatch" /\ UNCHANGED <<ev, quit, packets>>
        /\ Queue!Next \/ UNCHANGED Queue!vars
    BY <1>0, <1>6, <2>1, PushesStep DEF Wheel
  <2> QED BY <2>1, <2>2 DEF TypeOK, Stages, Room
<1>7. CASE Dispatch
  <2>1. /\ Waiting # << >> /\ ev' = Head(Waiting) /\ Waiting' = Tail(Waiting)
        /\ ev' \in Event /\ head' \in 0 .. Size - 1 /\ count' = count - 1
        /\ Agree'
    BY <1>7, PopTakes DEF Dispatch
  <2>2. Queue!Next
    BY <2>1 DEF Queue!Next, Queue!Get
  <2>3. count > 0 /\ queue' = queue /\ tail' = tail /\ quit' \in BOOLEAN
    BY <1>7 DEF Dispatch, input_event_pop, TypeOK
  <2> QED BY <1>7, <2>1, <2>2, <2>3 DEF Dispatch, TypeOK, Stages, Room
<1>8. CASE Drained
  BY <1>8 DEF Drained, AfterDispatch, ring, TypeOK, Stages, Agree, Slot, Room, Waiting,
              Queue!vars
<1>9. CASE UNCHANGED vars
  BY <1>9 DEF vars, TypeOK, Agree, Slot, Room, Waiting, Queue!vars
<1> QED
  BY <1>1, <1>2, <1>3, <1>4, <1>5, <1>6, <1>7, <1>8, <1>9 DEF Next, Turn

\* The empty ring satisfies the invariant and is the empty queue.
LEMMA InitSound == Init => Inv /\ Queue!Init
<1> SUFFICES ASSUME Init
             PROVE  Inv /\ Queue!Init
  OBVIOUS
<1>1. Inv
  <2>1. /\ 0 \in 0 .. Size - 1 /\ 0 \in 0 .. Size /\ 0 \in 0 .. MaxPackets
        /\ Size \in Nat /\ MaxPackets \in Nat
    BY SizeAssumption
  <2>2. queue \in [0 .. Size - 1 -> Event] /\ ev \in Event
    BY DEF Init, Event
  <2>3. TypeOK
    BY <2>1, <2>2 DEF Init, TypeOK, Stages
  <2>4. Agree
    BY <2>1 DEF Init, Agree, Slot
  <2>5. Room
    BY <2>1 DEF Init, Room
  <2> QED BY <2>3, <2>4, <2>5 DEF Inv
<1>2. Waiting = << >>
  <2>1. Waiting \in Seq(Event) /\ Len(Waiting) = 0
    BY <1>1, WaitingSeq DEF Inv, Init
  <2> QED BY <2>1, EmptySeq
<1> QED
  BY <1>1, <1>2 DEF Queue!Init, Init, Event

\* The indices of the ring stay in the array.
THEOREM RingSafe == Spec => []TypeOK
<1>1. Inv /\ [Next]_vars => Inv'
  BY StepSound
<1>2. Inv => TypeOK
  BY DEF Inv
<1> QED
  BY <1>1, <1>2, InitSound, PTL DEF Spec

\* Every event that a device pushes reaches its handler, once and in order,
\* whatever the size of the ring.
THEOREM QueueLossless == Spec => Lossless
<1>1. Inv /\ [Next]_vars => Inv' /\ [Queue!Next]_(Queue!vars)
  BY StepSound
<1> QED
  BY <1>1, InitSound, PTL DEF Spec, Lossless, Queue!Spec
=============================================================================
