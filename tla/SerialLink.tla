------------------------------- MODULE SerialLink -------------------------------
(***************************************************************************)
(* One direction of the serial line, byte by byte: build_packet_serial and *)
(* send_packet of src/proj/code/controller/serial.c, the two UARTs, the    *)
(* interrupt handler and queue of src/framework/src/drivers/serial_port.c, *)
(* and the decoder of serial.c.                                            *)
(*                                                                         *)
(* A byte is lost when its transmission times out or it finds the hardware *)
(* FIFO full, and may arrive garbled; there is no flow control, and the    *)
(* receiving program is free to be late.  A byte is a number below Base    *)
(* (256 in the code), the next to last of which starts a packet.           *)
(***************************************************************************)
EXTENDS Integers, Sequences, SequencesExt, FiniteSets

CONSTANTS Base,            \* how many values a byte has
          Requests,        \* packets the program asks for: command and payload
          HwSize, Trigger, \* bytes the UART's FIFO holds; fills it to interrupt
          SwSize,          \* QUEUE_SIZE
          MaxSent,         \* bound on the packets sent
          MaxDamage        \* bound on the bytes lost or garbled

ASSUME SizeAssumption ==
  /\ Base \in Nat /\ Base > 6
  /\ {HwSize, Trigger, SwSize, MaxSent} \subseteq Nat \ {0} /\ Trigger <= HwSize
  /\ MaxDamage \in Nat

Byte == 0 .. Base - 1
PKT_START_BYTE == Base - 2

Packet == [cmd : Byte, payload : Seq(Byte)]

\* No command has the number of the start byte (serial.h).
ASSUME RequestsAssumption ==
  Requests \subseteq Packet /\ \A r \in Requests : r.cmd # PKT_START_BYTE

VARIABLES tx,        \* bytes of the packet that are still to be written
          wire,      \* the byte on its way, if any
          hw,        \* the receiver's hardware FIFO: bytes, good or not
          oe,        \* an overrun happened since the line status was last read
          rx_queue,  \* the software FIFO
          stage,     \* what the receiving program does
          d,         \* the decoder: state, current_cmd, payload_len and the
                     \* payload_idx bytes of payload_buf
          sent, delivered, damage    \* history

vars == <<tx, wire, hw, oe, rx_queue, stage, d, sent, delivered, damage>>

Init ==
  /\ tx = << >> /\ wire = << >> /\ hw = << >> /\ oe = FALSE /\ rx_queue = << >>
  /\ stage = "elsewhere"
  /\ d = [state |-> "WAIT_START", cmd |-> 0, len |-> 0, buf |-> << >>]
  /\ sent = << >> /\ delivered = << >> /\ damage = 0

-----------------------------------------------------------------------------
(* The sender                                                              *)

\* What the length byte can hold.
MaxPayload == Base - 4

\* Fault: a payload is not cut.
FaultyOnWire(p) == p

\* The packet as it is sent: a payload that is too long is cut.
OnWire(p) ==
  [p EXCEPT !.payload = IF Len(@) > MaxPayload THEN SubSeq(@, 1, MaxPayload) ELSE @]

Encode(p) == <<PKT_START_BYTE, p.cmd, Len(p.payload) % Base>> \o p.payload

Build(p) ==
  /\ tx = << >> /\ Len(sent) < MaxSent
  /\ tx' = Encode(OnWire(p))
  /\ sent' = Append(sent, p)
  /\ UNCHANGED <<wire, hw, oe, rx_queue, stage, d, delivered, damage>>

\* Room for one more byte to go wrong.
Damages == damage < MaxDamage /\ damage' = damage + 1

\* serial_write_char; send_packet goes on with the next byte when it fails.
WriteChar ==
  /\ tx # << >> /\ tx' = Tail(tx)
  /\ \/ wire = << >> /\ wire' = <<Head(tx)>> /\ UNCHANGED damage
     \/ Damages /\ UNCHANGED wire
  /\ UNCHANGED <<hw, oe, rx_queue, stage, d, sent, delivered>>

-----------------------------------------------------------------------------
(* The receiver's UART                                                     *)

Arrive ==
  /\ wire # << >> /\ wire' = << >>
  /\ \/ /\ Len(hw) < HwSize
        /\ hw' = Append(hw, [byte |-> wire[1], good |-> TRUE])
        /\ UNCHANGED <<oe, damage>>
     \/ /\ Len(hw) < HwSize
        /\ \E b \in Byte \ {wire[1]} : hw' = Append(hw, [byte |-> b, good |-> FALSE])
        /\ Damages
        /\ UNCHANGED oe
     \/ Len(hw) = HwSize /\ oe' = TRUE /\ Damages /\ UNCHANGED hw
  /\ UNCHANGED <<tx, rx_queue, stage, d, sent, delivered>>

\* The receiving program writes to the line itself: it reads the line status,
\* which clears the errors there.
WriteBack ==
  /\ stage = "elsewhere"
  /\ oe' = FALSE
  /\ hw' = [i \in 1 .. Len(hw) |-> IF i = 1 THEN [hw[i] EXCEPT !.good = TRUE] ELSE hw[i]]
  /\ UNCHANGED <<tx, wire, rx_queue, stage, d, sent, delivered, damage>>

-----------------------------------------------------------------------------
(* The receiving program                                                   *)

\* Fault: the time-out interrupt is not looked at.
FaultyInterrupted(bytes) == bytes >= Trigger

\* Data ready, or bytes that waited below the trigger level for some time.
Interrupted(bytes) == bytes >= Trigger \/ bytes > 0

serial_process ==
  /\ stage = "elsewhere" /\ Interrupted(Len(hw))
  /\ stage' = "reading"
  /\ UNCHANGED <<tx, wire, hw, oe, rx_queue, d, sent, delivered, damage>>

\* One turn of the loop of serial_ih.  The line status speaks of the first
\* byte, and of any overrun; either way the byte is read.  A good one that an
\* overrun makes the program drop is damage, of which MaxDamage is no bound.
serial_ih ==
  /\ stage = "reading"
  /\ IF hw # << >> /\ Len(rx_queue) < SwSize
     THEN /\ rx_queue' = IF Head(hw).good /\ ~oe THEN Append(rx_queue, Head(hw).byte)
                         ELSE rx_queue
          /\ damage' = IF Head(hw).good /\ oe THEN damage + 1 ELSE damage
          /\ hw' = Tail(hw) /\ oe' = FALSE
          /\ UNCHANGED stage
     ELSE stage' = "decoding" /\ UNCHANGED <<hw, oe, rx_queue, damage>>
  /\ UNCHANGED <<tx, wire, d, sent, delivered>>

\* Fault: what comes between two packets is not discarded.
FaultyStarts(byte) == TRUE

Starts(byte) == byte = PKT_START_BYTE

\* Fault: payload_idx is not reset.
FaultyHandle(e, byte) ==
  CASE e.state = "WAIT_START" ->
         IF Starts(byte) THEN [e EXCEPT !.state = "READ_CMD"] ELSE e
    [] e.state = "READ_CMD" -> [e EXCEPT !.state = "READ_LEN", !.cmd = byte]
    [] e.state = "READ_LEN" ->
         [e EXCEPT !.state = IF byte = 0 THEN "WAIT_START" ELSE "READ_PAYLOAD", !.len = byte]
    [] e.state = "READ_PAYLOAD" ->
         [e EXCEPT !.state = IF Len(e.buf) + 1 >= e.len THEN "WAIT_START" ELSE "READ_PAYLOAD",
                   !.buf = Append(@, byte)]

\* serial_handle_byte: the decoder after a byte.
Handle(e, byte) ==
  CASE e.state = "WAIT_START" ->
         IF Starts(byte) THEN [e EXCEPT !.state = "READ_CMD"] ELSE e
    [] e.state = "READ_CMD" -> [e EXCEPT !.state = "READ_LEN", !.cmd = byte]
    [] e.state = "READ_LEN" ->
         [e EXCEPT !.state = IF byte = 0 THEN "WAIT_START" ELSE "READ_PAYLOAD",
                   !.len = byte, !.buf = << >>]
    [] e.state = "READ_PAYLOAD" ->
         [e EXCEPT !.state = IF Len(e.buf) + 1 >= e.len THEN "WAIT_START" ELSE "READ_PAYLOAD",
                   !.buf = Append(@, byte)]

\* A byte that leaves e as the decoder has completed a packet.
Completes(before, e) ==
  before.state \in {"READ_LEN", "READ_PAYLOAD"} /\ e.state = "WAIT_START"

Event(e) == [cmd |-> e.cmd, payload |-> e.buf]

\* serial_read_char and what its byte does, until the queue is empty.
serial_handle_byte ==
  /\ stage = "decoding"
  /\ IF rx_queue # << >>
     THEN LET e == Handle(d, Head(rx_queue))
          IN  /\ d' = e
              /\ delivered' = IF Completes(d, e) THEN Append(delivered, Event(e)) ELSE delivered
              /\ rx_queue' = Tail(rx_queue)
              /\ UNCHANGED stage
     ELSE stage' = "elsewhere" /\ UNCHANGED <<rx_queue, d, delivered>>
  /\ UNCHANGED <<tx, wire, hw, oe, sent, damage>>

Next ==
  \/ \E p \in Requests : Build(p)
  \/ WriteChar \/ Arrive \/ WriteBack
  \/ serial_process \/ serial_ih \/ serial_handle_byte

\* The hardware and both programs go on.  A byte that waits interrupts, and
\* serial_process runs to its end.
Fairness == /\ WF_vars(WriteChar) /\ WF_vars(Arrive)
            /\ WF_vars(serial_process) /\ WF_vars(serial_ih) /\ WF_vars(serial_handle_byte)

Spec == Init /\ [][Next]_vars /\ Fairness

-----------------------------------------------------------------------------
(* Properties                                                              *)

TypeOK ==
  /\ tx \in Seq(Byte) /\ wire \in Seq(Byte) /\ Len(wire) <= 1
  /\ hw \in Seq([byte : Byte, good : BOOLEAN]) /\ Len(hw) <= HwSize /\ oe \in BOOLEAN
  /\ rx_queue \in Seq(Byte) /\ Len(rx_queue) <= SwSize
  /\ stage \in {"elsewhere", "reading", "decoding"}
  /\ d.state \in {"WAIT_START", "READ_CMD", "READ_LEN", "READ_PAYLOAD"}
  /\ d.cmd \in Byte /\ d.len \in Byte
  /\ d.buf \in Seq(Byte) /\ Len(d.buf) <= d.len
  /\ sent \in Seq(Requests) /\ delivered \in Seq(Packet) /\ damage \in Nat

\* The bytes that are under way, in the order in which they will be decoded.
UnderWay == rx_queue \o [i \in 1 .. Len(hw) |-> hw[i].byte] \o wire \o tx

\* The decoder and what it has delivered, after one more byte.
Taken(acc, byte) ==
  LET e == Handle(acc.d, byte)
  IN  [d |-> e, out |-> IF Completes(acc.d, e) THEN Append(acc.out, Event(e)) ELSE acc.out]

\* The same after each of the bytes, from decoder e on.
Decoding(e, bytes) ==
  LET after[i \in 0 .. Len(bytes)] ==
        IF i = 0 THEN [d |-> e, out |-> << >>] ELSE Taken(after[i - 1], bytes[i])
  IN  after

\* The packets that the decoder makes of bytes from now on.
Decoded(bytes) == Decoding(d, bytes)[Len(bytes)].out

\* As long as no byte was lost or garbled, the packets delivered and those that
\* the bytes under way will make are the packets sent, cut to what a packet
\* carries: whatever their payloads hold, however the bytes of one are spread
\* over interrupts and however full the FIFOs are.
Faithful ==
  damage = 0 => delivered \o Decoded(UnderWay) = [i \in 1 .. Len(sent) |-> OnWire(sent[i])]

\* A start byte in no payload: true of text, not of every row or column.
StartsOnly == \A i \in 1 .. Len(sent) : PKT_START_BYTE \notin ToSet(sent[i].payload)

\* The packets delivered at the places kept were sent, in this order.
Intact(kept) ==
  \E at \in [kept -> 1 .. Len(sent)] :
    \A i \in kept : /\ delivered[i] = OnWire(sent[at[i]])
                    /\ \A j \in kept : j < i => at[j] < at[i]

\* A damaged byte makes the decoder deliver one wrong packet at most, however
\* many it makes it miss.
DamageIsLocal ==
  StartsOnly =>
    \E bad \in SUBSET (1 .. Len(delivered)) :
      Cardinality(bad) <= damage /\ Intact(1 .. Len(delivered) \ bad)

\* No byte is left in a FIFO for ever (serial_ih).
Drains == []<>(tx = << >> /\ wire = << >> /\ hw = << >> /\ rx_queue = << >>)
=============================================================================
