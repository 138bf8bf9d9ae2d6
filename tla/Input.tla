---------------------------------- MODULE Input ----------------------------------
(***************************************************************************)
(* From the keyboard and the mouse to the events of the input queue: the   *)
(* interrupt handlers of the drivers (keyboard.c, mouse.c), which share    *)
(* the output buffer of one controller, and the decoders (build_scancode   *)
(* with keyboard_process, build_packet with mouse_process).                *)
(*                                                                         *)
(* A byte of the keyboard is a code and the bit that tells a press from a  *)
(* release.  Of a byte of the mouse only the button and bit 3 are kept;    *)
(* where it is a displacement, bit 3 stands for any value but zero.  What  *)
(* happens to the events is the module EventLoop's.                        *)
(***************************************************************************)
EXTENDS Naturals, FiniteSets, Sequences, Functions

CONSTANTS Keys,        \* the keys that are used, of those below
          MaxHeld,     \* how many of them are held at once
          PacketSize,  \* packet_size: 4 for a mouse with a wheel
          MaxDamage    \* bytes lost or in error, and interrupts without a byte

Modifiers == {"ctrl", "shift", "altgr"}
AllKeys   == {"LCtrl", "RCtrl", "LShift", "RShift", "AltGr", "LAlt",
              "Letter", "Up", "Keypad8", "Print"}
Devices   == {"keyboard", "mouse"}

ASSUME InputAssumption ==
  /\ Keys \subseteq AllKeys /\ MaxHeld \in Nat /\ MaxDamage \in Nat
  /\ PacketSize \in {3, 4}

VARIABLES held, wire, last,          \* the keyboard: keys down, bytes to come,
                                     \* and the key they are of
          button, was, packet,       \* the mouse: its button now and one packet
                                     \* ago, and the bytes to come
          out, irq,                  \* the controller's buffer, and interrupts
          scancode, two_byte, mods,  \* keyboard.c of the driver, ps, and kb
          bytes, prev_lb,            \* packet_bytes[0 .. packet_index - 1]
          damage

keyboard == <<held, wire, last>>
mouse    == <<button, was, packet>>
decoders == <<scancode, two_byte, mods, bytes, prev_lb>>
vars     == <<keyboard, mouse, out, irq, decoders, damage>>

-----------------------------------------------------------------------------
(* What the devices send                                                   *)

Key(code, make) == [code |-> code, make |-> make]
E0 == Key("E0", TRUE)

\* Keys that share a code with another one send E0 before it, and Print pretends
\* that a shift key is held.
Plain    == [LCtrl |-> "ctrl", LShift |-> "lshift", RShift |-> "rshift",
             LAlt |-> "alt", Letter |-> "letter", Keypad8 |-> "pad8"]
Extended == [RCtrl |-> "ctrl", AltGr |-> "alt", Up |-> "pad8"]

Sends(key, make) ==
  IF key \in DOMAIN Plain THEN <<Key(Plain[key], make)>>
  ELSE IF key \in DOMAIN Extended THEN <<E0, Key(Extended[key], make)>>
  ELSE IF make THEN <<E0, Key("lshift", TRUE), E0, Key("star", TRUE)>>
  ELSE <<E0, Key("star", FALSE), E0, Key("lshift", FALSE)>>

\* The codes in use, and one without a meaning.
KeyBytes ==
  LET codes == UNION { {b.code : b \in Range(Sends(key, TRUE))} : key \in Keys }
  IN  {E0} \cup {Key(c, b) : c \in (codes \ {"E0"}) \cup {"none"}, b \in BOOLEAN}

MouseBytes == [bit3 : BOOLEAN, lb : BOOLEAN]
First(lb)  == [bit3 |-> TRUE, lb |-> lb]
Zero       == [bit3 |-> FALSE, lb |-> FALSE]
Other      == [bit3 |-> TRUE, lb |-> TRUE]

NoByte == [dev |-> "none"]

-----------------------------------------------------------------------------
(* The handlers                                                            *)

\* What is in the buffer once keyboard_ih has run, which takes any byte, and once
\* mouse_ih has run, which takes only its own.  A byte in error stays.
Readable(slot)  == slot # NoByte /\ ~slot.bad
KeyboardReads   == "keyboard" \in irq /\ Readable(out)
AfterKeyboard   == IF KeyboardReads THEN NoByte ELSE out
MouseReads      == /\ "mouse" \in irq /\ Readable(AfterKeyboard)
                   /\ AfterKeyboard.dev = "mouse"

\* A byte of the mouse may be any code to the keyboard's handler.
keyboard_ih ==
  IF ~KeyboardReads THEN UNCHANGED scancode
  ELSE IF out.dev = "keyboard" THEN scancode' = out.byte
  ELSE scancode' \in KeyBytes

\* The modifier a code stands for.
ModifierOf(ext, code) ==
  IF code = "ctrl" THEN "ctrl"
  ELSE IF ext /\ code = "alt" THEN "altgr"
  ELSE IF ~ext /\ code \in {"lshift", "rshift"} THEN "shift"
  ELSE "none"

Types(ext, code) == <<ext, code>> \in {<<FALSE, "letter">>, <<TRUE, "pad8">>}

\* Fault: shift is looked for among the extended codes as well.
FaultyKeyboardProcess(ext, byte) ==
  LET m == IF byte.code = "lshift" THEN "shift" ELSE ModifierOf(ext, byte.code) IN
  mods' = IF m = "none" THEN mods
          ELSE IF byte.make THEN mods \cup {m} ELSE mods \ {m}

\* keyboard_process and handle_extended without the event: the modifiers.
keyboard_process(ext, byte) ==
  LET m == ModifierOf(ext, byte.code) IN
  mods' = IF m = "none" THEN mods
          ELSE IF byte.make THEN mods \cup {m} ELSE mods \ {m}

\* Fault: letting a key go types as well.
FaultyKeyEvents(ext, byte) ==
  IF Types(ext, byte.code) THEN <<[ext |-> ext, code |-> byte.code]>> ELSE << >>

\* The event of keyboard_process.
KeyEvents(ext, byte) ==
  IF byte.make /\ Types(ext, byte.code)
    THEN <<[ext |-> ext, code |-> byte.code]>> ELSE << >>

build_scancode == two_byte' = (scancode' = E0)

\* keyboard_handler goes on with whatever scancode there is, read now or before.
KeyboardHandler ==
  IF "keyboard" \notin irq THEN UNCHANGED <<scancode, two_byte, mods>>
  ELSE /\ keyboard_ih /\ build_scancode
       /\ IF scancode' = E0 THEN UNCHANGED mods
          ELSE keyboard_process(two_byte, scancode')

\* The event that is pushed on the way.
KeyPushed ==
  IF "keyboard" \notin irq \/ scancode' = E0 THEN << >>
  ELSE KeyEvents(two_byte, scancode')

\* Fault: a packet may begin with any byte.
FaultyTakesByte(byte) == TRUE

\* The first byte of a packet is known by its bit 3.
TakesByte(byte) == bytes # << >> \/ byte.bit3

Complete == MouseReads /\ TakesByte(out.byte) /\ Len(bytes) + 1 = PacketSize

mouse_ih ==
  bytes' = IF ~MouseReads \/ ~TakesByte(out.byte) THEN bytes
           ELSE IF Complete THEN << >> ELSE Append(bytes, out.byte)

\* A mouse without a wheel has no third displacement.
Wheeled == PacketSize = 4 /\ out.byte.bit3

Mouse(clicked, holding) == [clicked |-> clicked, holding |-> holding]

\* Fault: what the button was is not kept.
FaultyMouseProcess(lb) == UNCHANGED prev_lb

mouse_process(lb) == prev_lb' = lb

MouseHandler ==
  /\ mouse_ih
  /\ IF Complete THEN mouse_process(bytes[1].lb) ELSE UNCHANGED prev_lb

MousePushed ==
  IF ~Complete THEN << >>
  ELSE (IF bytes[1].lb THEN <<Mouse(~prev_lb, prev_lb)>> ELSE << >>)
         \o (IF Wheeled THEN <<Mouse(FALSE, FALSE)>> ELSE << >>)

-----------------------------------------------------------------------------

Init ==
  /\ held = {} /\ wire = << >> /\ last = << >>
  /\ button = FALSE /\ was = FALSE /\ packet = << >>
  /\ out = NoByte /\ irq = {}
  /\ scancode = Key("none", TRUE) /\ two_byte = FALSE /\ mods = {}
  /\ bytes = << >> /\ prev_lb = FALSE
  /\ damage = 0

\* A key is pressed, repeated or let go, once what was sent before has left.
KeyAction(key, make) ==
  /\ wire = << >>
  /\ make \/ key \in held
  /\ held' = IF make THEN held \cup {key} ELSE held \ {key}
  /\ Cardinality(held') <= MaxHeld
  /\ wire' = Sends(key, make)
  /\ last' = <<key, make>>
  /\ UNCHANGED <<mouse, out, irq, decoders, damage>>

\* The mouse reports its button and displacements, all zero or none of them.
Sample ==
  /\ packet = << >>
  /\ was' = button
  /\ \E lb \in BOOLEAN, data \in {Zero, Other} :
       /\ button' = lb
       /\ packet' = [i \in 1 .. PacketSize |-> IF i = 1 THEN First(lb) ELSE data]
  /\ UNCHANGED <<keyboard, out, irq, decoders, damage>>

\* What the next byte of a device completes: a code, or a packet.
Completes(dev) ==
  IF dev = "mouse" THEN IF Len(packet) = 1 THEN <<was, button>> ELSE << >>
                   ELSE IF Len(wire) = 1 THEN last ELSE << >>

\* The next byte of a device leaves it; was and last are of the bytes to come.
Leaves(dev) ==
  IF dev = "mouse"
    THEN /\ packet' = Tail(packet)
         /\ was' = (was /\ Len(packet) > 1)
         /\ UNCHANGED <<keyboard, button>>
    ELSE /\ wire' = Tail(wire)
         /\ last' = IF Len(wire) > 1 THEN last ELSE << >>
         /\ UNCHANGED <<mouse, held>>

\* The controller takes a byte into its buffer if that is empty, and interrupts.
Place(dev, bad) ==
  LET from == IF dev = "mouse" THEN packet ELSE wire IN
  /\ out = NoByte /\ from # << >>
  /\ bad => damage < MaxDamage
  /\ out' = [dev |-> dev, byte |-> Head(from), bad |-> bad,
              of |-> Completes(dev)]
  /\ irq' = irq \cup {dev}
  /\ damage' = IF bad THEN damage + 1 ELSE damage
  /\ Leaves(dev)
  /\ UNCHANGED decoders

\* A byte does not reach the controller.
Lose(dev) ==
  /\ damage < MaxDamage /\ damage' = damage + 1
  /\ (IF dev = "mouse" THEN packet ELSE wire) # << >>
  /\ Leaves(dev)
  /\ UNCHANGED <<out, irq, decoders>>

\* An interrupt for a byte that was read already, as the polling of the start-up
\* leaves them behind.
Spurious(dev) ==
  /\ damage < MaxDamage /\ damage' = damage + 1
  /\ irq' = irq \cup {dev}
  /\ UNCHANGED <<keyboard, mouse, out, decoders>>

interrupts_handler ==
  /\ irq # {}
  /\ KeyboardHandler /\ MouseHandler
  /\ out' = IF MouseReads THEN NoByte ELSE AfterKeyboard
  /\ irq' = {}
  /\ UNCHANGED <<keyboard, mouse, damage>>

PlaceAny == \E dev \in Devices, bad \in BOOLEAN : Place(dev, bad)

Next ==
  \/ \E key \in Keys, make \in BOOLEAN : KeyAction(key, make)
  \/ Sample
  \/ PlaceAny
  \/ \E dev \in Devices : Lose(dev) \/ Spurious(dev)
  \/ interrupts_handler

\* The controller gives a byte on as soon as its buffer is free, neither device
\* shuts the other out, and interrupts are handled.
Fairness ==
  /\ \A dev \in Devices : SF_vars(\E bad \in BOOLEAN : Place(dev, bad))
  /\ WF_vars(interrupts_handler)

Spec == Init /\ [][Next]_vars /\ Fairness

-----------------------------------------------------------------------------
(* Properties                                                              *)

TypeOK ==
  /\ held \subseteq Keys /\ wire \in Seq(KeyBytes)
  /\ last = << >> \/ last \in Keys \X BOOLEAN
  /\ button \in BOOLEAN /\ was \in BOOLEAN /\ packet \in Seq(MouseBytes)
  /\ irq \subseteq Devices /\ damage \in 0 .. MaxDamage
  /\ scancode \in KeyBytes /\ two_byte \in BOOLEAN /\ mods \subseteq Modifiers
  /\ bytes \in Seq(MouseBytes) /\ Len(bytes) < PacketSize
  /\ bytes # << >> => bytes[1].bit3
  /\ prev_lb \in BOOLEAN

\* Nothing on its way from the keyboard, or from the mouse.
KeyboardQuiet == wire = << >> /\ (out # NoByte => out.dev # "keyboard")
MouseQuiet    == packet = << >> /\ (out # NoByte => out.dev # "mouse")

HeldBy == [ctrl |-> {"LCtrl", "RCtrl"}, shift |-> {"LShift", "RShift"},
           altgr |-> {"AltGr"}]

\* As long as no byte is damaged, no modifier is left on with its keys up, and none
\* is off with all of them down, whatever is pressed in between and whatever the
\* mouse sends meanwhile (kb of keyboard.c).  With one shift key of two let go it
\* may be either.
ModifiersFollowKeys ==
  damage = 0 /\ KeyboardQuiet =>
    \A m \in Modifiers : /\ m \in mods => HeldBy[m] \cap held # {}
                         /\ HeldBy[m] \subseteq held => m \in mods

Typing == [Letter |-> <<FALSE, "letter">>, Up |-> <<TRUE, "pad8">>]

\* Each press or repeat of a key that types gives one event, that key's, with the
\* last byte of its code, and nothing else gives any (build_scancode, two_byte).
EachPressTyped ==
  [][ interrupts_handler /\ damage' = 0 /\ irq = {"keyboard"} =>
        LET of == out.of IN
        KeyPushed = IF of # << >> /\ of[2] /\ of[1] \in DOMAIN Typing
                      THEN <<[ext |-> Typing[of[1]][1], code |-> Typing[of[1]][2]]>>
                      ELSE << >> ]_vars

\* A packet with the button down gives a click if it was up in the packet before,
\* and a drag otherwise, whatever keys are pressed between its bytes; only a turn
\* of the wheel may come after it (prev_lb of mouse_process).
ClickPerPress ==
  [][ interrupts_handler /\ damage' = 0 /\ irq = {"mouse"} =>
        LET of    == out.of
            click == IF of # << >> /\ of[2] THEN <<Mouse(~of[1], of[1])>> ELSE << >>
        IN  MousePushed \in {click, click \o <<Mouse(FALSE, FALSE)>>} ]_vars

\* The displacements of the packet that is on its way are zero.
Still == \A i \in DOMAIN packet : i + PacketSize - Len(packet) > 1 => packet[i] = Zero

\* Where a packet has come to is where it is taken to be (packet_index).
InStep == out = NoByte => Len(bytes) = (PacketSize - Len(packet)) % PacketSize

\* Out of step after a loss, mouse_ih finds the packets again once the mouse
\* rests while it reports, by bit 3 of the first byte.
Resyncs == ([]<><<Sample>>_vars /\ <>[]Still) => <>[]InStep
=============================================================================
