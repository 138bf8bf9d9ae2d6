------------------------------ MODULE InputProofs ------------------------------
(***************************************************************************)
(* Input with every set of keys, any number of them held and any packet    *)
(* size: the types hold always, and as long as no byte is damaged the two  *)
(* decoders read from each device what it sent.                            *)
(*                                                                         *)
(* The decoders lag behind the devices: a device may begin to send the     *)
(* next code or packet while the last byte of the one before it is still   *)
(* in the controller's buffer.  The inductive invariant says which byte of *)
(* which code, and of which packet, is the next to be read.                *)
(***************************************************************************)
EXTENDS Input, TLAPS

\* A byte in the controller's buffer is one of its device's.
OutOK ==
  \/ out = NoByte
  \/ /\ out.dev = "keyboard"
     /\ out.byte \in KeyBytes /\ out.bad \in BOOLEAN
     /\ out.of = << >> \/ out.of \in Keys \X BOOLEAN
  \/ /\ out.dev = "mouse"
     /\ out.byte \in MouseBytes /\ out.bad \in BOOLEAN
     /\ out.of = << >> \/ out.of \in BOOLEAN \X BOOLEAN

\* A byte in the buffer has been announced by its device's interrupt alone.
Prompt ==
  /\ out = NoByte => irq = {}
  /\ out # NoByte => irq = {out.dev} /\ ~out.bad

-----------------------------------------------------------------------------
(* The keyboard                                                            *)

FromKeyboard == out.dev = "keyboard"

\* The code that is being sent, and how much of it has left the keyboard.
Code == Sends(last[1], last[2])
Left == Len(Code) - Len(wire)

\* Byte k of code s follows an E0.
Escaped(s, k) == k > 1 /\ s[k - 1] = E0

\* What is still to come is the end of the code.
WireOK ==
  IF last = << >> THEN wire = << >>
  ELSE /\ Len(wire) \in 1 .. Len(Code)
       /\ \A i \in 1 .. Len(wire) : wire[i] = Code[Left + i]

\* The byte in the buffer is the last one of an earlier code, or the one before
\* those to come; two_byte says whether an E0 was read before it.
DecoderOK ==
  IF ~FromKeyboard THEN two_byte <=> last # << >> /\ Escaped(Code, Left + 1)
  ELSE IF out.of = << >>
  THEN /\ last # << >> /\ Left \in 1 .. Len(Code) - 1
       /\ out.byte = Code[Left] /\ (two_byte <=> Escaped(Code, Left))
  ELSE LET s == Sends(out.of[1], out.of[2])
       IN  /\ out.byte = s[Len(s)] /\ (two_byte <=> Escaped(s, Len(s)))
           /\ last # << >> => Left = 0

\* The keys of which the last byte has not been read.
Unread == {key \in Keys : \/ last # << >> /\ key = last[1]
                          \/ FromKeyboard /\ out.of # << >> /\ key = out.of[1]}

Follows(m) == /\ m \in mods => HeldBy[m] \cap held # {}
              /\ HeldBy[m] \subseteq held => m \in mods

\* A modifier follows its keys unless one of them is yet to be read, and the code
\* that is to be read says what was done to its key last.
ModsOK ==
  /\ \A m \in Modifiers : HeldBy[m] \cap Unread = {} => Follows(m)
  /\ last # << >> => (last[2] <=> last[1] \in held)
  /\ FromKeyboard /\ out.of # << >> /\ (last # << >> => last[1] # out.of[1])
       => (out.of[2] <=> out.of[1] \in held)

-----------------------------------------------------------------------------
(* The mouse                                                               *)

FromMouse == out.dev = "mouse"
Ending    == FromMouse /\ out.of # << >>      \* the last byte of a packet is next

\* The bytes that were read, the one in the buffer and those to come make up one
\* packet, or the rest of one and the whole next one.
PacketOK ==
  IF Ending THEN /\ Len(bytes) + 1 = PacketSize
                 /\ Len(packet) \in {0, PacketSize}
  ELSE IF FromMouse THEN /\ packet # << >>
                         /\ Len(bytes) + 1 + Len(packet) = PacketSize
  ELSE \/ packet = << >> /\ bytes = << >>
       \/ packet # << >> /\ Len(bytes) + Len(packet) = PacketSize

\* The first byte of each packet carries the button, and the packet to be decoded
\* meets the button of the packet before it in prev_lb.
ButtonOK ==
  /\ Len(packet) = PacketSize => packet[1] = First(button)
  /\ FromMouse /\ bytes = << >> => out.byte = First(button)
  /\ bytes # << >> => bytes[1].lb = IF Ending THEN out.of[2] ELSE button
  /\ IF Ending THEN /\ prev_lb = out.of[1]
                    /\ out.of[2] = IF packet = << >> THEN button ELSE was
     ELSE prev_lb = IF packet = << >> THEN button ELSE was

-----------------------------------------------------------------------------

Undamaged == Prompt /\ WireOK /\ DecoderOK /\ ModsOK /\ PacketOK /\ ButtonOK

Inv == TypeOK /\ OutOK /\ (damage = 0 => Undamaged)

-----------------------------------------------------------------------------
(* What a key sends                                                        *)

\* The bytes of each key.
LEMMA SendsOf ==
  ASSUME NEW make \in BOOLEAN
  PROVE  /\ Sends("LCtrl", make)   = <<Key("ctrl", make)>>
         /\ Sends("LShift", make)  = <<Key("lshift", make)>>
         /\ Sends("RShift", make)  = <<Key("rshift", make)>>
         /\ Sends("LAlt", make)    = <<Key("alt", make)>>
         /\ Sends("Letter", make)  = <<Key("letter", make)>>
         /\ Sends("Keypad8", make) = <<Key("pad8", make)>>
         /\ Sends("RCtrl", make)   = <<E0, Key("ctrl", make)>>
         /\ Sends("AltGr", make)   = <<E0, Key("alt", make)>>
         /\ Sends("Up", make)      = <<E0, Key("pad8", make)>>
         /\ Sends("Print", make)   = IF make THEN <<E0, Key("lshift", TRUE), E0, Key("star", TRUE)>>
                                     ELSE <<E0, Key("star", FALSE), E0, Key("lshift", FALSE)>>
BY DEF Sends, Plain, Extended

\* A pressed and a released key send the same codes, all of them in use.
LEMMA SendsTypes ==
  ASSUME NEW key \in Keys, NEW make \in BOOLEAN
  PROVE  Sends(key, make) \in Seq(KeyBytes) /\ Len(Sends(key, make)) \in {1, 2, 4}
<1> USE DEF Key, E0
<1> DEFINE codes == UNION { {b.code : b \in Range(Sends(k, TRUE))} : k \in Keys }
           pressed == Sends(key, TRUE)
           s == Sends(key, make)
<1>1. KeyBytes = {E0} \cup {Key(c, b) : c \in (codes \ {"E0"}) \cup {"none"}, b \in BOOLEAN}
  BY DEF KeyBytes
<1>2. ASSUME NEW i \in DOMAIN pressed
      PROVE  pressed[i].code \in codes
  <2>1. pressed[i] \in Range(pressed)
    BY DEF Range
  <2>2. pressed[i].code \in {b.code : b \in Range(pressed)}
    BY <2>1
  <2> QED
    BY <2>2
<1>3. key = "Print" => /\ pressed = <<E0, Key("lshift", TRUE), E0, Key("star", TRUE)>>
                       /\ \/ s = <<E0, Key("lshift", make), E0, Key("star", make)>>
                          \/ s = <<E0, Key("star", make), E0, Key("lshift", make)>>
  BY SendsOf
<1>4. \/ key = "Print"
      \/ \E c : c # "E0" /\ pressed = <<Key(c, TRUE)>> /\ s = <<Key(c, make)>>
      \/ \E c : c # "E0" /\ pressed = <<E0, Key(c, TRUE)>> /\ s = <<E0, Key(c, make)>>
  BY SendsOf, InputAssumption DEF AllKeys
<1> HIDE DEF codes, pressed, s
<1>5. E0 \in KeyBytes /\ \A c \in codes \ {"E0"} : Key(c, make) \in KeyBytes
  BY <1>1
<1>6. ASSUME key = "Print"
      PROVE  s \in Seq(KeyBytes) /\ Len(s) \in {1, 2, 4}
  <2>1. Key("lshift", make) \in KeyBytes /\ Key("star", make) \in KeyBytes
    BY <1>2, <1>3, <1>5, <1>6
  <2>2. \A a, b, c, d \in KeyBytes : <<a, b, c, d>> \in Seq(KeyBytes) /\ Len(<<a, b, c, d>>) = 4
    OBVIOUS
  <2>3. s \in Seq(KeyBytes) /\ Len(s) = 4
    BY <1>3, <1>5, <1>6, <2>1, <2>2, Zenon
  <2> QED
    BY <2>3
<1>7. ASSUME NEW c, c # "E0", pressed = <<Key(c, TRUE)>>, s = <<Key(c, make)>>
      PROVE  s \in Seq(KeyBytes) /\ Len(s) \in {1, 2, 4}
  BY <1>2, <1>5, <1>7
<1>8. ASSUME NEW c, c # "E0", pressed = <<E0, Key(c, TRUE)>>, s = <<E0, Key(c, make)>>
      PROVE  s \in Seq(KeyBytes) /\ Len(s) \in {1, 2, 4}
  <2>1. 2 \in DOMAIN pressed /\ pressed[2] = Key(c, TRUE)
    BY <1>8
  <2>2. Key(c, make) \in KeyBytes
    BY <1>2, <1>5, <1>8, <2>1
  <2> QED
    BY <1>5, <1>8, <2>2
<1> QED
  BY <1>4, <1>6, <1>7, <1>8 DEF s

\* A code is one byte, one byte after E0, or what Print sends.
LEMMA Shapes ==
  ASSUME NEW key \in Keys, NEW make \in BOOLEAN
  PROVE  \/ /\ key \in {"LCtrl", "LShift", "RShift", "LAlt", "Letter", "Keypad8"}
            /\ Sends(key, make) = <<Key(Plain[key], make)>>
         \/ /\ key \in {"RCtrl", "AltGr", "Up"}
            /\ Sends(key, make) = <<E0, Key(Extended[key], make)>>
         \/ /\ key = "Print"
            /\ \E c, d \in {"lshift", "star"} :
                 Sends(key, make) = <<E0, Key(c, make), E0, Key(d, make)>>
<1>1. CASE key \in {"LCtrl", "LShift", "RShift", "LAlt", "Letter", "Keypad8"}
  <2>1. key \in DOMAIN Plain
    BY <1>1 DEF Plain
  <2> QED
    BY <1>1, <2>1, Zenon DEF Sends
<1>2. CASE key \in {"RCtrl", "AltGr", "Up"}
  <2>1. key \notin DOMAIN Plain /\ key \in DOMAIN Extended
    BY <1>2 DEF Plain, Extended
  <2> QED
    BY <1>2, <2>1, Zenon DEF Sends
<1>3. CASE key = "Print"
  <2>1. key \notin DOMAIN Plain /\ key \notin DOMAIN Extended
    BY <1>3 DEF Plain, Extended
  <2>2. \/ Sends(key, make) = <<E0, Key("lshift", make), E0, Key("star", make)>>
        \/ Sends(key, make) = <<E0, Key("star", make), E0, Key("lshift", make)>>
    BY <2>1 DEF Sends, Key, E0
  <2> QED
    BY <1>3, <2>2, Zenon
<1> QED
  BY <1>1, <1>2, <1>3, InputAssumption DEF AllKeys

\* Before its last byte a code holds E0, and what Print sends after the first one.
LEMMA EarlierByte ==
  ASSUME NEW key \in Keys, NEW make \in BOOLEAN, NEW s, s = Sends(key, make),
         NEW j \in 1 .. Len(s) - 1
  PROVE  \/ s[j] = E0
         \/ s[j].code \in {"lshift", "star"} /\ s[j] # E0 /\ Escaped(s, j)
<1>1. \A c, d, e : /\ Len(<<c>>) = 1 /\ Len(<<c, d>>) = 2 /\ Len(<<c, d, c, e>>) = 4
                   /\ <<c, d>>[1] = c /\ <<c, d, c, e>>[1] = c
                   /\ <<c, d, c, e>>[2] = d /\ <<c, d, c, e>>[3] = c
  OBVIOUS
<1>2. \/ Len(s) = 1
      \/ Len(s) = 2 /\ s[1] = E0
      \/ /\ Len(s) = 4 /\ s[1] = E0 /\ s[3] = E0
         /\ s[2] = Key("lshift", make) \/ s[2] = Key("star", make)
  <2>1. CASE s = <<Key(Plain[key], make)>>
    BY <1>1, <2>1
  <2>2. CASE s = <<E0, Key(Extended[key], make)>>
    BY <1>1, <2>2
  <2>3. CASE \E c, d \in {"lshift", "star"} : s = <<E0, Key(c, make), E0, Key(d, make)>>
    BY <1>1, <2>3
  <2> QED
    BY <2>1, <2>2, <2>3, Shapes, Zenon
<1>3. \A c \in {"lshift", "star"} : /\ Key(c, make).code = c
                                    /\ Key(c, make) # E0
  BY DEF Key, E0
<1>4. s[j] = E0 \/ (j = 2 /\ s[1] = E0 /\ s[2].code \in {"lshift", "star"} /\ s[2] # E0)
  <2>1. j \in Int /\ 1 <= j /\ j <= Len(s) - 1
    BY <1>2
  <2>2. CASE Len(s) = 2 /\ s[1] = E0
    BY <2>1, <2>2
  <2>3. CASE /\ Len(s) = 4 /\ s[1] = E0 /\ s[3] = E0
             /\ s[2] = Key("lshift", make) \/ s[2] = Key("star", make)
    <3>1. j = 1 \/ j = 2 \/ j = 3
      BY <2>1, <2>3
    <3>2. s[2].code \in {"lshift", "star"} /\ s[2] # E0
      BY <1>3, <2>3, Zenon
    <3> QED
      BY <2>3, <3>1, <3>2
  <2> QED
    BY <1>2, <2>1, <2>2, <2>3
<1>5. j = 2 /\ s[1] = E0 => Escaped(s, j)
  BY DEF Escaped
<1>6. CASE s[j] = E0
  BY <1>6, Zenon
<1>7. CASE s[j] # E0
  <2>1. j = 2 /\ s[1] = E0 /\ s[j].code \in {"lshift", "star"}
    BY <1>4, <1>7
  <2> QED
    BY <1>5, <1>7, <2>1
<1> QED
  BY <1>6, <1>7

\* The last byte of a code tells which modifier the key is, whether it types, and
\* whether it was pressed.
LEMMA LastByte ==
  ASSUME NEW key \in Keys, NEW make \in BOOLEAN, NEW s, s = Sends(key, make),
         NEW ext \in BOOLEAN, ext <=> Escaped(s, Len(s)), NEW b, b = s[Len(s)]
  PROVE  /\ b # E0 /\ b.make = make
         /\ \A m \in Modifiers : ModifierOf(ext, b.code) = m <=> key \in HeldBy[m]
         /\ Types(ext, b.code) <=> key \in DOMAIN Typing
         /\ key \in DOMAIN Typing => Typing[key] = <<ext, b.code>>
<1>1. \A c, d, e : /\ Len(<<c>>) = 1 /\ Len(<<c, d>>) = 2 /\ Len(<<c, d, c, e>>) = 4
                   /\ <<c>>[1] = c
                   /\ <<c, d>>[1] = c /\ <<c, d>>[2] = d
                   /\ <<c, d, c, e>>[3] = c /\ <<c, d, c, e>>[4] = e
  OBVIOUS
<1> USE DEF Key, E0, ModifierOf, Types, Typing, HeldBy, Modifiers
<1>2. CASE /\ key \in {"LCtrl", "LShift", "RShift", "LAlt", "Letter", "Keypad8"}
           /\ s = <<Key(Plain[key], make)>>
  <2>1. Len(s) = 1 /\ b = Key(Plain[key], make)
    BY <1>1, <1>2
  <2>2. ext = FALSE
    BY <2>1 DEF Escaped
  <2> QED
    <3>1. /\ key = "LCtrl" => b.code = "ctrl"
          /\ key = "LShift" => b.code = "lshift"
          /\ key = "RShift" => b.code = "rshift"
          /\ key = "LAlt" => b.code = "alt"
          /\ key = "Letter" => b.code = "letter"
          /\ key = "Keypad8" => b.code = "pad8"
      BY <2>1 DEF Plain
    <3>2. b.code # "E0" /\ b.make = make
      BY <1>2, <2>1, <3>1
    <3>3. \A m \in Modifiers : ModifierOf(ext, b.code) = m <=> key \in HeldBy[m]
      BY <1>2, <2>2, <3>1
    <3>4. Types(ext, b.code) <=> key \in DOMAIN Typing
      BY <1>2, <2>2, <3>1
    <3>5. key \in DOMAIN Typing => Typing[key] = <<ext, b.code>>
      <4>1. key \in DOMAIN Typing => key = "Letter"
        BY <1>2
      <4>2. Typing["Letter"] = <<FALSE, "letter">>
        OBVIOUS
      <4> QED
        BY <2>2, <3>1, <4>1, <4>2
    <3>6. b # E0
      BY <3>2
    <3> QED
      BY <3>2, <3>3, <3>4, <3>5, <3>6
<1>3. CASE /\ key \in {"RCtrl", "AltGr", "Up"}
           /\ s = <<E0, Key(Extended[key], make)>>
  <2>1. Len(s) = 2 /\ s[1] = E0 /\ b = Key(Extended[key], make)
    BY <1>1, <1>3
  <2>2. ext = TRUE
    BY <2>1 DEF Escaped
  <2> QED
    <3>1. /\ key = "RCtrl" => b.code = "ctrl"
          /\ key = "AltGr" => b.code = "alt"
          /\ key = "Up" => b.code = "pad8"
      BY <2>1 DEF Extended
    <3>2. b.code # "E0" /\ b.make = make
      BY <1>3, <2>1, <3>1
    <3>3. \A m \in Modifiers : ModifierOf(ext, b.code) = m <=> key \in HeldBy[m]
      BY <1>3, <2>2, <3>1
    <3>4. Types(ext, b.code) <=> key \in DOMAIN Typing
      BY <1>3, <2>2, <3>1
    <3>5. key \in DOMAIN Typing => Typing[key] = <<ext, b.code>>
      <4>1. key \in DOMAIN Typing => key = "Up"
        BY <1>3
      <4>2. Typing["Up"] = <<TRUE, "pad8">>
        OBVIOUS
      <4> QED
        BY <2>2, <3>1, <4>1, <4>2
    <3>6. b # E0
      BY <3>2
    <3> QED
      BY <3>2, <3>3, <3>4, <3>5, <3>6
<1>4. CASE /\ key = "Print"
           /\ \E c, d \in {"lshift", "star"} : s = <<E0, Key(c, make), E0, Key(d, make)>>
  <2>1. Len(s) = 4 /\ s[3] = E0 /\ \E d \in {"lshift", "star"} : b = Key(d, make)
    BY <1>1, <1>4
  <2>2. ext = TRUE
    BY <2>1 DEF Escaped
  <2> QED
    BY <1>4, <2>1, <2>2
<1> QED
  BY <1>2, <1>3, <1>4, Shapes

-----------------------------------------------------------------------------
(* Types                                                                   *)

\* The buffer's tag tells it from the empty one.
LEMMA NoByteDev == NoByte.dev = "none"
BY DEF NoByte

\* KeyAction keeps the types.
LEMMA KeyActionTypes ==
  ASSUME TypeOK, OutOK, NEW key \in Keys, NEW make \in BOOLEAN, KeyAction(key, make)
  PROVE  TypeOK' /\ OutOK'
<1>1. Sends(key, make) \in Seq(KeyBytes)
  BY SendsTypes
<1>2. wire' \in Seq(KeyBytes)
  BY <1>1 DEF KeyAction
<1>3. held' \subseteq Keys /\ last' \in Keys \X BOOLEAN
  BY DEF KeyAction, TypeOK
<1> QED
  BY <1>2, <1>3 DEF KeyAction, TypeOK, OutOK, mouse, decoders

\* Sample keeps the types.
LEMMA SampleTypes ==
  ASSUME TypeOK, OutOK, Sample
  PROVE  TypeOK' /\ OutOK'
<1>1. PICK lb \in BOOLEAN, data \in {Zero, Other} :
        /\ button' = lb
        /\ packet' = [i \in 1 .. PacketSize |-> IF i = 1 THEN First(lb) ELSE data]
  BY DEF Sample
<1>2. First(lb) \in MouseBytes /\ data \in MouseBytes
  <2>1. Zero \in MouseBytes /\ Other \in MouseBytes
    BY DEF Zero, Other, MouseBytes
  <2>2. First(lb) \in MouseBytes
    BY DEF First, MouseBytes
  <2> QED
    BY <2>1, <2>2
<1>3. packet' \in Seq(MouseBytes)
  BY <1>1, <1>2, InputAssumption
<1>4. button' \in BOOLEAN /\ was' \in BOOLEAN
  BY <1>1 DEF Sample, TypeOK
<1> QED
  BY <1>3, <1>4 DEF Sample, TypeOK, OutOK, keyboard, decoders

\* A byte that leaves its device leaves the types of the device as they are.
LEMMA LeavesTypes ==
  ASSUME TypeOK, NEW dev \in Devices, Leaves(dev),
         (IF dev = "mouse" THEN packet ELSE wire) # << >>
  PROVE  /\ held' \subseteq Keys /\ wire' \in Seq(KeyBytes)
         /\ last' = << >> \/ last' \in Keys \X BOOLEAN
         /\ button' \in BOOLEAN /\ was' \in BOOLEAN /\ packet' \in Seq(MouseBytes)
<1>1. CASE dev = "mouse"
  BY <1>1, SMTT(30) DEF Leaves, TypeOK, keyboard
<1>2. CASE dev = "keyboard"
  <2>1. wire # << >> /\ wire' = Tail(wire)
    BY <1>2 DEF Leaves
  <2>2. wire' \in Seq(KeyBytes)
    BY <2>1 DEF TypeOK
  <2>3. last' = last \/ last' = << >>
    BY <1>2 DEF Leaves
  <2>4. UNCHANGED <<mouse, held>>
    BY <1>2 DEF Leaves
  <2> QED
    BY <2>2, <2>3, <2>4 DEF TypeOK, mouse
<1> QED
  BY <1>1, <1>2 DEF Devices

\* Place keeps the types.
LEMMA PlaceTypes ==
  ASSUME TypeOK, OutOK, NEW dev \in Devices, NEW bad \in BOOLEAN, Place(dev, bad)
  PROVE  TypeOK' /\ OutOK'
<1>1. /\ held' \subseteq Keys /\ wire' \in Seq(KeyBytes)
      /\ last' = << >> \/ last' \in Keys \X BOOLEAN
      /\ button' \in BOOLEAN /\ was' \in BOOLEAN /\ packet' \in Seq(MouseBytes)
  BY LeavesTypes DEF Place
<1>2. damage' \in 0 .. MaxDamage
  BY InputAssumption DEF Place, TypeOK
<1>3. irq' \subseteq Devices
  BY DEF Place, TypeOK
<1>4. OutOK'
  <2>1. CASE dev = "mouse"
    <3>1. /\ out'.dev = "mouse" /\ out'.byte = Head(packet) /\ out'.bad = bad
          /\ out'.of = IF Len(packet) = 1 THEN <<was, button>> ELSE << >>
      BY <2>1 DEF Place, Completes
    <3>2. Head(packet) \in MouseBytes
      BY <2>1 DEF Place, TypeOK
    <3>3. <<was, button>> \in BOOLEAN \X BOOLEAN
      BY DEF TypeOK
    <3> QED
      BY <3>1, <3>2, <3>3 DEF OutOK
  <2>2. CASE dev = "keyboard"
    <3>1. /\ out'.dev = "keyboard" /\ out'.byte = Head(wire) /\ out'.bad = bad
          /\ out'.of = IF Len(wire) = 1 THEN last ELSE << >>
      BY <2>2 DEF Place, Completes
    <3>2. Head(wire) \in KeyBytes
      BY <2>2 DEF Place, TypeOK
    <3> QED
      BY <3>1, <3>2 DEF OutOK, TypeOK
  <2> QED
    BY <2>1, <2>2 DEF Devices
<1> QED
  BY <1>1, <1>2, <1>3, <1>4 DEF Place, TypeOK, decoders

\* Lose and Spurious keep the types.
LEMMA DamageTypes ==
  ASSUME TypeOK, OutOK, NEW dev \in Devices, Lose(dev) \/ Spurious(dev)
  PROVE  TypeOK' /\ OutOK' /\ damage' # 0
<1>1. damage' \in 1 .. MaxDamage /\ OutOK'
  BY InputAssumption DEF Lose, Spurious, TypeOK, OutOK
<1>2. CASE Lose(dev)
  <2>1. /\ held' \subseteq Keys /\ wire' \in Seq(KeyBytes)
        /\ last' = << >> \/ last' \in Keys \X BOOLEAN
        /\ button' \in BOOLEAN /\ was' \in BOOLEAN /\ packet' \in Seq(MouseBytes)
    BY <1>2, LeavesTypes DEF Lose
  <2> QED
    BY <1>1, <1>2, <2>1 DEF Lose, TypeOK, decoders
<1>3. CASE Spurious(dev)
  BY <1>1, <1>3 DEF Spurious, TypeOK, keyboard, mouse, decoders
<1> QED
  BY <1>2, <1>3

\* Whatever scancode there is, decoding it keeps the types.
LEMMA KeyboardTypes ==
  ASSUME TypeOK, OutOK, KeyboardHandler
  PROVE  scancode' \in KeyBytes /\ two_byte' \in BOOLEAN /\ mods' \subseteq Modifiers
<1>1. CASE "keyboard" \notin irq
  BY <1>1 DEF KeyboardHandler, TypeOK
<1>2. CASE "keyboard" \in irq
  <2>1. scancode' \in KeyBytes
    BY <1>2, NoByteDev DEF KeyboardHandler, keyboard_ih, KeyboardReads, Readable, OutOK, TypeOK
  <2>2. two_byte' \in BOOLEAN
    BY <1>2 DEF KeyboardHandler, build_scancode
  <2>3. \A ext, code : ModifierOf(ext, code) \in Modifiers \cup {"none"}
    BY DEF ModifierOf, Modifiers
  <2>4. ASSUME keyboard_process(two_byte, scancode')
        PROVE  mods' \subseteq Modifiers
    BY <2>3, <2>4 DEF keyboard_process, TypeOK
  <2> QED
    BY <1>2, <2>1, <2>2, <2>4 DEF KeyboardHandler, TypeOK
<1> QED
  BY <1>1, <1>2

\* Whatever byte is read, or none, the packet that is being read has its type.
LEMMA MouseTypes ==
  ASSUME TypeOK, OutOK, MouseHandler
  PROVE  /\ bytes' \in Seq(MouseBytes) /\ Len(bytes') < PacketSize
         /\ bytes' # << >> => bytes'[1].bit3
         /\ prev_lb' \in BOOLEAN
<1>1. MouseReads => out.byte \in MouseBytes
  BY NoByteDev DEF MouseReads, AfterKeyboard, KeyboardReads, Readable, OutOK
<1>2. \A b \in MouseBytes : b.lb \in BOOLEAN /\ b.bit3 \in BOOLEAN
  BY DEF MouseBytes
<1>3. CASE ~MouseReads \/ ~TakesByte(out.byte)
  BY <1>3 DEF MouseHandler, mouse_ih, Complete, TypeOK
<1>4. CASE MouseReads /\ TakesByte(out.byte) /\ Len(bytes) + 1 = PacketSize
  <2>1. bytes' = << >> /\ mouse_process(bytes[1].lb)
    BY <1>4 DEF MouseHandler, mouse_ih, Complete
  <2>2. bytes[1] \in MouseBytes
    BY <1>4, InputAssumption DEF TypeOK
  <2> QED
    BY <1>2, <2>1, <2>2, InputAssumption DEF mouse_process
<1>5. CASE MouseReads /\ TakesByte(out.byte) /\ Len(bytes) + 1 # PacketSize
  <2>1. bytes' = Append(bytes, out.byte) /\ prev_lb' = prev_lb
    BY <1>5 DEF MouseHandler, mouse_ih, Complete
  <2>2. bytes = << >> => bytes'[1] = out.byte /\ out.byte.bit3
    BY <1>5, <2>1 DEF TakesByte, TypeOK
  <2>3. bytes # << >> => bytes'[1] = bytes[1]
    BY <1>1, <1>5, <2>1 DEF TypeOK
  <2> QED
    BY <1>1, <1>5, <2>1, <2>2, <2>3, InputAssumption DEF TypeOK
<1> QED
  BY <1>3, <1>4, <1>5

\* interrupts_handler keeps the types.
LEMMA HandlerTypes ==
  ASSUME TypeOK, OutOK, interrupts_handler
  PROVE  TypeOK' /\ OutOK'
<1>1. OutOK'
  BY DEF interrupts_handler, AfterKeyboard, OutOK
<1>2. irq' = {}
  BY DEF interrupts_handler
<1> QED
  BY <1>1, <1>2, KeyboardTypes, MouseTypes DEF interrupts_handler, TypeOK, keyboard, mouse

-----------------------------------------------------------------------------
(* The keyboard, as long as nothing is damaged                             *)

KeyboardOK == WireOK /\ DecoderOK /\ ModsOK

\* What happens while the buffer holds nothing of the keyboard leaves its part of
\* the invariant alone.
LEMMA KeyboardAside ==
  ASSUME KeyboardOK, UNCHANGED <<held, wire, last, two_byte, mods>>,
         ~FromKeyboard, ~FromKeyboard'
  PROVE  KeyboardOK'
<1>1. WireOK'
  BY DEF KeyboardOK, WireOK, Code, Left
<1>2. DecoderOK'
  BY DEF KeyboardOK, DecoderOK, Code, Left
<1>3. Unread' = Unread
  BY DEF Unread
<1>4. ModsOK'
  BY <1>3 DEF KeyboardOK, ModsOK, Follows
<1> QED
  BY <1>1, <1>2, <1>4 DEF KeyboardOK

\* A key is pressed or let go: its code is next.
LEMMA KeyActionKeyboard ==
  ASSUME TypeOK, OutOK, KeyboardOK, NEW key \in Keys, NEW make \in BOOLEAN,
         KeyAction(key, make)
  PROVE  KeyboardOK'
<1>1. /\ last = << >> /\ wire' = Sends(key, make) /\ last' = <<key, make>>
      /\ UNCHANGED <<out, two_byte, mods>>
      /\ held' = IF make THEN held \cup {key} ELSE held \ {key}
  <2>1. wire = << >> /\ Len(wire) = 0
    BY DEF KeyAction
  <2> QED
    BY <2>1 DEF KeyAction, KeyboardOK, WireOK, decoders
<1>2. Code' = wire' /\ Len(wire') \in {1, 2, 4}
  BY <1>1, SendsTypes DEF Code
<1>3. Left' = 0
  BY <1>2 DEF Left
<1>4. last' # << >>
  BY <1>1
<1>5. WireOK'
  BY <1>2, <1>3, <1>4 DEF WireOK
<1>6. DecoderOK'
  <2>1. CASE ~FromKeyboard
    <3>1. ~two_byte /\ ~FromKeyboard'
      BY <1>1, <2>1 DEF KeyboardOK, DecoderOK, FromKeyboard, TypeOK
    <3>2. ~Escaped(Code', Left' + 1)
      BY <1>3 DEF Escaped
    <3> QED
      BY <1>1, <3>1, <3>2 DEF DecoderOK
  <2>2. CASE FromKeyboard
    <3>1. FromKeyboard' /\ out.of # << >>
      BY <1>1, <2>2 DEF KeyboardOK, DecoderOK, FromKeyboard
    <3> QED
      BY <1>1, <1>3, <2>2, <3>1 DEF KeyboardOK, DecoderOK
  <2> QED
    BY <2>1, <2>2
<1>7. ModsOK'
  <2>1. ASSUME NEW m \in Modifiers, HeldBy[m] \cap Unread' = {}
        PROVE  Follows(m)'
    <3>1. key \notin HeldBy[m]
      BY <1>1, <2>1 DEF Unread
    <3>2. HeldBy[m] \cap Unread = {}
      BY <1>1, <2>1 DEF Unread, FromKeyboard
    <3>3. Follows(m)
      BY <3>2 DEF KeyboardOK, ModsOK
    <3>4. /\ HeldBy[m] \cap held' = HeldBy[m] \cap held
          /\ HeldBy[m] \subseteq held' <=> HeldBy[m] \subseteq held
      BY <1>1, <3>1
    <3> QED
      BY <1>1, <3>3, <3>4 DEF Follows
  <2>2. last'[2] <=> last'[1] \in held'
    BY <1>1
  <2>3. FromKeyboard' /\ out'.of # << >> /\ last'[1] # out'.of[1]
          => (out'.of[2] <=> out'.of[1] \in held')
    BY <1>1 DEF KeyboardOK, ModsOK, FromKeyboard
  <2> QED
    BY <1>4, <2>1, <2>2, <2>3 DEF ModsOK
<1> QED
  BY <1>5, <1>6, <1>7 DEF KeyboardOK

\* A byte of the keyboard enters the buffer.
LEMMA PlaceKeyboard ==
  ASSUME TypeOK, OutOK, KeyboardOK, Place("keyboard", FALSE)
  PROVE  KeyboardOK'
<1> DEFINE k == Len(wire)
<1>1. /\ ~FromKeyboard /\ FromKeyboard' /\ wire # << >>
      /\ UNCHANGED <<held, two_byte, mods>>
      /\ out'.byte = wire[1] /\ wire' = Tail(wire)
      /\ out'.of = IF k = 1 THEN last ELSE << >>
      /\ last' = IF k > 1 THEN last ELSE << >>
  BY NoByteDev DEF Place, Leaves, Completes, FromKeyboard, mouse, decoders
<1>2. /\ last # << >> /\ last \in Keys \X BOOLEAN
      /\ k \in 1 .. Len(Code) /\ Left = Len(Code) - k
      /\ \A i \in 1 .. k : wire[i] = Code[Left + i]
      /\ two_byte <=> Escaped(Code, Left + 1)
  BY <1>1 DEF KeyboardOK, WireOK, DecoderOK, Left, TypeOK
<1>3. Code \in Seq(KeyBytes)
  BY <1>2, SendsTypes DEF Code
<1>4. Len(wire') = k - 1 /\ \A i \in 1 .. k - 1 : wire'[i] = wire[i + 1]
  BY <1>1 DEF TypeOK
<1>5. CASE k > 1
  <2>1. last' = last /\ Code' = Code /\ Left' = Left + 1 /\ out'.of = << >>
    BY <1>1, <1>2, <1>3, <1>4, <1>5 DEF Code, Left
  <2>2. WireOK'
    <3>1. last' # << >>
      BY <1>2, <2>1
    <3>2. Len(wire') \in 1 .. Len(Code')
      <4>1. k \in 1 .. Len(Code) /\ Len(Code) \in Nat /\ k > 1 /\ Len(wire') = k - 1
        BY <1>2, <1>3, <1>4, <1>5
      <4> HIDE DEF k
      <4>2. Len(wire') \in 1 .. Len(Code)
        BY <4>1
      <4> QED BY <2>1, <4>2
    <3>3. ASSUME NEW i \in 1 .. Len(wire') PROVE wire'[i] = Code'[Left' + i]
      <4> DEFINE j == i + 1
      <4>1. k \in 1 .. Len(Code) /\ Len(Code) \in Nat /\ Left = Len(Code) - k
        BY <1>2, <1>3
      <4>2. i \in 1 .. k - 1
        BY <1>4, <3>3
      <4>3. j \in 1 .. k /\ Left' + i = Left + j
        <5> HIDE DEF k
        <5> QED BY <2>1, <4>1, <4>2
      <4> HIDE DEF j
      <4>4. wire'[i] = wire[j]
        BY <1>4, <4>2 DEF j
      <4>5. wire[j] = Code[Left + j]
        BY <1>2, <4>3
      <4> QED BY <2>1, <4>3, <4>4, <4>5, Zenon
    <3> QED BY <3>1, <3>2, <3>3, Zenon DEF WireOK
  <2>3. DecoderOK'
    BY <1>1, <1>2, <1>3, <1>5, <2>1 DEF DecoderOK
  <2>4. Unread' = Unread
    BY <1>1, <2>1 DEF Unread
  <2>5. ModsOK'
    BY <1>1, <1>2, <2>1, <2>4 DEF KeyboardOK, ModsOK, Follows
  <2> QED
    BY <2>2, <2>3, <2>5 DEF KeyboardOK
<1>6. CASE k = 1
  <2>1. last' = << >> /\ out'.of = last /\ Left + 1 = Len(Code) /\ wire' = << >>
    BY <1>1, <1>2, <1>3, <1>4, <1>6 DEF TypeOK
  <2>2. WireOK'
    BY <2>1 DEF WireOK
  <2>3. Sends(out'.of[1], out'.of[2]) = Code
    BY <2>1 DEF Code
  <2>4. DecoderOK'
    BY <1>1, <1>2, <1>6, <2>1, <2>3 DEF DecoderOK
  <2>5. Unread' = Unread
    BY <1>1, <1>2, <2>1 DEF Unread
  <2>6. ModsOK'
    BY <1>1, <1>2, <2>1, <2>5 DEF KeyboardOK, ModsOK, Follows
  <2> QED
    BY <2>2, <2>4, <2>6 DEF KeyboardOK
<1>7. k = 1 \/ k > 1
  <2>1. k \in 1 .. Len(Code)
    BY <1>2
  <2> HIDE DEF k
  <2> QED BY <2>1
<1> QED
  BY <1>5, <1>6, <1>7, Zenon

\* What keyboard_handler does with a byte of the keyboard.
LEMMA KeyboardReading ==
  ASSUME TypeOK, OutOK, Prompt, FromKeyboard, interrupts_handler
  PROVE  /\ ~FromKeyboard' /\ out' = NoByte /\ irq = {"keyboard"}
         /\ scancode' = out.byte /\ (two_byte' <=> out.byte = E0)
         /\ out.byte = E0 => mods' = mods
         /\ out.byte # E0 => keyboard_process(two_byte, out.byte)
         /\ UNCHANGED <<keyboard, mouse>>
         /\ UNCHANGED <<bytes, prev_lb>>
<1>1. out # NoByte /\ irq = {"keyboard"} /\ ~out.bad
  BY NoByteDev DEF Prompt, FromKeyboard
<1>2. KeyboardReads
  BY <1>1 DEF KeyboardReads, Readable
<1>3. ~MouseReads
  BY <1>1 DEF MouseReads
<1>4. scancode' = out.byte /\ (two_byte' <=> out.byte = E0)
  BY <1>1, <1>2 DEF interrupts_handler, KeyboardHandler, keyboard_ih, FromKeyboard,
                    build_scancode
<1>5. IF out.byte = E0 THEN UNCHANGED mods ELSE keyboard_process(two_byte, out.byte)
  BY <1>1, <1>4 DEF interrupts_handler, KeyboardHandler
<1>6. out' = NoByte
  BY <1>2, <1>3 DEF interrupts_handler, AfterKeyboard
<1>7. UNCHANGED <<bytes, prev_lb>>
  BY <1>3 DEF interrupts_handler, MouseHandler, mouse_ih, Complete
<1> QED
  BY <1>1, <1>4, <1>5, <1>6, <1>7, NoByteDev DEF FromKeyboard, interrupts_handler

\* A byte before the last one is read: it is E0, or does nothing after E0.
LEMMA ReadEarlier ==
  ASSUME TypeOK, OutOK, Prompt, KeyboardOK, FromKeyboard, interrupts_handler,
         out.of = << >>
  PROVE  KeyboardOK' /\ KeyPushed = << >>
<1>1. /\ last # << >> /\ last \in Keys \X BOOLEAN
      /\ Left \in 1 .. Len(Code) - 1
      /\ out.byte = Code[Left] /\ (two_byte <=> Escaped(Code, Left))
  BY DEF KeyboardOK, DecoderOK, TypeOK
<1>2. \/ out.byte = E0
      \/ out.byte.code \in {"lshift", "star"} /\ out.byte # E0 /\ two_byte
  BY <1>1, EarlierByte DEF Code
<1>3. two_byte => two_byte = TRUE
  BY DEF TypeOK
<1>4. mods' = mods
  BY <1>2, <1>3, KeyboardReading DEF keyboard_process, ModifierOf
<1>5. KeyPushed = << >>
  BY <1>2, <1>3, KeyboardReading DEF KeyPushed, KeyEvents, Types
<1>6. /\ ~FromKeyboard' /\ UNCHANGED <<held, wire, last>>
      /\ two_byte' <=> out.byte = E0
  BY KeyboardReading DEF keyboard
<1>7. Code' = Code /\ Left' = Left /\ last' # << >>
  BY <1>1, <1>6 DEF Code, Left
<1>8. WireOK'
  BY <1>6, <1>7 DEF KeyboardOK, WireOK
<1>9. Escaped(Code, Left + 1) <=> out.byte = E0
  BY <1>1 DEF Escaped
<1>10. DecoderOK'
  BY <1>6, <1>7, <1>9 DEF DecoderOK
<1>11. Unread' = Unread
  BY <1>6 DEF Unread
<1>12. ModsOK'
  BY <1>4, <1>6, <1>11 DEF KeyboardOK, ModsOK, Follows
<1> QED
  BY <1>5, <1>8, <1>10, <1>12 DEF KeyboardOK

\* The last byte of a code is read: the modifier of its key follows it, and the
\* key types if it was pressed.
LEMMA ReadLast ==
  ASSUME TypeOK, OutOK, Prompt, KeyboardOK, FromKeyboard, interrupts_handler,
         out.of # << >>
  PROVE  /\ KeyboardOK'
         /\ KeyPushed = IF out.of[2] /\ out.of[1] \in DOMAIN Typing
                          THEN <<[ext |-> Typing[out.of[1]][1], code |-> Typing[out.of[1]][2]]>>
                          ELSE << >>
<1> DEFINE key == out.of[1]
           make == out.of[2]
           s == Sends(key, make)
           b == out.byte
<1>1. /\ key \in Keys /\ make \in BOOLEAN
      /\ b = s[Len(s)] /\ (two_byte <=> Escaped(s, Len(s)))
      /\ last # << >> => Left = 0
  BY NoByteDev DEF OutOK, KeyboardOK, DecoderOK, FromKeyboard
<1>2. two_byte \in BOOLEAN
  BY DEF TypeOK
<1>3. /\ b # E0 /\ b.make = make
      /\ \A m \in Modifiers : ModifierOf(two_byte, b.code) = m <=> key \in HeldBy[m]
      /\ Types(two_byte, b.code) <=> key \in DOMAIN Typing
      /\ key \in DOMAIN Typing => Typing[key] = <<two_byte, b.code>>
  <2> HIDE DEF key, make, s, b
  <2> QED
    BY <1>1, <1>2, LastByte DEF s
<1>4. /\ ~FromKeyboard' /\ UNCHANGED <<held, wire, last>> /\ ~two_byte'
      /\ irq = {"keyboard"} /\ scancode' = b /\ keyboard_process(two_byte, b)
  BY <1>3, KeyboardReading DEF keyboard
<1>5. KeyPushed = IF make /\ key \in DOMAIN Typing
                    THEN <<[ext |-> Typing[key][1], code |-> Typing[key][2]]>> ELSE << >>
  <2>1. KeyPushed = KeyEvents(two_byte, b)
    BY <1>3, <1>4, Zenon DEF KeyPushed
  <2> HIDE DEF key, make, s, b
  <2>2. CASE make /\ key \in DOMAIN Typing
    <3>1. KeyPushed = <<[ext |-> two_byte, code |-> b.code]>>
      BY <1>3, <2>1, <2>2 DEF KeyEvents
    <3>2. Typing[key][1] = two_byte /\ Typing[key][2] = b.code
      BY <1>3, <2>2
    <3> QED
      BY <2>2, <3>1, <3>2, Zenon
  <2>3. CASE ~(make /\ key \in DOMAIN Typing)
    BY <1>3, <2>1, <2>3 DEF KeyEvents
  <2> QED
    BY <2>2, <2>3
<1>6. Code' = Code /\ Left' = Left
  BY <1>4 DEF Code, Left
<1>7. WireOK'
  BY <1>4, <1>6 DEF KeyboardOK, WireOK
<1>8. DecoderOK'
  <2>1. last # << >> => ~Escaped(Code, Left + 1)
    BY <1>1 DEF Escaped
  <2> QED
    BY <1>4, <1>6, <2>1 DEF DecoderOK
<1>9. ModsOK'
  <2>1. ASSUME NEW m \in Modifiers, HeldBy[m] \cap Unread' = {}
        PROVE  Follows(m)'
    <3>1. last # << >> => last[1] \in Keys /\ last[1] \notin HeldBy[m]
      BY <1>4, <2>1 DEF Unread, TypeOK
    <3>2. CASE key \in HeldBy[m]
      <4>1. make <=> key \in held
        BY <3>1, <3>2 DEF KeyboardOK, ModsOK
      <4>2. ModifierOf(two_byte, b.code) = m /\ m # "none"
        BY <1>3, <3>2, <2>1 DEF Modifiers
      <4>3. mods' = IF make THEN mods \cup {m} ELSE mods \ {m}
        BY <1>3, <1>4, <4>2 DEF keyboard_process
      <4> QED
        BY <1>1, <1>4, <3>2, <4>1, <4>3 DEF Follows
    <3>3. CASE key \notin HeldBy[m]
      <4>1. HeldBy[m] \cap Unread = {}
        BY <3>1, <3>3 DEF Unread
      <4>2. Follows(m)
        BY <2>1, <4>1 DEF KeyboardOK, ModsOK
      <4>3. ModifierOf(two_byte, b.code) # m
        BY <1>3, <2>1, <3>3
      <4>4. m \in mods' <=> m \in mods
        BY <1>4, <4>3 DEF keyboard_process
      <4> QED
        BY <1>4, <4>2, <4>4 DEF Follows
    <3> QED
      BY <3>2, <3>3
  <2> QED
    BY <1>4, <2>1 DEF KeyboardOK, ModsOK
<1> QED
  BY <1>5, <1>7, <1>8, <1>9 DEF KeyboardOK

-----------------------------------------------------------------------------
(* The mouse, as long as nothing is damaged                                *)

MouseOK == PacketOK /\ ButtonOK

\* What happens while the buffer holds nothing of the mouse leaves its part of the
\* invariant alone.
LEMMA MouseAside ==
  ASSUME MouseOK, UNCHANGED <<mouse, bytes, prev_lb>>, ~FromMouse, ~FromMouse'
  PROVE  MouseOK'
<1>1. ~Ending /\ ~Ending'
  BY DEF Ending
<1> QED
  BY <1>1 DEF MouseOK, PacketOK, ButtonOK, mouse

\* Nor does a key.
LEMMA KeyActionMouse ==
  ASSUME MouseOK, UNCHANGED <<mouse, out, decoders>>
  PROVE  MouseOK'
BY DEF MouseOK, PacketOK, ButtonOK, Ending, FromMouse, mouse, decoders

\* The mouse reports: its packet is next.
LEMMA SampleMouse ==
  ASSUME TypeOK, OutOK, MouseOK, Sample
  PROVE  MouseOK'
<1>1. PICK lb \in BOOLEAN, data \in {Zero, Other} :
        /\ button' = lb
        /\ packet' = [i \in 1 .. PacketSize |-> IF i = 1 THEN First(lb) ELSE data]
  BY DEF Sample
<1>2. /\ packet = << >> /\ Len(packet) = 0 /\ was' = button
      /\ UNCHANGED <<out, bytes, prev_lb>>
  BY DEF Sample, decoders
<1>3. /\ Len(packet') = PacketSize /\ packet' # << >> /\ packet'[1] = First(button')
      /\ PacketSize \in {3, 4}
  BY <1>1, InputAssumption
<1>4. Ending' = Ending /\ FromMouse' = FromMouse
  BY <1>2 DEF Ending, FromMouse
<1>5. bytes \in Seq(MouseBytes)
  BY DEF TypeOK
<1>6. CASE Ending
  <2>1. bytes # << >>
    BY <1>3, <1>6 DEF MouseOK, PacketOK
  <2>2. PacketOK'
    BY <1>2, <1>3, <1>4, <1>6 DEF MouseOK, PacketOK
  <2>3. ButtonOK'
    BY <1>2, <1>3, <1>4, <1>6, <2>1 DEF MouseOK, ButtonOK
  <2> QED
    BY <2>2, <2>3 DEF MouseOK
<1>7. CASE ~Ending
  <2>1. ~FromMouse /\ bytes = << >> /\ Len(bytes) = 0
    BY <1>2, <1>3, <1>5, <1>7 DEF MouseOK, PacketOK
  <2>2. PacketOK'
    BY <1>2, <1>3, <1>4, <1>7, <2>1 DEF PacketOK
  <2>3. ButtonOK'
    BY <1>2, <1>3, <1>4, <1>7, <2>1 DEF MouseOK, ButtonOK
  <2> QED
    BY <2>2, <2>3 DEF MouseOK
<1> QED
  BY <1>6, <1>7

\* A byte of the mouse enters the buffer.
LEMMA PlaceMouse ==
  ASSUME TypeOK, OutOK, MouseOK, Place("mouse", FALSE)
  PROVE  MouseOK'
<1> DEFINE k == Len(packet)
<1>1. /\ ~FromMouse /\ FromMouse' /\ packet # << >>
      /\ UNCHANGED <<button, bytes, prev_lb>>
      /\ out'.byte = packet[1] /\ packet' = Tail(packet)
      /\ out'.of = IF k = 1 THEN <<was, button>> ELSE << >>
  BY NoByteDev DEF Place, Leaves, Completes, FromMouse, decoders
<1>2. /\ ~Ending /\ k \in Nat /\ k > 0 /\ Len(bytes) \in Nat
      /\ bytes = << >> <=> Len(bytes) = 0
      /\ Len(packet') = k - 1
      /\ packet' = << >> <=> k = 1
      /\ PacketSize \in {3, 4}
  <2>1. packet \in Seq(MouseBytes) /\ bytes \in Seq(MouseBytes)
    BY DEF TypeOK
  <2>2. ~Ending /\ PacketSize \in {3, 4}
    BY <1>1, InputAssumption DEF Ending
  <2>3. k \in Nat /\ k > 0 /\ Len(packet') = k - 1
    BY <1>1, <2>1
  <2>4. packet' \in Seq(MouseBytes)
    BY <1>1, <2>1
  <2>5. \A T, q : q \in Seq(T) => Len(q) \in Nat /\ (q = << >> <=> Len(q) = 0)
    OBVIOUS
  <2> HIDE DEF k
  <2>6. Len(bytes) \in Nat /\ (bytes = << >> <=> Len(bytes) = 0)
    BY <2>1, <2>5
  <2>7. packet' = << >> <=> k - 1 = 0
    BY <2>3, <2>4, <2>5
  <2> QED
    BY <2>2, <2>3, <2>6, <2>7
<1>3. Len(bytes) + k = PacketSize /\ prev_lb = was
  BY <1>1, <1>2 DEF MouseOK, PacketOK, ButtonOK
<1>4. k > 1 => was' = was
  <2>1. was' = (was /\ k > 1)
    BY DEF Place, Leaves
  <2> QED
    BY <2>1 DEF TypeOK
<1>5. bytes = << >> => packet[1] = First(button)
  BY <1>2, <1>3 DEF MouseOK, ButtonOK
<1>6. bytes # << >> => bytes[1].lb = button
  BY <1>2 DEF MouseOK, ButtonOK
<1>7. CASE k > 1
  <2>1. ~Ending' /\ packet' # << >> /\ was' = was
    BY <1>1, <1>2, <1>4, <1>7 DEF Ending
  <2>2. PacketOK'
    BY <1>1, <1>2, <1>3, <2>1 DEF PacketOK
  <2>3. ButtonOK'
    <3>1. Len(packet') # PacketSize
      BY <1>2, <1>3
    <3>2. bytes = << >> => out'.byte = First(button)
      BY <1>1, <1>5
    <3> QED
      BY <1>1, <1>3, <1>6, <2>1, <3>1, <3>2 DEF ButtonOK
  <2> QED
    BY <2>2, <2>3 DEF MouseOK
<1>8. CASE k = 1
  <2>1. /\ Ending' /\ packet' = << >>
        /\ out'.of[1] = was /\ out'.of[2] = button
    BY <1>1, <1>2, <1>8 DEF Ending
  <2>2. PacketOK'
    BY <1>1, <1>2, <1>3, <1>8, <2>1 DEF PacketOK
  <2>3. ButtonOK'
    BY <1>1, <1>2, <1>3, <1>6, <1>8, <2>1 DEF ButtonOK
  <2> QED
    BY <2>2, <2>3 DEF MouseOK
<1> QED
  BY <1>2, <1>7, <1>8

\* A byte of the mouse is read: it continues the packet or ends it, and then the
\* packet gives a click if the button was up in the packet before.
LEMMA ReadMouse ==
  ASSUME TypeOK, OutOK, Prompt, MouseOK, FromMouse, interrupts_handler
  PROVE  /\ MouseOK' /\ out' = NoByte
         /\ UNCHANGED <<scancode, two_byte, mods>>
         /\ LET click == IF out.of # << >> /\ out.of[2]
                           THEN <<Mouse(~out.of[1], out.of[1])>> ELSE << >>
            IN  MousePushed \in {click, click \o <<Mouse(FALSE, FALSE)>>}
<1>1. out # NoByte /\ irq = {"mouse"} /\ ~out.bad
  BY NoByteDev DEF Prompt, FromMouse
<1>2. ~KeyboardReads /\ MouseReads
  BY <1>1 DEF KeyboardReads, MouseReads, AfterKeyboard, Readable, FromMouse
<1>3. out' = NoByte /\ ~FromMouse' /\ ~Ending' /\ UNCHANGED mouse
  BY <1>2, NoByteDev DEF interrupts_handler, FromMouse, Ending
<1>4. UNCHANGED <<scancode, two_byte, mods>>
  BY <1>1 DEF interrupts_handler, KeyboardHandler
<1>5. TakesByte(out.byte)
  BY DEF TakesByte, MouseOK, ButtonOK, First
<1>6. /\ bytes \in Seq(MouseBytes) /\ PacketSize \in {3, 4} /\ packet \in Seq(MouseBytes)
      /\ out.byte \in MouseBytes
      /\ out.of = << >> \/ out.of \in BOOLEAN \X BOOLEAN
  BY InputAssumption, NoByteDev DEF TypeOK, OutOK, FromMouse
<1>7. CASE Ending
  <2>1. Complete
    BY <1>2, <1>5, <1>7 DEF Complete, MouseOK, PacketOK
  <2>2. bytes # << >> /\ bytes[1].lb = out.of[2] /\ prev_lb = out.of[1]
    BY <1>6, <1>7 DEF MouseOK, PacketOK, ButtonOK
  <2>3. bytes' = << >> /\ prev_lb' = out.of[2]
    BY <1>2, <1>5, <2>1, <2>2 DEF interrupts_handler, MouseHandler, mouse_ih, mouse_process
  <2>4. PacketOK'
    BY <1>3, <1>6, <1>7, <2>3 DEF MouseOK, PacketOK, mouse
  <2>5. ButtonOK'
    BY <1>3, <1>6, <1>7, <2>3 DEF MouseOK, PacketOK, ButtonOK, mouse
  <2>6. out.of # << >>
    BY <1>7 DEF Ending
  <2>7. ASSUME NEW wheel, wheel = IF Wheeled THEN <<Mouse(FALSE, FALSE)>> ELSE << >>,
               NEW click, click = IF out.of[2] THEN <<Mouse(~out.of[1], out.of[1])>> ELSE << >>
        PROVE  click \o wheel \in {click, click \o <<Mouse(FALSE, FALSE)>>}
    <3>1. \A x : <<x>> \o << >> = <<x>> /\ << >> \o << >> = << >>
      OBVIOUS
    <3>2. click \o << >> = click
      BY <2>7, <3>1, Zenon
    <3> QED
      BY <2>7, <3>2, Zenon
  <2> QED
    BY <1>3, <1>4, <2>1, <2>2, <2>4, <2>5, <2>6, <2>7 DEF MouseOK, MousePushed
<1>8. CASE ~Ending
  <2>1. out.of = << >> /\ packet # << >> /\ Len(bytes) + 1 + Len(packet) = PacketSize
    BY <1>7, <1>8 DEF Ending, MouseOK, PacketOK
  <2>2. ~Complete
    BY <1>6, <2>1 DEF Complete
  <2>3. bytes' = Append(bytes, out.byte) /\ prev_lb' = prev_lb
    BY <1>2, <1>5, <2>2 DEF interrupts_handler, MouseHandler, mouse_ih
  <2>4. PacketOK'
    BY <1>3, <1>6, <2>1, <2>3 DEF PacketOK, mouse
  <2>5. bytes'[1].lb = button
    BY <1>6, <1>8, <2>3 DEF MouseOK, ButtonOK, First
  <2>6. ButtonOK'
    BY <1>3, <1>6, <1>8, <2>1, <2>3, <2>5 DEF MouseOK, ButtonOK, mouse
  <2> QED
    BY <1>3, <1>4, <2>1, <2>2, <2>4, <2>6 DEF MouseOK, MousePushed
<1> QED
  BY <1>7, <1>8

-----------------------------------------------------------------------------
(* The specification                                                       *)

\* A code without a meaning is among those that may come.
LEMMA NoMeaning == \A make \in BOOLEAN : Key("none", make) \in KeyBytes
<1> USE DEF Key, E0
<1> DEFINE codes == UNION { {b.code : b \in Range(Sends(k, TRUE))} : k \in Keys }
<1>1. KeyBytes = {E0} \cup {Key(c, b) : c \in (codes \ {"E0"}) \cup {"none"}, b \in BOOLEAN}
  BY DEF KeyBytes
<1> HIDE DEF codes
<1> QED
  BY <1>1

\* Nothing is held and nothing on its way when the handlers are installed.
LEMMA InitInv == Init => Inv
<1> SUFFICES ASSUME Init PROVE Inv
  OBVIOUS
<1>1. OutOK /\ ~FromKeyboard /\ ~FromMouse /\ ~Ending
  BY NoByteDev DEF Init, OutOK, FromKeyboard, FromMouse, Ending
<1>2. TypeOK
  <2>1. Key("none", TRUE) \in KeyBytes
    BY NoMeaning
  <2>2. scancode \in KeyBytes
    BY <2>1, Zenon DEF Init
  <2>3. /\ held \subseteq Keys /\ wire \in Seq(KeyBytes) /\ last = << >>
        /\ button \in BOOLEAN /\ was \in BOOLEAN /\ packet \in Seq(MouseBytes)
        /\ irq \subseteq Devices /\ two_byte \in BOOLEAN /\ mods \subseteq Modifiers
        /\ bytes \in Seq(MouseBytes) /\ bytes = << >> /\ prev_lb \in BOOLEAN
    <3>1. /\ held = {} /\ wire = << >> /\ last = << >> /\ button = FALSE /\ was = FALSE
          /\ packet = << >> /\ irq = {} /\ two_byte = FALSE /\ mods = {}
          /\ bytes = << >> /\ prev_lb = FALSE
      BY Zenon DEF Init
    <3>2. \A T : << >> \in Seq(T) /\ {} \subseteq T
      OBVIOUS
    <3>3. wire \in Seq(KeyBytes) /\ packet \in Seq(MouseBytes) /\ bytes \in Seq(MouseBytes)
      BY <3>1, <3>2, Zenon
    <3> QED
      BY <3>1, <3>3
  <2>4. damage \in 0 .. MaxDamage /\ Len(bytes) < PacketSize
    BY <2>3, InputAssumption DEF Init
  <2> QED
    BY <2>2, <2>3, <2>4 DEF TypeOK
<1>3. WireOK /\ DecoderOK
  BY <1>1 DEF Init, WireOK, DecoderOK
<1>4. ModsOK
  <2>1. \A m \in Modifiers : HeldBy[m] # {}
    BY DEF Modifiers, HeldBy
  <2> QED
    BY <1>1, <2>1 DEF Init, ModsOK, Follows
<1>5. PacketOK /\ ButtonOK
  <2>1. Len(packet) # PacketSize
    BY InputAssumption DEF Init
  <2> QED
    BY <1>1, <2>1 DEF Init, PacketOK, ButtonOK
<1>6. Prompt
  BY DEF Init, Prompt
<1> QED
  BY <1>1, <1>2, <1>3, <1>4, <1>5, <1>6 DEF Inv, Undamaged

\* The types hold after every step.
LEMMA NextTypes ==
  ASSUME TypeOK, OutOK, [Next]_vars
  PROVE  TypeOK' /\ OutOK'
<1>1. CASE UNCHANGED vars
  BY <1>1 DEF vars, keyboard, mouse, decoders, TypeOK, OutOK
<1>2. CASE \E key \in Keys, make \in BOOLEAN : KeyAction(key, make)
  BY <1>2, KeyActionTypes
<1>3. CASE Sample
  BY <1>3, SampleTypes
<1>4. CASE PlaceAny
  BY <1>4, PlaceTypes DEF PlaceAny
<1>5. CASE \E dev \in Devices : Lose(dev) \/ Spurious(dev)
  BY <1>5, DamageTypes
<1>6. CASE interrupts_handler
  BY <1>6, HandlerTypes
<1> QED
  BY <1>1, <1>2, <1>3, <1>4, <1>5, <1>6 DEF Next

\* A step that damages nothing keeps the rest of the invariant.
LEMMA NextUndamaged ==
  ASSUME TypeOK, OutOK, Undamaged, Next, damage = 0, damage' = 0
  PROVE  Undamaged'
<1> SUFFICES Prompt' /\ KeyboardOK' /\ MouseOK'
  BY DEF Undamaged, KeyboardOK, MouseOK
<1>1. Prompt /\ KeyboardOK /\ MouseOK
  BY DEF Undamaged, KeyboardOK, MouseOK
<1>2. ASSUME NEW key \in Keys, NEW make \in BOOLEAN, KeyAction(key, make)
      PROVE  Prompt' /\ KeyboardOK' /\ MouseOK'
  <2>1. UNCHANGED <<mouse, out, irq, decoders>>
    BY <1>2 DEF KeyAction
  <2> QED
    BY <1>1, <1>2, <2>1, KeyActionKeyboard, KeyActionMouse DEF Prompt
<1>3. CASE Sample
  <2>1. UNCHANGED <<keyboard, out, irq, decoders>>
    BY <1>3 DEF Sample
  <2>2. KeyboardOK'
    BY <1>1, <2>1 DEF KeyboardOK, WireOK, DecoderOK, ModsOK, Code, Left, Unread,
                      Follows, FromKeyboard, keyboard, decoders
  <2> QED
    BY <1>1, <1>3, <2>1, <2>2, SampleMouse DEF Prompt
<1>4. ASSUME NEW dev \in Devices, NEW bad \in BOOLEAN, Place(dev, bad)
      PROVE  Prompt' /\ KeyboardOK' /\ MouseOK'
  <2>1. bad = FALSE
    BY <1>4 DEF Place
  <2>2. /\ out = NoByte /\ irq' = irq \cup {dev} /\ out'.dev = dev /\ out'.bad = FALSE
        /\ UNCHANGED decoders
    BY <1>4, <2>1 DEF Place
  <2>3. Prompt'
    BY <1>1, <2>2, NoByteDev DEF Prompt, Devices
  <2>4. CASE dev = "keyboard"
    <3>1. ~FromMouse /\ ~FromMouse' /\ UNCHANGED mouse
      BY <1>4, <2>2, <2>4, NoByteDev DEF FromMouse, Place, Leaves
    <3> QED
      BY <1>1, <1>4, <2>1, <2>2, <2>3, <2>4, <3>1, PlaceKeyboard, MouseAside DEF decoders
  <2>5. CASE dev = "mouse"
    <3>1. ~FromKeyboard /\ ~FromKeyboard' /\ UNCHANGED keyboard
      BY <1>4, <2>2, <2>5, NoByteDev DEF FromKeyboard, Place, Leaves
    <3> QED
      BY <1>1, <1>4, <2>1, <2>2, <2>3, <2>5, <3>1, PlaceMouse, KeyboardAside
         DEF decoders, keyboard
  <2> QED
    BY <2>4, <2>5 DEF Devices
<1>5. CASE \E dev \in Devices : Lose(dev) \/ Spurious(dev)
  BY <1>5, DamageTypes
<1>6. CASE interrupts_handler
  <2>1. irq' = {} /\ UNCHANGED <<keyboard, mouse>>
    BY <1>6 DEF interrupts_handler
  <2>2. FromKeyboard \/ FromMouse
    BY <1>1, <1>6 DEF interrupts_handler, Prompt, OutOK, FromKeyboard, FromMouse
  <2>3. CASE FromKeyboard
    <3>1. /\ ~FromMouse /\ ~FromMouse' /\ out' = NoByte /\ KeyboardOK'
          /\ UNCHANGED <<bytes, prev_lb>>
      BY <1>1, <1>6, <2>3, KeyboardReading, ReadEarlier, ReadLast, NoByteDev
         DEF FromKeyboard, FromMouse
    <3> QED
      BY <1>1, <2>1, <3>1, MouseAside DEF Prompt
  <2>4. CASE FromMouse
    <3>1. /\ ~FromKeyboard /\ ~FromKeyboard' /\ out' = NoByte /\ MouseOK'
          /\ UNCHANGED <<two_byte, mods>>
      BY <1>1, <1>6, <2>4, ReadMouse, NoByteDev DEF FromKeyboard, FromMouse
    <3> QED
      BY <1>1, <2>1, <3>1, KeyboardAside DEF Prompt, keyboard
  <2> QED
    BY <2>2, <2>3, <2>4
<1> QED
  BY <1>2, <1>3, <1>4, <1>5, <1>6 DEF Next, PlaceAny

\* Each step of a user, of the controller or of the handler keeps Inv.
LEMMA InvStep == Inv /\ [Next]_vars => Inv'
<1> SUFFICES ASSUME Inv, [Next]_vars PROVE Inv'
  OBVIOUS
<1>1. TypeOK' /\ OutOK'
  BY NextTypes DEF Inv
<1>2. damage' = 0 => damage = 0
  <2>1. damage \in Nat
    BY InputAssumption DEF Inv, TypeOK
  <2> QED
    BY <2>1 DEF Next, PlaceAny, Place, KeyAction, Sample, Lose, Spurious, interrupts_handler, vars
<1>3. CASE Next
  BY <1>1, <1>2, <1>3, NextUndamaged DEF Inv
<1>4. CASE UNCHANGED vars
  <2>1. Undamaged => Undamaged'
    BY <1>4 DEF Undamaged, Prompt, WireOK, DecoderOK, ModsOK, PacketOK, ButtonOK, Code,
                Left, Unread, Follows, FromKeyboard, FromMouse, Ending,
                vars, keyboard, mouse, decoders
  <2> QED
    BY <1>1, <1>2, <2>1 DEF Inv
<1> QED
  BY <1>3, <1>4

\* Inv is an invariant of keyboard.c and mouse.c, whichever keys there are, however
\* many are held, and with a wheel or without.
THEOREM InvAlways == Spec => []Inv
<1>1. Init => Inv
  BY InitInv
<1>2. Inv /\ [Next]_vars => Inv'
  BY InvStep
<1> QED
  BY <1>1, <1>2, PTL DEF Spec

\* The types of the drivers' and the decoders' variables.
THEOREM InputTypes == Spec => []TypeOK
<1>1. Inv => TypeOK
  BY DEF Inv
<1> QED
  BY <1>1, InvAlways, PTL

\* kb follows the modifier keys when nothing of the keyboard is on its way.
THEOREM ModifiersFollow == Spec => []ModifiersFollowKeys
<1>1. Inv => ModifiersFollowKeys
  <2> SUFFICES ASSUME Inv, damage = 0, KeyboardQuiet, NEW m \in Modifiers
               PROVE  Follows(m)
    BY DEF ModifiersFollowKeys, Follows
  <2>1. ~FromKeyboard
    BY NoByteDev DEF KeyboardQuiet, FromKeyboard
  <2>2. wire = << >> /\ Len(wire) = 0
    BY DEF KeyboardQuiet
  <2>3. last = << >>
    BY <2>2 DEF Inv, Undamaged, WireOK
  <2>4. Unread = {}
    BY <2>1, <2>3 DEF Unread
  <2> QED
    BY <2>4 DEF Inv, Undamaged, ModsOK
<1> QED
  BY <1>1, InvAlways, PTL

\* Which byte is read when a handler runs with one interrupt pending.
LEMMA HandlerReads ==
  ASSUME Inv, interrupts_handler, damage' = 0
  PROVE  /\ TypeOK /\ OutOK /\ Prompt /\ KeyboardOK /\ MouseOK
         /\ irq = {"keyboard"} => FromKeyboard
         /\ irq = {"mouse"} => FromMouse
<1>1. damage = 0
  BY DEF interrupts_handler
<1>2. Undamaged
  BY <1>1 DEF Inv
<1>3. out # NoByte /\ irq = {out.dev}
  BY <1>2 DEF Undamaged, Prompt, interrupts_handler
<1> QED
  BY <1>2, <1>3 DEF Inv, Undamaged, KeyboardOK, MouseOK, FromKeyboard, FromMouse

\* Each press or repeat types once, with the last byte of its code.
THEOREM PressesAreTyped == Spec => EachPressTyped
<1>1. ASSUME Inv, interrupts_handler, damage' = 0, irq = {"keyboard"}
      PROVE  LET of == out.of IN
             KeyPushed = IF of # << >> /\ of[2] /\ of[1] \in DOMAIN Typing
                           THEN <<[ext |-> Typing[of[1]][1], code |-> Typing[of[1]][2]]>>
                           ELSE << >>
  <2>1. /\ TypeOK /\ OutOK /\ Prompt /\ KeyboardOK /\ FromKeyboard
    BY <1>1, HandlerReads
  <2>2. CASE out.of = << >>
    BY <1>1, <2>1, <2>2, ReadEarlier
  <2>3. CASE out.of # << >>
    BY <1>1, <2>1, <2>3, ReadLast
  <2> QED
    BY <2>2, <2>3
<1> QED
  BY <1>1, InvAlways, PTL DEF EachPressTyped

\* A packet clicks if the button was up in the packet before it, and drags if not.
THEOREM PacketsClick == Spec => ClickPerPress
<1>1. ASSUME Inv, interrupts_handler, damage' = 0, irq = {"mouse"}
      PROVE  LET of    == out.of
                 click == IF of # << >> /\ of[2] THEN <<Mouse(~of[1], of[1])>> ELSE << >>
             IN  MousePushed \in {click, click \o <<Mouse(FALSE, FALSE)>>}
  <2>1. TypeOK /\ OutOK /\ Prompt /\ MouseOK /\ FromMouse
    BY <1>1, HandlerReads
  <2> QED
    BY <1>1, <2>1, ReadMouse
<1> QED
  BY <1>1, InvAlways, PTL DEF ClickPerPress
=============================================================================
