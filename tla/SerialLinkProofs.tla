--------------------------- MODULE SerialLinkProofs ---------------------------
(***************************************************************************)
(* Framing is faithful: whatever the payloads hold, however the bytes of a *)
(* packet are spread over interrupts and whatever the sizes of the FIFOs,  *)
(* the decoder of an undamaged line delivers what was sent.                *)
(*                                                                         *)
(* What the decoder makes of the bytes under way is a recursive function;  *)
(* its properties are proved by induction over the set of the numbers of   *)
(* bytes for which they hold.                                              *)
(*                                                                         *)
(* On a damaged line, the hurt places in what was sent, no more of them    *)
(* than there is damage, explain what is under way and what was delivered. *)
(***************************************************************************)
EXTENDS SerialLink, SequenceTheorems, FiniteSetTheorems, WellFoundedInduction, TLAPS

\* Induction, for a property given by the set of the numbers that have it.
LEMMA Induct ==
  ASSUME NEW S, 0 \in S, \A n \in Nat : n \in S => n + 1 \in S
  PROVE  Nat \subseteq S
<1> SUFFICES ASSUME Nat \ S # {} PROVE FALSE
  OBVIOUS
<1> DEFINE R == {ss \in Nat \X Nat : ss[1] < ss[2]}
<1>1. IsWellFoundedOn(R, Nat)
  BY NatLessThanWellFounded DEF OpToRel
<1>2. PICK m \in Nat \ S : \A y \in Nat \ S : ~(<<y, m>> \in R)
  <2> HIDE DEF R
  <2> QED BY <1>1, WFMin
<1>3. m # 0 /\ m - 1 \in Nat /\ m - 1 < m
  BY <1>2
<1>4. m - 1 \in S
  <2> SUFFICES ASSUME m - 1 \notin S PROVE FALSE
    OBVIOUS
  <2>1. <<m - 1, m>> \in Nat \X Nat /\ <<m - 1, m>>[1] < <<m - 1, m>>[2]
    BY <1>3
  <2>2. <<m - 1, m>> \in R
    BY <2>1
  <2> QED BY <1>2, <1>3, <2>2
<1>5. (m - 1) + 1 \in S
  BY <1>3, <1>4
<1> QED
  BY <1>2, <1>3, <1>5

-----------------------------------------------------------------------------
(* The decoder                                                             *)

States == {"WAIT_START", "READ_CMD", "READ_LEN", "READ_PAYLOAD"}

\* While a payload is read, some of it is missing.
Decoder ==
  {e \in [state : States, cmd : Byte, len : Byte, buf : Seq(Byte)] :
     /\ Len(e.buf) <= e.len
     /\ e.state = "READ_PAYLOAD" => Len(e.buf) < e.len}

\* A decoder and the packets it has delivered.
Acc == [d : Decoder, out : Seq(Packet)]

\* One byte keeps the decoder well formed (serial_handle_byte).
LEMMA HandleIs ==
  ASSUME NEW e \in Decoder, NEW byte \in Byte
  PROVE  Handle(e, byte) \in Decoder
<1>1. /\ e \in [state : States, cmd : Byte, len : Byte, buf : Seq(Byte)]
      /\ Len(e.buf) <= e.len /\ Len(e.buf) \in Nat /\ e.len \in Int /\ byte \in Int
      /\ byte >= 0
      /\ e.state = "READ_PAYLOAD" => Len(e.buf) < e.len
  BY DEF Decoder, Byte
<1>2. CASE e.state = "WAIT_START"
  BY <1>1, <1>2 DEF Handle, Decoder, States
<1>3. CASE e.state = "READ_CMD"
  BY <1>1, <1>3 DEF Handle, Decoder, States
<1>4. CASE e.state = "READ_LEN"
  <2> DEFINE st == IF byte = 0 THEN "WAIT_START" ELSE "READ_PAYLOAD"
             f == [e EXCEPT !.state = st, !.len = byte, !.buf = << >>]
  <2>1. Handle(e, byte) = f
    BY <1>4 DEF Handle
  <2>2. st \in States /\ (st = "READ_PAYLOAD" => byte # 0) /\ << >> \in Seq(Byte)
    BY DEF States
  <2> HIDE DEF st
  <2>3. /\ f \in [state : States, cmd : Byte, len : Byte, buf : Seq(Byte)]
        /\ f.len = byte /\ f.buf = << >> /\ f.state = st /\ Len(<< >>) = 0
    BY <1>1, <2>2
  <2> HIDE DEF f
  <2> QED BY <1>1, <2>1, <2>2, <2>3 DEF Decoder
<1>5. CASE e.state = "READ_PAYLOAD"
  <2> DEFINE st == IF Len(e.buf) + 1 >= e.len THEN "WAIT_START" ELSE "READ_PAYLOAD"
             more == Append(e.buf, byte)
             f == [e EXCEPT !.state = st, !.buf = more]
  <2>1. Handle(e, byte) = f
    BY <1>1, <1>5 DEF Handle
  <2>2. /\ st \in States /\ (st = "READ_PAYLOAD" => ~(Len(e.buf) + 1 >= e.len))
        /\ more \in Seq(Byte) /\ Len(more) = Len(e.buf) + 1
    BY <1>1 DEF States
  <2> HIDE DEF st, more
  <2>3. /\ f \in [state : States, cmd : Byte, len : Byte, buf : Seq(Byte)]
        /\ f.len = e.len /\ f.buf = more /\ f.state = st
    BY <1>1, <2>2
  <2> HIDE DEF f
  <2> QED BY <1>1, <1>5, <2>1, <2>2, <2>3 DEF Decoder
<1> QED
  BY <1>1, <1>2, <1>3, <1>4, <1>5 DEF States

\* What is delivered is a packet.
LEMMA EventIs == ASSUME NEW e \in Decoder PROVE Event(e) \in Packet
BY DEF Decoder, Event, Packet

\* One byte, with the packets delivered before it or without.
LEMMA TakenIs ==
  ASSUME NEW acc \in Acc, NEW byte \in Byte
  PROVE  Taken(acc, byte) \in Acc
<1> DEFINE e == Handle(acc.d, byte)
           out == IF Completes(acc.d, e) THEN Append(acc.out, Event(e)) ELSE acc.out
<1>1. e \in Decoder /\ Event(e) \in Packet /\ acc.out \in Seq(Packet)
  BY HandleIs, EventIs DEF Acc
<1>2. Taken(acc, byte) = [d |-> e, out |-> out]
  BY Zenon DEF Taken
<1> HIDE DEF e
<1>3. out \in Seq(Packet)
  BY <1>1
<1> QED
  BY <1>1, <1>2, <1>3 DEF Acc

\* Packets built before do not matter to what the next byte builds.
LEMMA TakenAfter ==
  ASSUME NEW e \in Decoder, NEW p \in Seq(Packet), NEW q \in Seq(Packet), NEW byte \in Byte
  PROVE  Taken([d |-> e, out |-> p \o q], byte)
           = [d   |-> Taken([d |-> e, out |-> q], byte).d,
              out |-> p \o Taken([d |-> e, out |-> q], byte).out]
<1> DEFINE f == Handle(e, byte)
           x == Event(f)
<1>1. x \in Packet
  BY HandleIs, EventIs
<1>2. Taken([d |-> e, out |-> q], byte)
        = [d |-> f, out |-> IF Completes(e, f) THEN Append(q, x) ELSE q]
  BY DEF Taken
<1>3. Taken([d |-> e, out |-> p \o q], byte)
        = [d |-> f, out |-> IF Completes(e, f) THEN Append(p \o q, x) ELSE p \o q]
  BY DEF Taken
<1> HIDE DEF f, x
<1>4. Append(p \o q, x) = p \o Append(q, x)
  BY <1>1
<1> DEFINE one == Taken([d |-> e, out |-> q], byte)
<1>5. CASE Completes(e, f)
  <2>1. one = [d |-> f, out |-> Append(q, x)]
    BY <1>2, <1>5, Zenon
  <2>2. Taken([d |-> e, out |-> p \o q], byte) = [d |-> f, out |-> p \o Append(q, x)]
    BY <1>3, <1>4, <1>5, Zenon
  <2> HIDE DEF one
  <2>3. one.d = f /\ one.out = Append(q, x)
    BY <2>1
  <2> QED BY <2>2, <2>3, Zenon DEF one
<1>6. CASE ~Completes(e, f)
  <2>1. one = [d |-> f, out |-> q]
    BY <1>2, <1>6, Zenon
  <2>2. Taken([d |-> e, out |-> p \o q], byte) = [d |-> f, out |-> p \o q]
    BY <1>3, <1>6, Zenon
  <2> HIDE DEF one
  <2>3. one.d = f /\ one.out = q
    BY <2>1
  <2> QED BY <2>2, <2>3, Zenon DEF one
<1> QED
  BY <1>5, <1>6

-----------------------------------------------------------------------------
(* Decoding several bytes                                                  *)

\* Decoding is defined for all sequences of bytes, and what it says of each byte
\* follows from what it says of the one before.
LEMMA DecodingIs ==
  ASSUME NEW e \in Decoder, NEW bytes \in Seq(Byte)
  PROVE  LET after == Decoding(e, bytes)
         IN  /\ after[0] = [d |-> e, out |-> << >>]
             /\ \A i \in 1 .. Len(bytes) : after[i] = Taken(after[i - 1], bytes[i])
             /\ \A i \in 0 .. Len(bytes) : after[i] \in Acc
<1> DEFINE n == Len(bytes)
           first == [d |-> e, out |-> << >>]
           Upto(m) == \E g \in [0 .. m -> Acc] :
                         /\ g[0] = first
                         /\ \A i \in 1 .. m : g[i] = Taken(g[i - 1], bytes[i])
           S == {m \in Nat : m <= n => Upto(m)}
<1>1. n \in Nat /\ \A i \in 1 .. n : bytes[i] \in Byte
  OBVIOUS
<1>2. first \in Acc
  BY DEF Acc
<1> HIDE DEF n, first
<1>3. Upto(0)
  <2> DEFINE g == [i \in 0 .. 0 |-> first]
  <2>1. g \in [0 .. 0 -> Acc] /\ g[0] = first
    BY <1>2
  <2>2. \A i \in 1 .. 0 : g[i] = Taken(g[i - 1], bytes[i])
    OBVIOUS
  <2> HIDE DEF g
  <2> QED BY <2>1, <2>2
<1>4. ASSUME NEW m \in Nat, Upto(m), m + 1 <= n PROVE Upto(m + 1)
  <2>1. PICK g \in [0 .. m -> Acc] :
               /\ g[0] = first
               /\ \A i \in 1 .. m : g[i] = Taken(g[i - 1], bytes[i])
    BY <1>4
  <2> DEFINE k == m + 1
             next == Taken(g[m], bytes[k])
             x == [i \in 0 .. k |-> IF i = k THEN next ELSE g[i]]
  <2>2. /\ k \in 1 .. n /\ k # 0 /\ k - 1 = m /\ m \in 0 .. m
        /\ \A i \in 0 .. k : i = k \/ i \in 0 .. m
        /\ \A i \in 1 .. k : i - 1 # k /\ i - 1 \in 0 .. k /\ (i = k \/ i \in 1 .. m)
    BY <1>1, <1>4
  <2> HIDE DEF k
  <2>3. next \in Acc
    BY <1>1, <2>1, <2>2, TakenIs
  <2> HIDE DEF next
  <2>4. x \in [0 .. k -> Acc]
    BY <2>1, <2>2, <2>3
  <2>5. x[0] = first
    BY <1>4, <2>1, <2>2 DEF k
  <2>6. ASSUME NEW i \in 1 .. k PROVE x[i] = Taken(x[i - 1], bytes[i])
    <3>1. i \in 0 .. k /\ i - 1 \in 0 .. k /\ i - 1 # k
      BY <1>4, <2>2 DEF k
    <3>2. x[i - 1] = g[i - 1]
      BY <3>1
    <3>3. CASE i = k
      <4>1. x[i] = next /\ i - 1 = m
        BY <2>2, <3>1, <3>3
      <4> QED BY <3>2, <3>3, <4>1, Zenon DEF next
    <3>4. CASE i # k
      <4>1. x[i] = g[i] /\ i \in 1 .. m
        BY <2>2, <3>1, <3>4
      <4> QED BY <2>1, <3>2, <4>1
    <3> QED BY <3>3, <3>4
  <2> HIDE DEF x
  <2> QED BY <2>4, <2>5, <2>6 DEF k
<1>5. Upto(n)
  <2> HIDE DEF Upto
  <2>1. 0 \in S
    BY <1>3
  <2>2. \A m \in Nat : m \in S => m + 1 \in S
    BY <1>1, <1>4
  <2>3. Nat \subseteq S
    <3> HIDE DEF S
    <3> QED BY <2>1, <2>2, Induct
  <2> QED BY <1>1, <2>3
<1>6. PICK g \in [0 .. n -> Acc] :
             /\ g[0] = first
             /\ \A i \in 1 .. n : g[i] = Taken(g[i - 1], bytes[i])
  BY <1>5
<1> DEFINE after[i \in 0 .. Len(bytes)] ==
             IF i = 0 THEN [d |-> e, out |-> << >>] ELSE Taken(after[i - 1], bytes[i])
<1>7. g = [i \in 0 .. Len(bytes) |->
             IF i = 0 THEN [d |-> e, out |-> << >>] ELSE Taken(g[i - 1], bytes[i])]
  <2>1. \A i \in 0 .. n : i = 0 \/ i \in 1 .. n
    BY <1>1
  <2>2. \A i \in 0 .. n : g[i] = IF i = 0 THEN first ELSE Taken(g[i - 1], bytes[i])
    BY <1>6, <2>1, Zenon
  <2>3. g = [i \in 0 .. n |-> IF i = 0 THEN first ELSE Taken(g[i - 1], bytes[i])]
    BY <1>6, <2>2
  <2> QED BY <2>3, Zenon DEF n, first
<1>8. after = [i \in 0 .. Len(bytes) |->
                 IF i = 0 THEN [d |-> e, out |-> << >>] ELSE Taken(after[i - 1], bytes[i])]
  BY <1>7
<1>9. Decoding(e, bytes) = after
  BY Zenon DEF Decoding
<1> HIDE DEF after
<1>10. /\ after[0] = first
       /\ \A i \in 1 .. n : after[i] = Taken(after[i - 1], bytes[i])
  <2>1. \A i \in 0 .. n : after[i] = IF i = 0 THEN first ELSE Taken(after[i - 1], bytes[i])
    BY <1>8, Zenon DEF n, first
  <2>2. 0 \in 0 .. n /\ \A i \in 1 .. n : i \in 0 .. n /\ i # 0
    BY <1>1
  <2> QED BY <2>1, <2>2, Zenon
<1> DEFINE B == {m \in Nat : m <= n => after[m] \in Acc}
<1>11. Nat \subseteq B
  <2>1. 0 \in B
    BY <1>2, <1>10
  <2>2. ASSUME NEW m \in Nat, m \in B PROVE m + 1 \in B
    <3> SUFFICES ASSUME m + 1 <= n PROVE after[m + 1] \in Acc
      OBVIOUS
    <3> DEFINE k == m + 1
    <3>1. k \in 1 .. n /\ k - 1 = m /\ after[m] \in Acc
      BY <1>1, <2>2
    <3> HIDE DEF k
    <3>2. after[k] = Taken(after[m], bytes[k]) /\ bytes[k] \in Byte
      BY <1>1, <1>10, <3>1
    <3> QED BY <3>1, <3>2, TakenIs DEF k
  <2> HIDE DEF B
  <2> QED BY <2>1, <2>2, Induct
<1>12. \A i \in 0 .. n : after[i] \in Acc
  BY <1>1, <1>11
<1> QED
  BY <1>9, <1>10, <1>12 DEF n, first

\* The decoder after all of the bytes, with what it delivered.
End(e, bytes) == Decoding(e, bytes)[Len(bytes)]

\* A pair is what its components are.
LEMMA AccIs ==
  ASSUME NEW acc \in Acc
  PROVE  acc = [d |-> acc.d, out |-> acc.out] /\ acc.d \in Decoder /\ acc.out \in Seq(Packet)
BY DEF Acc

\* Decoding bytes ends in a state of the decoder and a sequence of packets.
LEMMA EndIs ==
  ASSUME NEW e \in Decoder, NEW bytes \in Seq(Byte)
  PROVE  End(e, bytes) \in Acc
<1>1. Len(bytes) \in 0 .. Len(bytes)
  OBVIOUS
<1> QED
  BY <1>1, DecodingIs DEF End

\* The first bytes are decoded as if no others followed, and the others as if the
\* decoder had started where the first ones left it.
LEMMA EndOfConcat ==
  ASSUME NEW e \in Decoder, NEW s \in Seq(Byte), NEW t \in Seq(Byte)
  PROVE  End(e, s \o t) = [d   |-> End(End(e, s).d, t).d,
                           out |-> End(e, s).out \o End(End(e, s).d, t).out]
<1> DEFINE m == Len(s)
           n == Len(t)
           all == Decoding(e, s \o t)
           one == Decoding(e, s)
           a == End(e, s)
           two == Decoding(a.d, t)
           Both(j) == [d |-> two[j].d, out |-> a.out \o two[j].out]
<1>1. /\ m \in Nat /\ n \in Nat /\ s \o t \in Seq(Byte) /\ Len(s \o t) = m + n
      /\ \A i \in 1 .. m : (s \o t)[i] = s[i] /\ s[i] \in Byte
      /\ \A j \in 1 .. n : (s \o t)[m + j] = t[j] /\ t[j] \in Byte
  OBVIOUS
<1>2. /\ all[0] = [d |-> e, out |-> << >>]
      /\ \A i \in 1 .. m + n : all[i] = Taken(all[i - 1], (s \o t)[i])
  BY <1>1, DecodingIs
<1>3. /\ one[0] = [d |-> e, out |-> << >>]
      /\ \A i \in 1 .. m : one[i] = Taken(one[i - 1], s[i])
  BY DecodingIs
<1>4. a \in Acc /\ a = one[m]
  BY EndIs DEF End
<1>5. a.d \in Decoder /\ a.out \in Seq(Packet) /\ a = [d |-> a.d, out |-> a.out]
  BY <1>4, AccIs
<1> HIDE DEF a, one, all
<1>6. /\ two[0] = [d |-> a.d, out |-> << >>]
      /\ \A j \in 1 .. n : two[j] = Taken(two[j - 1], t[j])
      /\ \A j \in 0 .. n : two[j] \in Acc
  BY <1>5, DecodingIs
<1> HIDE DEF two, m, n
<1> DEFINE S == {i \in Nat : i <= m => all[i] = one[i]}
<1>7. Nat \subseteq S
  <2>1. 0 \in S
    BY <1>2, <1>3
  <2>2. ASSUME NEW i \in Nat, i \in S PROVE i + 1 \in S
    <3> SUFFICES ASSUME i + 1 <= m PROVE all[i + 1] = one[i + 1]
      OBVIOUS
    <3> DEFINE k == i + 1
    <3>1. k \in 1 .. m /\ k \in 1 .. m + n /\ k - 1 = i /\ all[i] = one[i]
      BY <1>1, <2>2
    <3> HIDE DEF k
    <3>2. all[k] = Taken(all[i], s[k]) /\ one[k] = Taken(one[i], s[k])
      BY <1>1, <1>2, <1>3, <3>1
    <3> QED BY <3>1, <3>2 DEF k
  <2> HIDE DEF S
  <2> QED BY <2>1, <2>2, Induct
<1> DEFINE T == {j \in Nat : j <= n => all[m + j] = Both(j)}
<1>8. Nat \subseteq T
  <2>1. 0 \in T
    <3>1. all[m] = a
      BY <1>1, <1>4, <1>7
    <3>2. a.out \o << >> = a.out
      BY <1>5
    <3>3. two[0].d = a.d /\ two[0].out = << >>
      BY <1>6
    <3>4. Both(0) = a
      BY <1>5, <3>2, <3>3, Zenon
    <3>5. m + 0 = m
      BY <1>1
    <3> HIDE DEF Both
    <3> QED BY <3>1, <3>4, <3>5
  <2>2. ASSUME NEW j \in Nat, j \in T PROVE j + 1 \in T
    <3> SUFFICES ASSUME j + 1 <= n PROVE all[m + (j + 1)] = Both(j + 1)
      BY DEF T
    <3> DEFINE k == j + 1
               x == two[j].d
               q == two[j].out
    <3>1. /\ k \in 1 .. n /\ m + k \in 1 .. m + n /\ k - 1 = j /\ (m + k) - 1 = m + j
          /\ j \in 0 .. n
      BY <1>1
    <3>2. all[m + j] = Both(j)
      BY <1>1, <2>2, <3>1
    <3>3. two[j] \in Acc
      BY <1>6, <3>1
    <3>4. two[j] = [d |-> x, out |-> q] /\ x \in Decoder /\ q \in Seq(Packet)
      BY <3>3, AccIs
    <3> HIDE DEF k
    <3>5. all[m + k] = Taken(all[m + j], (s \o t)[m + k])
      BY <1>2, <3>1
    <3>6. (s \o t)[m + k] = t[k] /\ t[k] \in Byte
      BY <1>1, <3>1
    <3>7. two[k] = Taken(two[j], t[k])
      BY <1>6, <3>1
    <3>8. two[k] = Taken([d |-> x, out |-> q], t[k])
      BY <3>4, <3>7, Zenon
    <3>9. all[m + k] = Taken([d |-> x, out |-> a.out \o q], t[k])
      BY <3>2, <3>5, <3>6, Zenon
    <3> HIDE DEF x, q
    <3>10. Taken([d |-> x, out |-> a.out \o q], t[k])
             = [d   |-> Taken([d |-> x, out |-> q], t[k]).d,
                out |-> a.out \o Taken([d |-> x, out |-> q], t[k]).out]
      BY <1>5, <3>4, <3>6, TakenAfter
    <3>11. all[m + k] = Both(k)
      BY <3>8, <3>9, <3>10, Zenon
    <3> QED BY <3>11 DEF k
  <2> HIDE DEF T
  <2> QED BY <2>1, <2>2, Induct
<1>9. all[m + n] = Both(n)
  <2> HIDE DEF Both
  <2>1. n \in T /\ n <= n
    BY <1>1, <1>8
  <2> QED BY <2>1
<1> QED
  BY <1>1, <1>9, Zenon DEF End, all, two, a, m, n

\* Decoding no bytes changes nothing.
LEMMA EndOfNone ==
  ASSUME NEW e \in Decoder
  PROVE  End(e, << >>) = [d |-> e, out |-> << >>]
<1>1. << >> \in Seq(Byte) /\ Len(<< >>) = 0
  OBVIOUS
<1> DEFINE none == << >>
<1>2. none \in Seq(Byte) /\ Len(none) = 0
  BY <1>1
<1> HIDE DEF none
<1>3. Decoding(e, none)[0] = [d |-> e, out |-> << >>]
  BY <1>2, DecodingIs
<1> QED
  BY <1>2, <1>3, Zenon DEF End, none

\* What a byte delivers to a decoder.
Gives(e, byte) ==
  IF Completes(e, Handle(e, byte)) THEN <<Event(Handle(e, byte))>> ELSE << >>

\* A byte completes a packet or none.
LEMMA GivesIs ==
  ASSUME NEW e \in Decoder, NEW byte \in Byte
  PROVE  Gives(e, byte) \in Seq(Packet)
BY HandleIs, EventIs DEF Gives

\* Decoding one byte is what serial_handle_byte does with it.
LEMMA EndOfOne ==
  ASSUME NEW e \in Decoder, NEW byte \in Byte
  PROVE  End(e, <<byte>>) = [d |-> Handle(e, byte), out |-> Gives(e, byte)]
<1> DEFINE one == <<byte>>
<1>1. one \in Seq(Byte) /\ Len(one) = 1 /\ one[1] = byte
  OBVIOUS
<1> HIDE DEF one
<1>2. Decoding(e, one)[0] = [d |-> e, out |-> << >>]
  BY <1>1, DecodingIs
<1>3. Decoding(e, one)[1] = Taken(Decoding(e, one)[0], byte)
  <2>1. 1 \in 1 .. Len(one) /\ 1 - 1 = 0
    BY <1>1
  <2> QED BY <1>1, <2>1, DecodingIs
<1>4. End(e, one) = Taken([d |-> e, out |-> << >>], byte)
  BY <1>1, <1>2, <1>3, Zenon DEF End
<1> DEFINE f == Handle(e, byte)
           x == Event(f)
<1>5. Taken([d |-> e, out |-> << >>], byte)
        = [d |-> f, out |-> IF Completes(e, f) THEN Append(<< >>, x) ELSE << >>]
  BY DEF Taken
<1>6. Gives(e, byte) = IF Completes(e, f) THEN <<x>> ELSE << >>
  BY Zenon DEF Gives
<1>7. Append(<< >>, x) = <<x>>
  OBVIOUS
<1> HIDE DEF f, x
<1> QED
  BY <1>4, <1>5, <1>6, <1>7, Zenon DEF one, f

\* One byte more at the end.
LEMMA EndOfNext ==
  ASSUME NEW e \in Decoder, NEW s \in Seq(Byte), NEW byte \in Byte
  PROVE  LET f == End(e, s).d
         IN  End(e, s \o <<byte>>)
               = [d |-> Handle(f, byte), out |-> End(e, s).out \o Gives(f, byte)]
<1> DEFINE f == End(e, s).d
           one == <<byte>>
<1>1. f \in Decoder
  BY EndIs DEF Acc
<1>2. one \in Seq(Byte)
  OBVIOUS
<1>3. End(f, one) = [d |-> Handle(f, byte), out |-> Gives(f, byte)]
  <2> HIDE DEF f
  <2> QED BY <1>1, EndOfOne
<1>4. End(f, one).d = Handle(f, byte) /\ End(f, one).out = Gives(f, byte)
  <2> HIDE DEF f, one
  <2> QED BY <1>3
<1>5. End(e, s \o one) = [d |-> End(f, one).d, out |-> End(e, s).out \o End(f, one).out]
  <2> HIDE DEF one
  <2> QED BY <1>2, EndOfConcat
<1> QED
  BY <1>4, <1>5, Zenon

\* One byte more at the front (serial_handle_byte).
LEMMA EndOfHead ==
  ASSUME NEW e \in Decoder, NEW byte \in Byte, NEW t \in Seq(Byte)
  PROVE  End(e, <<byte>> \o t)
           = [d   |-> End(Handle(e, byte), t).d,
              out |-> Gives(e, byte) \o End(Handle(e, byte), t).out]
<1> DEFINE f == Handle(e, byte)
           one == <<byte>>
<1>2. one \in Seq(Byte)
  OBVIOUS
<1>3. End(e, one) = [d |-> f, out |-> Gives(e, byte)]
  BY EndOfOne
<1>4. End(e, one).d = f /\ End(e, one).out = Gives(e, byte)
  <2> HIDE DEF f, one
  <2> QED BY <1>3
<1>5. End(e, one \o t) = [d |-> End(End(e, one).d, t).d,
                          out |-> End(e, one).out \o End(End(e, one).d, t).out]
  <2> HIDE DEF one
  <2> QED BY <1>2, EndOfConcat
<1> QED
  BY <1>4, <1>5, Zenon

-----------------------------------------------------------------------------
(* A packet that is built is decoded                                       *)

\* A prefix longer by one byte is the prefix and that byte.
LEMMA SubSeqNext ==
  ASSUME NEW q \in Seq(Byte), NEW j \in Nat, j + 1 <= Len(q)
  PROVE  /\ SubSeq(q, 1, j) \in Seq(Byte) /\ Len(SubSeq(q, 1, j)) = j
         /\ q[j + 1] \in Byte
         /\ SubSeq(q, 1, j + 1) = SubSeq(q, 1, j) \o <<q[j + 1]>>
         /\ SubSeq(q, 1, j + 1) = Append(SubSeq(q, 1, j), q[j + 1])
<1> DEFINE k == j + 1
           a == SubSeq(q, 1, j)
           b == SubSeq(q, 1, k)
           c == Append(a, q[k])
           g == a \o <<q[k]>>
<1>1. k \in 1 .. Len(q) /\ Len(q) \in Nat /\ k - 1 = j /\ j \in Nat
  OBVIOUS
<1> HIDE DEF k
<1>2. q[k] \in Byte
  BY <1>1
<1>3. /\ a \in Seq(Byte) /\ Len(a) = j
      /\ \A i \in 1 .. j : a[i] = q[i]
  BY <1>1
<1>4. /\ b \in Seq(Byte) /\ Len(b) = k
      /\ \A i \in 1 .. k : b[i] = q[i]
  BY <1>1
<1> HIDE DEF a, b
<1>5. c \in Seq(Byte) /\ Len(c) = k /\ \A i \in 1 .. k : c[i] = q[i]
  BY <1>1, <1>2, <1>3
<1>6. g \in Seq(Byte) /\ Len(g) = k /\ \A i \in 1 .. k : g[i] = q[i]
  BY <1>1, <1>2, <1>3
<1> HIDE DEF c, g
<1>7. b = c
  BY <1>4, <1>5, SeqEqual
<1>8. b = g
  BY <1>4, <1>6, SeqEqual
<1> QED
  BY <1>2, <1>3, <1>7, <1>8, Zenon DEF a, b, c, g, k

\* Until its last byte a payload is only stored.
LEMMA PayloadSoFar ==
  ASSUME NEW h \in Decoder, h.state = "READ_PAYLOAD", h.buf = << >>,
         NEW q \in Seq(Byte), Len(q) = h.len,
         NEW j \in Nat, j < Len(q)
  PROVE  End(h, SubSeq(q, 1, j)) = [d |-> [h EXCEPT !.buf = SubSeq(q, 1, j)], out |-> << >>]
<1> DEFINE Part(i) == SubSeq(q, 1, i)
           At(i) == [h EXCEPT !.buf = Part(i)]
           Stored(i) == End(h, Part(i)) = [d |-> At(i), out |-> << >>]
           S == {i \in Nat : i < Len(q) => Stored(i)}
<1>1. Len(q) \in Nat /\ h \in [state : States, cmd : Byte, len : Byte, buf : Seq(Byte)]
  BY DEF Decoder
<1>2. 0 \in S
  <2>1. Part(0) = << >>
    BY <1>1
  <2>2. At(0) = h
    BY <1>1, <2>1
  <2> HIDE DEF At, Part
  <2>3. Stored(0)
    BY <2>1, <2>2, EndOfNone
  <2> QED BY <2>3
<1>3. ASSUME NEW i \in Nat, i \in S PROVE i + 1 \in S
  <2> SUFFICES ASSUME i + 1 < Len(q) PROVE Stored(i + 1)
    BY DEF S
  <2> DEFINE k == i + 1
             f == End(h, Part(i)).d
  <2>1. Stored(i)
    <3> HIDE DEF Stored
    <3> QED BY <1>1, <1>3
  <2>2. /\ Part(i) \in Seq(Byte) /\ Len(Part(i)) = i /\ q[k] \in Byte
        /\ Part(k) = Part(i) \o <<q[k]>> /\ Part(k) = Append(Part(i), q[k])
    BY <1>1, SubSeqNext
  <2>3. k \in Nat /\ k < Len(q) /\ k = i + 1
    BY <1>1
  <2> HIDE DEF k, Part
  <2>4. f = At(i) /\ End(h, Part(i)).out = << >>
    <3> HIDE DEF At
    <3> QED BY <2>1
  <2>5. End(h, Part(k)) = [d |-> Handle(f, q[k]), out |-> << >> \o Gives(f, q[k])]
    <3>1. End(h, Part(i) \o <<q[k]>>)
            = [d |-> Handle(f, q[k]), out |-> End(h, Part(i)).out \o Gives(f, q[k])]
      BY <2>2, EndOfNext
    <3> QED BY <2>2, <2>4, <3>1, Zenon
  <2> HIDE DEF f
  <2>6. /\ f \in [state : States, cmd : Byte, len : Byte, buf : Seq(Byte)]
        /\ f.state = "READ_PAYLOAD" /\ f.buf = Part(i) /\ f.len = Len(q)
    BY <1>1, <2>2, <2>4
  <2>7. Handle(f, q[k]) = [f EXCEPT !.state = "READ_PAYLOAD", !.buf = Append(f.buf, q[k])]
    <3>1. ~(Len(f.buf) + 1 >= f.len)
      BY <1>1, <2>2, <2>3, <2>6
    <3> QED BY <2>6, <3>1 DEF Handle
  <2>8. Handle(f, q[k]) = At(k) /\ Handle(f, q[k]).state = "READ_PAYLOAD"
    <3>1. [f EXCEPT !.state = "READ_PAYLOAD", !.buf = Append(f.buf, q[k])] = At(k)
      BY <1>1, <2>2, <2>4, <2>6
    <3> QED BY <1>1, <2>7, <3>1
  <2>9. Gives(f, q[k]) = << >>
    BY <2>8 DEF Gives, Completes
  <2>10. << >> \o << >> = << >>
    OBVIOUS
  <2> HIDE DEF At
  <2>11. Stored(k)
    BY <2>5, <2>8, <2>9, <2>10, Zenon
  <2> QED BY <2>11 DEF k
<1> HIDE DEF Stored
<1>4. Nat \subseteq S
  <2> HIDE DEF S
  <2> QED BY <1>2, <1>3, Induct
<1>5. Stored(j)
  BY <1>4
<1> QED
  BY <1>5, Zenon DEF Stored

\* Its last byte makes it a packet.
LEMMA PayloadIs ==
  ASSUME NEW h \in Decoder, h.state = "READ_PAYLOAD", h.buf = << >>,
         NEW q \in Seq(Byte), Len(q) = h.len
  PROVE  /\ End(h, q).d.state = "WAIT_START"
         /\ End(h, q).out = <<[cmd |-> h.cmd, payload |-> q]>>
<1> DEFINE n == Len(q)
           j == n - 1
           Part == SubSeq(q, 1, j)
           f == [h EXCEPT !.buf = Part]
           x == q[n]
           all == Append(Part, x)
<1>1. h \in [state : States, cmd : Byte, len : Byte, buf : Seq(Byte)] /\ Len(q) > 0
  BY DEF Decoder
<1>2. j \in Nat /\ j < Len(q) /\ j + 1 = n /\ n \in Nat
  BY <1>1
<1>3. End(h, Part) = [d |-> f, out |-> << >>]
  <2> HIDE DEF j
  <2> QED BY <1>2, PayloadSoFar
<1>4. /\ Part \in Seq(Byte) /\ Len(Part) = j /\ x \in Byte
      /\ q = Part \o <<x>> /\ q = all
  <2>1. SubSeq(q, 1, n) = q
    OBVIOUS
  <2>2. /\ Part \in Seq(Byte) /\ Len(Part) = j
        /\ q[j + 1] \in Byte
        /\ SubSeq(q, 1, j + 1) = Part \o <<q[j + 1]>>
        /\ SubSeq(q, 1, j + 1) = Append(Part, q[j + 1])
    <3> HIDE DEF j
    <3> QED BY <1>2, SubSeqNext
  <2> HIDE DEF Part, n, j
  <2> QED BY <1>2, <2>1, <2>2, Zenon
<1> HIDE DEF Part, x, j
<1>5. End(h, q) = [d |-> Handle(f, x), out |-> << >> \o Gives(f, x)]
  <2>1. End(h, Part).d = f /\ End(h, Part).out = << >>
    <3> HIDE DEF f
    <3> QED BY <1>3
  <2>2. End(h, Part \o <<x>>)
          = [d |-> Handle(End(h, Part).d, x),
             out |-> End(h, Part).out \o Gives(End(h, Part).d, x)]
    BY <1>4, EndOfNext
  <2> HIDE DEF f, all
  <2> QED BY <1>4, <2>1, <2>2, Zenon
<1>6. /\ f \in [state : States, cmd : Byte, len : Byte, buf : Seq(Byte)]
      /\ f.state = "READ_PAYLOAD" /\ f.buf = Part /\ f.len = n /\ f.cmd = h.cmd
  BY <1>1, <1>4
<1> DEFINE g == [f EXCEPT !.state = "WAIT_START", !.buf = all]
<1>7. Handle(f, x) = g
  <2>1. Len(f.buf) + 1 >= f.len
    BY <1>2, <1>4, <1>6
  <2> HIDE DEF f
  <2> QED BY <1>6, <2>1 DEF Handle
<1> HIDE DEF f, all
<1>8. g.state = "WAIT_START" /\ g.cmd = h.cmd /\ g.buf = q
  BY <1>4, <1>6
<1> HIDE DEF g
<1>9. Gives(f, x) = <<[cmd |-> h.cmd, payload |-> q]>>
  BY <1>6, <1>7, <1>8 DEF Gives, Completes, Event
<1>10. << >> \o Gives(f, x) = Gives(f, x)
  BY <1>9
<1>11. End(h, q) = [d |-> g, out |-> <<[cmd |-> h.cmd, payload |-> q]>>]
  BY <1>5, <1>7, <1>9, <1>10, Zenon
<1> DEFINE r == <<[cmd |-> h.cmd, payload |-> q]>>
<1> HIDE DEF r
<1> QED
  BY <1>8, <1>11 DEF r

\* A packet is sent as bytes, and a waiting decoder makes it of them again.
THEOREM EncodeIs ==
  ASSUME NEW e \in Decoder, e.state = "WAIT_START",
         NEW p \in Packet, Len(p.payload) <= MaxPayload
  PROVE  /\ Encode(p) \in Seq(Byte)
         /\ End(e, Encode(p)).d.state = "WAIT_START"
         /\ End(e, Encode(p)).out = <<p>>
<1> DEFINE q == p.payload
           n == Len(q)
           e1 == [e EXCEPT !.state = "READ_CMD"]
           e2 == [e1 EXCEPT !.state = "READ_LEN", !.cmd = p.cmd]
           st == IF n = 0 THEN "WAIT_START" ELSE "READ_PAYLOAD"
           e3 == [e2 EXCEPT !.state = st, !.len = n, !.buf = << >>]
<1>1. /\ e \in [state : States, cmd : Byte, len : Byte, buf : Seq(Byte)]
      /\ Len(e.buf) <= e.len /\ Len(e.buf) \in Nat
      /\ q \in Seq(Byte) /\ p.cmd \in Byte /\ p = [cmd |-> p.cmd, payload |-> q]
  BY DEF Packet, Decoder
<1>2. n \in Byte /\ n \in Nat /\ n % Base = n /\ PKT_START_BYTE \in Byte
  <2>1. n \in Nat /\ n <= Base - 4 /\ Base \in Nat /\ Base > 6
    BY <1>1, SizeAssumption DEF MaxPayload
  <2> HIDE DEF n
  <2>2. n \in Byte /\ PKT_START_BYTE \in Byte
    BY <2>1 DEF Byte, PKT_START_BYTE
  <2>3. n % Base = n
    BY <2>1
  <2> QED BY <2>1, <2>2, <2>3
<1>3. st \in States /\ (st = "READ_PAYLOAD" => n > 0) /\ (n = 0 <=> st = "WAIT_START")
  BY <1>2 DEF States
<1> HIDE DEF st
<1> DEFINE s1 == <<PKT_START_BYTE>>
           s2 == <<p.cmd>>
           s3 == <<n>>
           t3 == s3 \o q
           t2 == s2 \o t3
<1>4. Encode(p) = s1 \o t2 /\ t2 \in Seq(Byte) /\ t3 \in Seq(Byte) /\ Encode(p) \in Seq(Byte)
  <2>1. s1 \in Seq(Byte) /\ s2 \in Seq(Byte) /\ s3 \in Seq(Byte)
    BY <1>1, <1>2
  <2>2. Encode(p) = <<PKT_START_BYTE, p.cmd, n>> \o q
    BY <1>2 DEF Encode
  <2> HIDE DEF n, q
  <2>3. <<PKT_START_BYTE, p.cmd, n>> = s1 \o (s2 \o s3)
    OBVIOUS
  <2> HIDE DEF s1, s2, s3
  <2>4. (s1 \o (s2 \o s3)) \o q = s1 \o (s2 \o (s3 \o q))
    BY <1>1, <2>1, SMTT(30)
  <2>5. s3 \o q \in Seq(Byte)
    BY <1>1, <2>1
  <2> HIDE DEF t3
  <2>6. s2 \o t3 \in Seq(Byte)
    BY <2>1, <2>5 DEF t3
  <2>7. s1 \o t2 \in Seq(Byte)
    BY <2>1, <2>6
  <2> QED BY <2>2, <2>3, <2>4, <2>5, <2>6, <2>7, Zenon DEF t3
<1>5. /\ e1 \in Decoder /\ e1.state = "READ_CMD"
      /\ Handle(e, PKT_START_BYTE) = e1 /\ Gives(e, PKT_START_BYTE) = << >>
  <2>1. Handle(e, PKT_START_BYTE) = e1
    BY DEF Handle, Starts
  <2>2. e1.state = "READ_CMD"
    BY <1>1
  <2> HIDE DEF e1
  <2> QED BY <1>2, <2>1, <2>2, HandleIs DEF Gives, Completes
<1>6. /\ e2 \in Decoder /\ e2.state = "READ_LEN" /\ e2.cmd = p.cmd
      /\ Handle(e1, p.cmd) = e2 /\ Gives(e1, p.cmd) = << >>
  <2>0. e1 \in [state : States, cmd : Byte, len : Byte, buf : Seq(Byte)]
    BY <1>5 DEF Decoder
  <2> HIDE DEF e1
  <2>1. Handle(e1, p.cmd) = e2
    BY <1>5 DEF Handle
  <2>2. e2.state = "READ_LEN" /\ e2.cmd = p.cmd
    BY <2>0
  <2> HIDE DEF e2
  <2> QED BY <1>1, <1>5, <2>1, <2>2, HandleIs DEF Gives, Completes
<1>7. /\ e3 \in Decoder /\ e3.state = st /\ e3.cmd = p.cmd /\ e3.len = n /\ e3.buf = << >>
      /\ Handle(e2, n) = e3
  <2>0. e2 \in [state : States, cmd : Byte, len : Byte, buf : Seq(Byte)]
    BY <1>6 DEF Decoder
  <2> HIDE DEF e2
  <2>1. Handle(e2, n) = e3
    BY <1>6 DEF Handle, st
  <2>2. e3.state = st /\ e3.cmd = p.cmd /\ e3.len = n /\ e3.buf = << >>
    BY <1>2, <1>6, <2>0
  <2> HIDE DEF e3
  <2> QED BY <1>2, <1>6, <2>1, <2>2, HandleIs
<1>8. Gives(e2, n) = IF n = 0 THEN <<Event(e3)>> ELSE << >>
  <2> HIDE DEF e3, e2
  <2> QED BY <1>2, <1>3, <1>6, <1>7 DEF Gives, Completes
<1>15. s1 = <<PKT_START_BYTE>> /\ s2 = <<p.cmd>> /\ s3 = <<n>>
  OBVIOUS
<1> HIDE DEF e1, e2, e3, s1, s2, s3, n
<1> DEFINE end == End(e3, q)
<1>9. end \in Acc
  BY <1>1, <1>7, EndIs
<1>10. end.out \in Seq(Packet) /\ Gives(e2, n) \in Seq(Packet)
  BY <1>2, <1>6, <1>9, AccIs, GivesIs
<1>11. End(e2, t3) = [d |-> end.d, out |-> Gives(e2, n) \o end.out]
  <2>1. /\ e2 \in Decoder /\ n \in Byte /\ q \in Seq(Byte)
        /\ s3 = <<n>> /\ e3 = Handle(e2, n)
    BY <1>1, <1>2, <1>6, <1>7, <1>15, Zenon
  <2>2. End(e2, s3 \o q) = [d |-> End(e3, q).d, out |-> Gives(e2, n) \o End(e3, q).out]
    <3>1. End(e2, <<n>> \o q)
            = [d   |-> End(Handle(e2, n), q).d,
               out |-> Gives(e2, n) \o End(Handle(e2, n), q).out]
      <4> HIDE DEF q
      <4> QED BY <2>1, EndOfHead, Zenon
    <3> QED BY <2>1, <3>1, Zenon
  <2> QED BY <2>2, Zenon
<1>12. End(e1, t2) = [d |-> end.d, out |-> Gives(e2, n) \o end.out]
  <2> DEFINE out == Gives(e2, n) \o end.out
  <2>1. out \in Seq(Packet)
    BY <1>10
  <2> HIDE DEF out, end
  <2>2. End(e1, t2) = [d |-> End(e2, t3).d, out |-> << >> \o End(e2, t3).out]
    <3>1. /\ e1 \in Decoder /\ p.cmd \in Byte /\ t3 \in Seq(Byte)
          /\ s2 = <<p.cmd>> /\ e2 = Handle(e1, p.cmd)
      BY <1>1, <1>4, <1>5, <1>6, <1>15, Zenon
    <3>2. End(e1, s2 \o t3)
            = [d |-> End(e2, t3).d, out |-> Gives(e1, p.cmd) \o End(e2, t3).out]
      <4> HIDE DEF t3
      <4> QED BY <3>1, EndOfHead
    <3> QED BY <1>6, <3>2, Zenon
  <2>3. End(e2, t3).d = end.d /\ End(e2, t3).out = out
    BY <1>11 DEF out
  <2>4. << >> \o out = out
    BY <2>1
  <2> QED BY <2>2, <2>3, <2>4, Zenon DEF out
<1>13. End(e, Encode(p)) = [d |-> end.d, out |-> Gives(e2, n) \o end.out]
  <2> DEFINE out == Gives(e2, n) \o end.out
  <2>1. out \in Seq(Packet)
    BY <1>10
  <2> HIDE DEF out, end
  <2>2. End(e, Encode(p)) = [d |-> End(e1, t2).d, out |-> << >> \o End(e1, t2).out]
    <3>1. /\ PKT_START_BYTE \in Byte /\ t2 \in Seq(Byte)
          /\ s1 = <<PKT_START_BYTE>> /\ e1 = Handle(e, PKT_START_BYTE)
      BY <1>2, <1>4, <1>5, <1>15, Zenon
    <3>2. End(e, s1 \o t2)
            = [d |-> End(e1, t2).d, out |-> Gives(e, PKT_START_BYTE) \o End(e1, t2).out]
      <4> HIDE DEF t2
      <4> QED BY <3>1, EndOfHead, Zenon
    <3> QED BY <1>4, <1>5, <3>2, Zenon
  <2>3. End(e1, t2).d = end.d /\ End(e1, t2).out = out
    BY <1>12 DEF out
  <2>4. << >> \o out = out
    BY <2>1
  <2> QED BY <2>2, <2>3, <2>4, Zenon DEF out
<1>14. end.d.state = "WAIT_START" /\ Gives(e2, n) \o end.out = <<p>>
  <2>1. CASE n = 0
    <3>1. q = << >>
      BY <1>1, <2>1 DEF n
    <3>2. end = [d |-> e3, out |-> << >>]
      BY <1>7, <3>1, EndOfNone, Zenon
    <3>3. end.d = e3 /\ end.out = << >>
      <4> HIDE DEF end
      <4> QED BY <3>2
    <3>4. Event(e3) = p
      BY <1>1, <1>7, <3>1 DEF Event
    <3>5. Gives(e2, n) = <<p>>
      BY <1>8, <2>1, <3>4, Zenon
    <3> HIDE DEF end
    <3> QED BY <1>3, <1>7, <2>1, <3>3, <3>5
  <2>2. CASE n # 0
    <3>1. e3.state = "READ_PAYLOAD"
      BY <1>7, <2>2 DEF st
    <3>2. end.d.state = "WAIT_START" /\ end.out = <<[cmd |-> e3.cmd, payload |-> q]>>
      BY <1>1, <1>7, <3>1, PayloadIs, Zenon DEF n
    <3>3. end.out = <<p>>
      BY <1>1, <1>7, <3>2
    <3>4. Gives(e2, n) = << >>
      BY <1>8, <2>2, Zenon
    <3> HIDE DEF end
    <3> QED BY <3>2, <3>3, <3>4
  <2> QED BY <2>1, <2>2
<1> DEFINE out == Gives(e2, n) \o end.out
<1> HIDE DEF end, out
<1>16. End(e, Encode(p)).d.state = "WAIT_START" /\ End(e, Encode(p)).out = <<p>>
  <2>1. End(e, Encode(p)) = [d |-> end.d, out |-> out] /\ out = <<p>>
    BY <1>13, <1>14 DEF out
  <2>2. End(e, Encode(p)).d = end.d /\ End(e, Encode(p)).out = out
    BY <2>1
  <2> QED BY <1>14, <2>1, <2>2
<1> QED
  BY <1>4, <1>16

-----------------------------------------------------------------------------
(* The bytes under way                                                     *)

HwByte == [byte : Byte, good : BOOLEAN]

Bytes(h) == [i \in 1 .. Len(h) |-> h[i].byte]

\* The bytes of the software FIFO, the hardware FIFO, the wire and the sender.
Line(q, h, w, t) == ((q \o Bytes(h)) \o w) \o t

\* The bytes under way are those of the four places in their order.
LEMMA UnderWayIs == UnderWay = Line(rx_queue, hw, wire, tx)
BY DEF UnderWay, Line, Bytes

\* The bytes of a hardware FIFO, their status left out, are bytes.
LEMMA BytesIs == ASSUME NEW h \in Seq(HwByte) PROVE Bytes(h) \in Seq(Byte)
<1>1. Len(h) \in Nat /\ \A i \in 1 .. Len(h) : h[i] \in HwByte
  OBVIOUS
<1>2. \A x \in HwByte : x.byte \in Byte
  BY DEF HwByte
<1>3. \A i \in 1 .. Len(h) : h[i].byte \in Byte
  BY <1>1, <1>2
<1> QED
  BY <1>1, <1>3 DEF Bytes

\* A byte received into the FIFO is the last of its bytes.
LEMMA BytesOfAppend ==
  ASSUME NEW h \in Seq(HwByte), NEW x \in HwByte
  PROVE  Bytes(Append(h, x)) = Append(Bytes(h), x.byte)
<1> DEFINE one == Bytes(Append(h, x))
           two == Append(Bytes(h), x.byte)
           k == Len(h) + 1
<1>1. x.byte \in Byte /\ Len(h) \in Nat /\ Bytes(h) \in Seq(Byte)
  <2>1. x.byte \in Byte
    BY DEF HwByte
  <2> QED BY <2>1, BytesIs
<1>2. /\ Append(h, x) \in Seq(HwByte) /\ Len(Append(h, x)) = k
      /\ \A i \in 1 .. Len(h) : Append(h, x)[i] = h[i]
      /\ Append(h, x)[k] = x
  OBVIOUS
<1>3. Len(Bytes(h)) = Len(h) /\ \A i \in 1 .. Len(h) : Bytes(h)[i] = h[i].byte
  BY <1>1 DEF Bytes
<1>4. one \in Seq(Byte) /\ Len(one) = k /\ \A i \in 1 .. k : one[i] = Append(h, x)[i].byte
  <2>1. one \in Seq(Byte)
    BY <1>2, BytesIs
  <2>2. one = [i \in 1 .. k |-> Append(h, x)[i].byte]
    BY <1>2 DEF Bytes
  <2> HIDE DEF one
  <2> QED BY <1>1, <2>1, <2>2
<1>5. two \in Seq(Byte) /\ Len(two) = k /\ two[k] = x.byte
      /\ \A i \in 1 .. Len(h) : two[i] = Bytes(h)[i]
  BY <1>1, <1>3
<1> HIDE DEF one, two
<1>6. \A i \in 1 .. k : one[i] = two[i]
  BY <1>1, <1>2, <1>3, <1>4, <1>5
<1>7. one = two
  BY <1>4, <1>5, <1>6, SeqEqual
<1> QED
  BY <1>7 DEF one, two

\* The byte read from the FIFO is the first of its bytes.
LEMMA BytesOfTail ==
  ASSUME NEW h \in Seq(HwByte), h # << >>
  PROVE  /\ Head(h) \in HwByte /\ Tail(h) \in Seq(HwByte)
         /\ Bytes(h) = <<Head(h).byte>> \o Bytes(Tail(h))
<1> DEFINE one == Bytes(h)
           t == Tail(h)
           two == <<Head(h).byte>> \o Bytes(t)
           n == Len(h)
<1>1. Head(h) \in HwByte /\ t \in Seq(HwByte) /\ n \in Nat /\ n > 0 /\ Len(t) = n - 1
      /\ Head(h) = h[1] /\ \A i \in 1 .. n - 1 : t[i] = h[i + 1]
  OBVIOUS
<1>2. Head(h).byte \in Byte
  BY <1>1 DEF HwByte
<1> HIDE DEF t
<1>3. Bytes(t) \in Seq(Byte) /\ Len(Bytes(t)) = n - 1
      /\ \A i \in 1 .. n - 1 : Bytes(t)[i] = t[i].byte
  BY <1>1, BytesIs DEF Bytes
<1>4. one \in Seq(Byte) /\ Len(one) = n /\ \A i \in 1 .. n : one[i] = h[i].byte
  BY <1>1, BytesIs DEF Bytes
<1>5. two \in Seq(Byte) /\ Len(two) = n /\ two[1] = Head(h).byte
      /\ \A i \in 2 .. n : two[i] = Bytes(t)[i - 1]
  BY <1>1, <1>2, <1>3
<1> HIDE DEF one, two
<1>6. \A i \in 1 .. n : one[i] = two[i]
  <2> SUFFICES ASSUME NEW i \in 1 .. n PROVE one[i] = two[i]
    OBVIOUS
  <2>1. CASE i = 1
    BY <1>1, <1>4, <1>5, <2>1
  <2>2. CASE i # 1
    <3> DEFINE j == i - 1
    <3>1. i \in 2 .. n /\ j \in 1 .. n - 1 /\ j + 1 = i
      BY <1>1, <2>2
    <3> HIDE DEF j
    <3>2. two[i] = t[j].byte /\ t[j] = h[i]
      BY <1>1, <1>3, <1>5, <3>1 DEF j
    <3> QED BY <1>4, <3>2
  <2> QED BY <2>1, <2>2
<1>7. one = two
  <2>1. Len(one) = Len(two)
    BY <1>4, <1>5
  <2>2. \A i \in 1 .. Len(one) : one[i] = two[i]
    BY <1>4, <1>6
  <2> QED BY <1>4, <1>5, <2>1, <2>2, SeqEqual
<1> QED
  BY <1>1, <1>7 DEF one, two, t

\* What is on the line is a sequence of bytes.
LEMMA LineIs ==
  ASSUME NEW q \in Seq(Byte), NEW h \in Seq(HwByte), NEW w \in Seq(Byte), NEW t \in Seq(Byte)
  PROVE  Line(q, h, w, t) \in Seq(Byte)
BY BytesIs DEF Line

\* A byte that is written, that arrives or that is read stays in its place.
LEMMA LineMoves ==
  ASSUME NEW q \in Seq(Byte), NEW h \in Seq(HwByte), NEW w \in Seq(Byte), NEW t \in Seq(Byte)
  PROVE  /\ w = << >> /\ t # << >> => Line(q, h, <<Head(t)>>, Tail(t)) = Line(q, h, w, t)
         /\ w # << >> /\ Len(w) <= 1 =>
              Line(q, Append(h, [byte |-> w[1], good |-> TRUE]), << >>, t) = Line(q, h, w, t)
         /\ h # << >> =>
              Line(Append(q, Head(h).byte), Tail(h), w, t) = Line(q, h, w, t)
<1> DEFINE b == Bytes(h)
<1>1. b \in Seq(Byte)
  BY BytesIs
<1>2. ASSUME w = << >>, t # << >>
      PROVE  Line(q, h, <<Head(t)>>, Tail(t)) = Line(q, h, w, t)
  <2> DEFINE one == <<Head(t)>>
             r == Tail(t)
             a == q \o b
  <2>1. one \in Seq(Byte) /\ r \in Seq(Byte) /\ t = one \o r
    BY <1>2
  <2>2. a \in Seq(Byte)
    BY <1>1
  <2> HIDE DEF b, one, r, a
  <2>3. (a \o one) \o r = a \o (one \o r)
    BY <2>1, <2>2
  <2>4. a \o << >> = a
    BY <2>2
  <2> QED BY <1>2, <2>1, <2>3, <2>4, Zenon DEF Line, b, one, r, a
<1>3. ASSUME w # << >>, Len(w) <= 1
      PROVE  Line(q, Append(h, [byte |-> w[1], good |-> TRUE]), << >>, t) = Line(q, h, w, t)
  <2> DEFINE x == [byte |-> w[1], good |-> TRUE]
  <2>1. w[1] \in Byte /\ x \in HwByte /\ x.byte = w[1] /\ w = <<w[1]>>
    <3>1. w[1] \in Byte /\ w = <<w[1]>>
      <4>1. Len(w) = 1 /\ w[1] \in Byte
        <5> DEFINE k == Len(w)
        <5>1. k \in Nat /\ k # 0 /\ k <= 1
          BY <1>3, EmptySeq
        <5>2. \A i \in 1 .. k : w[i] \in Byte
          OBVIOUS
        <5> HIDE DEF k
        <5>3. k = 1
          BY <5>1
        <5>4. 1 \in 1 .. k
          BY <5>3
        <5> QED BY <5>2, <5>3, <5>4, Zenon DEF k
      <4> DEFINE one == <<w[1]>>
      <4>2. one \in Seq(Byte) /\ Len(one) = 1 /\ one[1] = w[1]
        BY <4>1
      <4> HIDE DEF one
      <4>3. \A i \in 1 .. Len(w) : w[i] = one[i]
        BY <4>1, <4>2
      <4>4. w = one
        BY <4>1, <4>2, <4>3, SeqEqual
      <4> QED BY <4>1, <4>4 DEF one
    <3>2. x \in HwByte /\ x.byte = w[1]
      BY <3>1 DEF HwByte
    <3> QED BY <3>1, <3>2
  <2> HIDE DEF x
  <2>2. Bytes(Append(h, x)) = Append(b, w[1])
    BY <2>1, BytesOfAppend
  <2> HIDE DEF b
  <2>3. (q \o Append(b, w[1])) \o << >> = (q \o b) \o <<w[1]>>
    BY <1>1, <2>1
  <2> QED BY <2>1, <2>2, <2>3, Zenon DEF Line, b, x
<1>4. ASSUME h # << >>
      PROVE  Line(Append(q, Head(h).byte), Tail(h), w, t) = Line(q, h, w, t)
  <2> DEFINE x == Head(h).byte
             c == Bytes(Tail(h))
  <2>1. x \in Byte /\ c \in Seq(Byte) /\ b = <<x>> \o c
    BY <1>4, BytesOfTail, BytesIs DEF HwByte
  <2> HIDE DEF b, c, x
  <2>2. Append(q, x) \o c = q \o (<<x>> \o c)
    BY <2>1
  <2> QED BY <2>1, <2>2, Zenon DEF Line, b, c, x
<1> QED
  BY <1>2, <1>3, <1>4

\* The oldest byte is the first of the queue, the newest the last of the sender.
LEMMA LineEnds ==
  ASSUME NEW q \in Seq(Byte), NEW h \in Seq(HwByte), NEW w \in Seq(Byte), NEW t \in Seq(Byte)
  PROVE  /\ q # << >> => Line(q, h, w, t) = <<Head(q)>> \o Line(Tail(q), h, w, t)
         /\ Line(q, h, w, t) = Line(q, h, w, << >>) \o t
<1> DEFINE b == Bytes(h)
<1>1. b \in Seq(Byte)
  BY BytesIs
<1>2. ASSUME q # << >>
      PROVE  Line(q, h, w, t) = <<Head(q)>> \o Line(Tail(q), h, w, t)
  <2> DEFINE one == <<Head(q)>>
             r == Tail(q)
  <2>1. one \in Seq(Byte) /\ r \in Seq(Byte) /\ q = one \o r
    BY <1>2
  <2> HIDE DEF b, one, r
  <2>2. (((one \o r) \o b) \o w) \o t = one \o (((r \o b) \o w) \o t)
    <3>1. (one \o r) \o b = one \o (r \o b) /\ r \o b \in Seq(Byte)
      BY <1>1, <2>1
    <3> DEFINE rb == r \o b
    <3> HIDE DEF rb
    <3>2. (one \o rb) \o w = one \o (rb \o w) /\ rb \o w \in Seq(Byte)
      BY <2>1, <3>1, SMTT(30) DEF rb
    <3> DEFINE rw == rb \o w
    <3> HIDE DEF rw
    <3>3. (one \o rw) \o t = one \o (rw \o t)
      BY <2>1, <3>2, SMTT(30) DEF rw
    <3> QED BY <3>1, <3>2, <3>3, Zenon DEF rb, rw
  <2> QED BY <2>1, <2>2, Zenon DEF Line, b, one, r
<1>3. Line(q, h, w, t) = Line(q, h, w, << >>) \o t
  <2> DEFINE a == (q \o b) \o w
  <2>1. a \in Seq(Byte)
    BY <1>1
  <2> HIDE DEF a
  <2>2. a \o << >> = a
    BY <2>1
  <2> QED BY <2>2, Zenon DEF Line, a
<1> QED
  BY <1>2, <1>3

-----------------------------------------------------------------------------
(* Types                                                                   *)

\* The types, of a decoder that still misses some of the payload it reads.
Typed ==
  /\ tx \in Seq(Byte) /\ wire \in Seq(Byte) /\ Len(wire) <= 1
  /\ hw \in Seq(HwByte) /\ Len(hw) <= HwSize /\ oe \in BOOLEAN
  /\ rx_queue \in Seq(Byte) /\ Len(rx_queue) <= SwSize
  /\ stage \in {"elsewhere", "reading", "decoding"}
  /\ d \in Decoder
  /\ sent \in Seq(Requests) /\ delivered \in Seq(Packet) /\ damage \in Nat

\* The strengthened types imply the type invariant.
LEMMA TypedIs == Typed => TypeOK
<1>1. d \in Decoder => /\ d.state \in {"WAIT_START", "READ_CMD", "READ_LEN", "READ_PAYLOAD"}
                       /\ d.cmd \in Byte /\ d.len \in Byte
                       /\ d.buf \in Seq(Byte) /\ Len(d.buf) <= d.len
  BY DEF Decoder, States
<1> QED
  BY <1>1 DEF Typed, TypeOK, HwByte

\* A packet is cut to what its length byte can hold.
LEMMA OnWireIs ==
  ASSUME NEW p \in Packet
  PROVE  OnWire(p) \in Packet /\ Len(OnWire(p).payload) <= MaxPayload
<1> DEFINE q == p.payload
           m == MaxPayload
           cut == IF Len(q) > m THEN SubSeq(q, 1, m) ELSE q
<1>1. m \in Nat
  BY SizeAssumption DEF MaxPayload
<1>2. q \in Seq(Byte) /\ p.cmd \in Byte
  BY DEF Packet
<1> HIDE DEF q, m
<1>3. cut \in Seq(Byte) /\ Len(cut) <= m
  <2>1. CASE Len(q) > m
    BY <1>1, <1>2, <2>1
  <2>2. CASE ~(Len(q) > m)
    BY <1>1, <1>2, <2>2
  <2> QED BY <2>1, <2>2
<1>4. OnWire(p) = [p EXCEPT !.payload = cut]
  BY DEF OnWire, q, m
<1> HIDE DEF cut
<1>5. OnWire(p) = [cmd |-> p.cmd, payload |-> cut]
  BY <1>4 DEF Packet
<1> QED
  BY <1>2, <1>3, <1>5 DEF Packet, m

\* A packet is sent as bytes.
LEMMA EncodeTyped ==
  ASSUME NEW p \in Packet
  PROVE  Encode(OnWire(p)) \in Seq(Byte)
<1> DEFINE e == [state |-> "WAIT_START", cmd |-> 0, len |-> 0, buf |-> << >>]
<1>1. e \in Decoder /\ e.state = "WAIT_START"
  <2>1. 0 \in Byte /\ << >> \in Seq(Byte) /\ Len(<< >>) = 0
    BY SizeAssumption DEF Byte
  <2> QED BY <2>1 DEF Decoder, States
<1> HIDE DEF e
<1> QED
  BY <1>1, OnWireIs, EncodeIs

\* The FIFOs have sizes.
LEMMA Sizes == HwSize \in Nat /\ SwSize \in Nat
BY SizeAssumption

\* An idle line has its types and a waiting decoder.
LEMMA InitTyped == Init => Typed /\ d.state = "WAIT_START"
<1> SUFFICES ASSUME Init PROVE Typed /\ d.state = "WAIT_START"
  OBVIOUS
<1>1. d \in Decoder /\ d.state = "WAIT_START"
  <2>1. 0 \in Byte /\ << >> \in Seq(Byte) /\ Len(<< >>) = 0
    BY SizeAssumption DEF Byte
  <2> QED BY <2>1 DEF Init, Decoder, States
<1> DEFINE none == << >>
<1>2. /\ none \in Seq(Byte) /\ none \in Seq(HwByte) /\ none \in Seq(Packet)
      /\ none \in Seq(Requests) /\ Len(none) = 0
  OBVIOUS
<1>3. /\ tx = none /\ wire = none /\ hw = none /\ rx_queue = none
      /\ sent = none /\ delivered = none
      /\ oe = FALSE /\ stage = "elsewhere" /\ damage = 0
  BY DEF Init
<1> HIDE DEF none
<1>4. Len(wire) <= 1 /\ Len(hw) <= HwSize /\ Len(rx_queue) <= SwSize
  BY <1>2, <1>3, Sizes
<1> QED
  BY <1>1, <1>2, <1>3, <1>4 DEF Typed

\* Every step keeps the types: one case per action.
LEMMA StepTyped == Typed /\ [Next]_vars => Typed'
<1> SUFFICES ASSUME Typed, [Next]_vars PROVE Typed'
  OBVIOUS
<1> USE DEF Typed
<1>1. ASSUME NEW p \in Requests, Build(p) PROVE Typed'
  <2>1. Encode(OnWire(p)) \in Seq(Byte)
    BY RequestsAssumption, EncodeTyped
  <2> QED BY <1>1, <2>1 DEF Build
<1>2. CASE WriteChar
  <2>1. Head(tx) \in Byte /\ tx' \in Seq(Byte)
    BY <1>2 DEF WriteChar
  <2>2. wire' \in Seq(Byte) /\ Len(wire') <= 1 /\ damage' \in Nat
    <3>1. CASE wire' = <<Head(tx)>> /\ damage' = damage
      <4>1. <<Head(tx)>> \in Seq(Byte) /\ Len(<<Head(tx)>>) = 1
        BY <2>1
      <4> QED BY <3>1, <4>1
    <3>2. CASE Damages /\ wire' = wire
      BY <3>2 DEF Damages
    <3> QED BY <1>2, <3>1, <3>2 DEF WriteChar
  <2> QED BY <1>2, <2>1, <2>2 DEF WriteChar
<1>3. CASE Arrive
  <2>1. wire' = << >> /\ wire[1] \in Byte
    <3>1. Len(wire) \in Nat /\ Len(wire) # 0
      BY <1>3, EmptySeq DEF Arrive
    <3> QED BY <1>3, <3>1 DEF Arrive
  <2>2. /\ hw' \in Seq(HwByte) /\ Len(hw') <= HwSize /\ oe' \in BOOLEAN /\ damage' \in Nat
    <3>1. ASSUME Len(hw) < HwSize, NEW x \in HwByte, hw' = Append(hw, x)
          PROVE  hw' \in Seq(HwByte) /\ Len(hw') <= HwSize
      BY <3>1, SizeAssumption
    <3>2. \A b \in Byte, g \in BOOLEAN : [byte |-> b, good |-> g] \in HwByte
      BY DEF HwByte
    <3>3. CASE /\ Len(hw) < HwSize
               /\ hw' = Append(hw, [byte |-> wire[1], good |-> TRUE])
               /\ UNCHANGED <<oe, damage>>
      BY <2>1, <3>1, <3>2, <3>3
    <3>4. CASE /\ Len(hw) < HwSize
               /\ \E b \in Byte \ {wire[1]} : hw' = Append(hw, [byte |-> b, good |-> FALSE])
               /\ Damages /\ UNCHANGED oe
      <4>1. PICK b \in Byte : hw' = Append(hw, [byte |-> b, good |-> FALSE])
        BY <3>4
      <4>2. [byte |-> b, good |-> FALSE] \in HwByte
        BY <3>2
      <4>3. hw' \in Seq(HwByte) /\ Len(hw') <= HwSize
        <5> DEFINE x == [byte |-> b, good |-> FALSE]
        <5>1. x \in HwByte /\ hw' = Append(hw, x) /\ Len(hw) < HwSize
          BY <3>4, <4>1, <4>2
        <5> HIDE DEF x
        <5> QED BY <3>1, <5>1
      <4> QED BY <3>4, <4>3 DEF Damages
    <3>5. CASE Len(hw) = HwSize /\ oe' = TRUE /\ Damages /\ UNCHANGED hw
      BY <3>5 DEF Damages
    <3> QED BY <1>3, <3>3, <3>4, <3>5 DEF Arrive
  <2>3. << >> \in Seq(Byte) /\ Len(<< >>) <= 1
    OBVIOUS
  <2> QED BY <1>3, <2>1, <2>2, <2>3 DEF Arrive
<1>4. CASE WriteBack
  <2> DEFINE h == [i \in 1 .. Len(hw) |-> IF i = 1 THEN [hw[i] EXCEPT !.good = TRUE] ELSE hw[i]]
  <2>1. \A x \in HwByte : [x EXCEPT !.good = TRUE] \in HwByte
    BY DEF HwByte
  <2>2. Len(hw) \in Nat /\ \A i \in 1 .. Len(hw) : hw[i] \in HwByte
    OBVIOUS
  <2>3. \A i \in 1 .. Len(hw) :
          (IF i = 1 THEN [hw[i] EXCEPT !.good = TRUE] ELSE hw[i]) \in HwByte
    BY <2>1, <2>2
  <2>4. h \in Seq(HwByte) /\ Len(h) = Len(hw)
    <3> DEFINE F(i) == IF i = 1 THEN [hw[i] EXCEPT !.good = TRUE] ELSE hw[i]
               n == Len(hw)
    <3>1. n \in Nat /\ \A i \in 1 .. n : F(i) \in HwByte
      BY <2>2, <2>3
    <3> HIDE DEF F, n
    <3>2. [i \in 1 .. n |-> F(i)] \in Seq(HwByte) /\ Len([i \in 1 .. n |-> F(i)]) = n
      BY <3>1
    <3> QED BY <3>2, Zenon DEF F, n
  <2>5. hw' = h /\ oe' = FALSE
    BY <1>4 DEF WriteBack
  <2> HIDE DEF h
  <2> QED BY <1>4, <2>4, <2>5 DEF WriteBack
<1>5. CASE serial_process
  BY <1>5 DEF serial_process
<1>6. CASE serial_ih
  <2>1. CASE hw # << >> /\ Len(rx_queue) < SwSize
    <3>1. Head(hw).byte \in Byte /\ Tail(hw) \in Seq(HwByte) /\ Len(Tail(hw)) <= HwSize
      <4>1. Head(hw) \in HwByte
        BY <2>1, BytesOfTail
      <4>2. Tail(hw) \in Seq(HwByte) /\ Len(Tail(hw)) = Len(hw) - 1
        BY <2>1
      <4> QED BY <4>1, <4>2, SizeAssumption DEF HwByte
    <3>2. rx_queue' \in Seq(Byte) /\ Len(rx_queue') <= SwSize
      <4>1. rx_queue' \in {rx_queue, Append(rx_queue, Head(hw).byte)}
        BY <1>6, <2>1 DEF serial_ih
      <4>2. CASE rx_queue' = rx_queue
        BY <4>2
      <4>3. CASE rx_queue' = Append(rx_queue, Head(hw).byte)
        BY <2>1, <3>1, <4>3, Sizes
      <4> QED BY <4>1, <4>2, <4>3
    <3>3. damage' \in Nat
      BY <1>6, <2>1 DEF serial_ih
    <3> QED BY <1>6, <2>1, <3>1, <3>2, <3>3 DEF serial_ih
  <2>2. CASE ~(hw # << >> /\ Len(rx_queue) < SwSize)
    BY <1>6, <2>2 DEF serial_ih
  <2> QED BY <2>1, <2>2
<1>7. CASE serial_handle_byte
  <2>1. CASE rx_queue # << >>
    <3> DEFINE e == Handle(d, Head(rx_queue))
    <3>1. e \in Decoder /\ Event(e) \in Packet
      BY <2>1, HandleIs, EventIs
    <3>2. /\ d' = e
          /\ delivered' = IF Completes(d, e) THEN Append(delivered, Event(e)) ELSE delivered
          /\ rx_queue' = Tail(rx_queue)
      BY <1>7, <2>1 DEF serial_handle_byte
    <3>3. Tail(rx_queue) \in Seq(Byte) /\ Len(Tail(rx_queue)) <= SwSize
      BY <2>1, SizeAssumption
    <3> HIDE DEF e
    <3> QED BY <1>7, <2>1, <3>1, <3>2, <3>3 DEF serial_handle_byte
  <2>2. CASE rx_queue = << >>
    BY <1>7, <2>2 DEF serial_handle_byte
  <2> QED BY <2>1, <2>2
<1>8. CASE UNCHANGED vars
  BY <1>8 DEF vars
<1> QED
  BY <1>1, <1>2, <1>3, <1>4, <1>5, <1>6, <1>7, <1>8 DEF Next

\* Every variable keeps its type, and no FIFO holds more than it has room for:
\* send_packet, serial_ih and serial_handle_byte.
THEOREM SerialTypes == Spec => []TypeOK
<1>1. Init => Typed
  BY InitTyped
<1>2. Typed /\ [Next]_vars => Typed'
  BY StepTyped
<1>3. Typed => TypeOK
  BY TypedIs
<1> QED
  BY <1>1, <1>2, <1>3, PTL DEF Spec

-----------------------------------------------------------------------------
(* Framing                                                                 *)

Good(h) == \A i \in 1 .. Len(h) : h[i].good

AsSent(s) == [i \in 1 .. Len(s) |-> OnWire(s[i])]

\* On a line that was not damaged, the decoder delivers the packets that are
\* under way and waits for the next; nothing in the hardware FIFO is bad.
Clean ==
  damage = 0 =>
    /\ ~oe /\ Good(hw)
    /\ End(d, Line(rx_queue, hw, wire, tx)).d.state = "WAIT_START"
    /\ delivered \o End(d, Line(rx_queue, hw, wire, tx)).out = AsSent(sent)

\* What was sent is a sequence of packets, longer by one with each request.
LEMMA AsSentIs ==
  ASSUME NEW s \in Seq(Requests), NEW p \in Requests
  PROVE  /\ AsSent(s) \in Seq(Packet)
         /\ AsSent(Append(s, p)) = AsSent(s) \o <<OnWire(p)>>
<1> DEFINE n == Len(s)
           k == n + 1
           t == Append(s, p)
           one == AsSent(t)
           two == AsSent(s) \o <<OnWire(p)>>
<1>1. \A r \in Requests : OnWire(r) \in Packet
  BY RequestsAssumption, OnWireIs
<1>2. n \in Nat /\ \A i \in 1 .. n : s[i] \in Requests
  OBVIOUS
<1>3. t \in Seq(Requests) /\ Len(t) = k /\ t[k] = p /\ \A i \in 1 .. n : t[i] = s[i]
  OBVIOUS
<1>4. AsSent(s) \in Seq(Packet) /\ Len(AsSent(s)) = n
      /\ \A i \in 1 .. n : AsSent(s)[i] = OnWire(s[i])
  <2>1. \A i \in 1 .. n : OnWire(s[i]) \in Packet
    BY <1>1, <1>2
  <2>2. AsSent(s) = [i \in 1 .. n |-> OnWire(s[i])]
    BY DEF AsSent
  <2> HIDE DEF n
  <2> QED BY <1>2, <2>1, <2>2
<1> HIDE DEF t
<1>5. one \in Seq(Packet) /\ Len(one) = k /\ \A i \in 1 .. k : one[i] = OnWire(t[i])
  <2>1. \A i \in 1 .. k : OnWire(t[i]) \in Packet
    BY <1>1, <1>3
  <2>2. one = [i \in 1 .. k |-> OnWire(t[i])]
    BY <1>3 DEF AsSent
  <2> HIDE DEF n, one
  <2>3. k \in Nat
    BY <1>2
  <2> HIDE DEF k
  <2> QED BY <2>1, <2>2, <2>3
<1>6. two \in Seq(Packet) /\ Len(two) = k /\ two[k] = OnWire(p)
      /\ \A i \in 1 .. n : two[i] = AsSent(s)[i]
  BY <1>1, <1>2, <1>4
<1> HIDE DEF one, two
<1>7. \A i \in 1 .. k : one[i] = two[i]
  <2> SUFFICES ASSUME NEW i \in 1 .. k PROVE one[i] = two[i]
    OBVIOUS
  <2>1. CASE i = k
    BY <1>3, <1>5, <1>6, <2>1
  <2>2. CASE i # k
    <3>1. i \in 1 .. n
      BY <1>2, <2>2
    <3> QED BY <1>3, <1>4, <1>5, <1>6, <3>1
  <2> QED BY <2>1, <2>2
<1>8. one = two
  <2>1. Len(one) = Len(two) /\ \A i \in 1 .. Len(one) : one[i] = two[i]
    BY <1>5, <1>6, <1>7
  <2> QED BY <1>5, <1>6, <2>1, SeqEqual
<1> QED
  BY <1>4, <1>8 DEF one, two, t

\* A packet that is built comes after those under way.
LEMMA CleanBuild ==
  ASSUME Typed, Clean, NEW p \in Requests, Build(p)
  PROVE  Clean'
<1> SUFFICES ASSUME damage' = 0
             PROVE  /\ ~oe' /\ Good(hw')
                    /\ End(d', Line(rx_queue', hw', wire', tx')).d.state = "WAIT_START"
                    /\ delivered' \o End(d', Line(rx_queue', hw', wire', tx')).out = AsSent(sent')
  BY Zenon DEF Clean
<1> DEFINE x == Encode(OnWire(p))
           line == Line(rx_queue, hw, wire, tx)
           e == End(d, line).d
           out == End(d, line).out
           w == OnWire(p)
<1>1. /\ tx = << >> /\ tx' = x /\ sent' = Append(sent, p)
      /\ UNCHANGED <<wire, hw, oe, rx_queue, d, delivered, damage>>
  BY DEF Build
<1>2. /\ ~oe /\ Good(hw) /\ e.state = "WAIT_START"
      /\ delivered \o out = AsSent(sent)
  BY <1>1, Zenon DEF Clean
<1>3. line \in Seq(Byte) /\ d \in Decoder
  BY LineIs DEF Typed
<1>4. e \in Decoder /\ out \in Seq(Packet)
  BY <1>3, EndIs, AccIs
<1>5. w \in Packet /\ Len(w.payload) <= MaxPayload
  BY RequestsAssumption, OnWireIs
<1> HIDE DEF e, w
<1>6. x \in Seq(Byte) /\ End(e, x).d.state = "WAIT_START" /\ End(e, x).out = <<w>>
  BY <1>2, <1>4, <1>5, EncodeIs, Zenon DEF w
<1>7. Line(rx_queue, hw, wire, x) = line \o x
  <2>1. Line(rx_queue, hw, wire, x) = Line(rx_queue, hw, wire, << >>) \o x
    <3> HIDE DEF x
    <3>1. /\ rx_queue \in Seq(Byte) /\ hw \in Seq(HwByte) /\ wire \in Seq(Byte)
          /\ x \in Seq(Byte)
      BY <1>6 DEF Typed
    <3> QED BY <3>1, LineEnds, ZenonT(30)
  <2> QED BY <1>1, <2>1, Zenon
<1> HIDE DEF x
<1>8. End(d, line \o x) = [d |-> End(e, x).d, out |-> out \o End(e, x).out]
  <2> HIDE DEF line
  <2> QED BY <1>3, <1>6, EndOfConcat, Zenon DEF e
<1> HIDE DEF out, line
<1>9. End(d, line \o x).d.state = "WAIT_START" /\ End(d, line \o x).out = out \o <<w>>
  <2> DEFINE y == End(e, x).d
             o == out \o End(e, x).out
  <2>1. End(d, line \o x) = [d |-> y, out |-> o] /\ y.state = "WAIT_START" /\ o = out \o <<w>>
    BY <1>6, <1>8, Zenon
  <2> HIDE DEF y, o
  <2> QED BY <2>1
<1>10. delivered \o (out \o <<w>>) = AsSent(Append(sent, p))
  <2>1. delivered \o (out \o <<w>>) = (delivered \o out) \o <<w>>
    BY <1>4, <1>5 DEF Typed
  <2>2. AsSent(Append(sent, p)) = AsSent(sent) \o <<w>>
    BY AsSentIs, Zenon DEF Typed, w
  <2> QED BY <1>2, <2>1, <2>2, Zenon
<1>11. End(d', Line(rx_queue', hw', wire', tx')) = End(d, line \o x)
  BY <1>1, <1>7, Zenon
<1> QED
  BY <1>1, <1>2, <1>9, <1>10, <1>11, Zenon

\* Nothing changes when no byte changes its place.
LEMMA CleanMove ==
  ASSUME Clean, ~oe', Good(hw'),
         Line(rx_queue', hw', wire', tx') = Line(rx_queue, hw, wire, tx),
         UNCHANGED <<d, sent, delivered, damage>>
  PROVE  Clean'
<1>1. d' = d /\ sent' = sent /\ delivered' = delivered /\ damage' = damage
  OBVIOUS
<1> QED
  BY <1>1, Zenon DEF Clean

\* A byte that is taken from the queue is the oldest.
LEMMA CleanTake ==
  ASSUME Typed, Clean, serial_handle_byte
  PROVE  Clean'
<1>1. CASE rx_queue = << >>
  <2>1. UNCHANGED <<tx, wire, hw, oe, rx_queue, d, sent, delivered, damage>>
    BY <1>1 DEF serial_handle_byte
  <2> QED BY <2>1, Zenon DEF Clean
<1>2. CASE rx_queue # << >>
  <2> SUFFICES ASSUME damage' = 0
               PROVE  /\ ~oe' /\ Good(hw')
                      /\ End(d', Line(rx_queue', hw', wire', tx')).d.state = "WAIT_START"
                      /\ delivered' \o End(d', Line(rx_queue', hw', wire', tx')).out = AsSent(sent')
    BY Zenon DEF Clean
  <2> DEFINE b == Head(rx_queue)
             r == Line(Tail(rx_queue), hw, wire, tx)
             e == Handle(d, b)
             line == Line(rx_queue, hw, wire, tx)
             out == End(e, r).out
             g == Gives(d, b)
  <2>1. /\ d' = e /\ rx_queue' = Tail(rx_queue)
        /\ delivered' = IF Completes(d, e) THEN Append(delivered, Event(e)) ELSE delivered
        /\ UNCHANGED <<tx, wire, hw, oe, sent, damage>>
    BY <1>2 DEF serial_handle_byte
  <2>2. /\ ~oe /\ Good(hw) /\ End(d, line).d.state = "WAIT_START"
        /\ delivered \o End(d, line).out = AsSent(sent)
    BY <2>1, Zenon DEF Clean
  <2>3. b \in Byte /\ Tail(rx_queue) \in Seq(Byte) /\ d \in Decoder
    BY <1>2 DEF Typed
  <2>4. r \in Seq(Byte) /\ line = <<b>> \o r
    <3>1. r \in Seq(Byte)
      BY <2>3, LineIs, ZenonT(30) DEF Typed
    <3>2. line = <<b>> \o r
      BY <1>2, LineEnds, ZenonT(30) DEF Typed
    <3> QED BY <3>1, <3>2, Zenon
  <2>5. e \in Decoder /\ g \in Seq(Packet)
    BY <2>3, HandleIs, GivesIs
  <2> HIDE DEF b, r, line
  <2>6. End(d, line) = [d |-> End(e, r).d, out |-> g \o out]
    BY <2>3, <2>4, EndOfHead, Zenon
  <2>7. out \in Seq(Packet)
    <3> HIDE DEF e
    <3> QED BY <2>4, <2>5, EndIs, AccIs
  <2>8. delivered' = delivered \o g
    <3> DEFINE x == Event(e)
    <3>1. CASE Completes(d, e)
      <4>1. delivered' = Append(delivered, x) /\ g = <<x>>
        BY <2>1, <3>1, Zenon DEF Gives
      <4>2. x \in Packet /\ delivered \in Seq(Packet)
        BY <2>5, EventIs DEF Typed
      <4> HIDE DEF x, g
      <4> QED BY <4>1, <4>2
    <3>2. CASE ~Completes(d, e)
      <4>1. delivered' = delivered /\ g = << >>
        BY <2>1, <3>2, Zenon DEF Gives
      <4> HIDE DEF g
      <4> QED BY <4>1 DEF Typed
    <3> QED BY <3>1, <3>2
  <2> HIDE DEF e, g, out
  <2>9. End(d, line).d = End(e, r).d /\ End(d, line).out = g \o out
    <3> DEFINE y == End(e, r).d
               o == g \o out
    <3>1. End(d, line) = [d |-> y, out |-> o]
      BY <2>6
    <3> HIDE DEF y, o
    <3>2. End(d, line).d = y /\ End(d, line).out = o
      BY <3>1
    <3> QED BY <3>2 DEF y, o
  <2>10. (delivered \o g) \o out = delivered \o (g \o out)
    BY <2>5, <2>7 DEF Typed
  <2>11. End(d', Line(rx_queue', hw', wire', tx')) = End(e, r)
    BY <2>1, Zenon DEF r
  <2> QED
    BY <2>1, <2>2, <2>8, <2>9, <2>10, <2>11, Zenon DEF out
<1> QED
  BY <1>1, <1>2

\* Every step of an undamaged line keeps it clean: one case per action.
LEMMA StepClean == Typed /\ Clean /\ [Next]_vars => Clean'
<1> SUFFICES ASSUME Typed, Clean, [Next]_vars PROVE Clean'
  OBVIOUS
<1>1. ASSUME NEW p \in Requests, Build(p) PROVE Clean'
  BY <1>1, CleanBuild
<1>2. CASE serial_handle_byte
  BY <1>2, CleanTake
<1> SUFFICES ASSUME damage' = 0,
                    \/ WriteChar \/ Arrive \/ WriteBack
                    \/ serial_process \/ serial_ih \/ UNCHANGED vars
             PROVE  Clean'
  <2>1. CASE damage' # 0
    BY <2>1 DEF Clean
  <2> QED BY <1>1, <1>2, <2>1 DEF Next
<1>3. /\ tx \in Seq(Byte) /\ wire \in Seq(Byte) /\ Len(wire) <= 1
      /\ hw \in Seq(HwByte) /\ rx_queue \in Seq(Byte) /\ damage \in Nat /\ oe \in BOOLEAN
  BY DEF Typed
<1>4. ~Damages
  BY <1>3 DEF Damages
<1>5. ASSUME damage = 0 PROVE ~oe /\ Good(hw)
  BY <1>5 DEF Clean
<1>6. CASE WriteChar
  <2>1. /\ tx # << >> /\ wire = << >> /\ wire' = <<Head(tx)>> /\ tx' = Tail(tx)
        /\ UNCHANGED <<hw, oe, rx_queue, d, sent, delivered, damage>>
    BY <1>4, <1>6 DEF WriteChar
  <2>2. Line(rx_queue, hw, <<Head(tx)>>, Tail(tx)) = Line(rx_queue, hw, wire, tx)
    BY <1>3, <2>1, LineMoves
  <2>3. ~oe' /\ Good(hw') /\ UNCHANGED <<d, sent, delivered, damage>>
    BY <1>5, <2>1
  <2>4. Line(rx_queue', hw', wire', tx') = Line(rx_queue, hw, wire, tx)
    BY <2>1, <2>2, Zenon
  <2> QED BY <2>3, <2>4, CleanMove
<1>7. CASE Arrive
  <2> DEFINE x == [byte |-> wire[1], good |-> TRUE]
  <2>1. /\ wire # << >> /\ wire' = << >> /\ hw' = Append(hw, x)
        /\ UNCHANGED <<tx, oe, rx_queue, d, sent, delivered, damage>>
    BY <1>4, <1>7 DEF Arrive
  <2>2. Line(rx_queue, Append(hw, x), << >>, tx) = Line(rx_queue, hw, wire, tx)
    BY <1>3, <2>1, LineMoves
  <2>3. ~oe' /\ Good(hw)
    BY <1>5, <2>1
  <2>4. Good(Append(hw, x))
    <3>1. x.good
      OBVIOUS
    <3> HIDE DEF x
    <3>2. Len(hw) \in Nat /\ Len(Append(hw, x)) = Len(hw) + 1
          /\ Append(hw, x)[Len(hw) + 1] = x
          /\ \A i \in 1 .. Len(hw) : Append(hw, x)[i] = hw[i]
      BY <1>3
    <3>3. \A i \in 1 .. Len(hw) + 1 : i \in 1 .. Len(hw) \/ i = Len(hw) + 1
      BY <3>2
    <3> QED BY <2>3, <3>1, <3>2, <3>3, Zenon DEF Good
  <2> HIDE DEF x
  <2>5. Line(rx_queue', hw', wire', tx') = Line(rx_queue, hw, wire, tx)
    BY <2>1, <2>2, Zenon
  <2>6. Good(hw') /\ UNCHANGED <<d, sent, delivered, damage>>
    BY <2>1, <2>4
  <2> QED BY <2>3, <2>5, <2>6, CleanMove
<1>8. CASE WriteBack
  <2>1. /\ oe' = FALSE
        /\ hw' = [i \in 1 .. Len(hw) |-> IF i = 1 THEN [hw[i] EXCEPT !.good = TRUE] ELSE hw[i]]
        /\ UNCHANGED <<tx, wire, rx_queue, d, sent, delivered, damage>>
    BY <1>8 DEF WriteBack
  <2>2. Good(hw)
    BY <1>5, <2>1
  <2>3. \A i \in 1 .. Len(hw) : hw[i] \in HwByte /\ hw[i].good
    BY <1>3, <2>2 DEF Good
  <2>4. \A y \in HwByte : y.good => [y EXCEPT !.good = TRUE] = y
    BY DEF HwByte
  <2>5. hw' = [i \in 1 .. Len(hw) |-> hw[i]]
    BY <2>1, <2>3, <2>4
  <2>6. hw' = hw
    BY <1>3, <2>5
  <2>7. Line(rx_queue', hw', wire', tx') = Line(rx_queue, hw, wire, tx)
    BY <2>1, <2>6, Zenon
  <2>8. ~oe' /\ Good(hw') /\ UNCHANGED <<d, sent, delivered, damage>>
    BY <2>1, <2>2, <2>6
  <2> QED BY <2>7, <2>8, CleanMove
<1>9. CASE serial_process \/ UNCHANGED vars
  <2>1. UNCHANGED <<tx, wire, hw, oe, rx_queue, d, sent, delivered, damage>>
    BY <1>9 DEF serial_process, vars
  <2>2. ~oe' /\ Good(hw') /\ UNCHANGED <<d, sent, delivered, damage>>
    BY <1>5, <2>1
  <2>3. Line(rx_queue', hw', wire', tx') = Line(rx_queue, hw, wire, tx)
    BY <2>1, Zenon
  <2> QED BY <2>2, <2>3, CleanMove
<1>10. CASE serial_ih
  <2>1. UNCHANGED <<tx, wire, d, sent, delivered>>
    BY <1>10 DEF serial_ih
  <2>2. CASE hw # << >> /\ Len(rx_queue) < SwSize
    <3>1. /\ rx_queue' = IF Head(hw).good /\ ~oe THEN Append(rx_queue, Head(hw).byte)
                         ELSE rx_queue
          /\ damage' = IF Head(hw).good /\ oe THEN damage + 1 ELSE damage
          /\ hw' = Tail(hw) /\ oe' = FALSE
      BY <1>10, <2>2 DEF serial_ih
    <3>2. damage = 0 /\ damage' = damage
      BY <1>3, <3>1
    <3>3. ~oe /\ Good(hw)
      BY <1>5, <3>2
    <3>4. Len(hw) \in Nat /\ Len(hw) # 0 /\ Head(hw) = hw[1] /\ Len(Tail(hw)) = Len(hw) - 1
          /\ \A i \in 1 .. Len(hw) - 1 : Tail(hw)[i] = hw[i + 1]
      BY <1>3, <2>2, EmptySeq
    <3>5. Head(hw).good
      <4>1. 1 \in 1 .. Len(hw)
        BY <3>4
      <4> QED BY <3>3, <3>4, <4>1, Zenon DEF Good
    <3>6. Good(Tail(hw))
      <4>1. \A i \in 1 .. Len(hw) - 1 : i + 1 \in 1 .. Len(hw)
        BY <3>4
      <4> QED BY <3>3, <3>4, <4>1, Zenon DEF Good
    <3>7. rx_queue' = Append(rx_queue, Head(hw).byte)
      BY <3>1, <3>3, <3>5, Zenon
    <3>8. Line(Append(rx_queue, Head(hw).byte), Tail(hw), wire, tx)
            = Line(rx_queue, hw, wire, tx)
      BY <1>3, <2>2, LineMoves
    <3>9. Line(rx_queue', hw', wire', tx') = Line(rx_queue, hw, wire, tx)
      BY <2>1, <3>1, <3>7, <3>8, Zenon
    <3>10. ~oe' /\ Good(hw') /\ UNCHANGED <<d, sent, delivered, damage>>
      BY <2>1, <3>1, <3>2, <3>6
    <3> QED BY <3>9, <3>10, CleanMove
  <2>3. CASE ~(hw # << >> /\ Len(rx_queue) < SwSize)
    <3>1. UNCHANGED <<hw, oe, rx_queue, damage>>
      BY <1>10, <2>3 DEF serial_ih
    <3>2. ~oe' /\ Good(hw') /\ UNCHANGED <<d, sent, delivered, damage>>
      BY <1>5, <2>1, <3>1
    <3>3. Line(rx_queue', hw', wire', tx') = Line(rx_queue, hw, wire, tx)
      BY <2>1, <3>1, Zenon
    <3> QED BY <3>2, <3>3, CleanMove
  <2> QED BY <2>2, <2>3
<1> QED
  BY <1>6, <1>7, <1>8, <1>9, <1>10

\* An idle line is clean.
LEMMA InitClean == Init => Clean
<1> SUFFICES ASSUME Init PROVE Clean
  OBVIOUS
<1> DEFINE none == << >>
<1>1. d \in Decoder /\ d.state = "WAIT_START"
  BY InitTyped DEF Typed
<1>2. /\ tx = none /\ wire = none /\ hw = none /\ rx_queue = none
      /\ sent = none /\ delivered = none /\ ~oe
  BY DEF Init
<1>3. Bytes(none) = none /\ none \o none = none /\ Good(none) /\ AsSent(none) = none
  BY DEF Bytes, Good, AsSent
<1>4. End(d, none) = [d |-> d, out |-> none]
  BY <1>1, EndOfNone
<1> HIDE DEF none
<1>5. Line(rx_queue, hw, wire, tx) = none
  BY <1>2, <1>3, Zenon DEF Line
<1>6. End(d, none).d = d /\ End(d, none).out = none
  BY <1>4
<1> QED
  BY <1>1, <1>2, <1>3, <1>5, <1>6, Zenon DEF Clean

\* The packets delivered and those under way are the packets sent, as long as no
\* byte was lost or garbled: build_packet_serial, serial_ih, serial_handle_byte.
THEOREM SerialFaithful == Spec => []Faithful
<1>1. Init => Typed /\ Clean
  BY InitTyped, InitClean
<1>2. Typed /\ Clean /\ [Next]_vars => (Typed /\ Clean)'
  BY StepTyped, StepClean
<1>3. Typed /\ Clean => Faithful
  BY UnderWayIs, Zenon DEF Clean, Faithful, Decoded, End, AsSent
<1> QED
  BY <1>1, <1>2, <1>3, PTL DEF Spec

-----------------------------------------------------------------------------
(* Damage                                                                  *)

\* The bytes of a request, as they are sent.
Sent(r) == Encode(OnWire(r))

\* Where a byte of the requests s was: <<which request, which byte of it>>.
Places(s) == {x \in (1 .. Len(s)) \X (Nat \ {0}) : x[2] <= Len(Sent(s[x[1]]))}
Before(x, y) == x[1] < y[1] \/ (x[1] = y[1] /\ x[2] < y[2])

\* Before the first byte.
Origin == <<0, 0>>
PlaceOrOrigin(s) == Places(s) \cup {Origin}

\* The bytes u with their marks were at the places o, all after p; what was there
\* and is not in u, or not as it was, was hurt, and so was what is marked.
Stream(u, s, hurt, p, o) ==
  /\ o \in [1 .. Len(u) -> Places(s)]
  /\ \A i \in 1 .. Len(u) :
       /\ Before(p, o[i])
       /\ o[i] \in hurt \/ (u[i].good /\ u[i].byte = Sent(s[o[i][1]])[o[i][2]])
       /\ \A j \in 1 .. Len(u) : i < j => Before(o[i], o[j])
  /\ \A x \in Places(s) : Before(p, x) => x \in hurt \/ \E i \in 1 .. Len(u) : o[i] = x

\* Up to c of the packets `out' are wrong; the others were sent, in this order,
\* among the first n requests of s.
Local(out, s, n, c) ==
  \E kept \in SUBSET (1 .. Len(out)) :
    /\ Cardinality((1 .. Len(out)) \ kept) <= c
    /\ \E at \in [kept -> 1 .. n] :
         \A i \in kept : /\ out[i] = OnWire(s[at[i]])
                         /\ \A j \in kept : j < i => at[j] < at[i]

\* The decoder e has the bytes of the request at p, up to p, and more are to come.
Following(e, s, p) ==
  LET x == OnWire(s[p[1]])
  IN  /\ p \in Places(s) /\ p[2] < Len(Sent(s[p[1]]))
      /\ p[2] = 1 => e.state = "READ_CMD"
      /\ p[2] = 2 => e.state = "READ_LEN" /\ e.cmd = x.cmd
      /\ p[2] > 2 => /\ e.state = "READ_PAYLOAD" /\ e.cmd = x.cmd
                     /\ e.len = Len(x.payload)
                     /\ e.buf = SubSeq(x.payload, 1, p[2] - 3)

\* After the bytes up to p, c of them hurt, the decoder waits for a start byte; or
\* it follows; or the packet it reads will be wrong, and one more of the c is to
\* blame for it.
Seen(e, out, s, p, c) ==
  \/ e.state = "WAIT_START" /\ Local(out, s, p[1], c)
  \/ Following(e, s, p) /\ Local(out, s, p[1] - 1, c)
  \/ e.state # "WAIT_START" /\ c > 0 /\ Local(out, s, p[1], c - 1)

\* Those of the hurt places that are not after p.
Past(hurt, p) == {x \in hurt : ~Before(p, x)}

-----------------------------------------------------------------------------
\* Where the elements of a concatenation are.
LEMMA BothParts ==
  ASSUME NEW S, NEW a \in Seq(S), NEW b \in Seq(S), NEW m, m = Len(a), NEW n, n = Len(b)
  PROVE  /\ a \o b \in Seq(S) /\ Len(a \o b) = m + n
         /\ m \in Nat /\ n \in Nat
         /\ \A i \in 1 .. m : (a \o b)[i] = a[i] /\ a[i] \in S
         /\ \A i \in 1 .. n : (a \o b)[m + i] = b[i] /\ b[i] \in S
OBVIOUS

\* What the bytes of a request are: a start byte only at the front.
LEMMA SentIs ==
  ASSUME NEW r \in Requests
  PROVE  /\ OnWire(r) \in Packet /\ Sent(r) \in Seq(Byte)
         /\ Len(Sent(r)) = 3 + Len(OnWire(r).payload)
         /\ Sent(r)[1] = PKT_START_BYTE
         /\ Sent(r)[2] = OnWire(r).cmd
         /\ Sent(r)[3] = Len(OnWire(r).payload)
         /\ \A j \in 1 .. Len(OnWire(r).payload) : Sent(r)[3 + j] = OnWire(r).payload[j]
<1> DEFINE x == OnWire(r)
           q == x.payload
           n == Len(q)
<1>1. x \in Packet /\ n <= MaxPayload
  BY RequestsAssumption, OnWireIs
<1>2. q \in Seq(Byte) /\ x.cmd \in Byte /\ n \in Nat
  BY <1>1 DEF Packet
<1>3. n % Base = n
  <2>1. n \in Nat /\ n <= Base - 4 /\ Base \in Nat /\ Base > 6
    BY <1>1, <1>2, SizeAssumption DEF MaxPayload
  <2> HIDE DEF n
  <2> QED BY <2>1
<1>4. n \in Byte /\ PKT_START_BYTE \in Byte
  BY <1>1, <1>2, SizeAssumption DEF MaxPayload, Byte, PKT_START_BYTE
<1>5. Sent(r) = <<PKT_START_BYTE, x.cmd, n>> \o q
  BY <1>3 DEF Sent, Encode
<1> HIDE DEF x, q, n
<1> DEFINE h == <<PKT_START_BYTE, x.cmd, n>>
<1>6. h \in Seq(Byte) /\ Len(h) = 3 /\ h[1] = PKT_START_BYTE /\ h[2] = x.cmd /\ h[3] = n
  BY <1>2, <1>4
<1> HIDE DEF h
<1>7. /\ h \o q \in Seq(Byte) /\ Len(h \o q) = 3 + n
      /\ \A i \in 1 .. 3 : (h \o q)[i] = h[i]
      /\ \A j \in 1 .. n : (h \o q)[3 + j] = q[j]
  <2>1. q \in Seq(Byte) /\ h \in Seq(Byte) /\ 3 = Len(h) /\ n = Len(q)
    BY <1>2, <1>6 DEF n
  <2> DEFINE m == 3
  <2>2. m = Len(h)
    BY <2>1
  <2> HIDE DEF m
  <2>3. /\ h \o q \in Seq(Byte) /\ Len(h \o q) = m + n
        /\ \A i \in 1 .. m : (h \o q)[i] = h[i]
        /\ \A j \in 1 .. n : (h \o q)[m + j] = q[j]
    BY <2>1, <2>2, BothParts
  <2> QED BY <2>3, Zenon DEF m
<1>8. Sent(r) = h \o q
  BY <1>5 DEF h
<1> QED
  BY <1>1, <1>6, <1>7, <1>8 DEF n, q, x

\* The cut takes nothing to a payload that was not in it.
LEMMA NoStartInside ==
  ASSUME NEW r \in Requests, PKT_START_BYTE \notin ToSet(r.payload),
         NEW j \in 2 .. Len(Sent(r))
  PROVE  Sent(r)[j] # PKT_START_BYTE
<1> DEFINE x == OnWire(r)
           q == x.payload
           n == Len(q)
<1>1. r \in Packet /\ r.payload \in Seq(Byte) /\ r.cmd \in Byte
  BY RequestsAssumption DEF Packet
<1>2. r.cmd # PKT_START_BYTE
  BY RequestsAssumption
<1>3. MaxPayload \in Nat /\ MaxPayload < PKT_START_BYTE
  BY SizeAssumption DEF MaxPayload, PKT_START_BYTE
<1>4. /\ x.cmd = r.cmd
      /\ q = IF Len(r.payload) > MaxPayload THEN SubSeq(r.payload, 1, MaxPayload) ELSE r.payload
  BY <1>1 DEF OnWire, Packet
<1>5. /\ n \in Nat /\ n <= MaxPayload
      /\ \A i \in 1 .. n : \E k \in 1 .. Len(r.payload) : q[i] = r.payload[k]
  <2>1. CASE Len(r.payload) > MaxPayload
    <3> DEFINE m == MaxPayload
    <3>1. /\ m \in Nat /\ m < Len(r.payload) /\ Len(r.payload) \in Nat
          /\ q = SubSeq(r.payload, 1, m)
      BY <1>1, <1>3, <1>4, <2>1
    <3> HIDE DEF m, q
    <3>2. Len(q) = m /\ \A i \in 1 .. m : q[i] = r.payload[i]
      BY <1>1, <3>1
    <3>3. \A i \in 1 .. m : i \in 1 .. Len(r.payload) /\ q[i] = r.payload[i]
      BY <3>1, <3>2
    <3>4. n = m /\ m <= MaxPayload
      BY <1>3, <3>2 DEF m
    <3> HIDE DEF n
    <3> QED BY <3>1, <3>3, <3>4
  <2>2. CASE ~(Len(r.payload) > MaxPayload)
    BY <1>1, <1>3, <1>4, <2>2
  <2> QED BY <2>1, <2>2
<1>6. \A i \in 1 .. n : q[i] # PKT_START_BYTE
  <2>1. \A k \in 1 .. Len(r.payload) : r.payload[k] # PKT_START_BYTE
    BY DEF ToSet
  <2> QED BY <1>5, <2>1
<1>7. /\ Len(Sent(r)) = 3 + n /\ Sent(r)[2] = x.cmd /\ Sent(r)[3] = n
      /\ \A i \in 1 .. n : Sent(r)[3 + i] = q[i]
  BY SentIs
<1> HIDE DEF q, x
<1>8. CASE j = 2 \/ j = 3
  BY <1>2, <1>3, <1>4, <1>5, <1>7, <1>8
<1>9. CASE j > 3
  <2> DEFINE i == j - 3
  <2>1. i \in 1 .. n /\ 3 + i = j
    BY <1>5, <1>7, <1>9
  <2> HIDE DEF i
  <2> QED BY <1>6, <1>7, <2>1
<1> QED
  BY <1>5, <1>7, <1>8, <1>9

\* Places are ordered.
LEMMA BeforeIs ==
  ASSUME NEW s \in Seq(Requests),
         NEW x \in PlaceOrOrigin(s), NEW y \in PlaceOrOrigin(s), NEW z \in PlaceOrOrigin(s)
  PROVE  /\ ~Before(x, x) /\ (Before(x, y) => ~Before(y, x))
         /\ Before(x, y) /\ Before(y, z) => Before(x, z)
         /\ x # y => Before(x, y) \/ Before(y, x)
         /\ Before(x, y) => x[1] <= y[1]
         /\ x[1] \in 0 .. Len(s) /\ x[2] \in Nat
<1>1. \A v \in PlaceOrOrigin(s) : v[1] \in 0 .. Len(s) /\ v[2] \in Nat /\ v = <<v[1], v[2]>>
  BY DEF PlaceOrOrigin, Places, Origin
<1>2. Len(s) \in Nat
  OBVIOUS
<1> QED
  BY <1>1, <1>2 DEF Before

-----------------------------------------------------------------------------
(* Wrong packets                                                           *)

\* More may be wrong, and more may have been sent.
LEMMA LocalMore ==
  ASSUME NEW out \in Seq(Packet), NEW s, NEW n \in Int, NEW m \in Int, NEW c \in Int,
         NEW b \in Int, n <= m, c <= b, Local(out, s, n, c)
  PROVE  Local(out, s, m, b)
<1>1. PICK kept \in SUBSET (1 .. Len(out)) :
        /\ Cardinality((1 .. Len(out)) \ kept) <= c
        /\ \E at \in [kept -> 1 .. n] :
             \A i \in kept : /\ out[i] = OnWire(s[at[i]])
                             /\ \A j \in kept : j < i => at[j] < at[i]
  BY DEF Local
<1>2. Cardinality((1 .. Len(out)) \ kept) <= b
  <2>1. Cardinality((1 .. Len(out)) \ kept) \in Nat
    <3>1. IsFiniteSet(1 .. Len(out))
      BY FS_Interval
    <3>2. IsFiniteSet((1 .. Len(out)) \ kept)
      BY <3>1, FS_Difference
    <3> QED BY <3>2, FS_CardinalityType
  <2> QED BY <1>1, <2>1
<1>3. 1 .. n \subseteq 1 .. m
  OBVIOUS
<1>4. [kept -> 1 .. n] \subseteq [kept -> 1 .. m]
  BY <1>3
<1> QED
  BY <1>1, <1>2, <1>4 DEF Local

\* One more packet is wrong.
LEMMA LocalWrong ==
  ASSUME NEW out \in Seq(Packet), NEW s, NEW n \in Int, NEW c \in Int, NEW x \in Packet,
         Local(out, s, n, c)
  PROVE  Local(Append(out, x), s, n, c + 1)
<1> DEFINE k == Len(out)
           new == Append(out, x)
<1>1. PICK kept \in SUBSET (1 .. k) :
        /\ Cardinality((1 .. k) \ kept) <= c
        /\ \E at \in [kept -> 1 .. n] :
             \A i \in kept : /\ out[i] = OnWire(s[at[i]])
                             /\ \A j \in kept : j < i => at[j] < at[i]
  BY DEF Local
<1>2. k \in Nat /\ Len(new) = k + 1 /\ \A i \in 1 .. k : new[i] = out[i]
  OBVIOUS
<1> HIDE DEF new, k
<1>3. kept \in SUBSET (1 .. k + 1) /\ \A i \in kept : new[i] = out[i]
  BY <1>2
<1>4. Cardinality((1 .. k + 1) \ kept) <= c + 1
  <2> DEFINE A == (1 .. k) \ kept
  <2>1. IsFiniteSet(A) /\ Cardinality(A) <= c
    <3>1. IsFiniteSet(1 .. k)
      <4>1. 1 \in Int /\ k \in Int
        BY <1>2
      <4> QED BY <4>1, FS_Interval, Zenon
    <3> QED BY <1>1, <3>1, FS_Difference DEF A
  <2>2. (1 .. k + 1) \ kept = A \cup {k + 1} /\ k + 1 \notin A
    BY <1>2
  <2> HIDE DEF A
  <2>3. Cardinality(A \cup {k + 1}) = Cardinality(A) + 1 /\ Cardinality(A) \in Nat
    BY <2>1, <2>2, FS_AddElement, FS_CardinalityType
  <2>4. Cardinality(A) + 1 <= c + 1
    BY <2>1, <2>3
  <2> QED BY <2>2, <2>3, <2>4, Zenon
<1>5. \E at \in [kept -> 1 .. n] :
        \A i \in kept : /\ new[i] = OnWire(s[at[i]])
                        /\ \A j \in kept : j < i => at[j] < at[i]
  BY <1>1, <1>3
<1>6. Local(new, s, n, c + 1)
  BY <1>2, <1>3, <1>4, <1>5, Zenon DEF Local
<1> QED
  BY <1>6 DEF new

\* One more packet is the one that was sent after those.
LEMMA LocalRight ==
  ASSUME NEW out \in Seq(Packet), NEW s, NEW n \in Nat \ {0}, NEW c \in Int,
         OnWire(s[n]) \in Packet, Local(out, s, n - 1, c)
  PROVE  Local(Append(out, OnWire(s[n])), s, n, c)
<1> DEFINE k == Len(out)
           m == k + 1
           x == OnWire(s[n])
           new == Append(out, x)
<1>1. PICK kept \in SUBSET (1 .. k) :
        /\ Cardinality((1 .. k) \ kept) <= c
        /\ \E at \in [kept -> 1 .. n - 1] :
             \A i \in kept : /\ out[i] = OnWire(s[at[i]])
                             /\ \A j \in kept : j < i => at[j] < at[i]
  BY DEF Local
<1>2. PICK at \in [kept -> 1 .. n - 1] :
        \A i \in kept : /\ out[i] = OnWire(s[at[i]])
                        /\ \A j \in kept : j < i => at[j] < at[i]
  BY <1>1
<1>3. /\ k \in Nat /\ m \in Nat /\ Len(new) = m /\ new[m] = x
      /\ \A i \in 1 .. k : new[i] = out[i] /\ i < m /\ i # m /\ i \in 1 .. m
      /\ m \in 1 .. m
  OBVIOUS
<1>4. (1 .. m) \ (kept \cup {m}) = (1 .. k) \ kept
  BY <1>3
<1> HIDE DEF new, k, x, m
<1> DEFINE more == kept \cup {m}
           too == [i \in more |-> IF i = m THEN n ELSE at[i]]
<1>5. \A i \in kept : i \in 1 .. k /\ i < m /\ ~(m < i) /\ at[i] \in 1 .. n - 1 /\ at[i] < n
  <2>1. \A i \in kept : i \in 1 .. k /\ at[i] \in 1 .. n - 1
    BY <1>1, <1>2
  <2>2. \A v \in 1 .. n - 1 : v < n
    OBVIOUS
  <2>3. \A i \in 1 .. k : i < m /\ ~(m < i)
    BY <1>3
  <2> QED BY <2>1, <2>2, <2>3
<1>6. more \in SUBSET (1 .. m)
  BY <1>3, <1>5
<1>7. too \in [more -> 1 .. n]
  BY <1>5
<1>8. too[m] = n /\ \A i \in kept : too[i] = at[i]
  BY <1>5
<1> HIDE DEF too
<1>9. ASSUME NEW i \in more
      PROVE  /\ new[i] = OnWire(s[too[i]])
             /\ \A j \in more : j < i => too[j] < too[i]
  <2>1. CASE i = m
    BY <1>3, <1>5, <1>8, <2>1 DEF x
  <2>2. CASE i \in kept
    BY <1>2, <1>3, <1>5, <1>8, <2>2
  <2> QED BY <2>1, <2>2
<1>10. Cardinality((1 .. m) \ more) <= c
  BY <1>1, <1>4
<1> HIDE DEF more
<1>11. Local(new, s, n, c)
  BY <1>3, <1>6, <1>7, <1>9, <1>10, Zenon DEF Local
<1> QED
  BY <1>11 DEF new, x

-----------------------------------------------------------------------------
(* The decoder on a damaged line                                           *)

\* What the decoder has delivered after a byte.
Delivers(e, f, out) == IF Completes(e, f) THEN Append(out, Event(f)) ELSE out

\* It returns to waiting with a packet, and only so.
LEMMA CompletesIs ==
  ASSUME NEW e \in Decoder, NEW byte \in Byte, NEW f, f = Handle(e, byte)
  PROVE  /\ f \in Decoder /\ Event(f) \in Packet
         /\ e.state = "WAIT_START" => ~Completes(e, f)
         /\ e.state # "WAIT_START" => (Completes(e, f) <=> f.state = "WAIT_START")
<1>1. f \in Decoder /\ Event(f) \in Packet
  BY HandleIs, EventIs
<1>2. e.state \in States
  BY DEF Decoder
<1>3. e.state = "READ_CMD" => f.state = "READ_LEN"
  BY DEF Handle, Decoder
<1> QED
  BY <1>1, <1>2, <1>3 DEF Completes, States

\* The next place is the next byte of the same request or the first of a later one.
LEMMA NextPlace ==
  ASSUME NEW s \in Seq(Requests), NEW p \in PlaceOrOrigin(s), NEW q \in Places(s),
         Before(p, q), \A x \in Places(s) : Before(p, x) => ~Before(x, q)
  PROVE  /\ \/ q[2] = 1 /\ p[1] < q[1]
            \/ q[2] > 1 /\ q = <<p[1], p[2] + 1>>
         /\ p \in Places(s) /\ p[2] < Len(Sent(s[p[1]])) => q = <<p[1], p[2] + 1>>
<1>1. /\ q[1] \in 1 .. Len(s) /\ q[2] \in Nat \ {0} /\ q = <<q[1], q[2]>>
      /\ q[2] <= Len(Sent(s[q[1]]))
  BY DEF Places
<1>2. /\ Len(s) \in Nat /\ p[1] \in 0 .. Len(s) /\ p[2] \in Nat /\ p = <<p[1], p[2]>>
      /\ p[1] > 0 => p[2] > 0
  BY DEF PlaceOrOrigin, Places, Origin
<1>3. \A i \in 1 .. Len(s) : Len(Sent(s[i])) \in Nat
  BY SentIs
<1>4. CASE q[2] = 1
  <2>1. p[1] < q[1]
    BY <1>1, <1>2, <1>4 DEF Before
  <2>2. ~(p \in Places(s) /\ p[2] < Len(Sent(s[p[1]])))
    <3> SUFFICES ASSUME p \in Places(s), p[2] < Len(Sent(s[p[1]])) PROVE FALSE
      OBVIOUS
    <3> DEFINE x == <<p[1], p[2] + 1>>
    <3>1. p[1] \in 1 .. Len(s)
      BY DEF Places
    <3>2. x \in Places(s)
      BY <1>2, <1>3, <3>1 DEF Places
    <3>3. Before(p, x) /\ Before(x, q)
      BY <1>2, <2>1 DEF Before
    <3> QED BY <3>2, <3>3
  <2> QED BY <1>4, <2>1, <2>2
<1>5. CASE q[2] > 1
  <2> DEFINE x == <<q[1], q[2] - 1>>
  <2>1. x \in Places(s)
    BY <1>1, <1>3, <1>5 DEF Places
  <2>2. Before(x, q)
    BY <1>1 DEF Before
  <2>3. ~Before(p, x)
    BY <2>1, <2>2
  <2>4. p[1] = q[1] /\ p[2] + 1 = q[2]
    BY <1>1, <1>2, <2>3 DEF Before
  <2> QED BY <1>1, <1>5, <2>4
<1> QED
  BY <1>1, <1>4, <1>5

\* A payload without a start byte.
NoStart(r) == PKT_START_BYTE \notin ToSet(r.payload)

\* A waiting decoder passes over the rest of a request and follows the next one.
LEMMA SeenWaiting ==
  ASSUME NEW s \in Seq(Requests), \A i \in 1 .. Len(s) : NoStart(s[i]),
         NEW e \in Decoder, NEW out \in Seq(Packet), NEW c \in Nat,
         NEW p \in PlaceOrOrigin(s), NEW q \in Places(s), Before(p, q),
         \A x \in Places(s) : Before(p, x) => ~Before(x, q),
         NEW byte, byte = Sent(s[q[1]])[q[2]], NEW f, f = Handle(e, byte),
         e.state = "WAIT_START", Local(out, s, p[1], c)
  PROVE  Seen(f, out, s, q, c)
<1>1. /\ q[1] \in 1 .. Len(s) /\ q[2] \in Nat \ {0} /\ q = <<q[1], q[2]>>
      /\ q[2] <= Len(Sent(s[q[1]])) /\ s[q[1]] \in Requests
  BY DEF Places
<1>2. p[1] \in Nat
  BY BeforeIs
<1>3. CASE q[2] = 1 /\ p[1] < q[1]
  <2>1. f = [e EXCEPT !.state = "READ_CMD"]
    BY <1>1, <1>3, SentIs DEF Handle, Starts
  <2>2. 1 < Len(Sent(s[q[1]]))
    BY <1>1, SentIs DEF Packet
  <2>3. Following(f, s, q)
    BY <1>3, <2>1, <2>2 DEF Following, Decoder
  <2>4. Local(out, s, q[1] - 1, c)
    <3>1. p[1] \in Int /\ q[1] - 1 \in Int /\ p[1] <= q[1] - 1 /\ c <= c /\ c \in Int
      BY <1>1, <1>2, <1>3
    <3> QED BY <3>1, LocalMore
  <2> QED BY <2>3, <2>4 DEF Seen
<1>4. CASE q[2] > 1 /\ q = <<p[1], p[2] + 1>>
  <2>1. byte # PKT_START_BYTE
    <3>1. q[2] \in 2 .. Len(Sent(s[q[1]]))
      BY <1>1, <1>4, SentIs
    <3> QED BY <1>1, <3>1, NoStartInside DEF NoStart
  <2>2. f = e
    BY <2>1 DEF Handle, Starts
  <2> QED BY <1>4, <2>2 DEF Seen
<1> QED
  BY <1>3, <1>4, NextPlace

\* A decoder that follows goes on following, or has the packet that was sent.
LEMMA SeenFollowing ==
  ASSUME NEW s \in Seq(Requests), NEW e \in Decoder, NEW out \in Seq(Packet), NEW c \in Nat,
         NEW p \in PlaceOrOrigin(s), NEW q \in Places(s), Before(p, q),
         \A x \in Places(s) : Before(p, x) => ~Before(x, q),
         NEW byte, byte = Sent(s[q[1]])[q[2]], NEW f, f = Handle(e, byte),
         Following(e, s, p), Local(out, s, p[1] - 1, c)
  PROVE  Seen(f, Delivers(e, f, out), s, q, c)
<1> DEFINE k == p[1]
           j == p[2]
           x == OnWire(s[k])
           w == x.payload
           n == Len(w)
<1>1. /\ k \in 1 .. Len(s) /\ k \in Nat \ {0} /\ j \in Nat \ {0} /\ s[k] \in Requests
  BY DEF Following, Places
<1>2. /\ q = <<k, j + 1>> /\ q[1] = k /\ q[2] = j + 1
  BY NextPlace DEF Following
<1>3. /\ x \in Packet /\ Len(Sent(s[k])) = 3 + n
      /\ Sent(s[k])[2] = x.cmd /\ Sent(s[k])[3] = n
      /\ \A i \in 1 .. n : Sent(s[k])[3 + i] = w[i]
  BY <1>1, SentIs
<1>4. w \in Seq(Byte) /\ n \in Nat /\ x.cmd \in Byte /\ x = [cmd |-> x.cmd, payload |-> w]
  BY <1>3 DEF Packet
<1>5. /\ j < 3 + n
      /\ j = 1 => e.state = "READ_CMD"
      /\ j = 2 => e.state = "READ_LEN" /\ e.cmd = x.cmd
      /\ j > 2 => e.state = "READ_PAYLOAD" /\ e.cmd = x.cmd /\ e.len = n
                  /\ e.buf = SubSeq(w, 1, j - 3)
  BY <1>3 DEF Following
<1>6. e \in [state : States, cmd : Byte, len : Byte, buf : Seq(Byte)]
  BY DEF Decoder
<1>7. byte = Sent(s[k])[j + 1]
  BY <1>2
<1> HIDE DEF k, j, x, w, n
\* What is to be shown of the decoder after the byte.
<1>8. ASSUME Following(f, s, q), f.state # "WAIT_START"
      PROVE  Seen(f, Delivers(e, f, out), s, q, c)
  <2>1. Delivers(e, f, out) = out
    BY <1>8 DEF Delivers, Completes
  <2> QED BY <1>2, <1>8, <2>1, Zenon DEF Seen, k
<1>9. ASSUME e.state \in {"READ_LEN", "READ_PAYLOAD"}, f.state = "WAIT_START",
             f.cmd = x.cmd, f.buf = w
      PROVE  Seen(f, Delivers(e, f, out), s, q, c)
  <2>1. Delivers(e, f, out) = Append(out, x)
    <3>1. Event(f) = x
      BY <1>4, <1>9 DEF Event
    <3> QED BY <1>9, <3>1 DEF Delivers, Completes
  <2>2. Local(Append(out, x), s, k, c)
    <3>1. k \in Nat \ {0} /\ c \in Int /\ OnWire(s[k]) \in Packet /\ Local(out, s, k - 1, c)
      BY <1>1, <1>3 DEF k, x
    <3> QED BY <3>1, LocalRight, Zenon DEF x
  <2> QED BY <1>2, <1>9, <2>1, <2>2, Zenon DEF Seen
<1>10. q \in Places(s) /\ Len(Sent(s[q[1]])) = 3 + n /\ OnWire(s[q[1]]) = x
  BY <1>2, <1>3 DEF x
<1>11. CASE j = 1
  <2>1. f = [e EXCEPT !.state = "READ_LEN", !.cmd = x.cmd]
    <3>1. byte = x.cmd /\ e.state = "READ_CMD"
      BY <1>3, <1>5, <1>7, <1>11
    <3> QED BY <3>1 DEF Handle
  <2>2. f.state = "READ_LEN" /\ f.cmd = x.cmd
    BY <1>6, <2>1
  <2>3. q[2] = 2 /\ 2 < 3 + n
    BY <1>2, <1>4, <1>11
  <2>4. Following(f, s, q)
    BY <1>10, <2>2, <2>3 DEF Following
  <2> QED BY <1>8, <2>2, <2>4
<1>12. CASE j = 2
  <2>1. f = [e EXCEPT !.state = IF n = 0 THEN "WAIT_START" ELSE "READ_PAYLOAD",
                      !.len = n, !.buf = << >>]
    <3>1. byte = n /\ e.state = "READ_LEN"
      BY <1>3, <1>5, <1>7, <1>12
    <3> QED BY <3>1 DEF Handle
  <2>2. /\ f.state = (IF n = 0 THEN "WAIT_START" ELSE "READ_PAYLOAD")
        /\ f.cmd = x.cmd /\ f.len = n /\ f.buf = << >>
    BY <1>5, <1>6, <1>12, <2>1
  <2>3. CASE n = 0
    <3>1. w = << >>
      BY <1>4, <2>3, EmptySeq DEF n
    <3> QED BY <1>5, <1>9, <1>12, <2>2, <2>3, <3>1
  <2>4. CASE n # 0
    <3>1. q[2] = 3 /\ 3 < 3 + n /\ q[2] - 3 = 0
      BY <1>2, <1>4, <1>12, <2>4
    <3>2. SubSeq(w, 1, 0) = << >>
      BY <1>4
    <3>3. Following(f, s, q)
      BY <1>10, <2>2, <2>4, <3>1, <3>2 DEF Following, w, n
    <3> QED BY <1>8, <2>2, <2>4, <3>3
  <2> QED BY <2>3, <2>4
<1>13. CASE j > 2
  <2> DEFINE i == j - 3
  <2>1. i \in Nat /\ i + 1 <= n /\ i + 1 \in 1 .. n /\ j + 1 = 3 + (i + 1) /\ n = Len(w)
    <3>1. n = Len(w)
      BY DEF n
    <3> QED BY <1>1, <1>4, <1>5, <1>13, <3>1, SMTT(30)
  <2>2. /\ e.state = "READ_PAYLOAD" /\ e.cmd = x.cmd /\ e.len = n /\ e.buf = SubSeq(w, 1, i)
    BY <1>5, <1>13
  <2> HIDE DEF i
  <2>3. byte = w[i + 1]
    BY <1>3, <1>7, <2>1
  <2>4. /\ Len(SubSeq(w, 1, i)) = i
        /\ SubSeq(w, 1, i + 1) = Append(SubSeq(w, 1, i), w[i + 1])
    BY <1>4, <2>1, SubSeqNext
  <2>5. f = [e EXCEPT !.state = IF i + 1 >= n THEN "WAIT_START" ELSE "READ_PAYLOAD",
                      !.buf = SubSeq(w, 1, i + 1)]
    BY <2>2, <2>3, <2>4 DEF Handle
  <2>6. /\ f.state = (IF i + 1 >= n THEN "WAIT_START" ELSE "READ_PAYLOAD")
        /\ f.cmd = x.cmd /\ f.len = n /\ f.buf = SubSeq(w, 1, i + 1)
    BY <1>6, <2>2, <2>5
  <2>7. CASE i + 1 >= n
    <3>1. i + 1 = n
      BY <1>4, <2>1, <2>7
    <3>2. SubSeq(w, 1, n) = w
      BY <1>4 DEF n
    <3> QED BY <1>9, <2>2, <2>6, <2>7, <3>1, <3>2
  <2>8. CASE ~(i + 1 >= n)
    <3>1. q[2] > 2 /\ q[2] < 3 + n /\ q[2] - 3 = i + 1 /\ q[2] # 1 /\ q[2] # 2
      BY <1>1, <1>2, <1>4, <1>13, <2>1, <2>8, SMTT(30) DEF i
    <3>2. Following(f, s, q)
      BY <1>10, <2>6, <2>8, <3>1 DEF Following, w, n
    <3> QED BY <1>8, <2>6, <2>8, <3>2
  <2> QED BY <2>7, <2>8
<1> QED
  BY <1>1, <1>11, <1>12, <1>13

\* A packet that is wrong already stays so, or is delivered wrong.
LEMMA SeenWrong ==
  ASSUME NEW s \in Seq(Requests), NEW e \in Decoder, NEW out \in Seq(Packet),
         NEW n \in Nat, NEW m \in Nat, n <= m, NEW c \in Nat,
         NEW q, q[1] = m, NEW byte \in Byte, NEW f, f = Handle(e, byte), c > 0,
         Local(out, s, n, c - 1)
  PROVE  Seen(f, Delivers(e, f, out), s, q, c)
<1>1. /\ f \in Decoder /\ Event(f) \in Packet
      /\ e.state = "WAIT_START" => ~Completes(e, f)
      /\ e.state # "WAIT_START" => (Completes(e, f) <=> f.state = "WAIT_START")
  BY CompletesIs
<1>2. /\ n \in Int /\ m \in Int /\ c - 1 \in Int /\ c \in Int /\ c - 1 <= c /\ c - 1 <= c - 1
      /\ (c - 1) + 1 = c
  OBVIOUS
<1>3. Local(out, s, m, c - 1) /\ Local(out, s, m, c)
  BY <1>2, LocalMore
<1>4. CASE Completes(e, f)
  <2>1. Local(Append(out, Event(f)), s, m, c)
    BY <1>1, <1>2, <1>3, LocalWrong
  <2>2. f.state = "WAIT_START"
    BY <1>1, <1>4
  <2> QED BY <1>4, <2>1, <2>2 DEF Seen, Delivers
<1>5. CASE ~Completes(e, f)
  BY <1>3, <1>5 DEF Seen, Delivers
<1> QED
  BY <1>4, <1>5

\* Whatever the decoder was doing, at most c of what it delivered is wrong.
LEMMA SeenLocal ==
  ASSUME NEW s \in Seq(Requests), NEW e, NEW out \in Seq(Packet), NEW c \in Nat,
         NEW p \in PlaceOrOrigin(s), Seen(e, out, s, p, c)
  PROVE  Local(out, s, p[1], c)
<1>1. p[1] \in Int /\ p[1] - 1 \in Int /\ p[1] - 1 <= p[1] /\ p[1] <= p[1]
      /\ c \in Int /\ c - 1 \in Int /\ c - 1 <= c /\ c <= c
  BY BeforeIs
<1> QED
  BY <1>1, LocalMore DEF Seen

\* The hurt places up to p are among those up to a later q.
LEMMA PastIs ==
  ASSUME NEW s \in Seq(Requests), NEW hurt \in SUBSET Places(s), IsFiniteSet(hurt),
         NEW p \in PlaceOrOrigin(s), NEW q \in PlaceOrOrigin(s), Before(p, q)
  PROVE  /\ Cardinality(Past(hurt, p)) \in Nat /\ Cardinality(Past(hurt, q)) \in Nat
         /\ Cardinality(Past(hurt, p)) <= Cardinality(hurt)
         /\ \/ Past(hurt, p) = Past(hurt, q)
            \/ Cardinality(Past(hurt, p)) + 1 <= Cardinality(Past(hurt, q))
         /\ Past(hurt, p) = Past(hurt, q) =>
              \A y \in hurt : Before(p, y) => Before(q, y)
<1> DEFINE A == Past(hurt, p)
           B == Past(hurt, q)
<1>1. A \in SUBSET hurt /\ B \in SUBSET hurt
  BY DEF Past
<1>2. IsFiniteSet(A) /\ IsFiniteSet(B) /\ Cardinality(A) <= Cardinality(hurt)
  BY <1>1, FS_Subset, Zenon
<1>3. Cardinality(A) \in Nat /\ Cardinality(B) \in Nat
  BY <1>2, FS_CardinalityType, Zenon
<1>4. hurt \subseteq PlaceOrOrigin(s)
  BY DEF PlaceOrOrigin
<1>5. A \in SUBSET B
  <2> SUFFICES ASSUME NEW y \in hurt, ~Before(p, y) PROVE ~Before(q, y)
    BY DEF Past
  <2>1. y \in PlaceOrOrigin(s)
    BY <1>4
  <2> QED BY <2>1, BeforeIs
<1>6. CASE A = B
  <2>1. \A y \in hurt : Before(p, y) => Before(q, y)
    BY <1>6 DEF Past
  <2> QED BY <1>2, <1>3, <1>6, <2>1
<1>7. CASE A # B
  <2>1. Cardinality(A) <= Cardinality(B) /\ Cardinality(A) # Cardinality(B)
    BY <1>2, <1>5, <1>7, FS_Subset, Zenon
  <2> HIDE DEF A, B
  <2>2. Cardinality(A) + 1 <= Cardinality(B)
    BY <1>3, <2>1
  <2> QED BY <1>2, <1>3, <1>7, <2>2 DEF A, B
<1> QED
  BY <1>6, <1>7

\* The next byte that the decoder takes, hurt or not, and whatever is missing
\* before it.
LEMMA SeenTake ==
  ASSUME NEW s \in Seq(Requests), \A i \in 1 .. Len(s) : NoStart(s[i]),
         NEW e \in Decoder, NEW out \in Seq(Packet),
         NEW hurt \in SUBSET Places(s), IsFiniteSet(hurt),
         NEW p \in PlaceOrOrigin(s), NEW q \in Places(s), Before(p, q),
         \A x \in Places(s) : Before(p, x) /\ Before(x, q) => x \in hurt,
         NEW byte \in Byte, q \in hurt \/ byte = Sent(s[q[1]])[q[2]],
         NEW f, f = Handle(e, byte),
         Seen(e, out, s, p, Cardinality(Past(hurt, p)))
  PROVE  Seen(f, Delivers(e, f, out), s, q, Cardinality(Past(hurt, q)))
<1> DEFINE c == Cardinality(Past(hurt, p))
           b == Cardinality(Past(hurt, q))
<1>1. q \in PlaceOrOrigin(s)
  BY DEF PlaceOrOrigin
<1>2. /\ c \in Nat /\ b \in Nat
      /\ \/ Past(hurt, p) = Past(hurt, q)
         \/ c + 1 <= b
      /\ Past(hurt, p) = Past(hurt, q) => \A y \in hurt : Before(p, y) => Before(q, y)
  BY <1>1, PastIs, Zenon
<1>3. p[1] \in Nat /\ q[1] \in Nat /\ p[1] <= q[1]
  BY <1>1, BeforeIs
<1>4. Seen(e, out, s, p, c)
  OBVIOUS
<1>5. CASE Past(hurt, p) = Past(hurt, q)
  <2>1. c = b
    BY <1>5
  <2> HIDE DEF c, b
  <2>2. ~Before(q, q) /\ \A x \in Places(s) : Before(x, q) => ~Before(q, x)
    BY <1>1, BeforeIs DEF PlaceOrOrigin
  <2>3. q \notin hurt
    BY <1>2, <1>5, <2>2
  <2>4. \A x \in Places(s) : Before(p, x) => ~Before(x, q)
    BY <1>2, <1>5, <2>2
  <2>5. byte = Sent(s[q[1]])[q[2]]
    BY <2>3
  <2>6. CASE e.state = "WAIT_START" /\ Local(out, s, p[1], c)
    <3>1. Seen(f, out, s, q, c)
      BY <1>2, <2>4, <2>5, <2>6, SeenWaiting
    <3>2. ~Completes(e, f)
      BY <2>6, CompletesIs
    <3> QED BY <2>1, <3>1, <3>2 DEF Delivers, b
  <2>7. CASE Following(e, s, p) /\ Local(out, s, p[1] - 1, c)
    <3>1. Seen(f, Delivers(e, f, out), s, q, c)
      BY <1>2, <2>4, <2>5, <2>7, SeenFollowing
    <3> QED BY <2>1, <3>1 DEF b
  <2>8. CASE e.state # "WAIT_START" /\ c > 0 /\ Local(out, s, p[1], c - 1)
    <3>1. Seen(f, Delivers(e, f, out), s, q, c)
      BY <1>2, <1>3, <2>8, SeenWrong
    <3> QED BY <2>1, <3>1 DEF b
  <2> QED BY <1>4, <2>6, <2>7, <2>8, Zenon DEF Seen, b
<1>6. CASE c + 1 <= b
  <2>1. Local(out, s, p[1], c)
    BY <1>2, <1>4, SeenLocal
  <2> HIDE DEF c, b
  <2>2. /\ p[1] \in Int /\ p[1] <= p[1] /\ c \in Int /\ b - 1 \in Int /\ c <= b - 1 /\ b > 0
    BY <1>2, <1>3, <1>6
  <2>3. Local(out, s, p[1], b - 1)
    BY <2>1, <2>2, LocalMore
  <2>4. Seen(f, Delivers(e, f, out), s, q, b)
    BY <1>2, <1>3, <2>2, <2>3, SeenWrong
  <2> QED BY <2>4 DEF b
<1> QED
  BY <1>2, <1>5, <1>6

-----------------------------------------------------------------------------
(* What is under way on a damaged line                                     *)

\* The elements of a sequence with one in the middle.
LEMMA MiddleIs ==
  ASSUME NEW S, NEW a \in Seq(S), NEW x \in S, NEW b \in Seq(S),
         NEW n, n = Len(a), NEW m, m = Len(b)
  PROVE  /\ n \in Nat /\ m \in Nat
         /\ a \o b \in Seq(S) /\ Len(a \o b) = n + m
         /\ (a \o <<x>>) \o b \in Seq(S) /\ Len((a \o <<x>>) \o b) = n + m + 1
         /\ ((a \o <<x>>) \o b)[n + 1] = x
         /\ \A i \in 1 .. n : ((a \o <<x>>) \o b)[i] = a[i] /\ (a \o b)[i] = a[i]
         /\ \A i \in 1 .. m : /\ ((a \o <<x>>) \o b)[n + 1 + i] = b[i]
                             /\ (a \o b)[n + i] = b[i]
<1> DEFINE one == <<x>>
           k == 1
           l == n + k
           ax == a \o one
<1>1. one \in Seq(S) /\ k = Len(one) /\ one[k] = x /\ k \in 1 .. k
  OBVIOUS
<1>2. k = 1
  OBVIOUS
<1> HIDE DEF one, k
<1>3. /\ ax \in Seq(S) /\ Len(ax) = l /\ n \in Nat /\ k \in Nat
      /\ \A i \in 1 .. n : ax[i] = a[i]
      /\ \A i \in 1 .. k : ax[n + i] = one[i]
  BY <1>1, BothParts, SMTT(30)
<1>4. l \in Nat /\ Len(ax) = l
  BY <1>3
<1> HIDE DEF ax, l
<1>5. /\ ax \o b \in Seq(S) /\ Len(ax \o b) = l + m /\ m \in Nat
      /\ \A i \in 1 .. l : (ax \o b)[i] = ax[i]
      /\ \A i \in 1 .. m : (ax \o b)[l + i] = b[i]
  BY <1>3, <1>4, SMTT(30)
<1>6. /\ a \o b \in Seq(S) /\ Len(a \o b) = n + m
      /\ \A i \in 1 .. n : (a \o b)[i] = a[i]
      /\ \A i \in 1 .. m : (a \o b)[n + i] = b[i]
  OBVIOUS
<1>7. l = n + 1 /\ l + m = n + m + 1 /\ l \in 1 .. l /\ \A i \in 1 .. n : i \in 1 .. l
  BY <1>3, <1>5, <1>2 DEF l
<1>8. ax[l] = x
  BY <1>1, <1>3, Zenon DEF l
<1>9. /\ (ax \o b)[l] = x
      /\ \A i \in 1 .. n : (ax \o b)[i] = a[i]
  BY <1>3, <1>5, <1>7, <1>8, Zenon
<1>10. /\ ax \o b \in Seq(S) /\ Len(ax \o b) = n + m + 1
       /\ (ax \o b)[n + 1] = x
       /\ \A i \in 1 .. n : (ax \o b)[i] = a[i] /\ (a \o b)[i] = a[i]
       /\ \A i \in 1 .. m : (ax \o b)[n + 1 + i] = b[i] /\ (a \o b)[n + i] = b[i]
  BY <1>5, <1>6, <1>7, <1>9, Zenon
<1> QED
  BY <1>3, <1>5, <1>6, <1>10, Zenon DEF ax, one

\* A byte is lost: its place is hurt.
LEMMA StreamLess ==
  ASSUME NEW s \in Seq(Requests), NEW hurt \in SUBSET Places(s), NEW p, NEW o,
         NEW a \in Seq(HwByte), NEW x \in HwByte, NEW b \in Seq(HwByte),
         Stream((a \o <<x>>) \o b, s, hurt, p, o)
  PROVE  \E y \in Places(s) : \E o2 :
           /\ Before(p, y) /\ (~x.good => y \in hurt)
           /\ Stream(a \o b, s, hurt \cup {y}, p, o2)
<1> DEFINE u == (a \o <<x>>) \o b
           v == a \o b
           n == Len(a)
           m == Len(b)
           k == n + 1
           y == o[k]
           o2 == [i \in 1 .. n + m |-> IF i <= n THEN o[i] ELSE o[i + 1]]
<1>1. /\ n \in Nat /\ m \in Nat /\ Len(v) = n + m /\ Len(u) = n + m + 1
      /\ u[k] = x
      /\ \A i \in 1 .. n : u[i] = a[i] /\ v[i] = a[i]
      /\ \A i \in 1 .. m : u[k + i] = b[i] /\ v[n + i] = b[i]
  BY MiddleIs
<1>2. /\ o \in [1 .. Len(u) -> Places(s)]
      /\ \A i \in 1 .. Len(u) :
           /\ Before(p, o[i])
           /\ o[i] \in hurt \/ (u[i].good /\ u[i].byte = Sent(s[o[i][1]])[o[i][2]])
           /\ \A j \in 1 .. Len(u) : i < j => Before(o[i], o[j])
      /\ \A z \in Places(s) : Before(p, z) => z \in hurt \/ \E i \in 1 .. Len(u) : o[i] = z
  BY Zenon DEF Stream
<1> HIDE DEF u, v, n, m
\* The place in u of what is at i in v.
<1> DEFINE At(i) == IF i <= n THEN i ELSE i + 1
<1>3. \A i \in 1 .. n + m : /\ At(i) \in 1 .. n + m + 1 /\ At(i) # k
                            /\ v[i] = u[At(i)]
                            /\ \A j \in 1 .. n + m : i < j => At(i) < At(j)
  <2> SUFFICES ASSUME NEW i \in 1 .. n + m
               PROVE  /\ At(i) \in 1 .. n + m + 1 /\ At(i) # k
                      /\ v[i] = u[At(i)]
                      /\ \A j \in 1 .. n + m : i < j => At(i) < At(j)
    OBVIOUS
  <2>1. /\ At(i) \in 1 .. n + m + 1 /\ At(i) # k
        /\ \A j \in 1 .. n + m : i < j => At(i) < At(j)
    BY <1>1
  <2>2. CASE i <= n
    BY <1>1, <2>1, <2>2
  <2>3. CASE ~(i <= n)
    <3> DEFINE j == i - n
    <3>1. j \in 1 .. m /\ k + j = i + 1 /\ n + j = i
      BY <1>1, <2>3
    <3> HIDE DEF j
    <3>2. u[k + j] = v[n + j]
      BY <1>1, <3>1
    <3> QED BY <2>1, <2>3, <3>1, <3>2
  <2> QED BY <2>2, <2>3
<1>4. k \in 1 .. n + m + 1
      /\ \A i \in 1 .. n + m + 1 : i # k => \E j \in 1 .. n + m : At(j) = i
  <2>1. k \in 1 .. n + m + 1
    BY <1>1
  <2>2. ASSUME NEW i \in 1 .. n + m + 1, i # k PROVE \E j \in 1 .. n + m : At(j) = i
    <3>1. CASE i <= n
      <4>1. i \in 1 .. n + m /\ At(i) = i
        BY <1>1, <3>1
      <4> QED BY <4>1
    <3>2. CASE ~(i <= n)
      <4>1. i - 1 \in 1 .. n + m /\ At(i - 1) = i
        BY <1>1, <2>2, <3>2
      <4> QED BY <4>1
    <3> QED BY <3>1, <3>2
  <2> QED BY <2>1, <2>2
<1>5. y \in Places(s) /\ Before(p, y) /\ (~x.good => y \in hurt)
  BY <1>1, <1>2, <1>4
<1>6. o2 = [i \in 1 .. n + m |-> o[At(i)]]
  <2>1. \A i \in 1 .. n + m : (IF i <= n THEN o[i] ELSE o[i + 1]) = o[At(i)]
    OBVIOUS
  <2> QED BY <2>1
<1> HIDE DEF At, k, o2
<1>7. o2 \in [1 .. Len(v) -> Places(s)] /\ \A i \in 1 .. Len(v) : o2[i] = o[At(i)]
  BY <1>1, <1>2, <1>3, <1>6
<1>8. \A i \in 1 .. Len(v) :
        /\ Before(p, o2[i])
        /\ o2[i] \in hurt \/ (v[i].good /\ v[i].byte = Sent(s[o2[i][1]])[o2[i][2]])
        /\ \A j \in 1 .. Len(v) : i < j => Before(o2[i], o2[j])
  BY <1>1, <1>2, <1>3, <1>7
<1>9. \A z \in Places(s) : Before(p, z) =>
        z \in hurt \cup {y} \/ \E i \in 1 .. Len(v) : o2[i] = z
  <2> SUFFICES ASSUME NEW z \in Places(s), Before(p, z), z \notin hurt, z # y
               PROVE  \E i \in 1 .. Len(v) : o2[i] = z
    OBVIOUS
  <2>1. PICK i \in 1 .. n + m + 1 : o[i] = z
    BY <1>1, <1>2
  <2>2. i # k
    BY <2>1 DEF k
  <2>3. PICK j \in 1 .. n + m : At(j) = i
    BY <1>4, <2>2
  <2> QED BY <1>1, <1>7, <2>1, <2>3
<1> HIDE DEF y
<1>10. Stream(v, s, hurt \cup {y}, p, o2)
  BY <1>7, <1>8, <1>9, Zenon DEF Stream
<1> QED
  BY <1>5, <1>10 DEF v

\* A byte is garbled: its place is hurt.
LEMMA StreamHurt ==
  ASSUME NEW s \in Seq(Requests), NEW hurt \in SUBSET Places(s), NEW p, NEW o,
         NEW u, NEW v, Stream(u, s, hurt, p, o), Len(v) = Len(u), NEW k \in 1 .. Len(u),
         \A i \in 1 .. Len(u) : i # k => v[i] = u[i]
  PROVE  \E y \in Places(s) : Before(p, y) /\ Stream(v, s, hurt \cup {y}, p, o)
<1>1. o[k] \in Places(s) /\ Before(p, o[k])
  BY DEF Stream
<1>2. Stream(v, s, hurt \cup {o[k]}, p, o)
  BY DEF Stream
<1> QED
  BY <1>1, <1>2

\* The mark of a byte is cleared.
LEMMA StreamSame ==
  ASSUME NEW s, NEW hurt, NEW p, NEW o, NEW u, NEW v, Stream(u, s, hurt, p, o),
         Len(v) = Len(u),
         \A i \in 1 .. Len(u) : v[i].byte = u[i].byte /\ (u[i].good => v[i].good)
  PROVE  Stream(v, s, hurt, p, o)
BY DEF Stream

\* What is between p and q is hurt.
Skips(s, hurt, p, q) ==
  Before(p, q) /\ \A z \in Places(s) : Before(p, z) /\ Before(z, q) => z \in hurt

\* The first byte is taken.
LEMMA StreamFirst ==
  ASSUME NEW s \in Seq(Requests), NEW hurt \in SUBSET Places(s),
         NEW p \in PlaceOrOrigin(s), NEW o,
         NEW x \in HwByte, NEW v \in Seq(HwByte), Stream(<<x>> \o v, s, hurt, p, o)
  PROVE  \E q \in Places(s) : \E o2 :
           /\ Skips(s, hurt, p, q) /\ (q \in hurt \/ x.byte = Sent(s[q[1]])[q[2]])
           /\ Stream(v, s, hurt, q, o2)
<1> DEFINE u == <<x>> \o v
           n == Len(v)
           q == o[1]
           o2 == [i \in 1 .. n |-> o[i + 1]]
<1>1. n \in Nat /\ Len(u) = n + 1 /\ u[1] = x /\ \A i \in 1 .. n : u[i + 1] = v[i]
  OBVIOUS
<1>2. /\ o \in [1 .. Len(u) -> Places(s)]
      /\ \A i \in 1 .. Len(u) :
           /\ Before(p, o[i])
           /\ o[i] \in hurt \/ (u[i].good /\ u[i].byte = Sent(s[o[i][1]])[o[i][2]])
           /\ \A j \in 1 .. Len(u) : i < j => Before(o[i], o[j])
      /\ \A z \in Places(s) : Before(p, z) => z \in hurt \/ \E i \in 1 .. Len(u) : o[i] = z
  BY Zenon DEF Stream
<1> HIDE DEF u, n
<1>3. /\ 1 \in 1 .. Len(u)
      /\ \A i \in 1 .. n : i + 1 \in 1 .. Len(u) /\ 1 < i + 1
      /\ \A i \in 1 .. Len(u) : i = 1 \/ (i - 1 \in 1 .. n /\ (i - 1) + 1 = i)
  BY <1>1
<1>4. q \in Places(s) /\ Before(p, q) /\ (q \in hurt \/ x.byte = Sent(s[q[1]])[q[2]])
  BY <1>1, <1>2, <1>3
<1>5. \A z \in Places(s) : /\ ~Before(z, z) /\ (Before(z, q) => ~Before(q, z))
                           /\ Before(q, z) => Before(p, z)
  BY <1>4, BeforeIs DEF PlaceOrOrigin
<1>6. \A i \in 1 .. Len(u) : i = 1 \/ Before(q, o[i])
  BY <1>2, <1>3
<1>7. \A z \in Places(s) : Before(p, z) /\ Before(z, q) => z \in hurt
  BY <1>2, <1>4, <1>5, <1>6
<1>8. o2 \in [1 .. n -> Places(s)] /\ \A i \in 1 .. n : o2[i] = o[i + 1]
  BY <1>2, <1>3
<1> HIDE DEF o2
<1>9. \A i \in 1 .. n :
        /\ Before(q, o2[i])
        /\ o2[i] \in hurt \/ (v[i].good /\ v[i].byte = Sent(s[o2[i][1]])[o2[i][2]])
        /\ \A j \in 1 .. n : i < j => Before(o2[i], o2[j])
  <2>1. \A i, j \in 1 .. n : i < j => i + 1 < j + 1
    OBVIOUS
  <2> QED BY <1>1, <1>2, <1>3, <1>6, <1>8, <2>1
<1>10. \A z \in Places(s) : Before(q, z) => z \in hurt \/ \E i \in 1 .. n : o2[i] = z
  <2> SUFFICES ASSUME NEW z \in Places(s), Before(q, z), z \notin hurt
               PROVE  \E i \in 1 .. n : o2[i] = z
    OBVIOUS
  <2>1. PICK i \in 1 .. Len(u) : o[i] = z
    BY <1>2, <1>5
  <2>2. i # 1
    BY <1>5, <2>1
  <2> DEFINE j == i - 1
  <2>3. j \in 1 .. n /\ j + 1 = i
    BY <1>3, <2>2
  <2> HIDE DEF j
  <2>4. o2[j] = z
    BY <1>8, <2>1, <2>3
  <2> QED BY <2>3, <2>4
<1> HIDE DEF q
<1>11. Stream(v, s, hurt, q, o2)
  BY <1>8, <1>9, <1>10, Zenon DEF Stream, n
<1>12. Skips(s, hurt, p, q)
  BY <1>4, <1>7 DEF Skips
<1> QED
  BY <1>4, <1>11, <1>12

\* What is known of a place, and of what has been seen, does not change with one
\* more request.
LEMMA OneMore ==
  ASSUME NEW s \in Seq(Requests), NEW r \in Requests
  PROVE  LET t == Append(s, r)
             k == Len(Sent(r))
             l == Len(s) + 1
         IN  /\ l \in Nat
             /\ t \in Seq(Requests) /\ Places(s) \subseteq Places(t)
             /\ \A x \in Places(s) : Sent(t[x[1]]) = Sent(s[x[1]])
             /\ \A x \in Places(t) : x \in Places(s) \/ \E j \in 1 .. k : x = <<l, j>>
             /\ \A j \in 1 .. k : <<l, j>> \in Places(t)
             /\ t[l] = r
<1> DEFINE t == Append(s, r)
           k == Len(Sent(r))
           l == Len(s) + 1
<1>1. /\ t \in Seq(Requests) /\ Len(t) = l /\ l \in Nat /\ t[l] = r
      /\ \A i \in 1 .. Len(s) : t[i] = s[i] /\ i \in 1 .. Len(t)
      /\ \A i \in 1 .. l : i = l \/ i \in 1 .. Len(s)
      /\ l \in 1 .. Len(t)
  OBVIOUS
<1>2. k \in Nat
  BY SentIs
<1>6. t[l] = r /\ Len(Sent(r)) = k
  BY <1>1
<1> HIDE DEF t, k, l
<1>3. \A x \in Places(s) : x \in Places(t) /\ Sent(t[x[1]]) = Sent(s[x[1]])
  BY <1>1 DEF Places
<1>4. ASSUME NEW x \in Places(t), x \notin Places(s)
      PROVE  \E j \in 1 .. k : x = <<l, j>>
  <2>1. /\ x[1] \in 1 .. l /\ x[2] \in Nat \ {0} /\ x = <<x[1], x[2]>>
        /\ x[2] <= Len(Sent(t[x[1]]))
    BY <1>1 DEF Places
  <2>2. x[1] = l
    <3> SUFFICES ASSUME x[1] \in 1 .. Len(s) PROVE FALSE
      BY <1>1, <2>1
    <3> QED BY <1>1, <1>4, <2>1 DEF Places
  <2>3. x[2] \in 1 .. k
    BY <1>2, <1>6, <2>1, <2>2
  <2> QED BY <2>1, <2>2, <2>3
<1>5. ASSUME NEW j \in 1 .. k PROVE <<l, j>> \in Places(t)
  <2>1. j \in Nat \ {0} /\ j <= k /\ <<l, j>> \in (1 .. Len(t)) \X (Nat \ {0})
    BY <1>1, <1>2
  <2> QED BY <1>6, <2>1 DEF Places
<1> QED
  BY <1>1, <1>3, <1>4, <1>5, <1>6, Zenon DEF t, k, l

\* What was delivered wrong does not change with one more request.
LEMMA SeenMore ==
  ASSUME NEW s \in Seq(Requests), NEW r \in Requests,
         NEW e, NEW out, NEW c, NEW p \in PlaceOrOrigin(s), Seen(e, out, s, p, c)
  PROVE  Seen(e, out, Append(s, r), p, c)
<1> DEFINE t == Append(s, r)
<1>1. /\ \A i \in 1 .. Len(s) : t[i] = s[i]
      /\ Len(s) \in Nat /\ p[1] \in 0 .. Len(s)
  BY BeforeIs
<1>2. ASSUME NEW n \in Int, n <= Len(s), NEW b, Local(out, s, n, b)
      PROVE  Local(out, t, n, b)
  <2>1. \A i \in 1 .. n : t[i] = s[i]
    BY <1>1, <1>2
  <2>2. PICK kept \in SUBSET (1 .. Len(out)) :
          /\ Cardinality((1 .. Len(out)) \ kept) <= b
          /\ \E at \in [kept -> 1 .. n] :
               \A i \in kept : /\ out[i] = OnWire(s[at[i]])
                               /\ \A j \in kept : j < i => at[j] < at[i]
    BY <1>2 DEF Local
  <2>3. PICK at \in [kept -> 1 .. n] :
          \A i \in kept : /\ out[i] = OnWire(s[at[i]])
                          /\ \A j \in kept : j < i => at[j] < at[i]
    BY <2>2
  <2>4. \A i \in kept : out[i] = OnWire(t[at[i]])
    BY <2>1, <2>3
  <2> QED BY <2>2, <2>3, <2>4, Zenon DEF Local
<1>3. p[1] \in Int /\ p[1] <= Len(s) /\ p[1] - 1 \in Int /\ p[1] - 1 <= Len(s)
  BY <1>1
<1>4. Following(e, s, p) => Following(e, t, p)
  <2> SUFFICES ASSUME Following(e, s, p) PROVE Following(e, t, p)
    OBVIOUS
  <2>1. p \in Places(s)
    BY DEF Following
  <2>2. p[1] \in 1 .. Len(s)
    BY <2>1 DEF Places
  <2>3. t[p[1]] = s[p[1]] /\ p \in Places(t)
    <3>1. Places(s) \subseteq Places(Append(s, r))
      BY OneMore, Zenon
    <3> QED BY <1>1, <2>1, <2>2, <3>1
  <2> QED BY <2>3, Zenon DEF Following
<1> HIDE DEF t
<1>5. Seen(e, out, t, p, c)
  BY <1>2, <1>3, <1>4, Zenon DEF Seen
<1> QED
  BY <1>5 DEF t

\* The bytes v are the bytes u and then those of the request r, as they were sent.
Extends(v, u, r) ==
  /\ Len(u) \in Nat /\ Len(v) = Len(u) + Len(Sent(r))
  /\ \A i \in 1 .. Len(u) : v[i] = u[i]
  /\ \A j \in 1 .. Len(Sent(r)) : /\ v[Len(u) + j].good
                                 /\ v[Len(u) + j].byte = Sent(r)[j]

\* One more request is built: its bytes come after those under way.
LEMMA StreamMore ==
  ASSUME NEW s \in Seq(Requests), NEW r \in Requests,
         NEW hurt \in SUBSET Places(s), NEW p \in PlaceOrOrigin(s), NEW o,
         NEW u, NEW v, Stream(u, s, hurt, p, o), Extends(v, u, r)
  PROVE  \E o2 : Stream(v, Append(s, r), hurt, p, o2)
<1> DEFINE t == Append(s, r)
           n == Len(u)
           k == Len(Sent(r))
           l == Len(s) + 1
           o2 == [i \in 1 .. n + k |-> IF i <= n THEN o[i] ELSE <<l, i - n>>]
<1>1. /\ n \in Nat /\ k \in Nat /\ Len(v) = n + k
      /\ \A i \in 1 .. n : v[i] = u[i]
      /\ \A j \in 1 .. k : v[n + j].good /\ v[n + j].byte = Sent(r)[j]
  BY SentIs DEF Extends
<1>2. /\ o \in [1 .. n -> Places(s)]
      /\ \A i \in 1 .. n :
           /\ Before(p, o[i])
           /\ o[i] \in hurt \/ (u[i].good /\ u[i].byte = Sent(s[o[i][1]])[o[i][2]])
           /\ \A j \in 1 .. n : i < j => Before(o[i], o[j])
      /\ \A z \in Places(s) : Before(p, z) => z \in hurt \/ \E i \in 1 .. n : o[i] = z
  BY Zenon DEF Stream
<1> HIDE DEF n
<1>3. /\ l \in Nat /\ Places(s) \subseteq Places(t)
      /\ \A x \in Places(s) : Sent(t[x[1]]) = Sent(s[x[1]]) /\ x[1] < l
      /\ \A x \in Places(t) : x \in Places(s) \/ \E j \in 1 .. k : x = <<l, j>>
      /\ \A j \in 1 .. k : <<l, j>> \in Places(t)
      /\ t[l] = r /\ p[1] < l
  <2>1. Len(s) \in Nat /\ l = Len(s) + 1
    OBVIOUS
  <2> HIDE DEF l, t, k
  <2>2. /\ Places(s) \subseteq Places(t)
        /\ \A x \in Places(s) : Sent(t[x[1]]) = Sent(s[x[1]])
        /\ \A x \in Places(t) : x \in Places(s) \/ \E j \in 1 .. k : x = <<l, j>>
        /\ \A j \in 1 .. k : <<l, j>> \in Places(t)
        /\ t[l] = r
    <3> DEFINE T == Append(s, r)
               K == Len(Sent(r))
    <3>1. /\ Places(s) \subseteq Places(T)
          /\ \A x \in Places(s) : Sent(T[x[1]]) = Sent(s[x[1]])
          /\ \A x \in Places(T) : x \in Places(s)
                                  \/ \E j \in 1 .. K : x = <<Len(s) + 1, j>>
          /\ \A j \in 1 .. K : <<Len(s) + 1, j>> \in Places(T)
          /\ T[Len(s) + 1] = r
      BY OneMore, Zenon
    <3>2. T = t /\ K = k /\ Len(s) + 1 = l
      BY <2>1 DEF t, k
    <3> HIDE DEF T, K
    <3> QED BY <3>1, <3>2, Zenon
  <2>3. \A x \in PlaceOrOrigin(s) : x[1] \in 0 .. Len(s)
    BY BeforeIs
  <2>4. l \in Nat /\ \A x \in PlaceOrOrigin(s) : x[1] < l
    BY <2>1, <2>3
  <2> QED BY <2>2, <2>4, Zenon DEF PlaceOrOrigin
<1>4. /\ \A i \in 1 .. n : i \in 1 .. n + k /\ o2[i] = o[i]
      /\ \A j \in 1 .. k : n + j \in 1 .. n + k /\ o2[n + j] = <<l, j>>
      /\ \A i \in 1 .. n + k : i \in 1 .. n \/ \E j \in 1 .. k : i = n + j
  <2>1. \A j \in 1 .. k : n + j \in 1 .. n + k /\ ~(n + j <= n) /\ (n + j) - n = j
    BY <1>1
  <2>2. \A i \in 1 .. n : i \in 1 .. n + k /\ i <= n
    BY <1>1
  <2>3. ASSUME NEW i \in 1 .. n + k, ~(i \in 1 .. n) PROVE \E j \in 1 .. k : i = n + j
    <3>1. i - n \in 1 .. k /\ i = n + (i - n)
      BY <1>1, <2>3
    <3> QED BY <3>1
  <2> QED BY <2>1, <2>2, <2>3
<1>5. o2 \in [1 .. n + k -> Places(t)]
  <2>1. DOMAIN o2 = 1 .. n + k /\ o2 = [i \in 1 .. n + k |-> o2[i]]
    OBVIOUS
  <2>2. \A i \in 1 .. n + k : o2[i] \in Places(t)
    <3> HIDE DEF o2, l, k, t
    <3>1. \A i \in 1 .. n : o2[i] \in Places(t)
      BY <1>2, <1>3, <1>4
    <3>2. \A j \in 1 .. k : o2[n + j] \in Places(t)
      BY <1>3, <1>4, Zenon
    <3> QED BY <1>4, <3>1, <3>2, Zenon
  <2> QED BY <2>1, <2>2
<1> HIDE DEF k, l, o2, t
<1>7. ASSUME NEW i \in 1 .. n + k
      PROVE  /\ Before(p, o2[i])
             /\ o2[i] \in hurt \/ (v[i].good /\ v[i].byte = Sent(t[o2[i][1]])[o2[i][2]])
             /\ \A j \in 1 .. n + k : i < j => Before(o2[i], o2[j])
  <2>1. CASE i \in 1 .. n
    <3>1. o2[i] = o[i] /\ v[i] = u[i] /\ o[i] \in Places(s)
      BY <1>1, <1>2, <1>4, <2>1
    <3>2. /\ Before(p, o2[i])
          /\ o2[i] \in hurt \/ (v[i].good /\ v[i].byte = Sent(t[o2[i][1]])[o2[i][2]])
      <4>1. Before(p, o[i])
            /\ (o[i] \in hurt \/ (u[i].good /\ u[i].byte = Sent(s[o[i][1]])[o[i][2]]))
        BY <1>2, <2>1, Zenon
      <4>2. Sent(t[o[i][1]]) = Sent(s[o[i][1]])
        BY <1>3, <3>1, Zenon
      <4> QED BY <3>1, <4>1, <4>2, Zenon
    <3>3. ASSUME NEW j \in 1 .. n + k, i < j PROVE Before(o2[i], o2[j])
      <4>1. CASE j \in 1 .. n
        BY <1>2, <1>4, <2>1, <3>1, <3>3, <4>1
      <4>2. CASE \E a \in 1 .. k : j = n + a
        <5>1. PICK a \in 1 .. k : j = n + a
          BY <4>2
        <5>2. o2[j] = <<l, a>> /\ o2[i][1] < l
          BY <1>3, <1>4, <3>1, <5>1
        <5>3. o2[j][1] = l
          BY <5>2
        <5> QED BY <5>2, <5>3 DEF Before
      <4> QED BY <1>4, <4>1, <4>2
    <3> QED BY <3>2, <3>3
  <2>2. CASE \E a \in 1 .. k : i = n + a
    <3>1. PICK a \in 1 .. k : i = n + a
      BY <2>2
    <3>2. o2[i] = <<l, a>> /\ v[i].good /\ v[i].byte = Sent(r)[a]
      BY <1>1, <1>4, <3>1
    <3>3. o2[i][1] = l /\ o2[i][2] = a
      BY <3>2
    <3>4. v[i].good /\ v[i].byte = Sent(t[o2[i][1]])[o2[i][2]]
      BY <1>3, <3>2, <3>3
    <3>5. Before(p, o2[i])
      BY <1>3, <3>3 DEF Before
    <3>6. ASSUME NEW j \in 1 .. n + k, i < j PROVE Before(o2[i], o2[j])
      <4>1. ~(j \in 1 .. n)
        BY <1>1, <3>1, <3>6
      <4>2. PICK b \in 1 .. k : j = n + b
        BY <1>4, <4>1
      <4>3. o2[j] = <<l, b>>
        BY <1>4, <4>2, Zenon
      <4>5. a < b
        BY <1>1, <3>1, <3>6, <4>2
      <4>4. o2[j][1] = l /\ o2[j][2] = b
        BY <4>3
      <4> QED BY <3>3, <4>4, <4>5 DEF Before
    <3> QED BY <3>4, <3>5, <3>6
  <2> QED BY <1>4, <2>1, <2>2
<1>8. ASSUME NEW z \in Places(t), Before(p, z), z \notin hurt
      PROVE  \E i \in 1 .. n + k : o2[i] = z
  <2>1. CASE z \in Places(s)
    BY <1>2, <1>4, <1>8, <2>1
  <2>2. CASE \E j \in 1 .. k : z = <<l, j>>
    BY <1>4, <2>2
  <2> QED BY <1>3, <2>1, <2>2
<1>9. Stream(v, t, hurt, p, o2)
  BY <1>1, <1>5, <1>7, <1>8, Zenon DEF Stream, n
<1> QED
  BY <1>9 DEF t

-----------------------------------------------------------------------------
(* Explanations                                                            *)

\* Up to n hurt places explain what was delivered and what is under way.
Explains(u, s, e, out, n) ==
  \E hurt \in SUBSET Places(s) : \E p \in PlaceOrOrigin(s) :
    /\ IsFiniteSet(hurt) /\ Cardinality(hurt) <= n
    /\ \E o : Stream(u, s, hurt, p, o)
    /\ Seen(e, out, s, p, Cardinality(Past(hurt, p)))

\* A place that is still to come is hurt, for the first time or again.
LEMMA HurtIs ==
  ASSUME NEW hurt, IsFiniteSet(hurt), NEW n \in Nat, Cardinality(hurt) <= n,
         NEW p, NEW y, Before(p, y)
  PROVE  /\ IsFiniteSet(hurt \cup {y}) /\ Cardinality(hurt \cup {y}) <= n + 1
         /\ y \in hurt => Cardinality(hurt \cup {y}) <= n
         /\ Past(hurt \cup {y}, p) = Past(hurt, p)
<1>1. Past(hurt \cup {y}, p) = Past(hurt, p)
  BY DEF Past
<1>2. Cardinality(hurt) \in Nat
  BY FS_CardinalityType
<1>3. CASE y \in hurt
  <2>1. hurt \cup {y} = hurt
    BY <1>3
  <2> QED BY <1>1, <1>2, <1>3, <2>1
<1>4. CASE y \notin hurt
  <2>1. IsFiniteSet(hurt \cup {y}) /\ Cardinality(hurt \cup {y}) = Cardinality(hurt) + 1
    BY <1>4, FS_AddElement
  <2> QED BY <1>1, <1>2, <1>4, <2>1
<1> QED
  BY <1>3, <1>4

\* A byte is lost; a bad one was hurt before.
LEMMA Lose ==
  ASSUME NEW s \in Seq(Requests), NEW e, NEW out, NEW n \in Nat,
         NEW a \in Seq(HwByte), NEW x \in HwByte, NEW b \in Seq(HwByte),
         Explains((a \o <<x>>) \o b, s, e, out, n)
  PROVE  Explains(a \o b, s, e, out, IF x.good THEN n + 1 ELSE n)
<1> DEFINE u == (a \o <<x>>) \o b
           v == a \o b
           k == IF x.good THEN n + 1 ELSE n
<1>1. PICK hurt \in SUBSET Places(s), p \in PlaceOrOrigin(s) :
        /\ IsFiniteSet(hurt) /\ Cardinality(hurt) <= n
        /\ \E o : Stream(u, s, hurt, p, o)
        /\ Seen(e, out, s, p, Cardinality(Past(hurt, p)))
  BY Zenon DEF Explains
<1>2. PICK o : Stream(u, s, hurt, p, o)
  BY <1>1
<1>3. PICK y \in Places(s) : \E o2 :
        /\ Before(p, y) /\ (~x.good => y \in hurt)
        /\ Stream(v, s, hurt \cup {y}, p, o2)
  BY <1>2, StreamLess, Zenon
<1> HIDE DEF u, v
<1>4. /\ IsFiniteSet(hurt \cup {y}) /\ Cardinality(hurt \cup {y}) <= k
      /\ Past(hurt \cup {y}, p) = Past(hurt, p)
  BY <1>1, <1>3, HurtIs
<1>5. hurt \cup {y} \in SUBSET Places(s)
  BY <1>3
<1>6. Explains(v, s, e, out, k)
  BY <1>1, <1>3, <1>4, <1>5, Zenon DEF Explains
<1> QED
  BY <1>6 DEF v, k

\* A byte is garbled.
LEMMA Garble ==
  ASSUME NEW s \in Seq(Requests), NEW e, NEW out, NEW n \in Nat,
         NEW a \in Seq(HwByte), NEW x \in HwByte, NEW y \in HwByte, NEW b \in Seq(HwByte),
         Explains((a \o <<x>>) \o b, s, e, out, n)
  PROVE  Explains((a \o <<y>>) \o b, s, e, out, n + 1)
<1> DEFINE u == (a \o <<x>>) \o b
           v == (a \o <<y>>) \o b
           k == Len(a) + 1
           m == Len(b)
<1>1. PICK hurt \in SUBSET Places(s), p \in PlaceOrOrigin(s) :
        /\ IsFiniteSet(hurt) /\ Cardinality(hurt) <= n
        /\ \E o : Stream(u, s, hurt, p, o)
        /\ Seen(e, out, s, p, Cardinality(Past(hurt, p)))
  BY Zenon DEF Explains
<1>2. PICK o : Stream(u, s, hurt, p, o)
  BY <1>1
<1>3. /\ Len(u) = Len(v) /\ k \in 1 .. Len(u)
      /\ \A i \in 1 .. Len(u) : i # k => v[i] = u[i]
  <2> DEFINE l == Len(a)
  <2>1. /\ l \in Nat /\ m \in Nat /\ Len(u) = l + m + 1 /\ Len(v) = l + m + 1
        /\ \A i \in 1 .. l : u[i] = a[i] /\ v[i] = a[i]
        /\ \A i \in 1 .. m : u[l + 1 + i] = b[i] /\ v[l + 1 + i] = b[i]
    BY MiddleIs
  <2> HIDE DEF u, v, l, m
  <2>2. ASSUME NEW i \in 1 .. Len(u), i # l + 1 PROVE v[i] = u[i]
    <3>1. CASE i <= l
      BY <2>1, <3>1
    <3>2. CASE ~(i <= l)
      <4> DEFINE j == i - (l + 1)
      <4>1. j \in 1 .. m /\ l + 1 + j = i
        BY <2>1, <2>2, <3>2
      <4> HIDE DEF j
      <4> QED BY <2>1, <4>1
    <3> QED BY <3>1, <3>2
  <2>3. l + 1 \in 1 .. Len(u)
    BY <2>1
  <2> QED BY <2>1, <2>2, <2>3 DEF l
<1> HIDE DEF u, v, k
<1>4. PICK z \in Places(s) : Before(p, z) /\ Stream(v, s, hurt \cup {z}, p, o)
  BY <1>2, <1>3, StreamHurt
<1>5. /\ IsFiniteSet(hurt \cup {z}) /\ Cardinality(hurt \cup {z}) <= n + 1
      /\ Past(hurt \cup {z}, p) = Past(hurt, p)
  BY <1>1, <1>4, HurtIs
<1>6. hurt \cup {z} \in SUBSET Places(s)
  BY <1>4
<1>7. Explains(v, s, e, out, n + 1)
  BY <1>1, <1>4, <1>5, <1>6, Zenon DEF Explains
<1> QED
  BY <1>7 DEF v

\* The mark of a byte is cleared.
LEMMA Forgive ==
  ASSUME NEW s \in Seq(Requests), NEW e, NEW out, NEW n \in Nat, NEW u, NEW v,
         Explains(u, s, e, out, n), Len(v) = Len(u),
         \A i \in 1 .. Len(u) : v[i].byte = u[i].byte /\ (u[i].good => v[i].good)
  PROVE  Explains(v, s, e, out, n)
<1>1. PICK hurt \in SUBSET Places(s), p \in PlaceOrOrigin(s) :
        /\ IsFiniteSet(hurt) /\ Cardinality(hurt) <= n
        /\ \E o : Stream(u, s, hurt, p, o)
        /\ Seen(e, out, s, p, Cardinality(Past(hurt, p)))
  BY Zenon DEF Explains
<1>2. PICK o : Stream(u, s, hurt, p, o)
  BY <1>1
<1>3. Stream(v, s, hurt, p, o)
  BY <1>2, StreamSame, Zenon
<1> QED
  BY <1>1, <1>3, Zenon DEF Explains

\* The decoder takes the first byte (serial_handle_byte).
LEMMA Take ==
  ASSUME NEW s \in Seq(Requests), \A i \in 1 .. Len(s) : NoStart(s[i]),
         NEW e \in Decoder, NEW out \in Seq(Packet), NEW n \in Nat,
         NEW x \in HwByte, NEW v \in Seq(HwByte), NEW f, f = Handle(e, x.byte),
         Explains(<<x>> \o v, s, e, out, n)
  PROVE  Explains(v, s, f, Delivers(e, f, out), n)
<1> DEFINE u == <<x>> \o v
<1>1. PICK hurt \in SUBSET Places(s), p \in PlaceOrOrigin(s) :
        /\ IsFiniteSet(hurt) /\ Cardinality(hurt) <= n
        /\ \E o : Stream(u, s, hurt, p, o)
        /\ Seen(e, out, s, p, Cardinality(Past(hurt, p)))
  BY Zenon DEF Explains
<1>2. PICK o : Stream(u, s, hurt, p, o)
  BY <1>1
<1>3. PICK q \in Places(s) : \E o2 :
        /\ Skips(s, hurt, p, q) /\ (q \in hurt \/ x.byte = Sent(s[q[1]])[q[2]])
        /\ Stream(v, s, hurt, q, o2)
  BY <1>2, StreamFirst, Zenon
<1> HIDE DEF u
<1>4. x.byte \in Byte
  BY DEF HwByte
<1>5. Seen(f, Delivers(e, f, out), s, q, Cardinality(Past(hurt, q)))
  BY <1>1, <1>3, <1>4, SeenTake, Zenon DEF Skips
<1>6. q \in PlaceOrOrigin(s)
  BY DEF PlaceOrOrigin
<1> QED
  BY <1>1, <1>3, <1>5, <1>6, Zenon DEF Explains

\* One more request is built (build_packet_serial).
LEMMA Built ==
  ASSUME NEW s \in Seq(Requests), NEW r \in Requests, NEW e, NEW out, NEW c \in Nat,
         NEW u, NEW v, Explains(u, s, e, out, c), Extends(v, u, r)
  PROVE  Explains(v, Append(s, r), e, out, c)
<1> DEFINE t == Append(s, r)
<1>1. PICK hurt \in SUBSET Places(s), p \in PlaceOrOrigin(s) :
        /\ IsFiniteSet(hurt) /\ Cardinality(hurt) <= c
        /\ \E o : Stream(u, s, hurt, p, o)
        /\ Seen(e, out, s, p, Cardinality(Past(hurt, p)))
  BY Zenon DEF Explains
<1>2. PICK o : Stream(u, s, hurt, p, o)
  BY <1>1
<1>3. \E o2 : Stream(v, t, hurt, p, o2)
  BY <1>2, StreamMore, Zenon
<1>4. Seen(e, out, t, p, Cardinality(Past(hurt, p)))
  BY <1>1, SeenMore, Zenon
<1>5. hurt \in SUBSET Places(t) /\ p \in PlaceOrOrigin(t)
  <2>1. Places(s) \subseteq Places(t)
    BY OneMore, Zenon
  <2> HIDE DEF t
  <2> QED BY <2>1 DEF PlaceOrOrigin
<1> HIDE DEF t
<1>6. Explains(v, t, e, out, c)
  BY <1>1, <1>3, <1>4, <1>5, Zenon DEF Explains
<1> QED
  BY <1>6 DEF t

-----------------------------------------------------------------------------
(* The line, with the marks of its bytes                                   *)

\* Only the hardware FIFO holds bytes that are marked.
Whole(b) == [byte |-> b, good |-> TRUE]
Mark(s) == [i \in 1 .. Len(s) |-> Whole(s[i])]

Marked(q, h, w, t) == ((Mark(q) \o h) \o Mark(w)) \o Mark(t)

\* A byte that is not marked is one of the hardware FIFO, too.
LEMMA WholeIs ==
  ASSUME NEW b \in Byte
  PROVE  Whole(b) \in HwByte /\ Whole(b).byte = b /\ Whole(b).good
BY DEF Whole, HwByte

\* The bytes keep their places and their number.
LEMMA MarkIs ==
  ASSUME NEW s \in Seq(Byte)
  PROVE  /\ Mark(s) \in Seq(HwByte) /\ Len(Mark(s)) = Len(s)
         /\ \A i \in 1 .. Len(s) : Mark(s)[i] = Whole(s[i])
<1> DEFINE n == Len(s)
<1>1. n \in Nat /\ \A i \in 1 .. n : s[i] \in Byte
  OBVIOUS
<1>2. \A i \in 1 .. n : Whole(s[i]) \in HwByte
  BY <1>1, WholeIs
<1>3. Mark(s) = [i \in 1 .. n |-> Whole(s[i])]
  BY DEF Mark
<1> HIDE DEF n
<1>4. /\ Mark(s) \in Seq(HwByte) /\ Len(Mark(s)) = n
      /\ \A i \in 1 .. n : Mark(s)[i] = Whole(s[i])
  BY <1>1, <1>2, <1>3
<1> QED
  BY <1>4 DEF n

\* One byte.
LEMMA MarkOne ==
  ASSUME NEW b \in Byte
  PROVE  Mark(<<b>>) = <<Whole(b)>>
<1> DEFINE s == <<b>>
           m == <<Whole(b)>>
<1>1. s \in Seq(Byte) /\ Len(s) = 1 /\ s[1] = b
  OBVIOUS
<1>2. m \in Seq(HwByte) /\ Len(m) = 1 /\ m[1] = Whole(b)
  BY WholeIs
<1> HIDE DEF s, m
<1>3. Mark(s) \in Seq(HwByte) /\ Len(Mark(s)) = 1 /\ Mark(s)[1] = Whole(b)
  BY <1>1, MarkIs
<1>4. Mark(s) = m
  BY <1>2, <1>3, SeqEqual
<1> QED
  BY <1>4 DEF s, m

\* The parts of a sequence are marked one by one.
LEMMA MarkBoth ==
  ASSUME NEW a \in Seq(Byte), NEW b \in Seq(Byte)
  PROVE  Mark(a \o b) = Mark(a) \o Mark(b)
<1> DEFINE s == a \o b
           x == Mark(a)
           y == Mark(b)
           one == Mark(s)
           two == x \o y
           m == Len(a)
           n == Len(b)
<1>1. /\ x \in Seq(HwByte) /\ m = Len(x) /\ \A i \in 1 .. m : x[i] = Whole(a[i])
      /\ y \in Seq(HwByte) /\ n = Len(y) /\ \A i \in 1 .. n : y[i] = Whole(b[i])
      /\ m = Len(a) /\ n = Len(b) /\ m \in Nat /\ n \in Nat
  BY MarkIs
<1> HIDE DEF x, y, m, n
<1>2. /\ s \in Seq(Byte) /\ Len(s) = m + n
      /\ \A i \in 1 .. m : s[i] = a[i]
      /\ \A i \in 1 .. n : s[m + i] = b[i]
  <2>1. m = Len(a) /\ n = Len(b)
    BY <1>1
  <2> QED BY <2>1, BothParts, SMTT(30)
<1>3. /\ two \in Seq(HwByte) /\ Len(two) = m + n
      /\ \A i \in 1 .. m : two[i] = x[i]
      /\ \A i \in 1 .. n : two[m + i] = y[i]
  <2>1. x \in Seq(HwByte) /\ m = Len(x) /\ y \in Seq(HwByte) /\ n = Len(y)
    BY <1>1
  <2> QED BY <2>1, BothParts, SMTT(30)
<1> HIDE DEF s, two
<1>4. /\ one \in Seq(HwByte) /\ Len(one) = m + n
      /\ \A i \in 1 .. m + n : one[i] = Whole(s[i])
  <2>1. /\ one \in Seq(HwByte) /\ Len(one) = Len(s)
        /\ \A i \in 1 .. Len(s) : one[i] = Whole(s[i])
    BY <1>2, MarkIs
  <2> QED BY <1>2, <2>1
<1> HIDE DEF one
<1>5. \A i \in 1 .. m + n : one[i] = two[i]
  <2> SUFFICES ASSUME NEW i \in 1 .. m + n PROVE one[i] = two[i]
    OBVIOUS
  <2>1. CASE i <= m
    <3>1. i \in 1 .. m
      BY <1>1, <2>1
    <3> QED BY <1>1, <1>2, <1>3, <1>4, <3>1, Zenon
  <2>2. CASE ~(i <= m)
    <3> DEFINE j == i - m
    <3>1. j \in 1 .. n /\ i = m + j
      BY <1>1, <2>2
    <3> HIDE DEF j
    <3> QED BY <1>1, <1>2, <1>3, <1>4, <3>1, Zenon
  <2> QED BY <2>1, <2>2
<1>6. one = two
  BY <1>3, <1>4, <1>5, SeqEqual
<1> QED
  BY <1>6 DEF one, two, s, x, y

\* The first byte and the others.
LEMMA MarkHead ==
  ASSUME NEW s \in Seq(Byte), s # << >>
  PROVE  /\ Head(s) \in Byte /\ Tail(s) \in Seq(Byte)
         /\ Mark(s) = <<Whole(Head(s))>> \o Mark(Tail(s))
<1> DEFINE b == Head(s)
           one == <<b>>
           t == Tail(s)
<1>1. b \in Byte /\ t \in Seq(Byte) /\ one \in Seq(Byte) /\ s = one \o t
  OBVIOUS
<1>2. Mark(one) = <<Whole(b)>>
  BY <1>1, MarkOne, Zenon
<1> HIDE DEF b, t, one
<1>3. Mark(one \o t) = Mark(one) \o Mark(t)
  BY <1>1, MarkBoth, Zenon
<1>4. Mark(s) = <<Whole(b)>> \o Mark(t)
  BY <1>1, <1>2, <1>3, Zenon
<1> QED
  BY <1>1, <1>4 DEF b, t

\* A sequence of one element.
LEMMA OnlyOne ==
  ASSUME NEW w \in Seq(Byte), w # << >>, Len(w) <= 1
  PROVE  w[1] \in Byte /\ w = <<w[1]>>
<1>1. Len(w) = 1 /\ w[1] \in Byte
  <2> DEFINE k == Len(w)
  <2>1. k \in Nat /\ k # 0 /\ k <= 1
    BY EmptySeq
  <2>2. \A i \in 1 .. k : w[i] \in Byte
    OBVIOUS
  <2> HIDE DEF k
  <2>3. k = 1
    BY <2>1
  <2>4. 1 \in 1 .. k
    BY <2>3
  <2> QED BY <2>2, <2>3, <2>4, Zenon DEF k
<1> DEFINE one == <<w[1]>>
<1>2. one \in Seq(Byte) /\ Len(one) = 1 /\ one[1] = w[1]
  BY <1>1
<1> HIDE DEF one
<1>3. \A i \in 1 .. Len(w) : w[i] = one[i]
  BY <1>1, <1>2
<1>4. w = one
  BY <1>1, <1>2, <1>3, SeqEqual
<1> QED
  BY <1>1, <1>4 DEF one

\* Nothing before, and nothing after.
LEMMA WithNone ==
  ASSUME NEW S, NEW a \in Seq(S)
  PROVE  a \o << >> = a /\ << >> \o a = a
OBVIOUS

LEMMA MarkNone == Mark(<< >>) = << >>
BY DEF Mark

\* A sequence of one byte.
LEMMA Single ==
  ASSUME NEW x \in HwByte
  PROVE  <<x>> \in Seq(HwByte)
OBVIOUS

\* All that is under way is bytes with their marks.
LEMMA MarkedIs ==
  ASSUME NEW q \in Seq(Byte), NEW h \in Seq(HwByte), NEW w \in Seq(Byte), NEW t \in Seq(Byte)
  PROVE  /\ Mark(q) \in Seq(HwByte) /\ Mark(w) \in Seq(HwByte) /\ Mark(t) \in Seq(HwByte)
         /\ Mark(q) \o h \in Seq(HwByte)
         /\ (Mark(q) \o h) \o Mark(w) \in Seq(HwByte)
         /\ Marked(q, h, w, t) \in Seq(HwByte)
<1>1. Mark(q) \in Seq(HwByte) /\ Mark(w) \in Seq(HwByte) /\ Mark(t) \in Seq(HwByte)
  BY MarkIs
<1> QED
  BY <1>1 DEF Marked

\* A byte is written, or lost when it should be (serial_write_char).
LEMMA MarkedWrite ==
  ASSUME NEW q \in Seq(Byte), NEW h \in Seq(HwByte), NEW w \in Seq(Byte), NEW t \in Seq(Byte),
         t # << >>
  PROVE  /\ w = << >> => Marked(q, h, <<Head(t)>>, Tail(t)) = Marked(q, h, w, t)
         /\ \E a \in Seq(HwByte), x \in HwByte, b \in Seq(HwByte) :
              /\ x.good
              /\ Marked(q, h, w, t) = (a \o <<x>>) \o b
              /\ Marked(q, h, w, Tail(t)) = a \o b
<1> DEFINE z == Head(t)
           x == Whole(z)
           one == <<x>>
           c == Mark(q) \o h
           a == c \o Mark(w)
           b == Mark(Tail(t))
<1>1. z \in Byte /\ Tail(t) \in Seq(Byte) /\ Mark(t) = one \o b
  BY MarkHead
<1>2. x \in HwByte /\ x.good /\ one \in Seq(HwByte)
  <2>1. x \in HwByte /\ x.good
    BY <1>1, WholeIs
  <2> HIDE DEF x
  <2> QED BY <2>1
<1>3. c \in Seq(HwByte) /\ a \in Seq(HwByte) /\ b \in Seq(HwByte)
  BY <1>1, MarkedIs, MarkIs, Zenon
<1>4. Mark(<<z>>) = one
  BY <1>1, MarkOne, Zenon
<1>5. Marked(q, h, w, t) = a \o Mark(t) /\ Marked(q, h, w, Tail(t)) = a \o b
      /\ Marked(q, h, <<z>>, Tail(t)) = (c \o Mark(<<z>>)) \o b
  BY Zenon DEF Marked
<1> HIDE DEF z, one, c, b
<1>6. (a \o one) \o b = a \o (one \o b)
  <2> HIDE DEF a
  <2> QED BY <1>2, <1>3
<1>7. Marked(q, h, w, t) = (a \o one) \o b
  BY <1>1, <1>5, <1>6, Zenon
<1>8. ASSUME w = << >> PROVE Marked(q, h, <<z>>, Tail(t)) = Marked(q, h, w, t)
  <2>1. a = c
    <3>1. c \o << >> = c
      BY <1>3, WithNone, Zenon
    <3> QED BY <1>8, <3>1, MarkNone, Zenon
  <2> QED BY <1>4, <1>5, <1>7, <2>1, Zenon
<1> HIDE DEF a, x
<1>9. \E aa \in Seq(HwByte), xx \in HwByte, bb \in Seq(HwByte) :
        /\ xx.good
        /\ Marked(q, h, w, t) = (aa \o <<xx>>) \o bb
        /\ Marked(q, h, w, Tail(t)) = aa \o bb
  BY <1>2, <1>3, <1>5, <1>7, Zenon DEF one
<1> QED
  BY <1>8, <1>9, Zenon DEF z

\* The byte on the wire arrives, in good order or not, or is lost.
LEMMA MarkedArrive ==
  ASSUME NEW q \in Seq(Byte), NEW h \in Seq(HwByte), NEW w \in Seq(Byte), NEW t \in Seq(Byte),
         w # << >>, Len(w) <= 1
  PROVE  /\ w[1] \in Byte
         /\ \E a \in Seq(HwByte), b \in Seq(HwByte) :
              /\ Marked(q, h, w, t) = (a \o <<Whole(w[1])>>) \o b
              /\ Marked(q, h, << >>, t) = a \o b
              /\ \A x \in HwByte : Marked(q, Append(h, x), << >>, t) = (a \o <<x>>) \o b
<1> DEFINE a == Mark(q) \o h
           b == Mark(t)
           m == Mark(q)
<1>1. w[1] \in Byte /\ w = <<w[1]>>
  BY OnlyOne, Zenon
<1>2. Mark(w) = <<Whole(w[1])>>
  BY <1>1, MarkOne, Zenon
<1>3. m \in Seq(HwByte) /\ a \in Seq(HwByte) /\ b \in Seq(HwByte)
  BY MarkedIs, Zenon
<1>4. Marked(q, h, w, t) = (a \o <<Whole(w[1])>>) \o b
  BY <1>2, Zenon DEF Marked
<1>5. Marked(q, h, << >>, t) = a \o b
  <2>1. a \o << >> = a
    BY <1>3, WithNone, Zenon
  <2> QED BY <2>1, MarkNone, Zenon DEF Marked
<1>6. ASSUME NEW x \in HwByte
      PROVE  Marked(q, Append(h, x), << >>, t) = (a \o <<x>>) \o b
  <2> DEFINE one == <<x>>
             g == Append(h, x)
  <2>1. one \in Seq(HwByte) /\ g = h \o one /\ g \in Seq(HwByte)
    OBVIOUS
  <2> HIDE DEF one, g
  <2>2. (m \o h) \o one = m \o (h \o one)
    <3> HIDE DEF m
    <3> QED BY <1>3, <2>1, SMTT(30)
  <2>3. m \o g = a \o one
    BY <2>1, <2>2, Zenon
  <2>4. (m \o g) \o << >> = m \o g
    <3>1. m \o g \in Seq(HwByte)
      BY <2>1, MarkedIs, Zenon
    <3> QED BY <3>1, WithNone, Zenon
  <2>5. Marked(q, g, << >>, t) = ((m \o g) \o << >>) \o b
    BY MarkNone, Zenon DEF Marked
  <2> QED BY <2>3, <2>4, <2>5, Zenon DEF one, g
<1> HIDE DEF a, b
<1> QED
  BY <1>1, <1>3, <1>4, <1>5, <1>6, Zenon

\* The first byte of the hardware FIFO is read, or dropped (serial_ih).
LEMMA MarkedRead ==
  ASSUME NEW q \in Seq(Byte), NEW h \in Seq(HwByte), NEW w \in Seq(Byte), NEW t \in Seq(Byte),
         h # << >>
  PROVE  /\ Head(h) \in HwByte /\ Tail(h) \in Seq(HwByte)
         /\ \E a \in Seq(HwByte), b \in Seq(HwByte) :
              /\ Marked(q, h, w, t) = (a \o <<Head(h)>>) \o b
              /\ Marked(q, Tail(h), w, t) = a \o b
              /\ Marked(Append(q, Head(h).byte), Tail(h), w, t)
                   = (a \o <<Whole(Head(h).byte)>>) \o b
<1> DEFINE x == Head(h)
           g == Tail(h)
           one == <<x>>
           y == Whole(x.byte)
           two == <<y>>
           a == Mark(q)
           mw == Mark(w)
           mt == Mark(t)
           b == (g \o mw) \o mt
<1>1. x \in HwByte /\ g \in Seq(HwByte) /\ one \in Seq(HwByte) /\ h = one \o g
  OBVIOUS
<1>2. a \in Seq(HwByte) /\ mw \in Seq(HwByte) /\ mt \in Seq(HwByte)
  BY MarkedIs, Zenon
<1>3. x.byte \in Byte
  BY <1>1 DEF HwByte
<1>4. y \in HwByte /\ two \in Seq(HwByte)
  <2>1. y \in HwByte
    BY <1>3, WholeIs, Zenon
  <2> HIDE DEF y
  <2> QED BY <2>1
<1>5. Mark(Append(q, x.byte)) = a \o two
  <2> DEFINE z == x.byte
             last == <<z>>
  <2>1. last \in Seq(Byte) /\ Append(q, z) = q \o last
    BY <1>3
  <2>2. Mark(last) = two
    BY <1>3, MarkOne, Zenon
  <2> HIDE DEF last
  <2> QED BY <2>1, <2>2, MarkBoth, Zenon
<1> DEFINE F(v) == ((v \o mw) \o mt)
<1>6. Marked(q, h, w, t) = F(a \o h) /\ Marked(q, g, w, t) = F(a \o g)
      /\ Marked(Append(q, x.byte), g, w, t) = F((a \o two) \o g)
  BY <1>5, Zenon DEF Marked
<1> HIDE DEF a, g, mw, mt, one, two
<1>7. ASSUME NEW v \in Seq(HwByte)
      PROVE  F(v \o g) = v \o b
  BY <1>1, <1>2, <1>7, SMTT(60)
<1> HIDE DEF b, F
<1>8. a \o h = (a \o one) \o g /\ a \o one \in Seq(HwByte) /\ a \o two \in Seq(HwByte)
  <2>1. (a \o one) \o g = a \o (one \o g)
    BY <1>1, <1>2, SMTT(60)
  <2>2. a \o one \in Seq(HwByte) /\ a \o two \in Seq(HwByte)
    BY <1>1, <1>2, <1>4
  <2> QED BY <1>1, <2>1, <2>2, Zenon
<1>9. /\ Marked(q, h, w, t) = (a \o one) \o b
      /\ Marked(q, g, w, t) = a \o b
      /\ Marked(Append(q, x.byte), g, w, t) = (a \o two) \o b
  BY <1>2, <1>6, <1>7, <1>8, Zenon
<1>10. b \in Seq(HwByte)
  BY <1>1, <1>2 DEF b
<1> QED
  BY <1>1, <1>2, <1>9, <1>10, Zenon DEF g, one, two

\* The oldest byte is the first of the queue.
LEMMA MarkedFirst ==
  ASSUME NEW q \in Seq(Byte), NEW h \in Seq(HwByte), NEW w \in Seq(Byte), NEW t \in Seq(Byte),
         q # << >>
  PROVE  /\ Head(q) \in Byte /\ Tail(q) \in Seq(Byte)
         /\ Marked(q, h, w, t) = <<Whole(Head(q))>> \o Marked(Tail(q), h, w, t)
<1> DEFINE one == <<Whole(Head(q))>>
           r == Mark(Tail(q))
           mw == Mark(w)
           mt == Mark(t)
<1>1. /\ Head(q) \in Byte /\ Tail(q) \in Seq(Byte) /\ Mark(q) = one \o r
  BY MarkHead, Zenon
<1>2. r \in Seq(HwByte) /\ mw \in Seq(HwByte) /\ mt \in Seq(HwByte)
  BY <1>1, MarkIs, Zenon
<1>3. one \in Seq(HwByte)
  BY <1>1, WholeIs, Single, Zenon
<1>4. /\ Marked(q, h, w, t) = (((one \o r) \o h) \o mw) \o mt
      /\ Marked(Tail(q), h, w, t) = ((r \o h) \o mw) \o mt
  BY <1>1, Zenon DEF Marked
<1> HIDE DEF one, r, mw, mt
<1>5. (((one \o r) \o h) \o mw) \o mt = one \o (((r \o h) \o mw) \o mt)
  <2> DEFINE a == r \o h
             b == a \o mw
  <2>1. (one \o r) \o h = one \o a /\ a \in Seq(HwByte)
    BY <1>2, <1>3, SMTT(60)
  <2> HIDE DEF a
  <2>2. (one \o a) \o mw = one \o b /\ b \in Seq(HwByte)
    BY <1>2, <1>3, <2>1, SMTT(60)
  <2> HIDE DEF b
  <2>3. (one \o b) \o mt = one \o (b \o mt)
    BY <1>2, <1>3, <2>2, SMTT(60)
  <2> QED BY <2>1, <2>2, <2>3, Zenon DEF a, b
<1> QED
  BY <1>1, <1>4, <1>5, Zenon DEF one

\* The newest bytes are those of the request that was built.
LEMMA MarkedBuild ==
  ASSUME NEW q \in Seq(Byte), NEW h \in Seq(HwByte), NEW w \in Seq(Byte), NEW r \in Requests
  PROVE  Extends(Marked(q, h, w, Sent(r)), Marked(q, h, w, << >>), r)
<1> DEFINE z == Sent(r)
           a == (Mark(q) \o h) \o Mark(w)
           b == Mark(z)
           k == Len(z)
           u == Marked(q, h, w, << >>)
           v == Marked(q, h, w, z)
<1>1. z \in Seq(Byte) /\ k \in Nat
  BY SentIs
<1>2. b \in Seq(HwByte) /\ Len(b) = k /\ \A i \in 1 .. k : b[i] = Whole(z[i])
  BY <1>1, MarkIs, Zenon
<1>3. a \in Seq(HwByte)
  BY <1>1, MarkedIs, Zenon
<1>4. u = a
  <2>1. a \o << >> = a
    BY <1>3, WithNone, Zenon
  <2> QED BY <2>1, MarkNone, Zenon DEF Marked
<1>5. v = a \o b
  BY Zenon DEF Marked
<1>6. \A i \in 1 .. k : Whole(z[i]).good /\ Whole(z[i]).byte = z[i]
  <2>1. \A i \in 1 .. k : z[i] \in Byte
    BY <1>1
  <2> QED BY <2>1, WholeIs, Zenon
<1> HIDE DEF a, b, z, u, v
<1> DEFINE n == Len(a)
<1>7. /\ n \in Nat /\ Len(v) = n + k
      /\ \A i \in 1 .. n : v[i] = a[i]
      /\ \A i \in 1 .. k : v[n + i] = b[i]
  <2>1. n = Len(a) /\ k = Len(b)
    BY <1>2
  <2> HIDE DEF n, k
  <2>2. /\ n \in Nat /\ Len(a \o b) = n + k
        /\ \A i \in 1 .. n : (a \o b)[i] = a[i]
        /\ \A i \in 1 .. k : (a \o b)[n + i] = b[i]
    BY <1>2, <1>3, <2>1, BothParts
  <2> QED BY <1>5, <2>2, Zenon
<1> HIDE DEF n, k
<1>8. \A i \in 1 .. k : v[n + i].good /\ v[n + i].byte = z[i]
  BY <1>2, <1>6, <1>7, ZenonT(30)
<1>9. Extends(v, u, r)
  BY <1>4, <1>7, <1>8, Zenon DEF Extends, n, k, z
<1> QED
  BY <1>9 DEF u, v, z

\* Only the marks of the hardware FIFO change.
LEMMA MarkedForgive ==
  ASSUME NEW q \in Seq(Byte), NEW h \in Seq(HwByte), NEW w \in Seq(Byte), NEW t \in Seq(Byte),
         NEW g \in Seq(HwByte), Len(g) = Len(h),
         \A i \in 1 .. Len(h) : g[i].byte = h[i].byte /\ (h[i].good => g[i].good)
  PROVE  LET u == Marked(q, h, w, t)
             v == Marked(q, g, w, t)
         IN  /\ Len(v) = Len(u)
             /\ \A i \in 1 .. Len(u) : v[i].byte = u[i].byte /\ (u[i].good => v[i].good)
<1> DEFINE Kept(u, v) ==
             /\ Len(v) = Len(u)
             /\ \A i \in 1 .. Len(u) : v[i].byte = u[i].byte /\ (u[i].good => v[i].good)
<1>1. ASSUME NEW a \in Seq(HwByte), NEW b \in Seq(HwByte), NEW x \in Seq(HwByte),
             NEW y \in Seq(HwByte), Kept(a, b), Kept(x, y)
      PROVE  Kept(a \o x, b \o y)
  <2> DEFINE m == Len(a)
             n == Len(x)
             u == a \o x
             v == b \o y
  <2>1. /\ m = Len(a) /\ n = Len(x) /\ m = Len(b) /\ n = Len(y)
        /\ \A i \in 1 .. m : b[i].byte = a[i].byte /\ (a[i].good => b[i].good)
        /\ \A i \in 1 .. n : y[i].byte = x[i].byte /\ (x[i].good => y[i].good)
    BY <1>1
  <2> HIDE DEF m, n, Kept
  <2>2. /\ m \in Nat /\ n \in Nat /\ Len(u) = m + n
        /\ \A i \in 1 .. m : u[i] = a[i]
        /\ \A i \in 1 .. n : u[m + i] = x[i]
    <3>1. m = Len(a) /\ n = Len(x)
      BY <2>1
    <3> QED BY <3>1, BothParts, SMTT(30)
  <2>3. /\ Len(v) = m + n
        /\ \A i \in 1 .. m : v[i] = b[i]
        /\ \A i \in 1 .. n : v[m + i] = y[i]
    <3>1. m = Len(b) /\ n = Len(y)
      BY <2>1
    <3> QED BY <3>1, BothParts, SMTT(30)
  <2> HIDE DEF u, v
  <2>4. ASSUME NEW i \in 1 .. m + n
        PROVE  v[i].byte = u[i].byte /\ (u[i].good => v[i].good)
    <3>1. CASE i <= m
      <4>1. i \in 1 .. m
        BY <2>2, <3>1
      <4> QED BY <2>1, <2>2, <2>3, <4>1, Zenon
    <3>2. CASE ~(i <= m)
      <4> DEFINE j == i - m
      <4>1. j \in 1 .. n /\ i = m + j
        BY <2>2, <3>2
      <4> HIDE DEF j
      <4> QED BY <2>1, <2>2, <2>3, <4>1, Zenon
    <3> QED BY <3>1, <3>2
  <2>5. Kept(u, v)
    BY <2>2, <2>3, <2>4, Zenon DEF Kept
  <2> QED BY <2>5 DEF u, v
<1>2. \A a \in Seq(HwByte) : Kept(a, a)
  OBVIOUS
<1>3. Kept(h, g)
  OBVIOUS
<1> DEFINE mq == Mark(q)
           mw == Mark(w)
           mt == Mark(t)
<1>4. mq \in Seq(HwByte) /\ mw \in Seq(HwByte) /\ mt \in Seq(HwByte)
  BY MarkedIs, Zenon
<1> HIDE DEF Kept, mq, mw, mt
<1> DEFINE qh == mq \o h
           qg == mq \o g
           hw1 == qh \o mw
           gw1 == qg \o mw
<1>5. Kept(qh, qg) /\ qh \in Seq(HwByte) /\ qg \in Seq(HwByte)
  <2>1. qh \in Seq(HwByte) /\ qg \in Seq(HwByte)
    BY <1>4
  <2> QED BY <1>1, <1>2, <1>3, <1>4, <2>1, Zenon
<1> HIDE DEF qh, qg
<1>6. Kept(hw1, gw1) /\ hw1 \in Seq(HwByte) /\ gw1 \in Seq(HwByte)
  <2>1. hw1 \in Seq(HwByte) /\ gw1 \in Seq(HwByte)
    BY <1>4, <1>5
  <2> QED BY <1>1, <1>2, <1>4, <1>5, <2>1, Zenon
<1> HIDE DEF hw1, gw1
<1>7. Kept(hw1 \o mt, gw1 \o mt)
  BY <1>1, <1>2, <1>4, <1>6, Zenon
<1>8. Kept(Marked(q, h, w, t), Marked(q, g, w, t))
  BY <1>7, Zenon DEF Marked, hw1, gw1, qh, qg, mq, mw, mt
<1> QED
  BY <1>8, Zenon DEF Kept

\* As many hurt places as there is damage explain what was delivered and what is
\* under way.
Explained ==
  StartsOnly => Explains(Marked(rx_queue, hw, wire, tx), sent, d, delivered, damage)

\* What is explained is local damage.
LEMMA ExplainedIs == Typed /\ Explained => DamageIsLocal
<1> SUFFICES ASSUME Typed, Explained, StartsOnly
             PROVE  \E bad \in SUBSET (1 .. Len(delivered)) :
                      Cardinality(bad) <= damage /\ Intact(1 .. Len(delivered) \ bad)
  BY DEF DamageIsLocal
<1> DEFINE u == Marked(rx_queue, hw, wire, tx)
           n == Len(sent)
           N == 1 .. Len(delivered)
<1>1. sent \in Seq(Requests) /\ delivered \in Seq(Packet) /\ damage \in Nat
  BY DEF Typed
<1>2. PICK hurt \in SUBSET Places(sent), p \in PlaceOrOrigin(sent) :
        /\ IsFiniteSet(hurt) /\ Cardinality(hurt) <= damage
        /\ \E o : Stream(u, sent, hurt, p, o)
        /\ Seen(d, delivered, sent, p, Cardinality(Past(hurt, p)))
  BY Zenon DEF Explained, Explains
<1> DEFINE c == Cardinality(Past(hurt, p))
<1>3. c \in Nat /\ c <= damage
  <2>1. Past(hurt, p) \in SUBSET hurt
    BY DEF Past
  <2>2. IsFiniteSet(Past(hurt, p)) /\ c <= Cardinality(hurt)
    BY <1>2, <2>1, FS_Subset, Zenon
  <2>3. c \in Nat /\ Cardinality(hurt) \in Nat
    BY <1>2, <2>2, FS_CardinalityType, Zenon
  <2> HIDE DEF c
  <2> QED BY <1>1, <1>2, <2>2, <2>3
<1>4. Local(delivered, sent, p[1], c)
  BY <1>1, <1>2, <1>3, SeenLocal, Zenon
<1> HIDE DEF c
<1>5. p[1] \in Int /\ n \in Int /\ p[1] <= n /\ c \in Int /\ damage \in Int
  <2>1. p[1] \in 0 .. Len(sent) /\ Len(sent) \in Nat
    BY <1>1, BeforeIs
  <2> QED BY <1>1, <1>3, <2>1
<1> HIDE DEF n
<1>6. Local(delivered, sent, n, damage)
  BY <1>1, <1>3, <1>4, <1>5, LocalMore, Zenon
<1>7. PICK kept \in SUBSET N :
        /\ Cardinality(N \ kept) <= damage
        /\ \E at \in [kept -> 1 .. n] :
             \A i \in kept : /\ delivered[i] = OnWire(sent[at[i]])
                             /\ \A j \in kept : j < i => at[j] < at[i]
  BY <1>6, Zenon DEF Local
<1>8. Intact(kept)
  BY <1>7, Zenon DEF Intact, n
<1>9. N \ (N \ kept) = kept /\ N \ kept \in SUBSET N
  OBVIOUS
<1> QED
  BY <1>7, <1>8, <1>9, Zenon

\* An idle line has nothing to explain.
LEMMA InitExplained == Init => Explained
<1> SUFFICES ASSUME Init
             PROVE  Explains(Marked(rx_queue, hw, wire, tx), sent, d, delivered, damage)
  BY DEF Explained
<1> DEFINE none == << >>
           empty == {}
<1>1. none \in Seq(HwByte) /\ none \in Seq(Requests) /\ Len(none) = 0
      /\ none \in [1 .. 0 -> Places(none)]
      /\ none \in [empty -> 1 .. 0]
  OBVIOUS
<1>2. Marked(rx_queue, hw, wire, tx) = none
  <2>1. none \o none = none
    OBVIOUS
  <2>2. rx_queue = none /\ hw = none /\ wire = none /\ tx = none /\ Mark(none) = none
    BY MarkNone DEF Init
  <2> HIDE DEF none
  <2> QED BY <2>1, <2>2, Zenon DEF Marked
<1>3. sent = none /\ delivered = none /\ damage = 0 /\ d.state = "WAIT_START"
  BY DEF Init
<1> HIDE DEF none
<1>4. Places(none) = empty
  <2>1. 1 .. Len(none) = {}
    BY <1>1
  <2> QED BY <2>1 DEF Places
<1>5. IsFiniteSet(empty) /\ Cardinality(empty) = 0 /\ Past(empty, Origin) = empty
  BY FS_EmptySet DEF Past
<1>6. Stream(none, none, empty, Origin, none)
  <2>1. 1 .. Len(none) = empty
    BY <1>1
  <2> QED BY <1>1, <1>4, <2>1 DEF Stream
<1>7. Local(none, none, 0, 0)
  <2>1. (1 .. Len(none)) \ empty = empty /\ empty \in SUBSET (1 .. Len(none))
    BY <1>1
  <2>2. Cardinality(empty) <= 0
    BY <1>5
  <2>3. \A i \in empty : FALSE
    OBVIOUS
  <2> HIDE DEF empty
  <2> QED BY <1>1, <2>1, <2>2, <2>3, Zenon DEF Local
<1>8. Origin[1] = 0 /\ Origin \in PlaceOrOrigin(none)
  BY DEF Origin, PlaceOrOrigin
<1>9. Seen(d, none, none, Origin, 0)
  BY <1>3, <1>7, <1>8, Zenon DEF Seen
<1>10. empty \in SUBSET Places(none) /\ Cardinality(empty) <= 0
  BY <1>5
<1> HIDE DEF empty
<1>11. Explains(none, none, d, none, 0)
  BY <1>5, <1>6, <1>8, <1>9, <1>10, Zenon DEF Explains
<1> QED
  BY <1>2, <1>3, <1>11, Zenon

\* Every step is explained: one case per action.
LEMMA StepExplained == Typed /\ Explained /\ [Next]_vars => Explained'
<1> SUFFICES ASSUME Typed, Explained, [Next]_vars, StartsOnly'
             PROVE  Explains(Marked(rx_queue', hw', wire', tx'), sent', d', delivered', damage')
  BY Zenon DEF Explained
<1>1. /\ tx \in Seq(Byte) /\ wire \in Seq(Byte) /\ Len(wire) <= 1
      /\ hw \in Seq(HwByte) /\ rx_queue \in Seq(Byte)
      /\ d \in Decoder /\ sent \in Seq(Requests) /\ delivered \in Seq(Packet)
      /\ damage \in Nat
  BY DEF Typed
<1>2. ASSUME sent' = sent PROVE StartsOnly
  BY <1>2, Zenon DEF StartsOnly
<1> DEFINE E(q, h, w, t, n) == Explains(Marked(q, h, w, t), sent, d, delivered, n)
<1>3. ASSUME sent' = sent PROVE E(rx_queue, hw, wire, tx, damage)
  BY <1>2, <1>3, Zenon DEF Explained
<1>4. ASSUME NEW r \in Requests, Build(r)
      PROVE  Explains(Marked(rx_queue', hw', wire', tx'), sent', d', delivered', damage')
  <2>1. /\ tx = << >> /\ tx' = Sent(r) /\ sent' = Append(sent, r)
        /\ UNCHANGED <<wire, hw, rx_queue, d, delivered, damage>>
    BY <1>4 DEF Build, Sent
  <2>2. StartsOnly
    <3> DEFINE n == Len(sent)
               t == Append(sent, r)
    <3>1. \A i \in 1 .. n : t[i] = sent[i] /\ i \in 1 .. Len(t)
      BY <1>1
    <3>2. \A i \in 1 .. Len(t) : PKT_START_BYTE \notin ToSet(t[i].payload)
      BY <2>1, Zenon DEF StartsOnly
    <3> HIDE DEF t
    <3>3. \A i \in 1 .. n : PKT_START_BYTE \notin ToSet(sent[i].payload)
      BY <3>1, <3>2
    <3> QED BY <3>3, Zenon DEF StartsOnly
  <2>3. Explains(Marked(rx_queue, hw, wire, << >>), sent, d, delivered, damage)
    BY <2>1, <2>2, Zenon DEF Explained
  <2>4. Extends(Marked(rx_queue, hw, wire, Sent(r)), Marked(rx_queue, hw, wire, << >>), r)
    BY <1>1, MarkedBuild, Zenon
  <2>5. Explains(Marked(rx_queue, hw, wire, Sent(r)), Append(sent, r), d, delivered, damage)
    BY <1>1, <2>3, <2>4, Built, Zenon
  <2> QED BY <2>1, <2>5, Zenon
<1>5. CASE WriteChar
  <2>1. tx # << >> /\ tx' = Tail(tx) /\ UNCHANGED <<hw, rx_queue, d, sent, delivered>>
    BY <1>5 DEF WriteChar
  <2>2. E(rx_queue, hw, wire, tx, damage)
    BY <1>3, <2>1
  <2>3. CASE wire = << >> /\ wire' = <<Head(tx)>> /\ damage' = damage
    <3>1. Marked(rx_queue, hw, <<Head(tx)>>, Tail(tx)) = Marked(rx_queue, hw, wire, tx)
      BY <1>1, <2>1, <2>3, MarkedWrite, Zenon
    <3> QED BY <2>1, <2>2, <2>3, <3>1, Zenon
  <2>4. CASE damage' = damage + 1 /\ wire' = wire
    <3>1. PICK a \in Seq(HwByte), x \in HwByte, b \in Seq(HwByte) :
            /\ x.good
            /\ Marked(rx_queue, hw, wire, tx) = (a \o <<x>>) \o b
            /\ Marked(rx_queue, hw, wire, Tail(tx)) = a \o b
      BY <1>1, <2>1, MarkedWrite, Zenon
    <3>2. Explains(a \o b, sent, d, delivered, damage + 1)
      <4>1. Explains((a \o <<x>>) \o b, sent, d, delivered, damage)
        BY <2>2, <3>1, Zenon
      <4>2. Explains(a \o b, sent, d, delivered, IF x.good THEN damage + 1 ELSE damage)
        BY <1>1, <4>1, Lose, Zenon
      <4> QED BY <3>1, <4>2, Zenon
    <3> QED BY <2>1, <2>4, <3>1, <3>2, Zenon
  <2> QED BY <1>5, <2>3, <2>4 DEF WriteChar, Damages
<1>6. CASE Arrive
  <2>1. wire # << >> /\ wire' = << >> /\ UNCHANGED <<tx, rx_queue, d, sent, delivered>>
    BY <1>6 DEF Arrive
  <2>2. E(rx_queue, hw, wire, tx, damage)
    BY <1>3, <2>1
  <2> DEFINE y == Whole(wire[1])
  <2>3. PICK a \in Seq(HwByte), b \in Seq(HwByte) :
          /\ Marked(rx_queue, hw, wire, tx) = (a \o <<y>>) \o b
          /\ Marked(rx_queue, hw, << >>, tx) = a \o b
          /\ \A x \in HwByte : Marked(rx_queue, Append(hw, x), << >>, tx) = (a \o <<x>>) \o b
    BY <1>1, <2>1, MarkedArrive, Zenon
  <2>4. y \in HwByte /\ y.good
    BY <1>1, <2>1, MarkedArrive, WholeIs, Zenon
  <2>5. y = [byte |-> wire[1], good |-> TRUE]
    BY DEF Whole
  <2> HIDE DEF y
  <2>6. Explains((a \o <<y>>) \o b, sent, d, delivered, damage)
    BY <2>2, <2>3, Zenon
  <2>7. CASE hw' = Append(hw, y) /\ damage' = damage
    <3>1. Marked(rx_queue, Append(hw, y), << >>, tx) = (a \o <<y>>) \o b
      BY <2>3, <2>4, Zenon
    <3> QED BY <2>1, <2>6, <2>7, <3>1, Zenon
  <2>8. CASE (\E c \in Byte : hw' = Append(hw, [byte |-> c, good |-> FALSE]))
             /\ damage' = damage + 1
    <3>1. PICK c \in Byte : hw' = Append(hw, [byte |-> c, good |-> FALSE])
      BY <2>8
    <3> DEFINE x == [byte |-> c, good |-> FALSE]
    <3>2. x \in HwByte
      BY DEF HwByte
    <3>3. hw' = Append(hw, x)
      BY <3>1
    <3> HIDE DEF x
    <3>4. Marked(rx_queue, Append(hw, x), << >>, tx) = (a \o <<x>>) \o b
      BY <2>3, <3>2, Zenon
    <3>5. Explains((a \o <<x>>) \o b, sent, d, delivered, damage + 1)
      BY <1>1, <2>4, <2>6, <3>2, Garble, Zenon
    <3> QED BY <2>1, <2>8, <3>3, <3>4, <3>5, Zenon
  <2>9. CASE hw' = hw /\ damage' = damage + 1
    <3>1. Explains(a \o b, sent, d, delivered, damage + 1)
      <4>1. Explains(a \o b, sent, d, delivered, IF y.good THEN damage + 1 ELSE damage)
        BY <1>1, <2>4, <2>6, Lose, Zenon
      <4> QED BY <2>4, <4>1, Zenon
    <3> QED BY <2>1, <2>3, <2>9, <3>1, Zenon
  <2> QED BY <1>6, <2>5, <2>7, <2>8, <2>9 DEF Arrive, Damages
<1>7. CASE WriteBack
  <2>1. /\ hw' = [i \in 1 .. Len(hw) |-> IF i = 1 THEN [hw[i] EXCEPT !.good = TRUE] ELSE hw[i]]
        /\ UNCHANGED <<tx, wire, rx_queue, d, sent, delivered, damage>>
    BY <1>7 DEF WriteBack
  <2>2. E(rx_queue, hw, wire, tx, damage)
    BY <1>3, <2>1
  <2>3. hw' \in Seq(HwByte)
    BY StepTyped, Zenon DEF Typed
  <2>4. /\ Len(hw') = Len(hw)
        /\ \A i \in 1 .. Len(hw) : hw'[i].byte = hw[i].byte /\ (hw[i].good => hw'[i].good)
    <3> DEFINE n == Len(hw)
               F(i) == IF i = 1 THEN [hw[i] EXCEPT !.good = TRUE] ELSE hw[i]
    <3>1. n \in Nat /\ \A i \in 1 .. n : hw[i] \in HwByte
      BY <1>1
    <3>2. \A x \in HwByte : LET y == [x EXCEPT !.good = TRUE] IN y.byte = x.byte /\ y.good
      BY DEF HwByte
    <3>3. \A i \in 1 .. n : F(i).byte = hw[i].byte /\ (hw[i].good => F(i).good)
      BY <3>1, <3>2
    <3>4. hw' = [i \in 1 .. n |-> F(i)]
      BY <2>1
    <3> HIDE DEF F, n
    <3>5. Len(hw') = n /\ \A i \in 1 .. n : hw'[i] = F(i)
      BY <2>3, <3>1, <3>4
    <3> QED BY <3>3, <3>5, Zenon DEF n
  <2> DEFINE u == Marked(rx_queue, hw, wire, tx)
             v == Marked(rx_queue, hw', wire, tx)
  <2>5. /\ Len(v) = Len(u)
        /\ \A i \in 1 .. Len(u) : v[i].byte = u[i].byte /\ (u[i].good => v[i].good)
    BY <1>1, <2>3, <2>4, MarkedForgive, Zenon
  <2> HIDE DEF v, u
  <2>6. Explains(v, sent, d, delivered, damage)
    <3>1. Explains(u, sent, d, delivered, damage)
      BY <2>2, Zenon DEF u
    <3> QED BY <1>1, <2>5, <3>1, Forgive, Zenon
  <2> QED BY <2>1, <2>6, Zenon DEF v
<1>8. CASE serial_process \/ UNCHANGED vars
  <2>1. UNCHANGED <<tx, wire, hw, rx_queue, d, sent, delivered, damage>>
    BY <1>8 DEF serial_process, vars
  <2>2. E(rx_queue, hw, wire, tx, damage)
    BY <1>3, <2>1
  <2> QED BY <2>1, <2>2, Zenon
<1>9. CASE serial_ih
  <2>1. UNCHANGED <<tx, wire, d, sent, delivered>>
    BY <1>9 DEF serial_ih
  <2>2. E(rx_queue, hw, wire, tx, damage)
    BY <1>3, <2>1
  <2>3. CASE hw # << >> /\ Len(rx_queue) < SwSize
    <3> DEFINE x == Head(hw)
               y == Whole(x.byte)
    <3>1. /\ rx_queue' = IF x.good /\ ~oe THEN Append(rx_queue, x.byte) ELSE rx_queue
          /\ damage' = IF x.good /\ oe THEN damage + 1 ELSE damage
          /\ hw' = Tail(hw)
      BY <1>9, <2>3 DEF serial_ih
    <3>2. x \in HwByte
      BY <1>1, <2>3, MarkedRead, Zenon
    <3>3. PICK a \in Seq(HwByte), b \in Seq(HwByte) :
            /\ Marked(rx_queue, hw, wire, tx) = (a \o <<x>>) \o b
            /\ Marked(rx_queue, Tail(hw), wire, tx) = a \o b
            /\ Marked(Append(rx_queue, x.byte), Tail(hw), wire, tx) = (a \o <<y>>) \o b
      BY <1>1, <2>3, MarkedRead, Zenon
    <3>4. x.good => x = y
      BY <3>2 DEF Whole, HwByte
    <3> HIDE DEF x, y
    <3>5. Explains((a \o <<x>>) \o b, sent, d, delivered, damage)
      BY <2>2, <3>3, Zenon
    <3>6. CASE x.good /\ ~oe
      <4>1. rx_queue' = Append(rx_queue, x.byte) /\ damage' = damage /\ x = y
        BY <3>1, <3>4, <3>6
      <4> QED BY <2>1, <3>1, <3>3, <3>5, <4>1, Zenon
    <3>7. CASE ~(x.good /\ ~oe)
      <4>1. rx_queue' = rx_queue /\ damage' = IF x.good THEN damage + 1 ELSE damage
        BY <3>1, <3>7
      <4>2. Explains(a \o b, sent, d, delivered, IF x.good THEN damage + 1 ELSE damage)
        BY <1>1, <3>2, <3>5, Lose, Zenon
      <4> QED BY <2>1, <3>1, <3>3, <4>1, <4>2, Zenon
    <3> QED BY <3>6, <3>7
  <2>4. CASE ~(hw # << >> /\ Len(rx_queue) < SwSize)
    <3>1. UNCHANGED <<hw, rx_queue, damage>>
      BY <1>9, <2>4 DEF serial_ih
    <3> QED BY <2>1, <2>2, <3>1, Zenon
  <2> QED BY <2>3, <2>4
<1>10. CASE serial_handle_byte
  <2>1. UNCHANGED <<tx, wire, hw, sent, damage>>
    BY <1>10 DEF serial_handle_byte
  <2>2. E(rx_queue, hw, wire, tx, damage)
    BY <1>3, <2>1
  <2>3. CASE rx_queue # << >>
    <3>1. /\ Head(rx_queue) \in Byte /\ Tail(rx_queue) \in Seq(Byte)
          /\ Marked(rx_queue, hw, wire, tx)
               = <<Whole(Head(rx_queue))>> \o Marked(Tail(rx_queue), hw, wire, tx)
      BY <1>1, <2>3, MarkedFirst
    <3> DEFINE c == Head(rx_queue)
               x == Whole(c)
               f == Handle(d, c)
               v == Marked(Tail(rx_queue), hw, wire, tx)
    <3>2. d' = f /\ delivered' = Delivers(d, f, delivered) /\ rx_queue' = Tail(rx_queue)
      BY <1>10, <2>3 DEF serial_handle_byte, Delivers
    <3>3. /\ c \in Byte /\ Tail(rx_queue) \in Seq(Byte)
          /\ Marked(rx_queue, hw, wire, tx) = <<x>> \o v
      BY <3>1
    <3>4. v \in Seq(HwByte)
      BY <1>1, <3>3, MarkedIs, Zenon
    <3>5. x \in HwByte /\ x.byte = c
      BY <3>3, WholeIs, Zenon
    <3>6. \A i \in 1 .. Len(sent) : NoStart(sent[i])
      BY <1>2, <2>1, Zenon DEF StartsOnly, NoStart
    <3>7. f = Handle(d, x.byte)
      BY <3>5, Zenon
    <3> HIDE DEF c, x, f, v
    <3>8. Explains(<<x>> \o v, sent, d, delivered, damage)
      BY <2>2, <3>3, Zenon
    <3>9. Explains(v, sent, f, Delivers(d, f, delivered), damage)
      BY <1>1, <3>4, <3>5, <3>6, <3>7, <3>8, Take, Zenon
    <3> QED BY <2>1, <3>2, <3>9, Zenon DEF v
  <2>4. CASE rx_queue = << >>
    <3>1. UNCHANGED <<rx_queue, d, delivered>>
      BY <1>10, <2>4 DEF serial_handle_byte
    <3> QED BY <2>1, <2>2, <3>1, Zenon
  <2> QED BY <2>3, <2>4
<1> QED
  BY <1>4, <1>5, <1>6, <1>7, <1>8, <1>9, <1>10 DEF Next

\* A damaged byte makes the decoder deliver one wrong packet at most, when no payload
\* holds a start byte: serial_write_char, serial_ih, serial_handle_byte.
THEOREM DamageStaysLocal == Spec => []DamageIsLocal
<1>1. Init => Typed /\ Explained
  BY InitTyped, InitExplained
<1>2. Typed /\ Explained /\ [Next]_vars => (Typed /\ Explained)'
  BY StepTyped, StepExplained
<1>3. Typed /\ Explained => DamageIsLocal
  BY ExplainedIs
<1> QED
  BY <1>1, <1>2, <1>3, PTL DEF Spec
=============================================================================
