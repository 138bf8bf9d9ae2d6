--------------------------- MODULE RecolouringProofs ---------------------------
(***************************************************************************)
(* The cache of row colours, for texts and caches of any size: its buffers *)
(* keep one owner each, and repainting the one row that changed makes the  *)
(* whole cache right.  The recursion of the comment states and the doubling*)
(* of the arrays are reasoned about by induction over a set of numbers.    *)
(***************************************************************************)
EXTENDS Recolouring, FiniteSetTheorems, SequenceTheorems, WellFoundedInduction, TLAPS

(* Numbers                                                                 *)

\* A non-empty set of natural numbers has a least element.
LEMMA Least ==
  ASSUME NEW T, T \subseteq Nat, T # {}
  PROVE  \E x \in T : \A y \in T : x <= y
<1> DEFINE R == {ss \in Nat \X Nat : ss[1] < ss[2]}
<1>1. IsWellFoundedOn(R, Nat)
  BY NatLessThanWellFounded DEF OpToRel
<1>2. \E x \in T : \A y \in T : ~(<<y, x>> \in R)
  <2> HIDE DEF R
  <2> QED BY <1>1, WFMin
<1>3. \A x, y \in Nat : <<y, x>> \notin R => x <= y
  <2> SUFFICES ASSUME NEW x \in Nat, NEW y \in Nat, ~(x <= y)
               PROVE  <<y, x>> \in R
    OBVIOUS
  <2>1. y < x /\ <<y, x>> \in Nat \X Nat /\ <<y, x>>[1] < <<y, x>>[2]
    OBVIOUS
  <2> QED BY <2>1
<1> HIDE DEF R
<1> QED BY <1>2, <1>3

\* Induction, for a property given by the set of the numbers that have it.
LEMMA Induct ==
  ASSUME NEW S, 0 \in S, \A n \in Nat : n \in S => n + 1 \in S
  PROVE  Nat \subseteq S
<1> SUFFICES ASSUME Nat \ S # {} PROVE FALSE
  OBVIOUS
<1>1. PICK m \in Nat \ S : \A y \in Nat \ S : m <= y
  BY Least
<1>2. m # 0 /\ m - 1 \in Nat
  BY <1>1
<1>3. m - 1 \in S
  BY <1>1, <1>2
<1>4. (m - 1) + 1 \in S
  BY <1>2, <1>3
<1> QED
  BY <1>1, <1>4

\* What Min returns.
LEMMA MinIs ==
  ASSUME NEW T, T \subseteq Nat, T # {}
  PROVE  Min(T) \in T /\ \A y \in T : Min(T) <= y
<1>1. \E x \in T : \A y \in T : x <= y
  BY Least
<1> QED
  BY <1>1, Zenon DEF Min

\* What Max returns.
LEMMA MaxIs ==
  ASSUME NEW n \in Nat, NEW T, T \subseteq 0 .. n, T # {}
  PROVE  Max(T) \in T /\ \A y \in T : y <= Max(T)
<1> DEFINE D == {n - x : x \in T}
<1>1. D \subseteq Nat /\ D # {}
  <2>1. \A x \in T : n - x \in Nat
    OBVIOUS
  <2> QED BY <2>1
<1>2. PICK d \in D : \A y \in D : d <= y
  BY <1>1, Least
<1>3. PICK z \in T : d = n - z
  BY <1>2
<1>4. \A y \in T : y <= z
  <2> TAKE y \in T
  <2>1. n - y \in D
    OBVIOUS
  <2>2. n - z <= n - y /\ y \in Int /\ z \in Int
    BY <1>2, <1>3, <2>1
  <2> QED BY <2>2
<1>5. \A y \in T : z >= y
  BY <1>4
<1> QED
  BY <1>5 DEF Max

\* The smaller of two numbers.
LEMMA MinOfTwo ==
  ASSUME NEW a \in Int, NEW b \in Int
  PROVE  /\ Min({a, b}) \in Int /\ Min({a, b}) \in {a, b}
         /\ Min({a, b}) <= a /\ Min({a, b}) <= b
<1>1. \E x \in {a, b} : \A y \in {a, b} : x <= y
  <2>1. a <= b \/ b <= a
    OBVIOUS
  <2>2. a <= a /\ b <= b
    OBVIOUS
  <2> QED
    BY <2>1, <2>2
<1>2. Min({a, b}) \in {a, b} /\ \A y \in {a, b} : Min({a, b}) <= y
  BY <1>1, Zenon DEF Min
<1> QED
  BY <1>2

\* A power of two is a number and no less than its exponent: a set of n members
\* has that many subsets, and the singletons are among them.
LEMMA Power ==
  ASSUME NEW n \in Nat
  PROVE  2 ^ n \in Nat /\ 2 ^ n >= n
<1> DEFINE S == 1 .. n
           f == [x \in S |-> {x}]
<1>1. IsFiniteSet(S) /\ Cardinality(S) = n
  <2>1. IsFiniteSet(S) /\ Cardinality(S) = IF 1 > n THEN 0 ELSE n - 1 + 1
    BY FS_Interval
  <2> QED BY <2>1
<1>2. IsFiniteSet(SUBSET S) /\ Cardinality(SUBSET S) = 2 ^ n
  BY <1>1, FS_SUBSET
<1>3. f \in Injection(S, SUBSET S)
  <2>1. f \in [S -> SUBSET S]
    BY DEF f
  <2>2. \A a, b \in S : f[a] = f[b] => a = b
    BY DEF f
  <2> QED BY <2>1, <2>2 DEF Injection, IsInjective
<1>4. Cardinality(S) <= Cardinality(SUBSET S)
  <2> HIDE DEF f, S
  <2> QED BY <1>2, <1>3, FS_Injection
<1>5. Cardinality(SUBSET S) \in Nat
  BY <1>2, FS_CardinalityType
<1> QED
  BY <1>1, <1>2, <1>4, <1>5

-----------------------------------------------------------------------------
\* A row was inserted: the copy to the right and the two slots it clears.
LEMMA InsertOneOwner ==
  ASSUME NEW n \in Nat, NEW old \in Int, NEW split \in Int
  PROVE  OneOwner(InsertSource(n, old, split), n, {split + 1})
<1> DEFINE s == InsertSource(n, old, split)
<1>1. \A i \in 1 .. n :
        \/ s[i] = -1
        \/ i - 1 >= split + 2 /\ i - 1 <= old /\ s[i] = i - 1
        \/ i # split + 1 /\ i # split + 2 /\ ~(i >= split + 3 /\ i <= old + 1) /\ s[i] = i
  BY DEF InsertSource
<1> HIDE DEF s
<1>2. OneOwner(s, n, {split + 1})
  BY <1>1 DEF OneOwner
<1> QED
  BY <1>2 DEF s

\* A row was removed: the copy to the left and the slots it clears.
LEMMA RemoveOneOwner ==
  ASSUME NEW n \in Nat, NEW old \in Int, NEW merge \in Int
  PROVE  OneOwner(RemoveSource(n, old, merge), n, {merge + 1, merge + 2})
<1> DEFINE s == RemoveSource(n, old, merge)
<1>1. \A i \in 1 .. n :
        \/ s[i] = -1
        \/ i >= merge + 2 /\ i + 1 <= old /\ s[i] = i + 1
        \/ /\ i # merge + 1 /\ i # merge + 2 /\ i # old
           /\ ~(i >= merge + 2 /\ i <= old - 1) /\ s[i] = i
  BY DEF RemoveSource
<1> HIDE DEF s
<1>2. OneOwner(s, n, {merge + 1, merge + 2})
  BY <1>1 DEF OneOwner
<1> QED
  BY <1>2 DEF s

\* highlight_cache_sync (highlight_cache.c:157-214) gives no buffer to two rows
\* and keeps none that it freed, wherever the row is and however many slots the
\* array has.
THEOREM SyncKeepsOwners ==
  ASSUME NEW c, c.last \in Int, Len(c.slots) \in Nat, NEW new \in Int, NEW row \in Int
  PROVE  Inserts(c, new, row) \/ Removes(c, new, row) =>
           OneOwner(SyncSource(c, new, row), Len(c.slots), SyncFreed(c, new, row))
<1>1. CASE Inserts(c, new, row)
  <2>1. /\ SyncSource(c, new, row) = InsertSource(Len(c.slots), c.last, row - 1)
        /\ SyncFreed(c, new, row) = {row}
    BY <1>1 DEF SyncSource, SyncFreed
  <2>2. (row - 1) + 1 = row
    OBVIOUS
  <2> QED
    BY <2>1, <2>2, InsertOneOwner
<1>2. CASE ~Inserts(c, new, row)
  <2>1. /\ SyncSource(c, new, row)
             = RemoveSource(Len(c.slots), Min({c.last, Len(c.slots)}), row)
        /\ SyncFreed(c, new, row) = {row + 1, row + 2}
    BY <1>2 DEF SyncSource, SyncFreed
  <2>2. c.last \in Int /\ Len(c.slots) \in Int
    OBVIOUS
  <2>3. Min({c.last, Len(c.slots)}) \in Int
    BY <2>2, MinOfTwo, Zenon
  <2> QED
    BY <2>1, <2>3, RemoveOneOwner
<1> QED
  BY <1>1, <1>2

-----------------------------------------------------------------------------
(* Arrays and buffers                                                      *)

Slots == Seq(Buffer \cup {None})
Cache == [slots : Slots, open : Seq(BOOLEAN), last : Int]

\* Products of numbers.
LEMMA Products ==
  ASSUME NEW a \in Nat \ {0}, NEW b \in Nat
  PROVE  /\ a * b \in Nat /\ a * b >= b
         /\ b > 0 => a * b >= a
OBVIOUS

\* Doubling makes an array long enough (while (new_cap < needed) new_cap *= 2).
LEMMA RoomIs ==
  ASSUME NEW have \in Nat, NEW needed \in Nat
  PROVE  /\ Room(have, needed) \in Nat
         /\ Room(have, needed) >= have
         /\ Room(have, needed) >= needed
<1> DEFINE first == IF have = 0 THEN FirstSlots ELSE 2 * have
           K == {2 ^ k : k \in {k \in 0 .. needed : first * 2 ^ k >= needed}}
<1>1. CASE have >= needed
  BY <1>1 DEF Room
<1>2. CASE ~(have >= needed)
  <2>1. first \in Nat \ {0} /\ first >= have
    BY FirstSlotsAssumption
  <2>2. Room(have, needed) = first * Min(K)
    BY <1>2, Zenon DEF Room
  <2>3. 2 ^ needed \in K
    <3> HIDE DEF first
    <3>1. first * 2 ^ needed >= needed
      BY <2>1, Power, Products
    <3> QED BY <3>1
  <2>4. K \subseteq Nat
    BY Power
  <2>5. \A p \in K : first * p >= needed
    OBVIOUS
  <2> HIDE DEF K, first
  <2>6. Min(K) \in K /\ Min(K) \in Nat
    BY <2>3, <2>4, MinIs
  <2> DEFINE m == Min(K)
  <2>7. m \in Nat /\ first * m >= needed
    BY <2>5, <2>6
  <2> HIDE DEF m
  <2>8. first * m \in Nat
    BY <2>1, <2>7, Products
  <2> QED
    BY <1>2, <2>2, <2>7, <2>8 DEF m
<1> QED
  BY <1>1, <1>2

\* What an array that has grown holds.
LEMMA GrownIs ==
  ASSUME NEW S, NEW s \in Seq(S), NEW needed \in Nat, NEW new \in S
  PROVE  /\ Grown(s, needed, new) \in Seq(S)
         /\ Len(Grown(s, needed, new)) = Room(Len(s), needed)
         /\ Len(Grown(s, needed, new)) \in Nat
         /\ Len(Grown(s, needed, new)) >= Len(s)
         /\ Len(Grown(s, needed, new)) >= needed
         /\ \A i \in 1 .. Len(Grown(s, needed, new)) :
              Grown(s, needed, new)[i] = IF i <= Len(s) THEN s[i] ELSE new
<1> DEFINE n == Room(Len(s), needed)
<1>0. Len(s) \in Nat
  OBVIOUS
<1>1. n \in Nat /\ n >= Len(s) /\ n >= needed
  BY <1>0, RoomIs
<1>2. Grown(s, needed, new) = [i \in 1 .. n |-> IF i <= Len(s) THEN s[i] ELSE new]
  BY DEF Grown
<1> HIDE DEF n
<1>3. [i \in 1 .. n |-> IF i <= Len(s) THEN s[i] ELSE new] \in Seq(S)
  BY <1>1
<1> QED
  BY <1>1, <1>2, <1>3 DEF n

\* NULL is a buffer with no room, unlike the others.
LEMMA NoneIs == None \notin Buffer /\ None.cap = 0
BY DEF None, Buffer

\* Colouring a row leaves it a buffer as long as the row, or none.
LEMMA RecolouredIs ==
  ASSUME NEW b \in Buffer \cup {None}, NEW t \in Text, NEW in \in BOOLEAN
  PROVE  /\ Recoloured(b, t, in) \in Buffer \cup {None}
         /\ t = Blank => Recoloured(b, t, in) = b
         /\ t # Blank => /\ Recoloured(b, t, in).of = t
                         /\ Recoloured(b, t, in).in = in
<1>1. b.cap \in Nat
  BY DEF Buffer, None
<1>2. Length[t] \in Nat /\ (Length[t] = 0 <=> t = Blank)
  BY TextAssumption
<1>3. CASE Length[t] = 0
  BY <1>2, <1>3 DEF Recoloured
<1>4. CASE Length[t] # 0
  <2> DEFINE c == IF b.cap < Length[t] THEN Length[t] ELSE b.cap
  <2>1. c \in Nat \ {0}
    BY <1>1, <1>2, <1>4
  <2>2. Recoloured(b, t, in) = [cap |-> c, of |-> t, in |-> in]
    BY <1>4 DEF Recoloured
  <2> HIDE DEF c
  <2> QED BY <1>2, <1>4, <2>1, <2>2 DEF Buffer
<1> QED
  BY <1>3, <1>4

\* The comment states of a C text.
StatesC(text, from, start) == States(text, from, start, TRUE)

\* The comment states that highlight_cache_rebuild_from computes row by row
\* exist, and each follows from the one before it.
LEMMA StatesAre ==
  ASSUME NEW text \in Seq(Text), NEW from \in 0 .. Len(text), NEW start \in BOOLEAN
  PROVE  /\ StatesC(text, from, start)[from] = start
         /\ \A r \in from .. Len(text) : StatesC(text, from, start)[r] \in BOOLEAN
         /\ \A r \in from + 1 .. Len(text) :
              StatesC(text, from, start)[r] = After[text[r]][StatesC(text, from, start)[r - 1]]
<1> DEFINE n == Len(text)
           Step(g, r) == IF r = from THEN start ELSE After[text[r]][g[r - 1]]
           Upto(m) == \E g \in [from .. from + m -> BOOLEAN] :
                         \A r \in from .. from + m : g[r] = Step(g, r)
           S == {m \in Nat : from + m <= n => Upto(m)}
<1>1. n \in Nat /\ from \in Nat /\ from <= n
  OBVIOUS
<1>2. \A r \in from + 1 .. n, b \in BOOLEAN : After[text[r]][b] \in BOOLEAN
  <2>1. \A t \in Text, b \in BOOLEAN : After[t][b] \in BOOLEAN
    BY TextAssumption
  <2>2. \A r \in from + 1 .. n : text[r] \in Text
    BY <1>1
  <2> QED BY <2>1, <2>2
<1> HIDE DEF n
<1>3. Upto(0)
  <2> DEFINE g == [r \in from .. from + 0 |-> start]
  <2>1. g \in [from .. from + 0 -> BOOLEAN]
    OBVIOUS
  <2>2. \A r \in from .. from + 0 : g[r] = Step(g, r)
    BY <1>1
  <2> QED BY <2>1, <2>2
<1>4. ASSUME NEW m \in Nat, Upto(m), from + (m + 1) <= n PROVE Upto(m + 1)
  <2>1. PICK g \in [from .. from + m -> BOOLEAN] :
               \A r \in from .. from + m : g[r] = Step(g, r)
    BY <1>4
  <2> DEFINE k == from + (m + 1)
             next == After[text[k]][g[k - 1]]
             x == [r \in from .. k |-> IF r = k THEN next ELSE g[r]]
  <2>2. /\ k \in from + 1 .. n /\ k - 1 = from + m /\ k # from
        /\ \A r \in from .. k : r = k \/ r \in from .. from + m
        /\ \A r \in from .. k : r # from => r - 1 # k /\ r - 1 \in from .. k
    BY <1>1, <1>4
  <2>3. g[k - 1] \in BOOLEAN
    BY <1>1, <2>2
  <2> HIDE DEF k
  <2>4. next \in BOOLEAN
    BY <1>2, <2>2, <2>3
  <2> HIDE DEF next
  <2>5. x \in [from .. k -> BOOLEAN]
    BY <2>2, <2>4
  <2>6. ASSUME NEW r \in from .. k PROVE x[r] = Step(x, r)
    <3>1. CASE r = k
      <4>1. x[r] = next /\ x[r - 1] = g[k - 1]
        BY <2>2, <3>1
      <4> QED BY <2>2, <3>1, <4>1 DEF next
    <3>2. CASE r # k
      <4>1. r \in from .. from + m /\ x[r] = g[r]
        BY <2>2, <3>2
      <4>2. r # from => x[r - 1] = g[r - 1]
        BY <2>2
      <4> QED BY <2>1, <4>1, <4>2
    <3> QED BY <3>1, <3>2
  <2> QED BY <2>5, <2>6 DEF k
<1>5. Upto(n - from)
  <2> HIDE DEF Upto
  <2>1. 0 \in S
    BY <1>3
  <2>2. \A m \in Nat : m \in S => m + 1 \in S
    BY <1>1, <1>4
  <2>3. n - from \in Nat /\ from + (n - from) <= n
    BY <1>1
  <2>4. Nat \subseteq S
    <3> HIDE DEF S
    <3> QED BY <2>1, <2>2, Induct
  <2> QED BY <2>3, <2>4
<1>6. from + (n - from) = n
  BY <1>1
<1>7. PICK g \in [from .. n -> BOOLEAN] : \A r \in from .. n : g[r] = Step(g, r)
  BY <1>5, <1>6
<1> DEFINE st[r \in from .. Len(text)] ==
             IF r = from THEN start ELSE After[text[r]][st[r - 1]]
<1>8. g = [r \in from .. Len(text) |->
             IF r = from THEN start ELSE After[text[r]][g[r - 1]]]
  BY <1>7, Zenon DEF n
<1>9. st = [r \in from .. Len(text) |->
             IF r = from THEN start ELSE After[text[r]][st[r - 1]]]
  BY <1>8
<1>10. StatesC(text, from, start) = st
  BY Zenon DEF StatesC, States, OpenAfter
<1> HIDE DEF st
<1>11. /\ st[from] = start
       /\ \A r \in from + 1 .. n : st[r] = After[text[r]][st[r - 1]]
  <2>1. \A r \in from .. n :
          st[r] = IF r = from THEN start ELSE After[text[r]][st[r - 1]]
    BY <1>9, Zenon DEF n
  <2>2. from \in from .. n /\ \A r \in from + 1 .. n : r \in from .. n /\ r # from
    BY <1>1
  <2> QED BY <2>1, <2>2
<1> DEFINE B == {m \in Nat : from + m <= n => st[from + m] \in BOOLEAN}
<1>12. Nat \subseteq B
  <2>1. 0 \in B
    <3>1. from + 0 = from
      BY <1>1
    <3> QED BY <1>11, <3>1
  <2>2. ASSUME NEW m \in Nat, m \in B PROVE m + 1 \in B
    <3> SUFFICES ASSUME from + (m + 1) <= n PROVE st[from + (m + 1)] \in BOOLEAN
      OBVIOUS
    <3> DEFINE k == from + (m + 1)
    <3>1. k \in from + 1 .. n /\ k - 1 = from + m /\ from + m <= n
      BY <1>1
    <3>2. st[from + m] \in BOOLEAN
      BY <2>2, <3>1
    <3> HIDE DEF k
    <3>3. st[k] = After[text[k]][st[k - 1]] /\ st[k - 1] \in BOOLEAN
      BY <1>11, <3>1, <3>2
    <3>4. st[k] \in BOOLEAN
      BY <1>2, <3>1, <3>3
    <3> QED BY <3>4 DEF k
  <2> HIDE DEF B
  <2> QED BY <2>1, <2>2, Induct
<1>13. ASSUME NEW r \in from .. n PROVE st[r] \in BOOLEAN
  <2>1. r - from \in Nat /\ from + (r - from) = r /\ r <= n
    BY <1>1
  <2>2. r - from \in B
    BY <1>12, <2>1
  <2> QED BY <2>1, <2>2
<1> QED
  BY <1>10, <1>11, <1>13 DEF n

-----------------------------------------------------------------------------
(* What each operation of the cache makes of it                            *)

\* block_comment_open_at as an entry of the array.
LEMMA OpenAtIs ==
  ASSUME NEW c \in Cache, NEW r \in Nat
  PROVE  /\ OpenAt(c, r) \in BOOLEAN
         /\ r < Len(c.open) => OpenAt(c, r) = c.open[r + 1]
         /\ ~(r < Len(c.open)) => OpenAt(c, r) = FALSE
<1>1. c.open \in Seq(BOOLEAN) /\ Len(c.open) \in Nat
  BY DEF Cache
<1>2. r < Len(c.open) => c.open[r + 1] \in BOOLEAN
  BY <1>1
<1> QED
  BY <1>2, Zenon DEF OpenAt

\* The fields of the cache.
LEMMA CacheFields ==
  ASSUME NEW c \in Cache
  PROVE  /\ c.slots \in Slots /\ c.open \in Seq(BOOLEAN) /\ c.last \in Int
         /\ Len(c.slots) \in Nat /\ Len(c.open) \in Nat
BY DEF Cache, Slots

\* The cache with one field set.
LEMMA SetSlots ==
  ASSUME NEW c \in Cache, NEW s \in Slots
  PROVE  LET d == [c EXCEPT !.slots = s]
         IN  d \in Cache /\ d.slots = s /\ d.open = c.open /\ d.last = c.last
BY DEF Cache

\* Assigning the comment states changes nothing else of the cache.
LEMMA SetOpen ==
  ASSUME NEW c \in Cache, NEW o \in Seq(BOOLEAN)
  PROVE  LET d == [c EXCEPT !.open = o]
         IN  d \in Cache /\ d.slots = c.slots /\ d.open = o /\ d.last = c.last
BY DEF Cache

\* Nor does assigning the number of rows last seen.
LEMMA SetLast ==
  ASSUME NEW c \in Cache, NEW n \in Int
  PROVE  /\ [c EXCEPT !.last = n] \in Cache
         /\ [c EXCEPT !.last = n].slots = c.slots
         /\ [c EXCEPT !.last = n].open = c.open
         /\ [c EXCEPT !.last = n].last = n
BY DEF Cache

\* highlight_cache_free_row.
LEMMA FreeRowIs ==
  ASSUME NEW c \in Cache, NEW row \in Nat
  PROVE  LET d == highlight_cache_free_row(c, row)
         IN  /\ d \in Cache /\ d.open = c.open /\ d.last = c.last
             /\ \A r \in Nat : SlotAt(d, r) = IF r = row THEN None ELSE SlotAt(c, r)
<1> DEFINE s == [i \in 1 .. Len(c.slots) |-> IF i = row + 1 THEN None ELSE c.slots[i]]
<1>1. highlight_cache_free_row(c, row) = [c EXCEPT !.slots = s]
  BY Zenon DEF highlight_cache_free_row
<1>2. s \in Slots /\ Len(s) = Len(c.slots)
  BY CacheFields DEF Slots
<1>3. \A i \in 1 .. Len(c.slots) : s[i] = IF i = row + 1 THEN None ELSE c.slots[i]
  OBVIOUS
<1> DEFINE d == [c EXCEPT !.slots = s]
<1>4. /\ d \in Cache /\ d.slots = s /\ d.open = c.open /\ d.last = c.last
      /\ Len(c.slots) \in Nat
  <2> HIDE DEF s
  <2> QED BY <1>2, SetSlots, CacheFields
<1> HIDE DEF d, s
<1>5. \A r \in Nat : SlotAt(d, r) = IF r = row THEN None ELSE SlotAt(c, r)
  BY <1>2, <1>3, <1>4 DEF SlotAt
<1> QED
  BY <1>1, <1>4, <1>5 DEF d

\* line_colors_cache_grow shows nothing new: the slots it adds are empty.
LEMMA GrowIs ==
  ASSUME NEW c \in Cache, NEW needed \in Nat
  PROVE  LET d == line_colors_cache_grow(c, needed)
         IN  /\ d \in Cache /\ d.open = c.open /\ d.last = c.last
             /\ d.slots = Grown(c.slots, needed, None)
             /\ Len(d.slots) >= needed /\ Len(d.slots) >= Len(c.slots)
             /\ \A r \in Nat : SlotAt(d, r) = SlotAt(c, r)
<1> DEFINE s == Grown(c.slots, needed, None)
<1>1. line_colors_cache_grow(c, needed) = [c EXCEPT !.slots = s]
  BY Zenon DEF line_colors_cache_grow
<1>2. /\ s \in Slots /\ Len(s) \in Nat /\ Len(s) >= Len(c.slots) /\ Len(s) >= needed
      /\ \A i \in 1 .. Len(s) : s[i] = IF i <= Len(c.slots) THEN c.slots[i] ELSE None
  <2>1. c.slots \in Seq(Buffer \cup {None}) /\ None \in Buffer \cup {None}
    BY CacheFields DEF Slots
  <2> DEFINE B == Buffer \cup {None}
  <2>2. c.slots \in Seq(B) /\ None \in B /\ Slots = Seq(B)
    BY <2>1 DEF Slots
  <2> HIDE DEF B
  <2>3. s \in Seq(B)
    BY <2>2, GrownIs
  <2>4. Len(s) \in Nat /\ Len(s) >= Len(c.slots) /\ Len(s) >= needed
    BY <2>2, GrownIs
  <2>5. \A i \in 1 .. Len(s) : s[i] = IF i <= Len(c.slots) THEN c.slots[i] ELSE None
    <3> SUFFICES ASSUME NEW a \in Seq(B), None \in B, NEW i \in 1 .. Len(Grown(a, needed, None))
                 PROVE  Grown(a, needed, None)[i] = IF i <= Len(a) THEN a[i] ELSE None
      BY <2>2, Zenon
    <3> QED BY GrownIs
  <2> QED BY <2>2, <2>3, <2>4, <2>5
<1> DEFINE d == [c EXCEPT !.slots = s]
<1>3. /\ d \in Cache /\ d.slots = s /\ d.open = c.open /\ d.last = c.last
      /\ Len(c.slots) \in Nat
  <2> HIDE DEF s
  <2> QED BY <1>2, SetSlots, CacheFields
<1> HIDE DEF d, s
<1>4. \A r \in Nat : SlotAt(d, r) = SlotAt(c, r)
  BY <1>2, <1>3 DEF SlotAt
<1> QED
  BY <1>1, <1>2, <1>3, <1>4 DEF d, s

\* The slot of a row.
LEMMA SlotAtIs ==
  ASSUME NEW c \in Cache, NEW r \in Nat
  PROVE  /\ SlotAt(c, r) \in Buffer \cup {None}
         /\ r < Len(c.slots) => SlotAt(c, r) = c.slots[r + 1]
         /\ ~(r < Len(c.slots)) => SlotAt(c, r) = None
BY CacheFields DEF SlotAt, Slots

\* line_colors_cache_invalidate_all.
LEMMA InvalidateIs ==
  ASSUME NEW c \in Cache
  PROVE  LET d == line_colors_cache_invalidate_all(c)
         IN  d \in Cache /\ d.last = 0
<1> DEFINE s == [i \in 1 .. Len(c.slots) |-> None]
           x == [c EXCEPT !.slots = s]
<1>1. s \in Slots
  BY CacheFields DEF Slots
<1>2. line_colors_cache_invalidate_all(c) = [c EXCEPT !.slots = s, !.last = 0]
  BY Zenon DEF line_colors_cache_invalidate_all
<1> HIDE DEF s
<1>3. x \in Cache /\ 0 \in Int
  BY <1>1, SetSlots
<1>4. line_colors_cache_invalidate_all(c) = [x EXCEPT !.last = 0]
  BY <1>2 DEF Cache
<1> HIDE DEF x
<1> QED
  BY <1>3, <1>4, SetLast

\* highlight_cache_sync keeps the cache well formed and knows the new row count.
LEMMA SyncIs ==
  ASSUME NEW c \in Cache, NEW new \in Nat, NEW row \in Nat
  PROVE  /\ highlight_cache_sync(c, new, row) \in Cache
         /\ highlight_cache_sync(c, new, row).last = new
<1> DEFINE g == IF Inserts(c, new, row) THEN line_colors_cache_grow(c, new) ELSE c
           source == SyncSource(g, new, row)
           m == Moved(g.slots, source)
<1>1. g \in Cache /\ g.last = c.last /\ Len(g.slots) \in Nat /\ c.last \in Int
  BY GrowIs, CacheFields, Zenon
<1>2. \A i \in 1 .. Len(g.slots) :
        source[i] = -1 \/ source[i] \in 1 .. Len(g.slots)
  <2>1. CASE Inserts(g, new, row)
    <3>1. source = InsertSource(Len(g.slots), g.last, row - 1) /\ row > 0
      BY <2>1 DEF SyncSource, Inserts
    <3> HIDE DEF g
    <3> QED BY <1>1, <3>1 DEF InsertSource
  <2>2. CASE ~Inserts(g, new, row)
    <3> DEFINE old == Min({g.last, Len(g.slots)})
    <3>1. source = RemoveSource(Len(g.slots), old, row)
      BY <2>2 DEF SyncSource
    <3> HIDE DEF g
    <3>2. old \in Int /\ old <= Len(g.slots)
      <4>1. g.last \in Int /\ Len(g.slots) \in Int
        BY <1>1
      <4> QED BY <4>1, MinOfTwo, Zenon
    <3> HIDE DEF old
    <3> QED BY <1>1, <3>1, <3>2 DEF RemoveSource
  <2> QED BY <2>1, <2>2
<1> HIDE DEF source
<1>3. m \in Slots
  <2> HIDE DEF g
  <2>1. g.slots \in Seq(Buffer \cup {None})
    BY <1>1, CacheFields DEF Slots
  <2> QED BY <1>1, <1>2, <2>1 DEF Moved, Slots
<1>4. CASE new = c.last
  BY <1>4 DEF highlight_cache_sync
<1>5. CASE new # c.last /\ (Inserts(c, new, row) \/ Removes(c, new, row))
  <2>1. highlight_cache_sync(c, new, row) = [[g EXCEPT !.slots = m] EXCEPT !.last = new]
    <3>1. highlight_cache_sync(c, new, row) = [g EXCEPT !.slots = m, !.last = new]
      BY <1>5, Zenon DEF highlight_cache_sync, source
    <3> HIDE DEF g, m
    <3> QED BY <1>1, <3>1 DEF Cache
  <2> HIDE DEF g, m
  <2>2. [g EXCEPT !.slots = m] \in Cache /\ new \in Int
    BY <1>1, <1>3, SetSlots
  <2> DEFINE y == [g EXCEPT !.slots = m]
  <2> HIDE DEF y
  <2>3. [y EXCEPT !.last = new] \in Cache /\ [y EXCEPT !.last = new].last = new
    BY <2>2, SetLast DEF y
  <2>4. highlight_cache_sync(c, new, row) = [y EXCEPT !.last = new]
    BY <2>1 DEF y
  <2> QED BY <2>3, <2>4, Zenon
<1>6. CASE new # c.last /\ ~(Inserts(c, new, row) \/ Removes(c, new, row))
  <2> DEFINE e == line_colors_cache_invalidate_all(c)
  <2>1. e \in Cache
    BY InvalidateIs
  <2>2. \/ highlight_cache_sync(c, new, row) = [c EXCEPT !.last = new]
        \/ highlight_cache_sync(c, new, row) = [e EXCEPT !.last = new]
    BY <1>6, Zenon DEF highlight_cache_sync
  <2>3. new \in Int
    OBVIOUS
  <2> HIDE DEF e
  <2>4. /\ [c EXCEPT !.last = new] \in Cache /\ [c EXCEPT !.last = new].last = new
        /\ [e EXCEPT !.last = new] \in Cache /\ [e EXCEPT !.last = new].last = new
    BY <2>1, <2>3, SetLast
  <2> QED BY <2>2, <2>4, Zenon
<1> QED
  BY <1>4, <1>5, <1>6

\* block_comment_open_grow: the states it adds are FALSE, as those out of range.
LEMMA OpenGrowIs ==
  ASSUME NEW c \in Cache, NEW needed \in Nat
  PROVE  LET d == block_comment_open_grow(c, needed)
         IN  /\ d \in Cache /\ d.slots = c.slots /\ d.last = c.last
             /\ Len(d.open) >= needed
             /\ \A r \in Nat : OpenAt(d, r) = OpenAt(c, r)
<1> DEFINE o == Grown(c.open, needed, FALSE)
           d == [c EXCEPT !.open = o]
<1>1. block_comment_open_grow(c, needed) = d
  BY Zenon DEF block_comment_open_grow
<1>2. c.open \in Seq(BOOLEAN) /\ Len(c.open) \in Nat /\ FALSE \in BOOLEAN
  BY CacheFields
<1>3. o \in Seq(BOOLEAN) /\ Len(o) \in Nat /\ Len(o) >= Len(c.open) /\ Len(o) >= needed
  BY <1>2, GrownIs
<1>4. \A i \in 1 .. Len(o) : o[i] = IF i <= Len(c.open) THEN c.open[i] ELSE FALSE
  <2> SUFFICES ASSUME NEW B, NEW a \in Seq(B), NEW new \in B,
                      NEW i \in 1 .. Len(Grown(a, needed, new))
               PROVE  Grown(a, needed, new)[i] = IF i <= Len(a) THEN a[i] ELSE new
    BY <1>2, Zenon
  <2> QED BY GrownIs
<1> HIDE DEF o
<1>5. d \in Cache /\ d.slots = c.slots /\ d.open = o /\ d.last = c.last
  BY <1>3, SetOpen
<1> HIDE DEF d
<1>6. ASSUME NEW r \in Nat PROVE OpenAt(d, r) = OpenAt(c, r)
  <2>1. CASE r < Len(c.open)
    <3>1. r < Len(o) /\ r + 1 \in 1 .. Len(o) /\ r + 1 <= Len(c.open)
      BY <1>2, <1>3, <2>1
    <3>2. o[r + 1] = c.open[r + 1]
      BY <1>4, <3>1
    <3> QED BY <1>5, <2>1, <3>1, <3>2, OpenAtIs
  <2>2. CASE ~(r < Len(c.open)) /\ r < Len(o)
    <3>1. r + 1 \in 1 .. Len(o) /\ ~(r + 1 <= Len(c.open))
      BY <1>2, <1>3, <2>2
    <3>2. o[r + 1] = FALSE
      BY <1>4, <3>1
    <3> QED BY <1>5, <2>2, <3>2, OpenAtIs
  <2>3. CASE ~(r < Len(o))
    <3>1. ~(r < Len(c.open))
      BY <1>2, <1>3, <2>3
    <3> QED BY <1>5, <2>3, <3>1, OpenAtIs
  <2> QED BY <2>1, <2>2, <2>3
<1> QED
  BY <1>1, <1>3, <1>5, <1>6

\* highlight_cache_get_line of the rows that a full repaint draws.
LEMMA GetLinesIs ==
  ASSUME NEW c \in Cache, NEW text \in Seq(Text), NEW wanted \in SUBSET (0 .. Len(text) - 1)
  PROVE  /\ highlight_cache_get_lines(c, text, wanted) \in Cache
         /\ highlight_cache_get_lines(c, text, wanted).last = c.last
<1> DEFINE top == Max({0} \cup {r + 1 : r \in wanted})
           s == Grown(c.slots, top, None)
           open(r) == r < Len(c.open) /\ c.open[r + 1]
           x == [i \in 1 .. Len(s) |->
                   IF i - 1 \in wanted /\ s[i] = None
                   THEN Recoloured(None, text[i], open(i - 1)) ELSE s[i]]
<1>1. highlight_cache_get_lines(c, text, wanted) = [c EXCEPT !.slots = x]
  BY Zenon DEF highlight_cache_get_lines
<1>2. top \in Nat
  <2> DEFINE T == {0} \cup {r + 1 : r \in wanted}
  <2>1. Len(text) \in Nat /\ T \subseteq 0 .. Len(text) /\ T # {}
    OBVIOUS
  <2> HIDE DEF T
  <2>2. Max(T) \in T
    BY <2>1, MaxIs
  <2> QED BY <2>1, <2>2 DEF T
<1> HIDE DEF top
<1>3. s \in Seq(Buffer \cup {None}) /\ Len(s) \in Nat
  <2> DEFINE B == Buffer \cup {None}
  <2>1. c.slots \in Seq(B) /\ None \in B
    BY CacheFields DEF Slots
  <2> HIDE DEF B
  <2>2. s \in Seq(B) /\ Len(s) \in Nat
    BY <1>2, <2>1, GrownIs
  <2> QED BY <2>2 DEF B
<1> HIDE DEF s
<1>4. ASSUME NEW i \in 1 .. Len(s) PROVE x[i] \in Buffer \cup {None}
  <2>1. CASE i - 1 \in wanted /\ s[i] = None
    <3>1. open(i - 1) \in BOOLEAN /\ text[i] \in Text
      BY <2>1
    <3> DEFINE b == open(i - 1)
    <3>2. x[i] = Recoloured(None, text[i], b)
      BY <2>1, Zenon
    <3>3. b \in BOOLEAN /\ None \in Buffer \cup {None}
      BY <3>1
    <3> HIDE DEF b, x
    <3>4. Recoloured(None, text[i], b) \in Buffer \cup {None}
      BY <3>1, <3>3, RecolouredIs, Zenon
    <3> QED BY <3>2, <3>4, Zenon
  <2>2. CASE ~(i - 1 \in wanted /\ s[i] = None)
    <3>1. x[i] = s[i]
      BY <2>2, Zenon
    <3> QED BY <1>3, <3>1
  <2> QED BY <2>1, <2>2
<1>5. x \in Slots
  <2>1. x \in [1 .. Len(s) -> Buffer \cup {None}]
    <3>1. DOMAIN x = 1 .. Len(s) /\ x = [i \in 1 .. Len(s) |-> x[i]]
      BY Zenon
    <3> HIDE DEF x
    <3> QED BY <1>4, <3>1
  <2> HIDE DEF x
  <2> QED BY <1>3, <2>1 DEF Slots
<1> HIDE DEF x
<1>6. [c EXCEPT !.slots = x] \in Cache /\ [c EXCEPT !.slots = x].last = c.last
  BY <1>5, SetSlots
<1> QED
  BY <1>1, <1>6, Zenon

\* highlight_cache_set_language: comment states anew, no colours.
LEMMA SetLanguageIs ==
  ASSUME NEW c \in Cache, NEW text \in Seq(Text)
  PROVE  /\ highlight_cache_set_language(c, text, TRUE) \in Cache
         /\ highlight_cache_set_language(c, text, TRUE).last = 0
<1> DEFINE e == line_colors_cache_invalidate_all(c)
           g == block_comment_open_grow(e, Len(text) + 1)
           st == StatesC(text, 0, FALSE)
           o == [i \in 1 .. Len(g.open) |-> IF i <= Len(text) THEN st[i - 1] ELSE g.open[i]]
<1>1. highlight_cache_set_language(c, text, TRUE) = [g EXCEPT !.open = o]
  BY Zenon DEF highlight_cache_set_language, StatesC
<1>2. e \in Cache /\ e.last = 0
  BY InvalidateIs
<1>3. Len(text) + 1 \in Nat /\ Len(text) \in Nat /\ 0 \in 0 .. Len(text)
  OBVIOUS
<1> HIDE DEF e
<1>4. g \in Cache /\ g.last = 0
  BY <1>2, <1>3, OpenGrowIs
<1>5. \A r \in 0 .. Len(text) : st[r] \in BOOLEAN
  BY <1>3, StatesAre
<1> HIDE DEF g, st
<1>6. o \in Seq(BOOLEAN)
  <2>1. g.open \in Seq(BOOLEAN) /\ Len(g.open) \in Nat
    BY <1>4, CacheFields
  <2>2. \A i \in 1 .. Len(g.open) : i <= Len(text) => i - 1 \in 0 .. Len(text)
    BY <1>3, <2>1
  <2> QED BY <1>5, <2>1, <2>2
<1> HIDE DEF o
<1>7. [g EXCEPT !.open = o] \in Cache /\ [g EXCEPT !.open = o].last = g.last
  BY <1>4, <1>6, SetOpen
<1> QED
  BY <1>1, <1>4, <1>7, Zenon

\* The repaint of a row of C.
Rebuilt(c, text, row) == highlight_cache_rebuild_from(c, text, row, TRUE)

\* highlight_cache_rebuild_from computes the comment states below the row until
\* one of them is what it was, colours the rows it passes, and frees the colours
\* of the one it stops before if its state changed.
THEOREM RebuildIs ==
  ASSUME NEW c \in Cache, NEW text \in Seq(Text), NEW row \in 0 .. Len(text) - 1
  PROVE  \E st, stop :
           LET d == Rebuilt(c, text, row)
           IN  /\ d \in Cache /\ d.last = c.last
               /\ stop \in row .. Len(text) - 1
               /\ st[row] = OpenAt(c, row)
               /\ \A r \in row + 1 .. Len(text) :
                    st[r] = After[text[r]][st[r - 1]]
               /\ stop < Len(text) - 1 => st[stop + 1] = OpenAt(c, stop + 1)
               /\ \A r \in row + 1 .. stop + 1 : OpenAt(d, r) = st[r]
               /\ \A r \in Nat : r \notin row + 1 .. stop + 1 => OpenAt(d, r) = OpenAt(c, r)
               /\ \A r \in row .. stop : text[r + 1] # Blank =>
                    SlotAt(d, r).of = text[r + 1] /\ SlotAt(d, r).in = st[r]
               /\ \A r \in Nat : r \notin row .. stop => SlotAt(d, r) \in {SlotAt(c, r), None}
               /\ \/ SlotAt(d, stop + 1) = None
                  \/ st[stop + 1] = OpenAt(c, stop + 1)
<1> DEFINE total == Len(text)
           g == block_comment_open_grow(c, total + 1)
           st == StatesC(text, row, g.open[row + 1])
           stop == LastRescanned(g.open, st, row, total)
           freed == IF st[stop + 1] = g.open[stop + 2] THEN row + 1 .. stop
                    ELSE row + 1 .. stop + 1
           T == {0} \cup {r + 1 : r \in {r \in row .. stop : Length[text[r + 1]] > 0}}
           longest == Max(T)
           s == line_colors_cache_grow(g, longest).slots
           o == [i \in 1 .. Len(g.open) |->
                   IF i \in row + 2 .. stop + 2 THEN st[i - 1] ELSE g.open[i]]
           b(i) == IF i - 1 \in freed THEN None ELSE s[i]
           x == [i \in 1 .. Len(s) |->
                   IF i - 1 \in row .. stop THEN Recoloured(b(i), text[i], st[i - 1])
                   ELSE b(i)]
           d == Rebuilt(c, text, row)
<1>1. total \in Nat /\ row \in Nat /\ row < total
  OBVIOUS
<1>2. d = [g EXCEPT !.open = o, !.slots = x]
  <2>1. ~(row >= total)
    BY <1>1
  <2> QED BY <2>1, Zenon DEF Rebuilt, highlight_cache_rebuild_from, StatesC
<1>3. /\ g \in Cache /\ g.slots = c.slots /\ g.last = c.last
      /\ Len(g.open) >= total + 1
      /\ \A r \in Nat : OpenAt(g, r) = OpenAt(c, r)
  BY <1>1, OpenGrowIs
<1> HIDE DEF d, g
<1>4. /\ Len(g.open) \in Nat /\ g.open \in Seq(BOOLEAN)
      /\ \A r \in 0 .. total : OpenAt(c, r) = g.open[r + 1] /\ g.open[r + 1] \in BOOLEAN
  <2>1. Len(g.open) \in Nat /\ g.open \in Seq(BOOLEAN)
    BY <1>3, CacheFields
  <2>2. ASSUME NEW r \in 0 .. total
        PROVE  OpenAt(c, r) = g.open[r + 1] /\ g.open[r + 1] \in BOOLEAN
    <3>1. r \in Nat /\ r < Len(g.open) /\ r + 1 \in 1 .. Len(g.open)
      BY <1>1, <1>3, <2>1
    <3>2. OpenAt(g, r) = g.open[r + 1]
      BY <1>3, <3>1, OpenAtIs
    <3>3. OpenAt(c, r) = OpenAt(g, r)
      BY <1>3, <3>1
    <3>4. g.open[r + 1] \in BOOLEAN
      BY <2>1, <3>1
    <3> QED BY <3>2, <3>3, <3>4, Zenon
  <2> QED BY <2>1, <2>2
<1>5. /\ st[row] = OpenAt(c, row)
      /\ \A r \in row .. total : st[r] \in BOOLEAN
      /\ \A r \in row + 1 .. total : st[r] = After[text[r]][st[r - 1]]
  <2>1. row \in 0 .. total
    BY <1>1
  <2> DEFINE start == g.open[row + 1]
  <2>2. start \in BOOLEAN /\ start = OpenAt(c, row)
    BY <1>4, <2>1, Zenon
  <2>3. st = StatesC(text, row, start)
    BY Zenon
  <2> HIDE DEF start
  <2>4. /\ StatesC(text, row, start)[row] = start
        /\ \A r \in row .. Len(text) : StatesC(text, row, start)[r] \in BOOLEAN
        /\ \A r \in row + 1 .. Len(text) :
             StatesC(text, row, start)[r] = After[text[r]][StatesC(text, row, start)[r - 1]]
    <3>1. row \in 0 .. Len(text)
      BY <2>1
    <3>2. text \in Seq(Text) /\ start \in BOOLEAN
      BY <2>2
    <3>3. StatesC(text, row, start)[row] = start
      BY <3>1, <3>2, StatesAre
    <3>4. \A r \in row .. Len(text) : StatesC(text, row, start)[r] \in BOOLEAN
      BY <3>1, <3>2, StatesAre
    <3>5. \A r \in row + 1 .. Len(text) :
             StatesC(text, row, start)[r] = After[text[r]][StatesC(text, row, start)[r - 1]]
      BY <3>1, <3>2, StatesAre
    <3> QED BY <3>3, <3>4, <3>5, Zenon
  <2> HIDE DEF st
  <2> QED BY <2>2, <2>3, <2>4, Zenon
<1> HIDE DEF st, total
<1>6. /\ stop \in row .. total - 1
      /\ stop < total - 1 => st[stop + 1] = g.open[stop + 2]
  <2> DEFINE R == {r \in row .. total - 1 : g.open[r + 2] = st[r + 1]}
  <2>1. {total - 1} \cup R \subseteq Nat
    BY <1>1
  <2>2. stop = Min({total - 1} \cup R)
    BY Zenon DEF LastRescanned
  <2>3. \A r \in R : r \in row .. total - 1 /\ g.open[r + 2] = st[r + 1]
    OBVIOUS
  <2> HIDE DEF stop, R
  <2>4. stop \in {total - 1} \cup R
    BY <2>1, <2>2, MinIs
  <2> QED BY <1>1, <2>3, <2>4
<1> HIDE DEF stop
<1>7. longest \in Nat /\ \A r \in row .. stop : text[r + 1] # Blank => r + 1 <= longest
  <2>1. T \subseteq 0 .. total /\ T # {}
    BY <1>1, <1>6
  <2>2. \A r \in row .. stop : text[r + 1] # Blank => r + 1 \in T
    <3> TAKE r \in row .. stop
    <3>1. r + 1 \in 1 .. total
      BY <1>1, <1>6
    <3>2. text[r + 1] \in Text
      BY <3>1 DEF total
    <3>3. text[r + 1] # Blank => Length[text[r + 1]] > 0
      BY <3>2, TextAssumption
    <3> QED BY <3>3
  <2> HIDE DEF T
  <2>3. longest \in T /\ \A y \in T : y <= longest
    BY <1>1, <2>1, MaxIs
  <2> HIDE DEF longest
  <2> QED BY <1>1, <2>1, <2>2, <2>3
<1> HIDE DEF longest
<1>8. /\ s \in Seq(Buffer \cup {None}) /\ Len(s) \in Nat /\ Len(s) >= longest
      /\ Len(s) >= Len(c.slots) /\ Len(c.slots) \in Nat
      /\ \A r \in Nat : r < Len(s) => s[r + 1] = SlotAt(c, r)
      /\ \A r \in Nat : ~(r < Len(s)) => SlotAt(c, r) = None
  <2> DEFINE e == line_colors_cache_grow(g, longest)
  <2>1. /\ e \in Cache /\ Len(e.slots) >= longest /\ Len(e.slots) >= Len(g.slots)
        /\ \A r \in Nat : SlotAt(e, r) = SlotAt(g, r)
    BY <1>3, <1>7, GrowIs
  <2>2. \A r \in Nat : SlotAt(g, r) = SlotAt(c, r)
    BY <1>3 DEF SlotAt
  <2>3. e.slots = s
    OBVIOUS
  <2> HIDE DEF e, s
  <2>4. s \in Seq(Buffer \cup {None}) /\ Len(s) \in Nat /\ Len(c.slots) \in Nat
    BY <2>1, <2>3, CacheFields DEF Slots
  <2>5. \A r \in Nat : r < Len(s) => s[r + 1] = SlotAt(e, r)
    BY <2>1, <2>3, SlotAtIs
  <2>6. \A r \in Nat : ~(r < Len(s)) => SlotAt(e, r) = None
    BY <2>1, <2>3, SlotAtIs
  <2> QED BY <1>3, <2>1, <2>2, <2>3, <2>4, <2>5, <2>6
<1> HIDE DEF s
<1>9. freed \in SUBSET Int
  BY <1>6
<1>10. \A r \in freed : r \in row + 1 .. stop + 1
  BY <1>6
<1>11. stop + 1 \in freed \/ st[stop + 1] = g.open[stop + 2]
  BY <1>1, <1>6
<1> HIDE DEF freed
<1>12. ASSUME NEW i \in 1 .. Len(s)
       PROVE  /\ x[i] \in Buffer \cup {None}
              /\ i - 1 \notin row .. stop => x[i] \in {s[i], None}
              /\ i - 1 = stop + 1 /\ i - 1 \in freed => x[i] = None
              /\ i - 1 \in row .. stop /\ text[i] # Blank =>
                   x[i].of = text[i] /\ x[i].in = st[i - 1]
  <2>1. b(i) \in Buffer \cup {None} /\ b(i) \in {s[i], None}
    BY <1>8
  <2>2. i - 1 \in freed => b(i) = None
    OBVIOUS
  <2>3. CASE i - 1 \in row .. stop
    <3>1. text[i] \in Text /\ st[i - 1] \in BOOLEAN /\ i - 1 # stop + 1
      BY <1>1, <1>5, <1>6, <2>3 DEF total
    <3> DEFINE bi == b(i)
               in == st[i - 1]
    <3>2. x[i] = Recoloured(bi, text[i], in)
      BY <2>3, Zenon
    <3> HIDE DEF x, bi, in
    <3>3. bi \in Buffer \cup {None} /\ in \in BOOLEAN
      BY <2>1, <3>1 DEF bi, in
    <3> DEFINE t == text[i]
    <3> HIDE DEF t
    <3>5. t \in Text
      BY <3>1 DEF t
    <3>6. /\ Recoloured(bi, t, in) \in Buffer \cup {None}
          /\ t # Blank => /\ Recoloured(bi, t, in).of = t
                          /\ Recoloured(bi, t, in).in = in
      BY <3>3, <3>5, RecolouredIs, ZenonT(40)
    <3>4. /\ Recoloured(bi, text[i], in) \in Buffer \cup {None}
          /\ text[i] # Blank => /\ Recoloured(bi, text[i], in).of = text[i]
                                /\ Recoloured(bi, text[i], in).in = in
      BY <3>6, Zenon DEF t
    <3> QED BY <2>3, <3>1, <3>2, <3>4 DEF in
  <2>4. CASE i - 1 \notin row .. stop
    <3>1. x[i] = b(i)
      BY <2>4, Zenon
    <3> HIDE DEF x, b
    <3> QED BY <2>1, <2>2, <2>4, <3>1
  <2> QED BY <2>3, <2>4
<1>13. x \in Slots /\ Len(x) = Len(s)
  <2>1. DOMAIN x = 1 .. Len(s) /\ x = [i \in 1 .. Len(s) |-> x[i]]
    BY Zenon
  <2> HIDE DEF x
  <2>2. x \in [1 .. Len(s) -> Buffer \cup {None}]
    BY <1>12, <2>1
  <2> QED BY <1>8, <2>2 DEF Slots
<1>14. /\ o \in Seq(BOOLEAN) /\ Len(o) = Len(g.open)
       /\ \A i \in 1 .. Len(g.open) :
            o[i] = IF i \in row + 2 .. stop + 2 THEN st[i - 1] ELSE g.open[i]
  <2>1. \A i \in row + 2 .. stop + 2 : i - 1 \in row .. total
    BY <1>1, <1>6
  <2> QED BY <1>4, <1>5, <2>1
<1> HIDE DEF x, o
<1>15. d \in Cache /\ d.open = o /\ d.slots = x /\ d.last = c.last
  <2> DEFINE y == [g EXCEPT !.open = o]
  <2>1. y \in Cache /\ y.open = o /\ y.last = g.last
    BY <1>3, <1>14, SetOpen
  <2>2. d = [y EXCEPT !.slots = x]
    BY <1>2, <1>3 DEF Cache
  <2> HIDE DEF y
  <2> QED BY <1>3, <1>13, <2>1, <2>2, SetSlots
<1>16. ASSUME NEW r \in Nat, r \in row + 1 .. stop + 1
       PROVE  OpenAt(d, r) = st[r]
  <2>1. /\ r + 1 \in 1 .. Len(g.open) /\ r + 1 \in row + 2 .. stop + 2
        /\ r < Len(g.open) /\ (r + 1) - 1 = r
    BY <1>1, <1>3, <1>4, <1>6, <1>16, SMTT(30)
  <2>2. o[r + 1] = st[r]
    BY <1>14, <2>1
  <2> QED BY <1>14, <1>15, <2>1, <2>2, OpenAtIs
<1>17. ASSUME NEW r \in Nat, r \notin row + 1 .. stop + 1
       PROVE  OpenAt(d, r) = OpenAt(c, r)
  <2>1. OpenAt(c, r) = OpenAt(g, r)
    BY <1>3
  <2>2. CASE r < Len(g.open)
    <3>1. r + 1 \in 1 .. Len(g.open) /\ r + 1 \notin row + 2 .. stop + 2
      BY <1>1, <1>4, <1>6, <1>17, <2>2, SMTT(30)
    <3>2. o[r + 1] = g.open[r + 1]
      BY <1>14, <3>1
    <3>3. OpenAt(d, r) = o[r + 1]
      BY <1>3, <1>14, <1>15, <2>2, OpenAtIs
    <3>4. OpenAt(g, r) = g.open[r + 1]
      BY <1>3, <2>2, OpenAtIs
    <3> QED BY <2>1, <3>2, <3>3, <3>4, Zenon
  <2>3. CASE ~(r < Len(g.open))
    BY <1>3, <1>14, <1>15, <2>1, <2>3, OpenAtIs
  <2> QED BY <2>2, <2>3
<1>18. ASSUME NEW r \in row .. stop, text[r + 1] # Blank
       PROVE  SlotAt(d, r).of = text[r + 1] /\ SlotAt(d, r).in = st[r]
  <2>1. r \in Nat /\ r + 1 \in 1 .. Len(s) /\ (r + 1) - 1 = r /\ r < Len(s)
    BY <1>1, <1>6, <1>7, <1>8, <1>18
  <2>2. x[r + 1].of = text[r + 1] /\ x[r + 1].in = st[r]
    BY <1>12, <1>18, <2>1
  <2> QED BY <1>13, <1>15, <2>1, <2>2, SlotAtIs
<1>19. ASSUME NEW r \in Nat, r \notin row .. stop
       PROVE  /\ SlotAt(d, r) \in {SlotAt(c, r), None}
              /\ r = stop + 1 /\ r \in freed => SlotAt(d, r) = None
  <2>1. CASE r < Len(s)
    <3>1. r + 1 \in 1 .. Len(s) /\ (r + 1) - 1 = r
      BY <1>8, <2>1
    <3>2. SlotAt(d, r) = x[r + 1] /\ s[r + 1] = SlotAt(c, r)
      BY <1>8, <1>13, <1>15, <2>1, SlotAtIs
    <3> QED BY <1>12, <1>19, <3>1, <3>2
  <2>2. CASE ~(r < Len(s))
    BY <1>13, <1>15, <2>2, SlotAtIs
  <2> QED BY <2>1, <2>2
<1>20. stop + 1 \in Nat /\ stop + 1 \notin row .. stop /\ stop + 1 \in 0 .. total
       /\ (stop + 1) + 1 = stop + 2
  BY <1>1, <1>6
<1>21. OpenAt(c, stop + 1) = g.open[stop + 2]
  BY <1>4, <1>20
<1>22. SlotAt(d, stop + 1) = None \/ st[stop + 1] = OpenAt(c, stop + 1)
  BY <1>11, <1>19, <1>20, <1>21
<1>23. stop < total - 1 => st[stop + 1] = OpenAt(c, stop + 1)
  BY <1>6, <1>21
<1>24. \A r \in row + 1 .. stop + 1 : r \in Nat
  BY <1>1
<1>25. /\ d \in Cache /\ d.last = c.last
       /\ stop \in row .. Len(text) - 1
       /\ st[row] = OpenAt(c, row)
       /\ \A r \in row + 1 .. Len(text) : st[r] = After[text[r]][st[r - 1]]
       /\ stop < Len(text) - 1 => st[stop + 1] = OpenAt(c, stop + 1)
  BY <1>5, <1>6, <1>15, <1>23 DEF total
<1>26. /\ \A r \in row + 1 .. stop + 1 : OpenAt(d, r) = st[r]
       /\ \A r \in Nat : r \notin row + 1 .. stop + 1 => OpenAt(d, r) = OpenAt(c, r)
  BY <1>16, <1>17, <1>24
<1> WITNESS st, stop
<1> QED
  BY <1>18, <1>19, <1>22, <1>25, <1>26, Zenon DEF d

-----------------------------------------------------------------------------
(* The handlers and the frame keep the types                               *)

Inv == /\ rows \in Rows /\ crow \in Nat /\ prow \in Nat
       /\ pending \in Modes
       /\ h \in Cache /\ h.last \in 0 .. MaxRows

TextOK == rows \in Rows /\ crow \in Nat
RequestOK == pending \in Modes

\* A text is a sequence of at least one row.
LEMMA RowsAre ==
  \A text : text \in Rows <=> text \in Seq(Text) /\ Len(text) \in 1 .. MaxRows
<1>1. MaxRows \in Nat
  BY RowsAssumption
<1>2. ASSUME NEW text \in Rows PROVE text \in Seq(Text) /\ Len(text) \in 1 .. MaxRows
  <2>1. PICK n \in 1 .. MaxRows : text \in [1 .. n -> Text]
    BY DEF Rows
  <2>2. n \in Nat
    BY <1>1
  <2> QED BY <2>1, <2>2
<1>3. ASSUME NEW text \in Seq(Text), Len(text) \in 1 .. MaxRows PROVE text \in Rows
  <2>1. text \in [1 .. Len(text) -> Text]
    OBVIOUS
  <2> QED BY <1>3, <2>1 DEF Rows
<1> QED
  BY <1>2, <1>3

\* Rows taken out of a text and others put in.
LEMMA ReplacedIs ==
  ASSUME rows \in Seq(Text), NEW sr \in 0 .. Len(rows), NEW er \in sr - 1 .. Len(rows) - 1,
         NEW new \in Seq(Text)
  PROVE  /\ Replaced(sr, er, new) \in Seq(Text)
         /\ Len(Replaced(sr, er, new)) = Len(rows) - (er - sr + 1) + Len(new)
<1> DEFINE top == SubSeq(rows, 1, sr)
           rest == SubSeq(rows, er + 2, Len(rows))
<1>1. Len(rows) \in Nat /\ Len(new) \in Nat
  OBVIOUS
<1>2. top \in Seq(Text) /\ Len(top) = sr
  <2>1. \A i \in 1 .. sr : rows[i] \in Text
    BY <1>1
  <2>2. top \in Seq(Text) /\ Len(top) = IF 1 <= sr THEN sr - 1 + 1 ELSE 0
    BY <1>1, <2>1, SubSeqProperties
  <2> HIDE DEF top
  <2> QED BY <1>1, <2>2
<1>3. rest \in Seq(Text) /\ Len(rest) = Len(rows) - er - 1
  <2>1. er + 2 \in Int /\ Len(rows) \in Int /\ \A i \in er + 2 .. Len(rows) : rows[i] \in Text
    BY <1>1
  <2>2. rest \in Seq(Text)
        /\ Len(rest) = IF er + 2 <= Len(rows) THEN Len(rows) - (er + 2) + 1 ELSE 0
    BY <2>1, SubSeqProperties
  <2> HIDE DEF rest
  <2> QED BY <1>1, <2>2
<1>4. Replaced(sr, er, new) = (top \o new) \o rest
  BY DEF Replaced
<1> HIDE DEF top, rest
<1>5. top \o new \in Seq(Text) /\ Len(top \o new) = Len(top) + Len(new)
  BY <1>2
<1> DEFINE q == top \o new
<1>6. q \in Seq(Text) /\ Len(q) = sr + Len(new)
  BY <1>2, <1>5
<1> HIDE DEF q
<1>7. q \o rest \in Seq(Text) /\ Len(q \o rest) = Len(q) + Len(rest)
  BY <1>3, <1>6, ConcatProperties
<1> QED
  BY <1>1, <1>3, <1>4, <1>6, <1>7 DEF q

\* A request is one of the modes, however often it is merged.
LEMMA AsksKeeps ==
  ASSUME RequestOK, NEW modes, modes \subseteq Modes
  PROVE  Asks(modes) => RequestOK'
<1> SUFFICES ASSUME NEW m \in modes, pending' = Merged(pending, m) PROVE pending' \in Modes
  BY DEF Asks, RequestOK
<1>1. FULL \in Modes /\ pending \in Modes /\ m \in Modes
  BY DEF Modes, RequestOK
<1>2. Merged(pending, m) \in {FULL, m, pending}
  BY DEF Merged
<1> QED
  BY <1>1, <1>2

\* What the handlers ask for.
LEMMA AskedModes ==
  /\ {FULL} \subseteq Modes /\ {STATUS} \subseteq Modes /\ {MOUSE, STATUS} \subseteq Modes
  /\ Widened(LINE) \subseteq Modes /\ Widened(CHAR) \subseteq Modes
  /\ Widened(REMOTE_LINE) \subseteq Modes
BY DEF Modes, Widened

\* The text as a sequence.
LEMMA TextIs ==
  ASSUME TextOK
  PROVE  /\ rows \in Seq(Text) /\ Len(rows) \in Nat /\ Len(rows) >= 1
         /\ Len(rows) <= MaxRows /\ crow \in Nat /\ MaxRows \in Nat
         /\ Blank \in Text
BY RowsAre, RowsAssumption, TextAssumption DEF TextOK

\* A row that becomes another text.
LEMMA ResizeKeeps ==
  ASSUME TextOK, NEW r \in 0 .. Len(rows) - 1, NEW t \in Text,
         rows' = [rows EXCEPT ![r + 1] = t]
  PROVE  rows' \in Rows
<1> DEFINE new == [rows EXCEPT ![r + 1] = t]
<1>1. r + 1 \in 1 .. Len(rows)
  BY TextIs
<1>2. new \in Seq(Text) /\ Len(new) = Len(rows)
  BY <1>1, TextIs, ExceptSeq
<1>3. Len(new) \in 1 .. MaxRows
  <2> HIDE DEF new
  <2> QED BY <1>2, TextIs
<1>4. new \in Rows
  <2> HIDE DEF new
  <2> QED BY <1>2, <1>3, RowsAre
<1> QED
  BY <1>4

\* A row that becomes two.
LEMMA SplitKeeps ==
  ASSUME TextOK, NEW r \in 0 .. Len(rows) - 1, Split(r)
  PROVE  rows' \in Rows
<1>1. PICK t, u \in Text : rows' = Replaced(r, r, <<t, u>>)
  BY DEF Split
<1>2. <<t, u>> \in Seq(Text) /\ Len(<<t, u>>) = 2
  OBVIOUS
<1>3. Len(rows) < MaxRows /\ r \in 0 .. Len(rows) /\ r \in r - 1 .. Len(rows) - 1
  BY TextIs DEF Split
<1>4. rows' \in Seq(Text) /\ Len(rows') = Len(rows) - (r - r + 1) + 2
  <2> DEFINE new == <<t, u>>
  <2>1. new \in Seq(Text) /\ Len(new) = 2 /\ rows' = Replaced(r, r, new)
    BY <1>1, <1>2
  <2> HIDE DEF new
  <2> QED BY <1>3, <2>1, TextIs, ReplacedIs
<1> QED
  BY <1>3, <1>4, TextIs, RowsAre

\* Two rows that become one.
LEMMA JoinKeeps ==
  ASSUME TextOK, NEW r \in Int, r >= 0, r + 1 <= Len(rows) - 1, Join(r)
  PROVE  rows' \in Rows
<1>1. PICK t \in Text : rows' = Replaced(r, r + 1, <<t>>)
  BY DEF Join
<1>2. <<t>> \in Seq(Text) /\ Len(<<t>>) = 1
  OBVIOUS
<1>3. r \in 0 .. Len(rows) /\ r + 1 \in r - 1 .. Len(rows) - 1
  BY TextIs
<1>4. rows' \in Seq(Text) /\ Len(rows') = Len(rows) - (r + 1 - r + 1) + 1
  <2> DEFINE new == <<t>>
             er == r + 1
  <2>1. /\ new \in Seq(Text) /\ Len(new) = 1 /\ rows' = Replaced(r, er, new)
        /\ er \in r - 1 .. Len(rows) - 1
    BY <1>1, <1>2, <1>3
  <2> HIDE DEF new, er
  <2>2. rows' \in Seq(Text) /\ Len(rows') = Len(rows) - (er - r + 1) + 1
    BY <1>3, <2>1, TextIs, ReplacedIs
  <2> QED BY <2>2 DEF er
<1> QED
  BY <1>4, TextIs, RowsAre

\* A key or a packet leaves the cache alone.
LEMMA CacheKept ==
  ASSUME Inv, TextOK', RequestOK', UNCHANGED <<prow, h>>
  PROVE  Inv'
BY DEF Inv, TextOK, RequestOK

\* The parts of Inv that a handler works on.
LEMMA Parts == Inv => TextOK /\ RequestOK
BY DEF Inv, TextOK, RequestOK

\* Keys.
LEMMA KeysKeep ==
  ASSUME Inv, TypeChar \/ EraseInRow \/ Enter \/ JoinUp \/ Arrow
  PROVE  Inv'
<1>1. TextOK /\ RequestOK /\ crow \in 0 .. Len(rows) - 1 /\ UNCHANGED <<prow, h>>
  BY Parts DEF TypeChar, EraseInRow, Enter, JoinUp, Arrow, Key, InText
<1>2. CASE TypeChar \/ EraseInRow
  <2>1. PICK t \in Text : rows' = [rows EXCEPT ![crow + 1] = t]
    BY <1>2 DEF TypeChar, EraseInRow, Resize
  <2>2. Asks(Widened(LINE)) /\ UNCHANGED crow
    BY <1>2 DEF TypeChar, EraseInRow
  <2>3. rows' \in Rows
    BY <1>1, <2>1, ResizeKeeps
  <2> QED BY <1>1, <2>2, <2>3, AsksKeeps, AskedModes, TextIs, CacheKept DEF TextOK
<1>3. CASE Enter
  <2>1. rows' \in Rows
    BY <1>1, <1>3, SplitKeeps DEF Enter
  <2>2. crow' = crow + 1 /\ Asks({FULL})
    BY <1>3 DEF Enter
  <2>3. crow' \in Nat
    BY <1>1, <2>2, TextIs
  <2> QED BY <1>1, <2>1, <2>2, <2>3, AsksKeeps, AskedModes, CacheKept DEF TextOK
<1>4. CASE JoinUp
  <2>1. crow > 0 /\ Join(crow - 1) /\ crow' = crow - 1 /\ Asks({FULL})
    BY <1>4 DEF JoinUp
  <2>2. crow - 1 \in Int /\ crow - 1 >= 0 /\ crow - 1 + 1 <= Len(rows) - 1 /\ crow' \in Nat
    BY <1>1, <2>1, TextIs
  <2>3. rows' \in Rows
    BY <1>1, <2>1, <2>2, JoinKeeps
  <2> QED BY <1>1, <2>1, <2>2, <2>3, AsksKeeps, AskedModes, CacheKept DEF TextOK
<1>5. CASE Arrow
  <2>1. crow' \in Nat /\ Asks(Widened(CHAR)) /\ rows' = rows
    BY <1>1, <1>5, TextIs DEF Arrow, InText
  <2> QED BY <1>1, <2>1, AsksKeeps, AskedModes, CacheKept DEF TextOK
<1> QED
  BY <1>2, <1>3, <1>4, <1>5

\* A selection that is replaced.
LEMMA ReplacesKeeps ==
  ASSUME TextOK, NEW news, news \subseteq Seq(Text) \ {<< >>}, Replaces(news)
  PROVE  TextOK'
<1>1. PICK sr \in 0 .. crow, er \in crow .. Len(rows) - 1, new \in news :
        /\ Len(rows) - (er - sr + 1) + Len(new) <= MaxRows
        /\ rows' = Replaced(sr, er, new)
        /\ crow' = sr + Len(new) - 1
  BY DEF Replaces
<1>2. new \in Seq(Text) /\ Len(new) \in Nat /\ Len(new) >= 1
  BY <1>1
<1>3. sr \in 0 .. Len(rows) /\ er \in sr - 1 .. Len(rows) - 1 /\ crow' \in Nat
  BY <1>1, <1>2, TextIs
<1>4. rows' \in Seq(Text) /\ Len(rows') = Len(rows) - (er - sr + 1) + Len(new)
  BY <1>1, <1>2, <1>3, TextIs, ReplacedIs
<1>5. Len(rows') \in 1 .. MaxRows
  BY <1>1, <1>2, <1>3, <1>4, TextIs
<1> QED
  BY <1>3, <1>4, <1>5, RowsAre DEF TextOK

\* The commands that replace a selection keep the types.
LEMMA SelectionsKeep ==
  ASSUME Inv, ReplaceSelection \/ PasteNothing
  PROVE  Inv'
<1>1. TextOK /\ RequestOK /\ UNCHANGED <<prow, h>>
  BY Parts DEF ReplaceSelection, PasteNothing, Key
<1>2. CASE ReplaceSelection
  <2>1. Replaces(Pasted) /\ Asks({FULL}) /\ Pasted \subseteq Seq(Text) \ {<< >>}
    BY <1>2, RowsAssumption DEF ReplaceSelection
  <2> QED BY <1>1, <2>1, ReplacesKeeps, AsksKeeps, AskedModes, CacheKept
<1>3. CASE PasteNothing
  <2>1. {<<t>> : t \in Text} \subseteq Seq(Text) \ {<< >>}
    <3> SUFFICES ASSUME NEW t \in Text PROVE <<t>> \in Seq(Text) \ {<< >>}
      OBVIOUS
    <3>1. <<t>> \in Seq(Text) /\ Len(<<t>>) = 1 /\ Len(<< >>) = 0
      OBVIOUS
    <3> QED BY <3>1
  <2>2. Replaces({<<t>> : t \in Text}) /\ Asks({STATUS})
    BY <1>3 DEF PasteNothing
  <2> QED BY <1>1, <2>1, <2>2, ReplacesKeeps, AsksKeeps, AskedModes, CacheKept
<1> QED
  BY <1>2, <1>3

\* Another file, a save, the mouse and the rest of the screen.
LEMMA FileSound == ASSUME NEW file \in Files PROVE file \in Rows
<1>1. file \in Seq(Text) \ {<< >>} /\ Len(file) <= MaxRows /\ MaxRows \in Nat
  BY RowsAssumption
<1>2. Len(file) \in Nat /\ Len(file) # 0
  BY <1>1, EmptySeq
<1> QED
  BY <1>1, <1>2, RowsAre

\* So do opening and saving a file, the mouse and the other panels.
LEMMA OthersKeep ==
  ASSUME Inv, OpenFile \/ Save \/ Mouse \/ Elsewhere
  PROVE  Inv'
<1>1. TextOK /\ RequestOK /\ h \in Cache /\ prow \in Nat /\ rows \in Seq(Text)
  BY Parts, TextIs DEF Inv
<1>2. CASE OpenFile
  <2>1. rows' \in Files /\ crow' = 0 /\ Asks({FULL}) /\ UNCHANGED prow
    BY <1>2 DEF OpenFile
  <2>2. h' = highlight_cache_set_language(h, rows', TRUE)
    BY <1>2, Zenon DEF OpenFile
  <2>3. rows' \in Rows /\ rows' \in Seq(Text)
    BY <2>1, FileSound, RowsAre
  <2>4. h' \in Cache /\ h'.last = 0
    BY <1>1, <2>2, <2>3, SetLanguageIs, Zenon
  <2> QED BY <1>1, <2>1, <2>3, <2>4, AsksKeeps, AskedModes, TextIs DEF Inv, RequestOK
<1>3. CASE Save
  <2>1. Asks({FULL}) /\ UNCHANGED <<rows, crow, prow>>
    BY <1>3 DEF Save
  <2>2. h' = highlight_cache_set_language(h, rows, TRUE)
    BY <1>3, Zenon DEF Save
  <2>3. h' \in Cache /\ h'.last = 0
    BY <1>1, <2>2, SetLanguageIs, Zenon
  <2> QED BY <1>1, <2>1, <2>3, AsksKeeps, AskedModes, TextIs DEF Inv, RequestOK, TextOK
<1>4. CASE Mouse
  <2>1. crow' \in Nat /\ Asks({FULL}) /\ UNCHANGED <<rows, prow, h>>
    BY <1>1, <1>4, TextIs DEF Mouse
  <2> QED BY <1>1, <2>1, AsksKeeps, AskedModes, CacheKept DEF TextOK
<1>5. CASE Elsewhere
  BY <1>1, <1>5, AsksKeeps, AskedModes, CacheKept DEF TextOK, Elsewhere
<1> QED
  BY <1>2, <1>3, <1>4, <1>5

\* Packets that change rows.
LEMMA PacketsKeep ==
  ASSUME Inv, RemoteEdit \/ RemoteSplit \/ RemoteJoin \/ UpdateLine
  PROVE  Inv'
<1>1. TextOK /\ RequestOK /\ UNCHANGED <<prow, h>>
  BY Parts DEF RemoteEdit, RemoteSplit, RemoteJoin, UpdateLine, Packet
<1>2. CASE RemoteEdit
  <2>1. PICK r \in 0 .. Len(rows) - 1 :
          Resize(r, {Length[RowAt(r)] - 1, Length[RowAt(r)] + 1})
    BY <1>2 DEF RemoteEdit
  <2>2. PICK t \in Text : rows' = [rows EXCEPT ![r + 1] = t]
    BY <2>1 DEF Resize
  <2>3. rows' \in Rows
    BY <1>1, <2>2, ResizeKeeps
  <2>4. Asks(Widened(REMOTE_LINE)) /\ UNCHANGED crow
    BY <1>2 DEF RemoteEdit
  <2> QED BY <1>1, <2>3, <2>4, AsksKeeps, AskedModes, TextIs, CacheKept DEF TextOK
<1>3. CASE RemoteSplit
  <2>1. PICK r \in 0 .. Len(rows) - 1 : Split(r) /\ Below(r, 1)
    BY <1>3 DEF RemoteSplit
  <2>2. rows' \in Rows
    BY <1>1, <2>1, SplitKeeps
  <2>3. crow' \in Nat
    BY <1>1, <2>1, TextIs DEF Below
  <2>4. Asks(Widened(REMOTE_LINE))
    BY <1>3 DEF RemoteSplit
  <2> QED BY <1>1, <2>2, <2>3, <2>4, AsksKeeps, AskedModes, CacheKept DEF TextOK
<1>4. CASE RemoteJoin
  <2>1. PICK r \in 1 .. Len(rows) - 1 : Join(r - 1) /\ Below(r, -1)
    BY <1>4 DEF RemoteJoin
  <2>2. r - 1 \in Int /\ r - 1 >= 0 /\ r - 1 + 1 <= Len(rows) - 1
    BY <1>1, TextIs
  <2>3. rows' \in Rows
    BY <1>1, <2>1, <2>2, JoinKeeps
  <2>4. crow' \in Nat
    BY <1>1, <2>1, TextIs DEF Below
  <2>5. Asks({FULL})
    BY <1>4 DEF RemoteJoin
  <2> QED BY <1>1, <2>3, <2>4, <2>5, AsksKeeps, AskedModes, CacheKept DEF TextOK
<1>5. CASE UpdateLine
  <2>1. PICK r \in 0 .. Len(rows) - 1, t \in Text : rows' = [rows EXCEPT ![r + 1] = t]
    BY <1>5 DEF UpdateLine
  <2>2. rows' \in Rows
    BY <1>1, <2>1, ResizeKeeps
  <2>3. Asks({FULL}) /\ UNCHANGED crow
    BY <1>5 DEF UpdateLine
  <2> QED BY <1>1, <2>2, <2>3, AsksKeeps, AskedModes, TextIs, CacheKept DEF TextOK
<1> QED
  BY <1>2, <1>3, <1>4, <1>5

\* A block of rows, and a transfer.
LEMMA TransfersKeep ==
  ASSUME Inv, ReplaceBlock \/ FileStart \/ FileLine
  PROVE  Inv'
<1>1. TextOK /\ RequestOK /\ UNCHANGED <<prow, h>>
  BY Parts DEF ReplaceBlock, FileStart, FileLine, Packet
<1>2. CASE ReplaceBlock
  <2>1. PICK start \in 0 .. Len(rows) - 1, inserted \in 1 .. MaxRows :
        \E deleted \in 1 .. Len(rows) - start :
          /\ Len(rows) - deleted + inserted <= MaxRows
          /\ rows' = Replaced(start, start + deleted - 1, [i \in 1 .. inserted |-> Blank])
          /\ Below(start + deleted - 1, inserted - deleted)
    BY <1>2 DEF ReplaceBlock
  <2>2. PICK deleted \in 1 .. Len(rows) - start :
          /\ Len(rows) - deleted + inserted <= MaxRows
          /\ rows' = Replaced(start, start + deleted - 1, [i \in 1 .. inserted |-> Blank])
          /\ Below(start + deleted - 1, inserted - deleted)
    BY <2>1
  <2> DEFINE new == [i \in 1 .. inserted |-> Blank]
             er == start + deleted - 1
  <2>3. inserted \in Nat /\ deleted \in Nat /\ start \in Nat
    BY <1>1, TextIs
  <2>4. new \in Seq(Text) /\ Len(new) = inserted
    BY <1>1, <2>3, TextIs
  <2>5. start \in 0 .. Len(rows) /\ er \in start - 1 .. Len(rows) - 1
    BY <1>1, <2>3, TextIs
  <2>6. rows' = Replaced(start, er, new)
    BY <2>2
  <2> HIDE DEF new, er
  <2>7. rows' \in Seq(Text) /\ Len(rows') = Len(rows) - (er - start + 1) + inserted
    BY <1>1, <2>4, <2>5, <2>6, TextIs, ReplacedIs
  <2>8. Len(rows') \in 1 .. MaxRows
    BY <1>1, <2>2, <2>3, <2>7, TextIs DEF er
  <2>9. rows' \in Rows
    BY <2>7, <2>8, RowsAre
  <2>10. crow' \in Nat
    BY <1>1, <2>2, <2>3, TextIs DEF Below
  <2>11. UNCHANGED pending
    BY <1>2 DEF ReplaceBlock
  <2> QED BY <1>1, <2>9, <2>10, <2>11, CacheKept DEF TextOK, RequestOK
<1>3. CASE FileStart
  <2>1. rows' = <<Blank>> /\ crow' = 0 /\ Asks({FULL})
    BY <1>3 DEF FileStart
  <2>2. <<Blank>> \in Seq(Text) /\ Len(<<Blank>>) = 1 /\ 1 \in 1 .. MaxRows
    BY <1>1, TextIs
  <2>3. rows' \in Rows
    BY <2>1, <2>2, RowsAre
  <2> QED BY <1>1, <2>1, <2>3, AsksKeeps, AskedModes, CacheKept DEF TextOK
<1>4. CASE FileLine
  <2> DEFINE kept == SubSeq(rows, 1, Len(rows) - 1)
  <2>1. kept \in Seq(Text) /\ Len(kept) = Len(rows) - 1
    <3> DEFINE n == Len(rows) - 1
    <3>1. n \in Nat /\ 1 \in Int /\ \A i \in 1 .. n : rows[i] \in Text
      BY <1>1, TextIs
    <3>2. kept = SubSeq(rows, 1, n)
      OBVIOUS
    <3> HIDE DEF kept, n
    <3>3. kept \in Seq(Text)
      BY <3>1, <3>2, SubSeqProperties
    <3>4. Len(kept) = IF 1 <= n THEN n - 1 + 1 ELSE 0
      BY <3>1, <3>2, SubSeqProperties
    <3>5. Len(kept) = n
      BY <3>1, <3>4
    <3> QED BY <3>3, <3>5 DEF n
  <2>2. PICK t \in Text :
          \/ Len(rows) < MaxRows /\ rows' = kept \o <<t, Blank>> /\ UNCHANGED pending
          \/ rows' = kept \o <<t>> /\ Asks({FULL})
    BY <1>4 DEF FileLine
  <2>3. UNCHANGED crow
    BY <1>4 DEF FileLine
  <2> HIDE DEF kept
  <2>4. CASE Len(rows) < MaxRows /\ rows' = kept \o <<t, Blank>> /\ UNCHANGED pending
    <3>1. <<t, Blank>> \in Seq(Text) /\ Len(<<t, Blank>>) = 2
      BY <1>1, TextIs
    <3>2. rows' \in Seq(Text) /\ Len(rows') = Len(rows) - 1 + 2
      BY <1>1, <2>1, <2>4, <3>1, ConcatProperties, TextIs
    <3>3. rows' \in Rows
      <4>1. Len(rows') \in 1 .. MaxRows
        BY <1>1, <2>4, <3>2, TextIs
      <4> QED BY <3>2, <4>1, RowsAre
    <3> QED BY <1>1, <2>3, <2>4, <3>3, CacheKept, TextIs DEF TextOK, RequestOK
  <2>5. CASE rows' = kept \o <<t>> /\ Asks({FULL})
    <3>1. <<t>> \in Seq(Text) /\ Len(<<t>>) = 1
      OBVIOUS
    <3>2. rows' \in Seq(Text) /\ Len(rows') = Len(rows) - 1 + 1
      BY <1>1, <2>1, <2>5, <3>1, ConcatProperties, TextIs
    <3>3. rows' \in Rows
      BY <1>1, <3>2, RowsAre, TextIs
    <3> QED BY <1>1, <2>3, <2>5, <3>3, AsksKeeps, AskedModes, CacheKept, TextIs DEF TextOK
  <2> QED BY <2>2, <2>4, <2>5
<1> QED
  BY <1>2, <1>3, <1>4

\* A row that is no longer there is left alone (if (row >= total) return).
LEMMA RebuildKeeps ==
  ASSUME NEW c \in Cache, NEW text \in Seq(Text), NEW row \in Nat
  PROVE  Rebuilt(c, text, row) \in Cache /\ Rebuilt(c, text, row).last = c.last
<1>1. CASE row >= Len(text)
  BY <1>1, Zenon DEF Rebuilt, highlight_cache_rebuild_from
<1>2. CASE ~(row >= Len(text))
  <2>1. row \in 0 .. Len(text) - 1
    BY <1>2
  <2> QED BY <2>1, RebuildIs
<1> QED
  BY <1>1, <1>2

\* The frame that ends a turn.
LEMMA FrameKeeps ==
  ASSUME Inv, Frame
  PROVE  Inv'
<1>1. /\ h \in Cache /\ h.last \in 0 .. MaxRows /\ prow \in Nat /\ crow \in Nat
      /\ rows \in Seq(Text) /\ Len(rows) \in Nat /\ Len(rows) \in 0 .. MaxRows
  BY Parts, TextIs DEF Inv
<1>2. pending' = NONE /\ UNCHANGED <<rows, crow>> /\ prow' \in {prow, crow}
  BY DEF Frame
<1>3. h' \in Cache /\ h'.last \in 0 .. MaxRows
  <2>1. CASE PaintFull
    <3> DEFINE c == highlight_cache_sync(h, Len(rows), crow)
    <3>1. c \in Cache /\ c.last = Len(rows)
      BY <1>1, SyncIs
    <3>2. Drawn \in SUBSET (0 .. Len(rows) - 1)
      BY DEF Drawn
    <3>3. h' = highlight_cache_get_lines(c, rows, Drawn)
      BY <2>1, Zenon DEF PaintFull
    <3> HIDE DEF c
    <3>4. h' \in Cache /\ h'.last = c.last
      BY <1>1, <3>1, <3>2, <3>3, GetLinesIs
    <3> QED BY <1>1, <3>1, <3>4
  <2>2. CASE PaintLine
    <3> DEFINE c == highlight_cache_free_row(h, crow)
    <3>1. c \in Cache /\ c.last = h.last
      BY <1>1, FreeRowIs
    <3>2. h' = Rebuilt(c, rows, crow)
      BY <2>2, Zenon DEF PaintLine, Rebuilt
    <3> HIDE DEF c
    <3>3. h' \in Cache /\ h'.last = c.last
      BY <1>1, <3>1, <3>2, RebuildKeeps
    <3> QED BY <1>1, <3>1, <3>3
  <2>3. CASE PaintChar
    <3>1. h' = Rebuilt(h, rows, prow)
      BY <2>3, Zenon DEF PaintChar, Rebuilt
    <3> QED BY <1>1, <3>1, RebuildKeeps
  <2>4. CASE PaintOther
    BY <1>1, <2>4 DEF PaintOther
  <2> QED BY <2>1, <2>2, <2>3, <2>4 DEF Frame
<1> QED
  BY <1>1, <1>2, <1>3 DEF Inv, Modes

\* The empty cache and text have their types.
LEMMA InitKeeps == Init => Inv
<1> SUFFICES ASSUME Init PROVE Inv
  OBVIOUS
<1>1. Empty \in Cache
  BY DEF Empty, Cache, Slots
<1>2. rows = <<Blank>> /\ crow = 0 /\ prow = 0 /\ pending = FULL
  BY DEF Init
<1>3. <<Blank>> \in Seq(Text) /\ Len(<<Blank>>) = 1 /\ 1 \in 1 .. MaxRows
  BY TextAssumption, RowsAssumption
<1>4. rows \in Rows /\ rows \in Seq(Text)
  BY <1>2, <1>3, RowsAre
<1>5. h = highlight_cache_set_language(Empty, rows, TRUE)
  BY Zenon DEF Init
<1>6. h \in Cache /\ h.last = 0
  BY <1>1, <1>4, <1>5, SetLanguageIs, Zenon
<1> QED
  BY <1>2, <1>4, <1>6, RowsAssumption DEF Inv, Modes

\* Every handler, every packet and the frame keep the types.
LEMMA NextKeeps == Inv /\ [Next]_vars => Inv'
<1>1. ASSUME Inv, UNCHANGED vars PROVE Inv'
  BY <1>1 DEF Inv, vars
<1>2. ASSUME Inv, Next PROVE Inv'
  BY <1>2, KeysKeep, SelectionsKeep, OthersKeep, PacketsKeep, TransfersKeep, FrameKeeps
  DEF Next, Local, Peer
<1> QED
  BY <1>1, <1>2

\* Whatever is edited, received and repainted in whichever order, the text and the
\* cache keep their types, and the cache knows no more rows than a text may have.
THEOREM CacheTyped == Spec => []TypeOK
<1>1. Inv => TypeOK
  BY DEF Inv, TypeOK, Cache, Slots
<1> QED
  BY <1>1, InitKeeps, NextKeeps, PTL DEF Spec

\* Wherever the cursor is and however the number of rows changed since the last
\* full repaint, the next one gives no colour buffer two owners and keeps none it
\* freed (highlight_cache.c:157-214).
THEOREM SyncSafe == Spec => []SyncOneOwner
<1>1. Inv => SyncOneOwner
  <2> SUFFICES ASSUME Inv PROVE SyncOneOwner
    OBVIOUS
  <2> DEFINE new == Len(rows)
             g == line_colors_cache_grow(h, new)
  <2>1. new \in Nat /\ new \in Int /\ crow \in Int /\ h \in Cache
    BY Parts, TextIs DEF Inv
  <2> HIDE DEF new
  <2>2. /\ g.last \in Int /\ g.last = h.last /\ Len(g.slots) \in Nat
        /\ Len(g.slots) >= Len(h.slots) /\ Len(h.slots) \in Nat
    BY <2>1, GrowIs, CacheFields
  <2> HIDE DEF g
  <2>3. Inserts(h, new, crow) <=> Inserts(g, new, crow)
    BY <2>2 DEF Inserts
  <2>4. SyncFreed(h, new, crow) = SyncFreed(g, new, crow)
    BY <2>3 DEF SyncFreed
  <2>5. Removes(h, new, crow) => Removes(g, new, crow)
    <3> DEFINE a == Min({h.last, Len(h.slots)})
               b == Min({g.last, Len(g.slots)})
    <3>0. /\ h.last \in Int /\ Len(h.slots) \in Int
          /\ g.last \in Int /\ Len(g.slots) \in Int
      BY <2>2
    <3>1. a \in Int /\ a <= h.last /\ a <= Len(h.slots)
      BY <3>0, MinOfTwo, Zenon
    <3>2. b \in {g.last, Len(g.slots)}
      BY <3>0, MinOfTwo, Zenon
    <3> HIDE DEF a, b
    <3>3. a <= b
      BY <2>2, <3>1, <3>2
    <3> QED BY <2>1, <2>2, <3>1, <3>2, <3>3 DEF Removes, a, b
  <2>6. Inserts(g, new, crow) \/ Removes(g, new, crow) =>
          OneOwner(SyncSource(g, new, crow), Len(g.slots), SyncFreed(g, new, crow))
    BY <2>1, <2>2, SyncKeepsOwners
  <2> QED BY <2>3, <2>4, <2>5, <2>6 DEF SyncOneOwner, new, g
<1> QED
  BY <1>1, InitKeeps, NextKeeps, PTL DEF Spec

-----------------------------------------------------------------------------
(* Repainting one row                                                      *)

\* StateFollows without the language.
LEMMA FollowsIs ==
  ASSUME rows \in Seq(Text), NEW g \in Cache
  PROVE  /\ StateFollows(g, 0) <=> OpenAt(g, 0) = FALSE
         /\ \A r \in 1 .. Len(rows) - 1 :
              StateFollows(g, r) <=> OpenAt(g, r) = After[rows[r]][OpenAt(g, r - 1)]
<1>1. ~(0 > 0)
  OBVIOUS
<1>2. ASSUME NEW r \in 1 .. Len(rows) - 1
      PROVE StateFollows(g, r) <=> OpenAt(g, r) = After[rows[r]][OpenAt(g, r - 1)]
  <2>1. r > 0 /\ r \in Nat /\ r - 1 \in Nat /\ rows[r] \in Text
    BY Len(rows) \in Nat
  <2>2. OpenAt(g, r - 1) \in BOOLEAN /\ OpenAt(g, r) \in BOOLEAN
    BY <2>1, OpenAtIs
  <2> DEFINE b == OpenAt(g, r - 1)
             a == OpenAt(g, r)
  <2>3. After[rows[r]][b] \in BOOLEAN
    <3> HIDE DEF b
    <3>1. b \in BOOLEAN
      BY <2>2 DEF b
    <3> QED BY <2>1, <3>1, TextAssumption
  <2>4. OpenAfter(rows[r], OpenAt(g, r - 1), TRUE) = After[rows[r]][b]
    BY Zenon DEF OpenAfter
  <2>5. StateFollows(g, r) <=> (a = (r > 0 /\ After[rows[r]][b]))
    BY <2>4, Zenon DEF StateFollows
  <2> HIDE DEF a, b
  <2>6. (r > 0 /\ After[rows[r]][b]) = After[rows[r]][b]
    BY <2>1, <2>3, Zenon
  <2> QED BY <2>5, <2>6, Zenon DEF a, b
<1>3. StateFollows(g, 0) <=> OpenAt(g, 0) = FALSE
  <2>1. OpenAt(g, 0) \in BOOLEAN
    BY OpenAtIs
  <2> QED BY <1>1, <2>1, Zenon DEF StateFollows
<1> QED
  BY <1>2, <1>3

\* The row that changed is freed and coloured again, and the rows below it until
\* their comment states are what they were.
LEMMA LineRestores ==
  ASSUME rows \in Seq(Text), h \in Cache, crow \in 0 .. Len(rows) - 1, PaintLine,
         \A r \in 0 .. Len(rows) - 1 : /\ r # crow + 1 => StateFollows(h, r)
                                       /\ r # crow => ColoursRight(h, r)
  PROVE  \A r \in 0 .. Len(rows) - 1 : StateFollows(h', r) /\ ColoursRight(h', r)
<1> SUFFICES ASSUME NEW r \in 0 .. Len(rows) - 1
             PROVE  StateFollows(h', r) /\ ColoursRight(h', r)
  OBVIOUS
<1> DEFINE c == highlight_cache_free_row(h, crow)
           total == Len(rows)
<1>1. total \in Nat /\ crow \in Nat /\ crow < total /\ r \in Nat /\ r < total
  OBVIOUS
<1>2. /\ c \in Cache /\ c.open = h.open
      /\ \A k \in Nat : SlotAt(c, k) = IF k = crow THEN None ELSE SlotAt(h, k)
  BY <1>1, FreeRowIs
<1>3. h' = Rebuilt(c, rows, crow)
  BY Zenon DEF PaintLine, Rebuilt
<1>4. \A k \in Nat : OpenAt(c, k) = OpenAt(h, k)
  <2> HIDE DEF c
  <2> QED BY <1>2, Zenon DEF OpenAt
<1> HIDE DEF c
<1> DEFINE d == Rebuilt(c, rows, crow)
<1>5. PICK st, stop :
        /\ d \in Cache /\ d.last = c.last
        /\ stop \in crow .. Len(rows) - 1
        /\ st[crow] = OpenAt(c, crow)
        /\ \A k \in crow + 1 .. Len(rows) : st[k] = After[rows[k]][st[k - 1]]
        /\ stop < Len(rows) - 1 => st[stop + 1] = OpenAt(c, stop + 1)
        /\ \A k \in crow + 1 .. stop + 1 : OpenAt(d, k) = st[k]
        /\ \A k \in Nat : k \notin crow + 1 .. stop + 1 => OpenAt(d, k) = OpenAt(c, k)
        /\ \A k \in crow .. stop : rows[k + 1] # Blank =>
             SlotAt(d, k).of = rows[k + 1] /\ SlotAt(d, k).in = st[k]
        /\ \A k \in Nat : k \notin crow .. stop => SlotAt(d, k) \in {SlotAt(c, k), None}
        /\ \/ SlotAt(d, stop + 1) = None
           \/ st[stop + 1] = OpenAt(c, stop + 1)
  BY <1>2, RebuildIs, ZenonT(60)
<1> HIDE DEF d
<1>6. stop \in Nat /\ stop < total
  BY <1>1, <1>5
\* The states before the rows are the old ones above the row and below the last
\* one that was rescanned.
<1>7. ASSUME NEW k \in 0 .. total - 1, k \notin crow + 1 .. stop
      PROVE  OpenAt(d, k) = OpenAt(h, k)
  <2>1. CASE k = stop + 1
    <3>1. k \in crow + 1 .. stop + 1 /\ stop < total - 1 /\ k \in Nat
      BY <1>1, <1>5, <1>6, <2>1
    <3> QED BY <1>4, <1>5, <2>1, <3>1
  <2>2. CASE k # stop + 1
    <3>1. k \in Nat /\ k \notin crow + 1 .. stop + 1
      BY <1>1, <1>6, <1>7, <2>2
    <3> QED BY <1>4, <1>5, <3>1
  <2> QED BY <2>1, <2>2
<1>8. \A k \in crow + 1 .. stop + 1 : OpenAt(d, k) = st[k]
  BY <1>5
<1>9. OpenAt(d, crow) = st[crow]
  <2>1. crow \in 0 .. total - 1 /\ crow \notin crow + 1 .. stop
    BY <1>1
  <2> QED BY <1>1, <1>4, <1>5, <1>7, <2>1
<1>10. StateFollows(d, r)
  <2>1. CASE r = 0
    <3>1. r # crow + 1 /\ r \notin crow + 1 .. stop
      BY <1>1, <2>1
    <3>2. OpenAt(h, 0) = FALSE
      BY <2>1, <3>1, <1>5, FollowsIs
    <3>3. OpenAt(d, 0) = FALSE
      BY <1>7, <2>1, <3>1, <3>2
    <3> QED BY <2>1, <3>3, <1>5, FollowsIs
  <2>2. CASE r \in crow + 1 .. stop + 1
    <3>1. /\ r \in 1 .. total - 1 /\ r \in crow + 1 .. total
          /\ r - 1 = crow \/ r - 1 \in crow + 1 .. stop + 1
      BY <1>1, <1>6, <2>2
    <3>2. OpenAt(d, r - 1) = st[r - 1]
      BY <1>8, <1>9, <3>1
    <3>3. OpenAt(d, r) = st[r] /\ st[r] = After[rows[r]][st[r - 1]]
      BY <1>5, <1>8, <2>2, <3>1
    <3>4. OpenAt(d, r) = After[rows[r]][OpenAt(d, r - 1)]
      BY <3>2, <3>3, Zenon
    <3> QED BY <3>1, <3>4, <1>5, FollowsIs
  <2>3. CASE r # 0 /\ r \notin crow + 1 .. stop + 1
    <3>1. /\ r \in 1 .. total - 1 /\ r # crow + 1 /\ r - 1 \in 0 .. total - 1
          /\ r \notin crow + 1 .. stop /\ r - 1 \notin crow + 1 .. stop
      BY <1>1, <1>5, <1>6, <2>3
    <3>2. OpenAt(d, r) = OpenAt(h, r) /\ OpenAt(d, r - 1) = OpenAt(h, r - 1)
      BY <1>7, <3>1
    <3>3. OpenAt(h, r) = After[rows[r]][OpenAt(h, r - 1)]
      BY <3>1, <1>5, FollowsIs
    <3>4. OpenAt(d, r) = After[rows[r]][OpenAt(d, r - 1)]
      BY <3>2, <3>3, Zenon
    <3> QED BY <3>1, <3>4, <1>5, FollowsIs
  <2> QED BY <2>1, <2>2, <2>3
<1>11. RowAt(r) = rows[r + 1]
  BY <1>1 DEF RowAt, InText
<1>12. ColoursRight(d, r)
  <2>1. CASE r \in crow .. stop
    <3>1. OpenAt(d, r) = st[r]
      BY <1>1, <1>6, <1>8, <1>9, <2>1
    <3>2. rows[r + 1] # Blank => SlotAt(d, r).of = rows[r + 1] /\ SlotAt(d, r).in = st[r]
      BY <1>5, <2>1
    <3> QED BY <1>11, <3>1, <3>2, Zenon DEF ColoursRight
  <2>2. CASE r \notin crow .. stop
    <3>1. r # crow
      BY <1>1, <1>5, <1>6, <2>2
    <3>2. SlotAt(d, r) \in {SlotAt(h, r), None} /\ r \notin crow + 1 .. stop
      BY <1>1, <1>2, <1>5, <2>2, <3>1
    <3>3. OpenAt(d, r) = OpenAt(h, r)
      BY <1>7, <3>2
    <3>4. ColoursRight(h, r)
      BY <3>1
    <3>5. SlotAt(d, r) = SlotAt(h, r) \/ SlotAt(d, r) = None
      BY <3>2
    <3> QED BY <3>3, <3>4, <3>5, Zenon DEF ColoursRight
  <2> QED BY <2>1, <2>2
<1> QED
  BY <1>3, <1>10, <1>12, Zenon DEF d

\* Of a turn that asked for a line, only the frame leaves nothing pending.
LEMMA OnlyFrameServes ==
  ASSUME Next, pending = LINE, pending' = NONE
  PROVE  Frame
<1>1. ASSUME NEW modes, Asks(modes) PROVE FALSE
  <2>1. PICK m \in modes : pending' = Merged(LINE, m)
    BY <1>1 DEF Asks
  <2>2. Merged(LINE, m) \in {FULL, LINE} \/ (m > LINE /\ Merged(LINE, m) = m)
    BY DEF Merged
  <2> QED BY <2>1, <2>2 DEF LINE, NONE, FULL
<1>2. LINE # NONE
  BY DEF LINE, NONE
<1>3. ~Local
  BY <1>1, <1>2 DEF Local, TypeChar, EraseInRow, Enter, JoinUp, ReplaceSelection,
     PasteNothing, Arrow, Key, OpenFile, Save, Mouse, Elsewhere
<1>4. ~Peer
  BY <1>1, <1>2 DEF Peer, RemoteEdit, RemoteSplit, RemoteJoin, ReplaceBlock, UpdateLine,
     FileStart, FileLine
<1> QED
  BY <1>3, <1>4 DEF Next

\* When the cache was right but for the row that changed, repainting that row
\* makes it right: "stopping once the state stabilizes" (highlight_cache.h:45)
\* stops neither too early nor with stale colours, for texts of any length.
THEOREM LineRepaintSound == Spec => LineRepaintRestores
<1>1. ASSUME Inv, [Next]_vars
      PROVE  [ pending = LINE /\ pending' = NONE /\ InText(crow)
               /\ (\A r \in 0 .. Len(rows) - 1 :
                     /\ r # crow + 1 => StateFollows(h, r)
                     /\ r # crow => ColoursRight(h, r))
               => \A r \in 0 .. Len(rows) - 1 :
                    StateFollows(h', r) /\ ColoursRight(h', r) ]_vars
  <2> SUFFICES ASSUME Next, pending = LINE, pending' = NONE, InText(crow),
                      \A r \in 0 .. Len(rows) - 1 : /\ r # crow + 1 => StateFollows(h, r)
                                                    /\ r # crow => ColoursRight(h, r)
               PROVE  \A r \in 0 .. Len(rows) - 1 :
                        StateFollows(h', r) /\ ColoursRight(h', r)
    BY <1>1
  <2>1. PaintLine
    BY OnlyFrameServes DEF Frame, LINE, FULL, CHAR, MOUSE, STATUS, REMOTE_LINE
  <2>2. rows \in Seq(Text) /\ h \in Cache /\ crow \in 0 .. Len(rows) - 1
    BY <1>1, Parts, TextIs DEF Inv, InText
  <2> QED BY <2>1, <2>2, LineRestores
<1>2. Spec => []Inv
  BY InitKeeps, NextKeeps, PTL DEF Spec
<1> QED
  BY <1>1, <1>2, PTL DEF Spec, LineRepaintRestores
=============================================================================
