----------------------------- MODULE CollabProofs -----------------------------
(***************************************************************************)
(* Two peers editing one text, for every alphabet, file and viewport, any  *)
(* number of commands and any number of packets under way: the two editors *)
(* stay well formed, an edit of other rows leaves the cursor on its line,  *)
(* and the packets turn the text of one peer into the text of the other.   *)
(***************************************************************************)
EXTENDS Collab, FiniteSetTheorems, SequenceTheorems, WellFoundedInduction, TLAPS

-----------------------------------------------------------------------------
(* The two peers                                                           *)

\* There is exactly one other peer.
LEMMA OtherPeer ==
  ASSUME NEW p \in Peers
  PROVE  /\ Other(p) \in Peers /\ Other(p) # p
         /\ \A q \in Peers : q # p => q = Other(p)
<1>1. /\ IsFiniteSet(Peers \ {p})
      /\ Cardinality(Peers \ {p}) = 1
  BY PeersAssumption, FS_RemoveElement
<1>2. PICK q : Peers \ {p} = {q}
  BY <1>1, FS_Singleton
<1>3. q \in Peers /\ q # p /\ \A x \in Peers : x # p => x = q
  BY <1>2
<1>4. Other(p) \in Peers /\ Other(p) # p
  BY <1>3 DEF Other
<1> QED
  BY <1>3, <1>4

\* Each peer is the other one's other.
LEMMA OtherTwice ==
  ASSUME NEW p \in Peers
  PROVE  Other(Other(p)) = p
BY OtherPeer

-----------------------------------------------------------------------------
(* Rows                                                                    *)

\* Cutting a row at a column and joining two pieces give rows.
LEMMA RowPieces ==
  ASSUME NEW row \in Row, NEW i \in 0 .. Len(row), NEW j \in 0 .. Len(row)
  PROVE  SubSeq(row, i + 1, j) \in Row
<1>1. Len(row) \in Nat /\ \A k \in 1 .. Len(row) : row[k] \in Char
  BY LenProperties, ElementOfSeq DEF Row
<1>2. \A k \in i + 1 .. j : row[k] \in Char
  BY <1>1
<1> QED
  BY <1>1, <1>2, SubSeqProperties DEF Row

\* new is old with the rows start .. start + deleted - 1 replaced by `inserted'
\* rows: what a block of rows that is sent to the peer tells it.
Replaces(old, new, start, deleted, inserted) ==
  /\ start \in Nat /\ deleted \in Nat \ {0} /\ inserted \in Nat \ {0}
  /\ start + deleted <= Len(old)
  /\ Len(new) = Len(old) - deleted + inserted
  /\ \A i \in 1 .. start : new[i] = old[i]
  /\ \A i \in start + inserted + 1 .. Len(new) : new[i] = old[i - inserted + deleted]

\* A text: rows, and at least one of them.
Texts == Seq(Row) \ {<< >>}

\* A text has at least one row, and its rows have lengths.
LEMMA TextFacts ==
  ASSUME NEW lines \in Texts
  PROVE  /\ Len(lines) \in Nat \ {0}
         /\ \A i \in 1 .. Len(lines) : lines[i] \in Row /\ Len(lines[i]) \in Nat
         /\ DOMAIN lines = 1 .. Len(lines)
<1>1. lines \in Seq(Row) /\ lines # << >>
  BY DEF Texts
<1>2. Len(lines) \in Nat \ {0} /\ DOMAIN lines = 1 .. Len(lines)
  BY <1>1, EmptySeq, LenProperties
<1>3. \A i \in 1 .. Len(lines) : lines[i] \in Row
  BY <1>1, ElementOfSeq
<1>4. \A row \in Row : Len(row) \in Nat
  BY LenProperties DEF Row
<1> QED
  BY <1>2, <1>3, <1>4

\* A non-empty sequence of rows given by its length and its elements.
LEMMA TextOf ==
  ASSUME NEW n \in Nat \ {0}, NEW f \in [1 .. n -> Row]
  PROVE  f \in Texts /\ Len(f) = n
<1>1. f = [i \in 1 .. n |-> f[i]] /\ \A i \in 1 .. n : f[i] \in Row
  OBVIOUS
<1>2. [i \in 1 .. n |-> f[i]] \in Seq(Row) /\ Len([i \in 1 .. n |-> f[i]]) = n
  BY <1>1
<1>3. f \in Seq(Row) /\ Len(f) = n
  BY <1>1, <1>2, Zenon
<1> QED
  BY <1>3, EmptySeq DEF Texts

\* Inserting rows at a position replaces the row it is in.
LEMMA SpliceRows ==
  ASSUME NEW lines \in Texts, NEW segs \in Texts,
         NEW r \in 0 .. Len(lines) - 1, NEW c \in 0 .. Len(lines[r + 1])
  PROVE  /\ Splice(lines, r, c, segs) \in Texts
         /\ Replaces(lines, Splice(lines, r, c, segs), r, 1, Len(segs))
<1> DEFINE old  == lines[r + 1]
           n    == Len(segs)
           head == SubSeq(old, 1, c)
           tail == SubSeq(old, c + 1, Len(old))
           pre(k) == IF k = 1 THEN head ELSE << >>
           post(k) == IF k = n THEN tail ELSE << >>
           seg(k) == pre(k) \o segs[k] \o post(k)
           m    == Len(lines) + n - 1
           at(i) == IF i <= r THEN lines[i]
                    ELSE IF i <= r + n THEN seg(i - r)
                    ELSE lines[i - n + 1]
           new  == [i \in 1 .. m |-> at(i)]
<1>1. /\ Len(lines) \in Nat \ {0} /\ \A k \in 1 .. Len(lines) : lines[k] \in Row
      /\ n \in Nat \ {0} /\ \A k \in 1 .. n : segs[k] \in Row
      /\ old \in Row /\ Len(old) \in Nat
  BY TextFacts
<1>2. head \in Row /\ tail \in Row /\ << >> \in Row
  BY <1>1, RowPieces, EmptySeq, 0 \in 0 .. Len(old), Len(old) \in 0 .. Len(old) DEF Row
<1>3. ASSUME NEW k \in 1 .. n
      PROVE  seg(k) \in Row
  <2> HIDE DEF head, tail
  <2>1. pre(k) \in Row /\ post(k) \in Row /\ segs[k] \in Row
    BY <1>1, <1>2
  <2> HIDE DEF pre, post
  <2>2. pre(k) \o segs[k] \in Row
    BY <2>1, ConcatProperties DEF Row
  <2> QED BY <2>1, <2>2, ConcatProperties DEF Row
<1>4. m \in Nat \ {0} /\ r + n <= m
  BY <1>1
<1>5. /\ \A i \in 1 .. r : at(i) = lines[i]
      /\ \A i \in r + n + 1 .. m : at(i) = lines[i - n + 1]
  <2> HIDE DEF seg
  <2> QED BY <1>1
<1>6. ASSUME NEW i \in 1 .. m
      PROVE  at(i) \in Row
  <2> HIDE DEF seg, n
  <2>1. CASE i <= r
    BY <1>1, <2>1
  <2>2. CASE i > r /\ i <= r + n
    <3>1. i - r \in 1 .. n
      BY <1>1, <2>2
    <3>2. seg(i - r) \in Row
      BY <1>3, <3>1
    <3>3. at(i) = seg(i - r)
      BY <1>1, <2>2
    <3> QED BY <3>2, <3>3
  <2>3. CASE i > r + n
    <3>1. i - n + 1 \in 1 .. Len(lines) /\ ~(i <= r)
      BY <1>1, <2>3 DEF m
    <3> QED BY <1>1, <2>3, <3>1
  <2> QED BY <1>1, <2>1, <2>2, <2>3
<1>7. Splice(lines, r, c, segs) = new
  BY DEF Splice
<1> HIDE DEF at, m
<1>8. new \in [1 .. m -> Row]
  BY <1>6
<1>9. /\ new \in Texts /\ Len(new) = m
      /\ \A i \in 1 .. m : new[i] = at(i)
  BY <1>4, <1>8, TextOf
<1> HIDE DEF new
<1>10. Replaces(lines, new, r, 1, n)
  <2>1. r \in Nat /\ r + 1 <= Len(lines) /\ m = Len(lines) - 1 + n
    BY <1>1 DEF m
  <2>2. \A i \in 1 .. r : new[i] = lines[i]
    BY <1>1, <1>4, <1>5, <1>9
  <2>3. \A i \in r + n + 1 .. m : new[i] = lines[i - n + 1]
    BY <1>1, <1>4, <1>5, <1>9
  <2> QED BY <1>1, <1>9, <2>1, <2>2, <2>3 DEF Replaces
<1> QED
  BY <1>7, <1>9, <1>10

\* Removing what lies between two positions leaves one row of theirs.
LEMMA DeleteRows ==
  ASSUME NEW lines \in Texts,
         NEW sr \in 0 .. Len(lines) - 1, NEW er \in sr .. Len(lines) - 1,
         NEW sc \in 0 .. Len(lines[sr + 1]), NEW ec \in 0 .. Len(lines[er + 1])
  PROVE  /\ DeleteRange(lines, sr, sc, er, ec) \in Texts
         /\ Replaces(lines, DeleteRange(lines, sr, sc, er, ec), sr, er - sr + 1, 1)
         /\ sc \in 0 .. Len(DeleteRange(lines, sr, sc, er, ec)[sr + 1])
<1> DEFINE merged == SubSeq(lines[sr + 1], 1, sc)
                       \o SubSeq(lines[er + 1], ec + 1, Len(lines[er + 1]))
           d == er - sr
           m == Len(lines) - d
           at(i) == IF i <= sr THEN lines[i]
                    ELSE IF i = sr + 1 THEN merged
                    ELSE lines[i + d]
           new == [i \in 1 .. m |-> at(i)]
<1>1. /\ Len(lines) \in Nat \ {0} /\ \A k \in 1 .. Len(lines) : lines[k] \in Row
      /\ lines[sr + 1] \in Row /\ Len(lines[sr + 1]) \in Nat
      /\ lines[er + 1] \in Row /\ Len(lines[er + 1]) \in Nat
  BY TextFacts
<1>2. /\ SubSeq(lines[sr + 1], 1, sc) \in Row
      /\ Len(SubSeq(lines[sr + 1], 1, sc)) = sc
  <2>1. \A k \in 1 .. sc : lines[sr + 1][k] \in Char
    BY <1>1, ElementOfSeq DEF Row
  <2> QED BY <1>1, <2>1, SubSeqProperties DEF Row
<1>3. SubSeq(lines[er + 1], ec + 1, Len(lines[er + 1])) \in Row
  BY <1>1, RowPieces, Len(lines[er + 1]) \in 0 .. Len(lines[er + 1])
<1>4. merged \in Row /\ sc \in 0 .. Len(merged)
  <2> DEFINE left == SubSeq(lines[sr + 1], 1, sc)
             right == SubSeq(lines[er + 1], ec + 1, Len(lines[er + 1]))
  <2>1. left \in Seq(Char) /\ right \in Seq(Char) /\ Len(right) \in Nat /\ Len(left) = sc
    BY <1>2, <1>3, LenProperties DEF Row
  <2> HIDE DEF left, right
  <2>2. left \o right \in Seq(Char) /\ Len(left \o right) = sc + Len(right)
    BY <2>1, ConcatProperties
  <2>3. merged = left \o right
    BY DEF left, right
  <2>4. sc \in Nat
    BY <1>1
  <2>5. sc \in 0 .. Len(left \o right)
    BY <2>1, <2>2, <2>4
  <2> HIDE DEF merged
  <2> QED BY <2>2, <2>3, <2>5 DEF Row
<1>5. DeleteRange(lines, sr, sc, er, ec) = new
  BY DEF DeleteRange
<1> HIDE DEF merged
<1>6. m \in Nat \ {0} /\ sr < m /\ d \in Nat
  BY <1>1
<1>7. ASSUME NEW i \in 1 .. m
      PROVE  at(i) \in Row
  BY <1>1, <1>4
<1>8. /\ at(sr + 1) = merged
      /\ \A i \in 1 .. sr : at(i) = lines[i]
      /\ \A i \in sr + 2 .. m : at(i) = lines[i + d]
  BY <1>1
<1> HIDE DEF at, m
<1>9. new \in [1 .. m -> Row]
  BY <1>7
<1>10. /\ new \in Texts /\ Len(new) = m
       /\ \A i \in 1 .. m : new[i] = at(i)
  BY <1>6, <1>9, TextOf
<1> HIDE DEF new
<1>11. Replaces(lines, new, sr, d + 1, 1)
  <2>1. /\ sr \in Nat /\ d + 1 \in Nat \ {0}
        /\ sr + (d + 1) <= Len(lines) /\ m = Len(lines) - (d + 1) + 1
    BY <1>1 DEF m
  <2>2. \A i \in 1 .. sr : new[i] = lines[i]
    BY <1>1, <1>6, <1>8, <1>10
  <2>3. ASSUME NEW i \in sr + 1 + 1 .. m
        PROVE  new[i] = lines[i - 1 + (d + 1)]
    <3>1. i \in sr + 2 .. m /\ i \in 1 .. m /\ i - 1 + (d + 1) = i + d
      BY <1>1, <1>6
    <3> QED BY <1>8, <1>10, <3>1
  <2> QED BY <1>10, <2>1, <2>2, <2>3 DEF Replaces
<1>12. new[sr + 1] = merged
  BY <1>6, <1>8, <1>10
<1> QED
  BY <1>4, <1>5, <1>10, <1>11, <1>12

-----------------------------------------------------------------------------
(* Words and clips                                                         *)

\* What is copied from ordered positions of the text is a sequence of rows.
LEMMA SliceText ==
  ASSUME NEW lines \in Seq(Row),
         NEW sr \in 0 .. Len(lines) - 1, NEW er \in sr .. Len(lines) - 1,
         NEW sc \in 0 .. Len(lines[sr + 1]), NEW ec \in 0 .. Len(lines[er + 1])
  PROVE  Slice(lines, sr, sc, er, ec) \in Seq(Row)
<1> DEFINE n == er - sr + 1
           piece(i) == SubSeq(lines[sr + i], IF i = 1 THEN sc + 1 ELSE 1,
                              IF i = n THEN ec ELSE Len(lines[sr + i]))
<1>1. Len(lines) \in Nat /\ \A k \in 1 .. Len(lines) : lines[k] \in Row
  BY LenProperties, ElementOfSeq
<1>2. ASSUME NEW i \in 1 .. n
      PROVE  piece(i) \in Row
  <2> DEFINE row  == lines[sr + i]
             from == IF i = 1 THEN sc ELSE 0
             to   == IF i = n THEN ec ELSE Len(row)
  <2>1. row \in Row /\ Len(row) \in Nat
    BY <1>1, LenProperties DEF Row
  <2>2. from \in 0 .. Len(row) /\ to \in 0 .. Len(row)
    BY <2>1
  <2>3. SubSeq(row, from + 1, to) \in Row
    <3> HIDE DEF row, from, to
    <3> QED BY <2>1, <2>2, RowPieces
  <2>4. piece(i) = SubSeq(row, from + 1, to)
    OBVIOUS
  <2> QED BY <2>3, <2>4
<1>3. n \in Nat
  OBVIOUS
<1>4. [i \in 1 .. n |-> piece(i)] \in Seq(Row)
  <2> HIDE DEF piece, n
  <2> QED BY <1>2, <1>3, IsASeq
<1> QED
  BY <1>4 DEF Slice

\* A non-empty set of natural numbers has a least element.
LEMMA MinInSet ==
  ASSUME NEW S \in SUBSET Nat, S # {}
  PROVE  Min(S) \in S
<1>1. PICK x \in S : \A y \in S : ~(<<y, x>> \in OpToRel(<, Nat))
  BY NatLessThanWellFounded, WFMin
<1>2. \A y \in S : ~(y < x)
  BY <1>1, Zenon DEF OpToRel
<1>3. \A y \in S : x =< y
  BY <1>2
<1> QED
  BY <1>3 DEF Min

\* A bounded set of naturals holds its maximum.
LEMMA MaxInSet ==
  ASSUME NEW n \in Nat, NEW S \in SUBSET (0 .. n), S # {}
  PROVE  Max(S) \in S
<1> DEFINE T == {n - x : x \in S}
<1>1. T \in SUBSET Nat /\ T # {}
  <2>1. \A x \in S : n - x \in Nat
    OBVIOUS
  <2> QED BY <2>1
<1>2. PICK x \in T : \A y \in T : ~(<<y, x>> \in OpToRel(<, Nat))
  BY <1>1, NatLessThanWellFounded, WFMin
<1>3. PICK z \in S : x = n - z
  BY <1>2
<1>4. \A y \in S : z >= y
  <2> TAKE y \in S
  <2>1. n - y \in T /\ x \in Nat /\ n - y \in Nat
    BY <1>1, <1>2
  <2>2. ~(n - y < x)
    BY <1>2, <2>1 DEF OpToRel
  <2> QED BY <1>3, <2>2
<1> QED
  BY <1>4 DEF Max

\* A word motion stops between the start of the row and the column it left,
\* or between that column and the end of the row.
LEMMA WordBounds ==
  ASSUME NEW row \in Row, NEW col \in 0 .. Len(row)
  PROVE  WordStart(row, col) \in 0 .. col /\ WordEnd(row, col) \in col .. Len(row)
<1>1. Len(row) \in Nat
  BY LenProperties DEF Row
<1>2. WordStart(row, col) \in 0 .. col
  <2> DEFINE words == {0} \cup {i \in 1 .. col : row[i] # Space}
             end == Max(words)
             gaps == {0} \cup {i \in 1 .. end : row[i] = Space}
  <2>1. words \in SUBSET (0 .. col) /\ words # {} /\ col \in Nat
    BY <1>1
  <2>2. end \in 0 .. col
    <3> HIDE DEF words
    <3> QED BY <2>1, MaxInSet
  <2> HIDE DEF end
  <2>3. gaps \in SUBSET (0 .. col) /\ gaps # {}
    BY <1>1, <2>2
  <2>4. Max(gaps) \in 0 .. col
    <3> HIDE DEF gaps
    <3> QED BY <2>1, <2>3, MaxInSet
  <2> QED BY <2>4 DEF WordStart, end
<1>3. WordEnd(row, col) \in col .. Len(row)
  <2> DEFINE gaps == {Len(row)} \cup {i \in col .. Len(row) - 1 : row[i + 1] = Space}
             gap == Min(gaps)
             next == {Len(row)} \cup {i \in gap .. Len(row) - 1 : row[i + 1] # Space}
  <2>1. gaps \in SUBSET (col .. Len(row)) /\ gaps \in SUBSET Nat /\ gaps # {}
    BY <1>1
  <2>2. gap \in col .. Len(row)
    <3> HIDE DEF gaps
    <3> QED BY <2>1, MinInSet
  <2> HIDE DEF gap
  <2>3. next \in SUBSET (col .. Len(row)) /\ next \in SUBSET Nat /\ next # {}
    BY <1>1, <2>2
  <2>4. Min(next) \in col .. Len(row)
    <3> HIDE DEF next
    <3> QED BY <2>3, MinInSet
  <2> QED BY <2>4 DEF WordEnd, gap
<1> QED
  BY <1>2, <1>3

-----------------------------------------------------------------------------
(* The functions of editor.c on a well-formed editor                       *)

\* The fields of a well-formed editor.
LEMMA EditorFields ==
  ASSUME NEW e \in Editors
  PROVE  /\ e.lines \in Texts /\ e.crow \in Nat /\ e.ccol \in Nat
         /\ e.srow \in Int /\ e.scol \in Int
         /\ e.vrows \in Nat \ {0} /\ e.vcols \in Nat \ {0}
         /\ e.sel \in BOOLEAN /\ e.arow \in Nat /\ e.acol \in Nat
         /\ e.rrow \in Nat \cup {-1} /\ e.rcol \in Nat \cup {-1}
         /\ e.clip \in Seq(Row)
BY ViewportAssumption DEF Editors, Texts

\* Text and cursor of an editor replaced, the rest left alone but for the view.
Edited(e, f, lines, r, c) ==
  /\ f \in Editors
  /\ f.lines = lines /\ f.crow = r /\ f.ccol = c
  /\ f.sel = e.sel /\ f.arow = e.arow /\ f.acol = e.acol
  /\ f.rrow = e.rrow /\ f.rcol = e.rcol /\ f.clip = e.clip

\* clamp_scroll only changes the view.
LEMMA ClampIs ==
  ASSUME NEW e \in Editors
  PROVE  Edited(e, clamp_scroll(e), e.lines, e.crow, e.ccol)
<1> DEFINE srow == ClampAxis(e.crow, e.srow, e.vrows)
           scol == ClampAxis(e.ccol, e.scol, e.vcols)
<1>1. srow \in Int /\ scol \in Int
  BY EditorFields DEF ClampAxis
<1>2. clamp_scroll(e) = [e EXCEPT !.srow = srow, !.scol = scol]
  BY DEF clamp_scroll, Editors
<1> HIDE DEF srow, scol
<1> QED
  BY <1>1, <1>2 DEF Edited, Editors

\* A text replaced and the cursor assigned.
LEMMA EditedTo ==
  ASSUME NEW e \in Editors, NEW lines \in Texts, NEW r \in Nat, NEW c \in Nat
  PROVE  Edited(e, CursorTo([e EXCEPT !.lines = lines], r, c), lines, r, c)
<1> DEFINE f == [[e EXCEPT !.lines = lines] EXCEPT !.crow = r, !.ccol = c]
<1>1. Edited(e, f, lines, r, c)
  BY DEF Edited, Editors, Texts
<1>2. CursorTo([e EXCEPT !.lines = lines], r, c) = clamp_scroll(f)
  BY DEF CursorTo
<1> HIDE DEF f
<1>3. f \in Editors
  BY <1>1 DEF Edited
<1>4. Edited(f, clamp_scroll(f), f.lines, f.crow, f.ccol)
  BY <1>3, ClampIs
<1> QED
  BY <1>1, <1>2, <1>4 DEF Edited

\* The cursor assigned.
LEMMA MovedTo ==
  ASSUME NEW e \in Editors, NEW r \in Nat, NEW c \in Nat
  PROVE  Edited(e, CursorTo(e, r, c), e.lines, r, c)
<1>1. e = [e EXCEPT !.lines = e.lines] /\ e.lines \in Texts
  BY DEF Editors, Texts
<1>2. Edited(e, CursorTo([e EXCEPT !.lines = e.lines], r, c), e.lines, r, c)
  BY <1>1, EditedTo
<1> QED
  BY <1>1, <1>2

\* A position of the text.
At(lines, r, c) == r \in 0 .. Len(lines) - 1 /\ c \in 0 .. Len(lines[r + 1])

\* Position speaks of the rows only.
LEMMA PositionAt ==
  ASSUME NEW e, NEW r, NEW c
  PROVE  Position(e, r, c) <=> At(e.lines, r, c)
BY DEF Position, At, RowCount, RowLen

\* The rows and columns of a position are natural numbers.
LEMMA AtIsNat ==
  ASSUME NEW lines \in Texts, NEW r, NEW c, At(lines, r, c)
  PROVE  r \in Nat /\ c \in Nat
<1>1. Len(lines) \in Nat /\ r \in 0 .. Len(lines) - 1
  BY TextFacts DEF At
<1>2. Len(lines[r + 1]) \in Nat
  BY <1>1, TextFacts
<1> QED
  BY <1>1, <1>2 DEF At

-----------------------------------------------------------------------------
(* Edits of rows                                                           *)

\* The rows that typing a symbol gives.
TypedRows(c) == IF c = Newline THEN << << >>, << >> >> ELSE << <<c>> >>
Typed(lines, r, col, c) == Splice(lines, r, col, TypedRows(c))

\* The rows that Backspace gives.
Erased(lines, r, c) ==
  IF c > 0 THEN DeleteRange(lines, r, c - 1, r, c)
  ELSE IF r > 0 THEN DeleteRange(lines, r - 1, Len(lines[r]), r, 0)
  ELSE lines

\* What is typed is a text of one row or two.
LEMMA TypedRowsText ==
  ASSUME NEW c \in Char \cup {Newline}
  PROVE  /\ TypedRows(c) \in Texts
         /\ Len(TypedRows(c)) = IF c = Newline THEN 2 ELSE 1
<1>1. CASE c = Newline
  <2>1. << >> \in Row
    BY EmptySeq DEF Row
  <2>2. << << >>, << >> >> \in Seq(Row) /\ Len(<< << >>, << >> >>) = 2
    BY <2>1
  <2>3. << << >>, << >> >> # << >>
    BY <2>2, EmptySeq
  <2> QED BY <1>1, <2>2, <2>3 DEF TypedRows, Texts
<1>2. CASE c # Newline
  <2>1. <<c>> \in Row
    BY <1>2 DEF Row
  <2>2. << <<c>> >> \in Seq(Row) /\ Len(<< <<c>> >>) = 1
    BY <2>1
  <2>3. << <<c>> >> # << >>
    BY <2>2, EmptySeq
  <2> QED BY <1>2, <2>2, <2>3 DEF TypedRows, Texts
<1> QED
  BY <1>1, <1>2

\* Typing at a position replaces its row by one or two.
LEMMA TypedText ==
  ASSUME NEW lines \in Texts, NEW r, NEW col, At(lines, r, col),
         NEW c \in Char \cup {Newline}
  PROVE  /\ Typed(lines, r, col, c) \in Texts
         /\ Replaces(lines, Typed(lines, r, col, c), r, 1, IF c = Newline THEN 2 ELSE 1)
<1>1. TypedRows(c) \in Texts /\ Len(TypedRows(c)) = IF c = Newline THEN 2 ELSE 1
  BY TypedRowsText
<1>2. r \in 0 .. Len(lines) - 1 /\ col \in 0 .. Len(lines[r + 1])
  BY DEF At
<1> QED
  BY <1>1, <1>2, SpliceRows DEF Typed

\* Backspace at a position changes its row, or joins it to the one above.
LEMMA ErasedText ==
  ASSUME NEW lines \in Texts, NEW r, NEW c, At(lines, r, c)
  PROVE  /\ Erased(lines, r, c) \in Texts
         /\ c > 0 => Replaces(lines, Erased(lines, r, c), r, 1, 1)
         /\ c = 0 /\ r > 0 => Replaces(lines, Erased(lines, r, c), r - 1, 2, 1)
<1>1. /\ Len(lines) \in Nat /\ r \in 0 .. Len(lines) - 1
      /\ c \in 0 .. Len(lines[r + 1]) /\ r \in Nat /\ c \in Nat
  BY TextFacts, AtIsNat DEF At
<1>2. CASE c > 0
  <2>1. /\ c - 1 \in 0 .. Len(lines[r + 1]) /\ r - r + 1 = 1
        /\ r \in r .. Len(lines) - 1
    BY <1>1, <1>2, TextFacts
  <2>2. /\ DeleteRange(lines, r, c - 1, r, c) \in Texts
        /\ Replaces(lines, DeleteRange(lines, r, c - 1, r, c), r, r - r + 1, 1)
    BY <1>1, <2>1, DeleteRows
  <2>3. Erased(lines, r, c) = DeleteRange(lines, r, c - 1, r, c)
    BY <1>2 DEF Erased
  <2> QED BY <1>1, <1>2, <2>1, <2>2, <2>3
<1>3. CASE c = 0 /\ r > 0
  <2>1. /\ r - 1 \in 0 .. Len(lines) - 1 /\ r \in r - 1 .. Len(lines) - 1
        /\ r - (r - 1) + 1 = 2 /\ (r - 1) + 1 = r
    BY <1>1, <1>3
  <2>2. Len(lines[r]) \in 0 .. Len(lines[(r - 1) + 1]) /\ 0 \in 0 .. Len(lines[r + 1])
    BY <1>1, <1>3, <2>1, TextFacts
  <2>3. /\ DeleteRange(lines, r - 1, Len(lines[r]), r, 0) \in Texts
        /\ Replaces(lines, DeleteRange(lines, r - 1, Len(lines[r]), r, 0),
                    r - 1, r - (r - 1) + 1, 1)
    BY <1>1, <2>1, <2>2, DeleteRows
  <2>4. Erased(lines, r, c) = DeleteRange(lines, r - 1, Len(lines[r]), r, 0)
    BY <1>3 DEF Erased
  <2> QED BY <1>1, <1>3, <2>1, <2>3, <2>4
<1>4. CASE c = 0 /\ r = 0
  <2>1. Erased(lines, r, c) = lines
    BY <1>4 DEF Erased
  <2> QED BY <1>4, <2>1
<1> QED
  BY <1>1, <1>2, <1>3, <1>4

-----------------------------------------------------------------------------
(* A user's edits                                                          *)

\* editor_insert_char types at the cursor.
LEMMA InsertCharIs ==
  ASSUME NEW e \in Editors, At(e.lines, e.crow, e.ccol), NEW c \in Char \cup {Newline}
  PROVE  /\ editor_insert_char(e, c) \in Editors
         /\ editor_insert_char(e, c).lines = Typed(e.lines, e.crow, e.ccol, c)
<1> DEFINE new == Typed(e.lines, e.crow, e.ccol, c)
<1>1. e.lines \in Texts /\ e.crow \in Nat /\ e.ccol \in Nat
  BY EditorFields
<1>2. new \in Texts
  BY <1>1, TypedText
<1>3. CASE c = Newline
  <2>1. editor_insert_char(e, c) = CursorTo([e EXCEPT !.lines = new], e.crow + 1, 0)
    BY <1>3 DEF editor_insert_char, Typed, TypedRows
  <2> HIDE DEF new
  <2>2. e.crow + 1 \in Nat /\ 0 \in Nat
    BY <1>1
  <2>3. Edited(e, CursorTo([e EXCEPT !.lines = new], e.crow + 1, 0), new, e.crow + 1, 0)
    BY <1>2, <2>2, EditedTo
  <2> QED BY <2>1, <2>3 DEF Edited, new
<1>4. CASE c # Newline
  <2>1. editor_insert_char(e, c)
          = CursorTo([e EXCEPT !.lines = new], e.crow, e.ccol + 1)
    BY <1>4 DEF editor_insert_char, Typed, TypedRows
  <2> HIDE DEF new
  <2>2. Edited(e, CursorTo([e EXCEPT !.lines = new], e.crow, e.ccol + 1),
               new, e.crow, e.ccol + 1)
    BY <1>1, <1>2, EditedTo
  <2> QED BY <2>1, <2>2 DEF Edited, new
<1> QED
  BY <1>3, <1>4

\* editor_delete_char erases at the cursor.
LEMMA DeleteCharIs ==
  ASSUME NEW e \in Editors, At(e.lines, e.crow, e.ccol)
  PROVE  /\ editor_delete_char(e) \in Editors
         /\ editor_delete_char(e).lines = Erased(e.lines, e.crow, e.ccol)
<1> DEFINE new == Erased(e.lines, e.crow, e.ccol)
<1>1. e.lines \in Texts /\ e.crow \in Nat /\ e.ccol \in Nat
  BY EditorFields
<1>2. new \in Texts
  BY <1>1, ErasedText
<1>3. CASE e.ccol > 0
  <2>1. editor_delete_char(e) = CursorTo([e EXCEPT !.lines = new], e.crow, e.ccol - 1)
    BY <1>3 DEF editor_delete_char, Erased
  <2> HIDE DEF new
  <2>2. e.ccol - 1 \in Nat
    BY <1>1, <1>3
  <2>3. Edited(e, CursorTo([e EXCEPT !.lines = new], e.crow, e.ccol - 1),
               new, e.crow, e.ccol - 1)
    BY <1>1, <1>2, <2>2, EditedTo
  <2> QED BY <2>1, <2>3 DEF Edited, new
<1>4. CASE e.ccol = 0 /\ e.crow > 0
  <2> DEFINE len == Len(e.lines[e.crow])
  <2>1. (e.crow - 1) + 1 = e.crow /\ e.crow \in 1 .. Len(e.lines) /\ e.crow - 1 \in Nat
    BY <1>1, <1>4, TextFacts DEF At
  <2>2. RowLen(e, e.crow - 1) = len
    BY <2>1 DEF RowLen
  <2>3. new = DeleteRange(e.lines, e.crow - 1, len, e.crow, 0)
    BY <1>4 DEF Erased
  <2>4. editor_delete_char(e) = CursorTo([e EXCEPT !.lines = new], e.crow - 1, len)
    BY <1>1, <1>4, <2>2, <2>3 DEF editor_delete_char
  <2>5. len \in Nat
    BY <1>1, <2>1, TextFacts
  <2> HIDE DEF new, len
  <2>6. Edited(e, CursorTo([e EXCEPT !.lines = new], e.crow - 1, len),
               new, e.crow - 1, len)
    BY <1>2, <2>1, <2>5, EditedTo
  <2> QED BY <2>4, <2>6 DEF Edited, new
<1>5. CASE e.ccol = 0 /\ e.crow = 0
  <2>1. editor_delete_char(e) = clamp_scroll(e) /\ new = e.lines
    BY <1>5 DEF editor_delete_char, Erased
  <2> HIDE DEF new
  <2>2. Edited(e, clamp_scroll(e), e.lines, e.crow, e.ccol)
    BY ClampIs
  <2> QED BY <2>1, <2>2 DEF Edited, new
<1> QED
  BY <1>1, <1>3, <1>4, <1>5

\* editor_delete_word changes the row of the cursor.
LEMMA DeleteWordIs ==
  ASSUME NEW e \in Editors, At(e.lines, e.crow, e.ccol), e.ccol # 0
  PROVE  /\ editor_delete_word(e) \in Editors
         /\ Replaces(e.lines, editor_delete_word(e).lines, e.crow, 1, 1)
<1> DEFINE start == WordStart(e.lines[e.crow + 1], e.ccol)
           new == DeleteRange(e.lines, e.crow, start, e.crow, e.ccol)
<1>1. /\ e.lines \in Texts /\ e.crow \in 0 .. Len(e.lines) - 1 /\ e.crow \in Nat
      /\ e.ccol \in 0 .. Len(e.lines[e.crow + 1]) /\ e.ccol \in Nat
      /\ Len(e.lines) \in Nat
  BY EditorFields, TextFacts DEF At
<1>2. e.lines[e.crow + 1] \in Row /\ Len(e.lines[e.crow + 1]) \in Nat
  BY <1>1, TextFacts
<1>3. start \in 0 .. e.ccol
  BY <1>1, <1>2, WordBounds
<1>4. editor_delete_word(e) = CursorTo([e EXCEPT !.lines = new], e.crow, start)
  BY DEF editor_delete_word
<1> HIDE DEF start
<1>5. /\ start \in 0 .. Len(e.lines[e.crow + 1]) /\ start \in Nat
      /\ e.crow \in e.crow .. Len(e.lines) - 1 /\ e.crow - e.crow + 1 = 1
  BY <1>1, <1>2, <1>3
<1>6. new \in Texts /\ Replaces(e.lines, new, e.crow, e.crow - e.crow + 1, 1)
  BY <1>1, <1>5, DeleteRows
<1> HIDE DEF new
<1>7. Edited(e, CursorTo([e EXCEPT !.lines = new], e.crow, start), new, e.crow, start)
  BY <1>1, <1>5, <1>6, EditedTo
<1> QED
  BY <1>4, <1>5, <1>6, <1>7 DEF Edited

\* A usable selection runs from a position of the text to a later one.
LEMMA SelRange ==
  ASSUME NEW e \in Editors, e.sel, Usable(e), NEW g, g = editor_sel_get_range(e)
  PROVE  /\ g.sr \in 0 .. Len(e.lines) - 1 /\ g.er \in g.sr .. Len(e.lines) - 1
         /\ g.sc \in 0 .. Len(e.lines[g.sr + 1]) /\ g.ec \in 0 .. Len(e.lines[g.er + 1])
         /\ g.sr \in Nat /\ g.er \in Nat /\ g.sc \in Nat
<1>1. /\ Len(e.lines) \in Nat
      /\ e.crow \in Nat /\ e.ccol \in Nat /\ e.arow \in Nat /\ e.acol \in Nat
      /\ e.crow \in 0 .. Len(e.lines) - 1 /\ e.ccol \in 0 .. Len(e.lines[e.crow + 1])
      /\ e.arow \in 0 .. Len(e.lines) - 1 /\ e.acol \in 0 .. Len(e.lines[e.arow + 1])
  BY EditorFields, TextFacts DEF Usable, Position, RowCount, RowLen
<1>2. CASE e.crow > e.arow \/ (e.crow = e.arow /\ e.ccol >= e.acol)
  <2>1. g = [sr |-> e.arow, sc |-> e.acol, er |-> e.crow, ec |-> e.ccol]
    BY <1>2 DEF editor_sel_get_range
  <2>2. e.crow >= e.arow
    BY <1>1, <1>2
  <2> QED BY <1>1, <2>1, <2>2
<1>3. CASE ~(e.crow > e.arow \/ (e.crow = e.arow /\ e.ccol >= e.acol))
  <2>1. g = [sr |-> e.crow, sc |-> e.ccol, er |-> e.arow, ec |-> e.acol]
    BY <1>3 DEF editor_sel_get_range
  <2>2. e.arow >= e.crow
    BY <1>1, <1>3
  <2> QED BY <1>1, <2>1, <2>2
<1> QED
  BY <1>2, <1>3

\* editor_delete_selection leaves one row of those selected, with the cursor on
\* it where the selection began.
LEMMA DeleteSelectionIs ==
  ASSUME NEW e \in Editors, e.sel, Usable(e), NEW f, f = editor_delete_selection(e)
  PROVE  /\ f \in Editors /\ At(f.lines, f.crow, f.ccol) /\ ~f.sel
         /\ f.crow = SelFirst(e) /\ f.clip = e.clip
         /\ Replaces(e.lines, f.lines, SelFirst(e), SelRows(e), 1)
         /\ SelRows(e) \in Nat \ {0}
<1> DEFINE g == editor_sel_get_range(e)
           new == DeleteRange(e.lines, g.sr, g.sc, g.er, g.ec)
           h == editor_sel_clear(e)
<1>1. /\ g.sr \in 0 .. Len(e.lines) - 1 /\ g.er \in g.sr .. Len(e.lines) - 1
      /\ g.sc \in 0 .. Len(e.lines[g.sr + 1]) /\ g.ec \in 0 .. Len(e.lines[g.er + 1])
      /\ g.sr \in Nat /\ g.er \in Nat /\ g.sc \in Nat
  BY SelRange
<1>2. h \in Editors /\ h.sel = FALSE /\ h.clip = e.clip /\ h.lines = e.lines
  BY DEF editor_sel_clear, Editors
<1>3. SelFirst(e) = g.sr /\ SelRows(e) = g.er - g.sr + 1
  BY DEF SelFirst, SelRows
<1>4. f = CursorTo([h EXCEPT !.lines = new], g.sr, g.sc)
  <2>1. f = CursorTo([h EXCEPT !.lines = DeleteRange(h.lines, g.sr, g.sc, g.er, g.ec)],
                     g.sr, g.sc)
    BY DEF editor_delete_selection
  <2> QED BY <1>2, <2>1
<1>5. e.lines \in Texts
  BY EditorFields
<1> HIDE DEF g, h
<1>6. /\ new \in Texts /\ Replaces(e.lines, new, g.sr, g.er - g.sr + 1, 1)
      /\ g.sc \in 0 .. Len(new[g.sr + 1])
  BY <1>1, <1>5, DeleteRows
<1> HIDE DEF new
<1>7. Edited(h, f, new, g.sr, g.sc)
  BY <1>1, <1>2, <1>4, <1>6, EditedTo
<1>8. At(new, g.sr, g.sc)
  <2>1. /\ Len(new) \in Nat /\ Len(e.lines) \in Nat
        /\ Len(new) = Len(e.lines) - (g.er - g.sr + 1) + 1
        /\ g.sr + (g.er - g.sr + 1) <= Len(e.lines)
    BY <1>1, <1>6, TextFacts DEF Replaces
  <2>2. g.sr \in Nat /\ g.er \in Nat /\ g.sr <= g.er
    BY <1>1, <1>6 DEF Replaces
  <2>3. g.sr \in 0 .. Len(new) - 1
    BY <2>1, <2>2
  <2> QED BY <1>6, <2>3 DEF At
<1>9. g.er - g.sr + 1 \in Nat \ {0}
  BY <1>6 DEF Replaces
<1> QED
  BY <1>2, <1>3, <1>6, <1>7, <1>8, <1>9 DEF Edited

\* editor_copy_selection changes the clipboard only.
LEMMA CopyIs ==
  ASSUME NEW e \in Editors, Usable(e), NEW f, f = editor_copy_selection(e)
  PROVE  /\ f \in Editors /\ Usable(f)
         /\ f.lines = e.lines /\ f.sel = e.sel
         /\ editor_sel_get_range(f) = editor_sel_get_range(e)
<1>1. CASE ~e.sel
  BY <1>1 DEF editor_copy_selection
<1>2. CASE e.sel
  <2> DEFINE g == editor_sel_get_range(e)
             new == Slice(e.lines, g.sr, g.sc, g.er, g.ec)
  <2>1. /\ g.sr \in 0 .. Len(e.lines) - 1 /\ g.er \in g.sr .. Len(e.lines) - 1
        /\ g.sc \in 0 .. Len(e.lines[g.sr + 1]) /\ g.ec \in 0 .. Len(e.lines[g.er + 1])
    BY <1>2, SelRange
  <2>2. e.lines \in Seq(Row)
    BY EditorFields DEF Texts
  <2>3. new \in Seq(Row)
    <3> HIDE DEF g
    <3> QED BY <2>1, <2>2, SliceText
  <2>4. f = [e EXCEPT !.clip = new]
    BY <1>2 DEF editor_copy_selection
  <2> HIDE DEF new
  <2>5. /\ f \in Editors /\ f.lines = e.lines /\ f.crow = e.crow /\ f.ccol = e.ccol
        /\ f.sel = e.sel /\ f.arow = e.arow /\ f.acol = e.acol
    BY <2>3, <2>4 DEF Editors
  <2> QED BY <2>5 DEF Usable, Position, RowCount, RowLen, editor_sel_get_range
<1> QED
  BY <1>1, <1>2 DEF Editors

\* editor_paste replaces the row of the cursor by as many rows as were copied.
LEMMA PasteIs ==
  ASSUME NEW e \in Editors, At(e.lines, e.crow, e.ccol), e.clip # NoClip,
         NEW f, f = editor_paste(e)
  PROVE  /\ f \in Editors /\ Len(e.clip) \in Nat \ {0}
         /\ Replaces(e.lines, f.lines, e.crow, 1, Len(e.clip))
<1> DEFINE n == Len(e.clip)
           col == Len(e.clip[n]) + (IF n = 1 THEN e.ccol ELSE 0)
           new == Splice(e.lines, e.crow, e.ccol, e.clip)
<1>1. e.lines \in Texts /\ e.crow \in Nat /\ e.ccol \in Nat /\ e.clip \in Texts
  BY EditorFields DEF Texts, NoClip
<1>2. n \in Nat \ {0} /\ Len(e.clip[n]) \in Nat
  BY <1>1, TextFacts
<1>3. /\ e.crow \in 0 .. Len(e.lines) - 1 /\ e.ccol \in 0 .. Len(e.lines[e.crow + 1])
  BY DEF At
<1>4. new \in Texts /\ Replaces(e.lines, new, e.crow, 1, n)
  BY <1>1, <1>3, SpliceRows
<1>5. f = CursorTo([e EXCEPT !.lines = new], e.crow + n - 1, col)
  BY DEF editor_paste
<1>6. e.crow + n - 1 \in Nat /\ col \in Nat
  <2> HIDE DEF n
  <2> QED BY <1>1, <1>2
<1> HIDE DEF new, n, col
<1>7. Edited(e, f, new, e.crow + n - 1, col)
  BY <1>4, <1>5, <1>6, EditedTo
<1> QED
  BY <1>2, <1>4, <1>7 DEF Edited, n

\* A file that is opened is a text.
LEMMA LoadedIs ==
  ASSUME NEW e \in Editors, NEW file \in Texts, NEW f, f = Loaded(e, file)
  PROVE  f \in Editors /\ f.lines = file
<1> DEFINE more == file \o << << >> >>
           h == [editor_init(e) EXCEPT !.lines = more]
<1>1. Len(file) \in Nat \ {0} /\ file \in Seq(Row)
  BY TextFacts DEF Texts
<1>2. << >> \in Row
  BY EmptySeq DEF Row
<1>3. << << >> >> \in Seq(Row) /\ Len(<< << >> >>) = 1
  BY <1>2
<1>4. /\ more \in Seq(Row) /\ Len(more) = Len(file) + 1
      /\ \A i \in 1 .. Len(file) : more[i] = file[i]
      /\ more[Len(file) + 1] = << >>
  BY <1>1, <1>3, ConcatProperties
<1>5. Len(more) - 1 = Len(file) /\ (Len(more) - 1) + 1 = Len(file) + 1 /\ Len(more) > 1
  <2> HIDE DEF more
  <2> QED BY <1>1, <1>4
<1>6. /\ h.lines = more
      /\ h = [e EXCEPT !.sel = FALSE, !.arow = 0, !.acol = 0, !.lines = more, !.crow = 0,
                       !.ccol = 0, !.srow = 0, !.scol = 0, !.clip = NoClip]
  BY DEF editor_init, editor_sel_clear, Editors
<1>7. SubSeq(more, 1, Len(more) - 1) = file
  <2> HIDE DEF more
  <2>1. SubSeq(more, 1, Len(file)) \in Seq(Row)
        /\ Len(SubSeq(more, 1, Len(file))) = Len(file)
        /\ \A i \in 1 .. Len(file) : SubSeq(more, 1, Len(file))[i] = more[i]
    <3>1. \A i \in 1 .. Len(file) : more[i] \in Row
      BY <1>1, <1>4, ElementOfSeq
    <3> QED BY <1>1, <3>1, SubSeqProperties
  <2>2. SubSeq(more, 1, Len(file)) = file
    BY <1>1, <1>4, <2>1, SeqEqual
  <2> QED BY <1>5, <2>2
<1> HIDE DEF more, h
<1>8. Loaded(e, file) = editor_load_finalize(h)
  BY DEF Loaded, h, more
<1>9. RowCount(h) > 1 /\ RowLen(h, RowCount(h) - 1) = 0
  BY <1>4, <1>5, <1>6, EmptySeq DEF RowCount, RowLen
<1>10. f = [h EXCEPT !.lines = SubSeq(h.lines, 1, Len(h.lines) - 1)]
  BY <1>8, <1>9 DEF editor_load_finalize
<1>11. << >> \in Seq(Row)
  BY EmptySeq
<1>12. f = [h EXCEPT !.lines = file]
  BY <1>6, <1>7, <1>10
<1>13. h = [lines |-> more, crow |-> 0, ccol |-> 0, srow |-> 0, scol |-> 0,
            vrows |-> e.vrows, vcols |-> e.vcols, sel |-> FALSE, arow |-> 0, acol |-> 0,
            rrow |-> e.rrow, rcol |-> e.rcol, clip |-> NoClip]
  <2>1. h = [e EXCEPT !.sel = FALSE, !.arow = 0, !.acol = 0, !.lines = more, !.crow = 0,
                      !.ccol = 0, !.srow = 0, !.scol = 0, !.clip = NoClip]
    BY <1>6
  <2> QED BY <2>1 DEF Editors
<1>14. file \in Seq(Row) \ {<< >>} /\ NoClip \in Seq(Row)
  BY <1>11 DEF Texts, NoClip
<1>15. f = [lines |-> file, crow |-> 0, ccol |-> 0, srow |-> 0, scol |-> 0,
            vrows |-> e.vrows, vcols |-> e.vcols, sel |-> FALSE, arow |-> 0, acol |-> 0,
            rrow |-> e.rrow, rcol |-> e.rcol, clip |-> NoClip]
  BY <1>12, <1>13
<1>16. /\ e.vrows \in {Viewport[1]} /\ e.vcols \in {Viewport[2]}
       /\ e.rrow \in Nat \cup {-1} /\ e.rcol \in Nat \cup {-1}
  BY DEF Editors
<1> QED
  BY <1>14, <1>15, <1>16, SMTT(30) DEF Editors

-----------------------------------------------------------------------------
(* A user's motions                                                        *)

\* A step that leaves the text alone.
Moves(e, f) == f \in Editors /\ f.lines = e.lines

\* The anchor set or dropped before a motion.
LEMMA AnchoredIs ==
  ASSUME NEW e \in Editors, NEW shift \in BOOLEAN
  PROVE  /\ Moves(e, Anchored(e, shift))
         /\ Anchored(e, shift).crow = e.crow /\ Anchored(e, shift).ccol = e.ccol
<1>1. /\ Moves(e, editor_sel_clear(e))
      /\ editor_sel_clear(e).crow = e.crow /\ editor_sel_clear(e).ccol = e.ccol
  BY DEF Moves, Editors, editor_sel_clear
<1>2. /\ Moves(e, editor_sel_set_anchor(e))
      /\ editor_sel_set_anchor(e).crow = e.crow /\ editor_sel_set_anchor(e).ccol = e.ccol
  BY DEF Moves, Editors, editor_sel_set_anchor
<1>3. Moves(e, e)
  BY DEF Moves
<1> QED
  BY <1>1, <1>2, <1>3, Zenon DEF Anchored

\* The cursor assigned.
LEMMA MovedMoves ==
  ASSUME NEW e \in Editors, NEW r \in Nat, NEW c \in Nat
  PROVE  Moves(e, CursorTo(e, r, c))
BY MovedTo DEF Moves, Edited

\* Each of the eight motions keeps the text.
LEMMA MotionsMove ==
  ASSUME NEW e \in Editors, At(e.lines, e.crow, e.ccol), NEW f \in Motions(e)
  PROVE  Moves(e, f)
<1>1. /\ e.lines \in Texts /\ Len(e.lines) \in Nat /\ e.crow \in Nat /\ e.ccol \in Nat
      /\ e.crow \in 0 .. Len(e.lines) - 1 /\ e.ccol \in 0 .. Len(e.lines[e.crow + 1])
  BY EditorFields, TextFacts DEF At
<1>2. \A r \in 0 .. Len(e.lines) - 1 : RowLen(e, r) \in Nat /\ r \in Nat
  BY <1>1, TextFacts DEF RowLen
<1>3. Moves(e, clamp_scroll(e)) /\ Moves(e, e)
  BY ClampIs DEF Moves, Edited
<1>4. Moves(e, editor_move_left(e))
  <2>1. CASE e.ccol > 0
    <3>1. e.ccol - 1 \in Nat
      BY <1>1, <2>1
    <3>2. Moves(e, CursorTo(e, e.crow, e.ccol - 1))
      BY <1>1, <3>1, MovedMoves
    <3> QED BY <2>1, <3>2 DEF editor_move_left
  <2>2. CASE ~(e.ccol > 0) /\ e.crow > 0
    <3>1. e.crow - 1 \in 0 .. Len(e.lines) - 1
      BY <1>1, <2>2
    <3>2. Moves(e, CursorTo(e, e.crow - 1, RowLen(e, e.crow - 1)))
      BY <1>2, <3>1, MovedMoves
    <3> QED BY <2>2, <3>2 DEF editor_move_left
  <2>3. CASE ~(e.ccol > 0) /\ ~(e.crow > 0)
    BY <1>3, <2>3 DEF editor_move_left
  <2> QED BY <2>1, <2>2, <2>3
<1>5. Moves(e, editor_move_right(e))
  <2>1. CASE e.ccol < RowLen(e, e.crow)
    <3>1. e.ccol + 1 \in Nat
      BY <1>1
    <3>2. Moves(e, CursorTo(e, e.crow, e.ccol + 1))
      BY <1>1, <3>1, MovedMoves
    <3> QED BY <2>1, <3>2 DEF editor_move_right
  <2>2. CASE ~(e.ccol < RowLen(e, e.crow)) /\ e.crow < RowCount(e) - 1
    <3>1. e.crow + 1 \in Nat /\ 0 \in Nat
      BY <1>1
    <3>2. Moves(e, CursorTo(e, e.crow + 1, 0))
      BY <3>1, MovedMoves
    <3> QED BY <2>2, <3>2 DEF editor_move_right
  <2>3. CASE ~(e.ccol < RowLen(e, e.crow)) /\ ~(e.crow < RowCount(e) - 1)
    BY <1>3, <2>3 DEF editor_move_right
  <2> QED BY <2>1, <2>2, <2>3
<1>6. ASSUME NEW r \in 0 .. Len(e.lines) - 1
      PROVE  Moves(e, ToRow(e, r))
  <2> DEFINE c == IF e.ccol > RowLen(e, r) THEN RowLen(e, r) ELSE e.ccol
  <2>1. r \in Nat /\ c \in Nat
    BY <1>1, <1>2
  <2> HIDE DEF c
  <2>2. Moves(e, CursorTo(e, r, c))
    BY <2>1, MovedMoves
  <2> QED BY <2>2 DEF ToRow, c
<1>7. Moves(e, editor_move_up(e))
  <2>1. CASE e.crow = 0
    BY <1>3, <2>1 DEF editor_move_up
  <2>2. CASE e.crow # 0 /\ e.crow - 1 = e.rrow
    BY <1>3, <2>2 DEF editor_move_up
  <2>3. CASE e.crow # 0 /\ e.crow - 1 # e.rrow
    <3>1. e.crow - 1 \in 0 .. Len(e.lines) - 1
      BY <1>1, <2>3
    <3> QED BY <1>6, <2>3, <3>1 DEF editor_move_up
  <2> QED BY <2>1, <2>2, <2>3
<1>8. Moves(e, editor_move_down(e))
  <2>1. CASE e.crow = RowCount(e) - 1
    BY <1>3, <2>1 DEF editor_move_down
  <2>2. CASE e.crow # RowCount(e) - 1 /\ e.crow + 1 = e.rrow
    BY <1>3, <2>2 DEF editor_move_down
  <2>3. CASE e.crow # RowCount(e) - 1 /\ e.crow + 1 # e.rrow
    <3>1. e.crow + 1 \in 0 .. Len(e.lines) - 1
      BY <1>1, <2>3 DEF RowCount
    <3> QED BY <1>6, <2>3, <3>1 DEF editor_move_down
  <2> QED BY <2>1, <2>2, <2>3
<1>9. Moves(e, editor_move_home(e)) /\ Moves(e, editor_move_end(e))
  <2>1. RowLen(e, e.crow) \in Nat /\ 0 \in Nat
    BY <1>1, <1>2
  <2> QED BY <1>1, <2>1, MovedMoves DEF editor_move_home, editor_move_end
<1>10. Moves(e, editor_move_word_left(e)) /\ Moves(e, editor_move_word_right(e))
  <2> DEFINE row == e.lines[e.crow + 1]
  <2>1. row \in Row /\ Len(row) \in Nat
    BY <1>1, TextFacts
  <2>2. WordStart(row, e.ccol) \in Nat /\ WordEnd(row, e.ccol) \in Nat
    <3>1. e.ccol \in 0 .. Len(row) /\ Len(row) \in Nat
      BY <1>1, <2>1
    <3> HIDE DEF row
    <3>2. WordStart(row, e.ccol) \in 0 .. e.ccol /\ WordEnd(row, e.ccol) \in e.ccol .. Len(row)
      BY <2>1, <3>1, WordBounds, Zenon
    <3> QED BY <3>1, <3>2
  <2> QED BY <1>1, <2>2, MovedMoves DEF editor_move_word_left, editor_move_word_right
<1> QED
  BY <1>4, <1>5, <1>7, <1>8, <1>9, <1>10 DEF Motions

\* A motion of the user, with shift or without.
LEMMA ArrowMoves ==
  ASSUME NEW e \in Editors, At(e.lines, e.crow, e.ccol), NEW shift \in BOOLEAN,
         NEW f \in Motions(Anchored(e, shift))
  PROVE  Moves(e, f)
<1> DEFINE g == Anchored(e, shift)
<1>1. Moves(e, g) /\ g.crow = e.crow /\ g.ccol = e.ccol
  BY AnchoredIs
<1> HIDE DEF g
<1>2. g \in Editors /\ At(g.lines, g.crow, g.ccol)
  BY <1>1 DEF Moves
<1>3. Moves(g, f)
  BY <1>2, MotionsMove DEF g
<1> QED
  BY <1>1, <1>3 DEF Moves

\* editor_set_cursor goes to a cell of the text.
LEMMA SetCursorMoves ==
  ASSUME NEW e \in Editors, NEW row \in Nat, NEW col \in Nat
  PROVE  Moves(e, editor_set_cursor(e, row, col))
<1> DEFINE r == Clamp(row, 0, RowCount(e) - 1)
           c == Clamp(col, 0, RowLen(e, r))
<1>1. e.lines \in Texts /\ Len(e.lines) \in Nat \ {0}
  BY EditorFields, TextFacts
<1>2. r \in 0 .. Len(e.lines) - 1
  BY <1>1 DEF Clamp, RowCount
<1>3. r \in Nat /\ RowLen(e, r) \in Nat
  <2> HIDE DEF r
  <2> QED BY <1>1, <1>2, TextFacts DEF RowLen
<1>4. c \in Nat
  <2> HIDE DEF r
  <2> QED BY <1>3 DEF Clamp
<1>5. editor_set_cursor(e, row, col) = IF e.rrow = row THEN e ELSE CursorTo(e, r, c)
  BY DEF editor_set_cursor
<1> HIDE DEF r, c
<1>6. Moves(e, CursorTo(e, r, c)) /\ Moves(e, e)
  BY <1>3, <1>4, MovedMoves DEF Moves
<1> QED
  BY <1>5, <1>6

\* A click and a drag keep the text.
LEMMA ClickMoves ==
  ASSUME NEW e \in Editors, NEW row \in Nat, NEW col \in Nat
  PROVE  /\ Moves(e, editor_sel_clear(e))
         /\ Moves(e, editor_sel_set_anchor(
                       editor_set_cursor(editor_sel_clear(e), row, col)))
<1> DEFINE f == editor_sel_clear(e)
           g == editor_set_cursor(f, row, col)
<1>1. Moves(e, f)
  BY DEF Moves, Editors, editor_sel_clear
<1> HIDE DEF f
<1>2. Moves(f, g)
  BY <1>1, SetCursorMoves DEF Moves
<1> HIDE DEF g
<1>3. Moves(g, editor_sel_set_anchor(g))
  BY <1>2 DEF Moves, Editors, editor_sel_set_anchor
<1> QED
  BY <1>1, <1>2, <1>3 DEF Moves, f, g

-----------------------------------------------------------------------------
(* The packets of the peer                                                 *)

\* What a packet does to text and cursor, the peer's cursor and the view aside.
Shows(e, f, lines, r) ==
  f \in Editors /\ f.lines = lines /\ f.crow = r /\ f.ccol = e.ccol

\* A change of the text and of the peer's cursor, then clamp_scroll.
LEMMA RemoteEdit ==
  ASSUME NEW e \in Editors, NEW lines \in Texts, NEW r \in Nat,
         NEW rr \in Nat \cup {-1}, NEW rc \in Nat \cup {-1}
  PROVE  Shows(e, clamp_scroll([e EXCEPT !.lines = lines, !.rrow = rr, !.rcol = rc,
                                         !.crow = r]), lines, r)
<1> DEFINE f == [e EXCEPT !.lines = lines, !.rrow = rr, !.rcol = rc, !.crow = r]
<1>1. f \in Editors /\ f.lines = lines /\ f.crow = r /\ f.ccol = e.ccol
  BY DEF Editors, Texts
<1> HIDE DEF f
<1>2. Edited(f, clamp_scroll(f), f.lines, f.crow, f.ccol)
  BY <1>1, ClampIs
<1> QED
  BY <1>1, <1>2 DEF Edited, Shows, f

\* A typed symbol of the peer, at its cursor; a new line moves ours when it is
\* further down.
LEMMA RemoteInsertIs ==
  ASSUME NEW e \in Editors, At(e.lines, e.rrow, e.rcol), NEW c \in Char \cup {Newline}
  PROVE  Shows(e, editor_remote_insert_char(e, c), Typed(e.lines, e.rrow, e.rcol, c),
               IF c = Newline THEN Shifted(e.crow, e.rrow, 1) ELSE e.crow)
<1> DEFINE new == Typed(e.lines, e.rrow, e.rcol, c)
           r == IF c = Newline THEN Shifted(e.crow, e.rrow, 1) ELSE e.crow
           rr == IF c = Newline THEN e.rrow + 1 ELSE e.rrow
           rc == IF c = Newline THEN 0 ELSE e.rcol + 1
<1>1. e.lines \in Texts /\ e.crow \in Nat
  BY EditorFields
<1>2. e.rrow \in Nat /\ e.rcol \in Nat
  BY <1>1, AtIsNat
<1>3. new \in Texts
  BY <1>1, TypedText
<1>4. r \in Nat /\ rr \in Nat \cup {-1} /\ rc \in Nat \cup {-1}
  BY <1>1, <1>2 DEF Shifted
<1>5. editor_remote_insert_char(e, c)
        = clamp_scroll([e EXCEPT !.lines = new, !.rrow = rr, !.rcol = rc, !.crow = r])
  <2>1. CASE c = Newline
    <3>1. TypedRows(c) = << << >>, << >> >>
      BY <2>1 DEF TypedRows
    <3>2. /\ new = Splice(e.lines, e.rrow, e.rcol, << << >>, << >> >>)
          /\ rr = e.rrow + 1 /\ rc = 0 /\ r = Shifted(e.crow, e.rrow, 1)
      BY <2>1, <3>1 DEF Typed
    <3> HIDE DEF new, r, rr, rc
    <3> QED BY <2>1, <3>2 DEF editor_remote_insert_char
  <2>2. CASE c # Newline
    <3>1. TypedRows(c) = << <<c>> >>
      BY <2>2 DEF TypedRows
    <3>2. /\ new = Splice(e.lines, e.rrow, e.rcol, << <<c>> >>)
          /\ rr = e.rrow /\ rc = e.rcol + 1 /\ r = e.crow
      BY <2>2, <3>1 DEF Typed
    <3> HIDE DEF new, r, rr, rc
    <3>3. [e EXCEPT !.lines = new, !.rrow = rr, !.rcol = rc, !.crow = r]
            = [e EXCEPT !.lines = new, !.rcol = rc]
      BY <3>2 DEF Editors
    <3>4. editor_remote_insert_char(e, c)
            = clamp_scroll([e EXCEPT !.lines = new, !.rcol = rc])
      BY <2>2, <3>2 DEF editor_remote_insert_char
    <3> QED BY <3>3, <3>4
  <2> QED BY <2>1, <2>2
<1> HIDE DEF new, r, rr, rc
<1>6. Shows(e, clamp_scroll([e EXCEPT !.lines = new, !.rrow = rr, !.rcol = rc,
                                      !.crow = r]), new, r)
  BY <1>3, <1>4, RemoteEdit
<1> QED
  BY <1>5, <1>6 DEF new, r

\* A symbol of the peer erased at its cursor; joining two rows moves our cursor
\* when it is further down.
LEMMA RemoteDeleteIs ==
  ASSUME NEW e \in Editors, At(e.lines, e.rrow, e.rcol)
  PROVE  Shows(e, editor_remote_delete_char(e), Erased(e.lines, e.rrow, e.rcol),
               IF e.rcol = 0 /\ e.rrow > 0 THEN Shifted(e.crow, e.rrow, -1) ELSE e.crow)
<1> DEFINE new == Erased(e.lines, e.rrow, e.rcol)
           r == IF e.rcol = 0 /\ e.rrow > 0 THEN Shifted(e.crow, e.rrow, -1) ELSE e.crow
<1>1. e.lines \in Texts /\ e.crow \in Nat
  BY EditorFields
<1>2. /\ e.rrow \in Nat /\ e.rcol \in Nat /\ Len(e.lines) \in Nat
      /\ e.rrow \in 0 .. Len(e.lines) - 1
  BY <1>1, AtIsNat, TextFacts DEF At
<1>3. new \in Texts
  BY <1>1, ErasedText
<1>4. r \in Nat
  BY <1>1, <1>2 DEF Shifted
<1>5. CASE e.rcol > 0
  <2> DEFINE rc == e.rcol - 1
  <2>1. /\ new = DeleteRange(e.lines, e.rrow, rc, e.rrow, e.rcol)
        /\ r = e.crow /\ rc \in Nat \cup {-1}
    BY <1>2, <1>5 DEF Erased
  <2> HIDE DEF new, r, rc
  <2>2. editor_remote_delete_char(e) = clamp_scroll([e EXCEPT !.lines = new, !.rcol = rc])
    BY <1>5, <2>1 DEF editor_remote_delete_char, rc
  <2>3. [e EXCEPT !.lines = new, !.rrow = e.rrow, !.rcol = rc, !.crow = r]
          = [e EXCEPT !.lines = new, !.rcol = rc]
    BY <2>1 DEF Editors
  <2>4. Shows(e, clamp_scroll([e EXCEPT !.lines = new, !.rrow = e.rrow, !.rcol = rc,
                                        !.crow = r]), new, r)
    BY <1>2, <1>3, <1>4, <2>1, RemoteEdit
  <2> QED BY <2>2, <2>3, <2>4 DEF new, r
<1>6. CASE e.rcol = 0 /\ e.rrow > 0
  <2> DEFINE len == Len(e.lines[e.rrow])
  <2>1. /\ e.rrow - 1 \in Nat \cup {-1} /\ (e.rrow - 1) + 1 = e.rrow
        /\ e.rrow \in 1 .. Len(e.lines) /\ len \in Nat \cup {-1}
    BY <1>1, <1>2, <1>6, TextFacts
  <2>2. RowLen(e, e.rrow - 1) = len
    BY <2>1 DEF RowLen
  <2>3. /\ new = DeleteRange(e.lines, e.rrow - 1, len, e.rrow, 0)
        /\ r = Shifted(e.crow, e.rrow, -1)
    BY <1>6 DEF Erased
  <2> HIDE DEF new, r, len
  <2>4. editor_remote_delete_char(e)
          = clamp_scroll([e EXCEPT !.lines = new, !.rrow = e.rrow - 1, !.rcol = len,
                                   !.crow = r])
    <3>1. editor_remote_delete_char(e)
            = clamp_scroll([e EXCEPT
                 !.lines = DeleteRange(@, e.rrow - 1, RowLen(e, e.rrow - 1), e.rrow, 0),
                 !.rrow = @ - 1, !.rcol = RowLen(e, e.rrow - 1),
                 !.crow = Shifted(@, e.rrow, -1)])
      <4>1. ~(e.rcol > 0) /\ e.rrow > 0
        BY <1>6
      <4> QED BY <4>1 DEF editor_remote_delete_char
    <3> QED BY <2>2, <2>3, <3>1
  <2>5. Shows(e, clamp_scroll([e EXCEPT !.lines = new, !.rrow = e.rrow - 1, !.rcol = len,
                                        !.crow = r]), new, r)
    BY <1>3, <1>4, <2>1, RemoteEdit
  <2> QED BY <2>4, <2>5 DEF new, r
<1>7. CASE e.rcol = 0 /\ e.rrow = 0
  <2>1. new = e.lines /\ r = e.crow
    BY <1>7 DEF Erased
  <2>2. editor_remote_delete_char(e) = clamp_scroll(e)
    BY <1>7 DEF editor_remote_delete_char
  <2> HIDE DEF new, r
  <2>3. Edited(e, clamp_scroll(e), e.lines, e.crow, e.ccol)
    BY ClampIs
  <2> QED BY <2>1, <2>2, <2>3 DEF Edited, Shows, new, r
<1> QED
  BY <1>2, <1>5, <1>6, <1>7

\* Nothing is erased before the start of the text.
LEMMA RemoteDeleteNothing ==
  ASSUME NEW e \in Editors, e.rrow <= 0, e.rcol <= 0
  PROVE  Shows(e, editor_remote_delete_char(e), e.lines, e.crow)
<1>1. ~(e.rcol > 0) /\ ~(e.rrow > 0)
  BY EditorFields
<1>2. editor_remote_delete_char(e) = clamp_scroll(e)
  BY <1>1 DEF editor_remote_delete_char
<1>3. Edited(e, clamp_scroll(e), e.lines, e.crow, e.ccol)
  BY ClampIs
<1> QED
  BY <1>2, <1>3 DEF Edited, Shows

\* The smaller of two numbers.
LEMMA MinOfTwo ==
  ASSUME NEW a \in Nat, NEW b \in Nat
  PROVE  Min({a, b}) = IF a <= b THEN a ELSE b
<1>1. \E x \in {a, b} : \A y \in {a, b} : x <= y
  OBVIOUS
<1>2. Min({a, b}) \in {a, b} /\ \A y \in {a, b} : Min({a, b}) <= y
  BY <1>1, Zenon DEF Min
<1> QED
  BY <1>2

\* The rows after a block of them was replaced by empty ones.
Blocked(lines, start, actual, inserted) ==
  SubSeq(lines, 1, start) \o [i \in 1 .. inserted |-> << >>]
    \o SubSeq(lines, start + actual + 1, Len(lines))

\* How many rows the replaced block has.
Actual(lines, start, deleted) ==
  IF deleted <= Len(lines) - start THEN deleted ELSE Len(lines) - start

\* `actual' rows from row start are in the text.
Within(lines, start, actual) ==
  start \in 0 .. Len(lines) /\ actual \in 0 .. Len(lines) - start

\* new has empty rows in their place, and the others in their order.
Makes(lines, new, start, actual, inserted) ==
  /\ Len(new) = Len(lines) - actual + inserted
  /\ \A i \in 1 .. start : new[i] = lines[i]
  /\ \A i \in start + 1 .. start + inserted : new[i] = << >>
  /\ \A i \in start + inserted + 1 .. Len(new) : new[i] = lines[i - inserted + actual]

\* The rows before and behind a replaced block stay, in their order.
LEMMA BlockedRows ==
  ASSUME NEW lines \in Texts, NEW start, NEW actual, Within(lines, start, actual),
         NEW inserted \in Nat \ {0},
         NEW new, new = Blocked(lines, start, actual, inserted)
  PROVE  new \in Texts /\ Makes(lines, new, start, actual, inserted)
<1> USE DEF Within
<1> DEFINE a == SubSeq(lines, 1, start)
           b == [i \in 1 .. inserted |-> << >>]
           c == SubSeq(lines, start + actual + 1, Len(lines))
<1>1. Len(lines) \in Nat /\ \A i \in 1 .. Len(lines) : lines[i] \in Row
  BY TextFacts
<1>2. a \in Seq(Row) /\ Len(a) = start /\ \A i \in 1 .. start : a[i] = lines[i]
  <2>1. \A i \in 1 .. start : lines[i] \in Row
    BY <1>1
  <2> QED BY <1>1, <2>1, SubSeqProperties
<1>3. b \in Seq(Row) /\ Len(b) = inserted /\ \A i \in 1 .. inserted : b[i] = << >>
  <2>1. << >> \in Row
    BY EmptySeq DEF Row
  <2> QED BY <2>1
<1>4. /\ c \in Seq(Row) /\ Len(c) = Len(lines) - start - actual
      /\ \A i \in 1 .. Len(lines) - start - actual : c[i] = lines[start + actual + i]
  <2>1. \A i \in start + actual + 1 .. Len(lines) : lines[i] \in Row
    BY <1>1
  <2>2. /\ c \in Seq(Row)
        /\ Len(c) = IF start + actual + 1 <= Len(lines)
                    THEN Len(lines) - (start + actual + 1) + 1 ELSE 0
        /\ \A i \in 1 .. Len(lines) - (start + actual + 1) + 1 :
             c[i] = lines[(start + actual + 1) + i - 1]
    BY <1>1, <2>1, SubSeqProperties
  <2>3. \A i \in Int : (start + actual + 1) + i - 1 = start + actual + i
    BY <1>1
  <2> HIDE DEF c
  <2> QED BY <1>1, <2>2, <2>3
<1> HIDE DEF a, b, c
<1>5. /\ a \o b \in Seq(Row) /\ Len(a \o b) = start + inserted
      /\ \A i \in 1 .. start + inserted :
           (a \o b)[i] = IF i <= start THEN a[i] ELSE b[i - start]
  <2>1. /\ a \o b \in Seq(Row) /\ Len(a \o b) = Len(a) + Len(b)
        /\ \A i \in 1 .. Len(a) + Len(b) :
             (a \o b)[i] = IF i <= Len(a) THEN a[i] ELSE b[i - Len(a)]
    BY <1>2, <1>3, ConcatProperties
  <2> QED BY <1>2, <1>3, <2>1
<1>6. /\ new \in Seq(Row) /\ Len(new) = Len(lines) - actual + inserted
      /\ \A i \in 1 .. Len(lines) - actual + inserted :
           new[i] = IF i <= start + inserted THEN (a \o b)[i]
                    ELSE c[i - (start + inserted)]
  <2>1. new = (a \o b) \o c
    BY DEF Blocked, a, b, c
  <2>2. /\ (a \o b) \o c \in Seq(Row)
        /\ Len((a \o b) \o c) = Len(a \o b) + Len(c)
        /\ \A i \in 1 .. Len(a \o b) + Len(c) :
             ((a \o b) \o c)[i] = IF i <= Len(a \o b) THEN (a \o b)[i]
                                  ELSE c[i - Len(a \o b)]
    BY <1>4, <1>5, ConcatProperties
  <2>3. Len(a \o b) + Len(c) = Len(lines) - actual + inserted
    BY <1>1, <1>4, <1>5
  <2> QED BY <1>5, <2>1, <2>2, <2>3
<1>7. Len(new) \in Nat \ {0}
  BY <1>1, <1>6
<1>8. new \in Texts
  BY <1>6, <1>7, EmptySeq DEF Texts
<1>9. ASSUME NEW i \in 1 .. start
      PROVE  new[i] = lines[i]
  <2>1. /\ i \in 1 .. start + inserted /\ i \in 1 .. Len(lines) - actual + inserted
        /\ i <= start /\ i <= start + inserted
    BY <1>1
  <2>2. new[i] = (a \o b)[i]
    BY <1>6, <2>1
  <2>3. (a \o b)[i] = a[i]
    BY <1>5, <2>1
  <2> QED BY <1>2, <2>2, <2>3
<1>10. ASSUME NEW i \in start + 1 .. start + inserted
       PROVE  new[i] = << >>
  <2>1. /\ i \in 1 .. start + inserted /\ i \in 1 .. Len(lines) - actual + inserted
        /\ ~(i <= start) /\ i - start \in 1 .. inserted /\ i <= start + inserted
    BY <1>1
  <2>2. new[i] = (a \o b)[i]
    BY <1>6, <2>1
  <2>3. (a \o b)[i] = b[i - start]
    BY <1>5, <2>1
  <2> QED BY <1>3, <2>1, <2>2, <2>3
<1>11. ASSUME NEW i \in start + inserted + 1 .. Len(new)
       PROVE  new[i] = lines[i - inserted + actual]
  <2> DEFINE k == i - (start + inserted)
  <2>1. /\ i \in 1 .. Len(lines) - actual + inserted /\ ~(i <= start + inserted)
        /\ k \in 1 .. Len(lines) - start - actual
        /\ start + actual + k = i - inserted + actual
    BY <1>1, <1>6
  <2>2. new[i] = c[k] /\ c[k] = lines[start + actual + k]
    BY <1>4, <1>6, <2>1
  <2> QED BY <2>1, <2>2
<1> QED
  BY <1>6, <1>8, <1>9, <1>10, <1>11 DEF Makes

\* A block of the peer: nothing behind the text, else rows are made room for and
\* our cursor keeps its row when it is further down.
LEMMA ReplaceBlockIs ==
  ASSUME NEW e \in Editors, NEW start \in Nat,
         NEW deleted \in Nat \ {0}, NEW inserted \in Nat \ {0},
         NEW f, f = editor_remote_replace_block(e, start, deleted, inserted),
         NEW actual, actual = Actual(e.lines, start, deleted)
  PROVE  /\ start > Len(e.lines) => f = e
         /\ start <= Len(e.lines) =>
              /\ actual \in 0 .. Len(e.lines) - start
              /\ Shows(e, f, Blocked(e.lines, start, actual, inserted),
                       Shifted(e.crow, start + actual - 1, inserted - actual))
<1>1. e.lines \in Texts /\ e.crow \in Nat /\ Len(e.lines) \in Nat
  BY EditorFields, TextFacts
<1>2. CASE start > Len(e.lines)
  <2>1. f = e
    BY <1>2 DEF editor_remote_replace_block, RowCount
  <2> QED BY <1>1, <1>2, <2>1
<1>3. CASE start <= Len(e.lines)
  <2> DEFINE new == Blocked(e.lines, start, actual, inserted)
             r == Shifted(e.crow, start + actual - 1, inserted - actual)
             h == [e EXCEPT !.lines = new, !.crow = r]
  <2>1. actual \in 0 .. Len(e.lines) - start /\ Len(e.lines) - start \in Nat
    BY <1>1, <1>3 DEF Actual
  <2>2. Min({deleted, Len(e.lines) - start}) = actual
    BY <2>1, MinOfTwo DEF Actual
  <2>3. f = clamp_scroll(h)
    <3>1. ~(start > RowCount(e)) /\ RowCount(e) = Len(e.lines)
      BY <1>1, <1>3 DEF RowCount
    <3>2. f = clamp_scroll([e EXCEPT
                !.lines = SubSeq(@, 1, start) \o [i \in 1 .. inserted |-> << >>]
                            \o SubSeq(@, start + Min({deleted, RowCount(e) - start}) + 1,
                                      Len(@)),
                !.crow = Shifted(@, start + Min({deleted, RowCount(e) - start}) - 1,
                                 inserted - Min({deleted, RowCount(e) - start}))])
      BY <3>1 DEF editor_remote_replace_block
    <3> QED BY <2>2, <3>1, <3>2 DEF Blocked
  <2>4. new \in Texts
    <3>1. start \in 0 .. Len(e.lines)
      BY <1>1, <1>3
    <3>2. Within(e.lines, start, actual) /\ inserted \in Nat \ {0} /\ e.lines \in Texts
      BY <1>1, <2>1, <3>1 DEF Within
    <3> QED BY <3>2, BlockedRows
  <2>5. r \in Nat
    BY <1>1, <1>3, <2>1 DEF Shifted
  <2> HIDE DEF new, r
  <2>6. h = [e EXCEPT !.lines = new, !.rrow = e.rrow, !.rcol = e.rcol, !.crow = r]
    BY DEF Editors
  <2>7. e.rrow \in Nat \cup {-1} /\ e.rcol \in Nat \cup {-1}
    BY EditorFields
  <2>8. Shows(e, clamp_scroll([e EXCEPT !.lines = new, !.rrow = e.rrow, !.rcol = e.rcol,
                                        !.crow = r]), new, r)
    BY <2>4, <2>5, <2>7, RemoteEdit
  <2> QED BY <1>1, <1>3, <2>1, <2>3, <2>6, <2>8 DEF new, r
<1> QED
  BY <1>1, <1>2, <1>3

\* A row of the peer: nothing behind the text, else the row is replaced.
LEMMA UpdateLineIs ==
  ASSUME NEW e \in Editors, NEW row \in Nat, NEW text \in Row,
         NEW f, f = editor_remote_update_line(e, row, text)
  PROVE  /\ row >= Len(e.lines) => f = e
         /\ row < Len(e.lines) =>
              /\ [e.lines EXCEPT ![row + 1] = text] \in Texts
              /\ Shows(e, f, [e.lines EXCEPT ![row + 1] = text], e.crow)
<1>1. /\ e.lines \in Seq(Row) /\ e.lines # << >> /\ e.crow \in Nat /\ Len(e.lines) \in Nat
      /\ e.rrow \in Nat \cup {-1} /\ e.rcol \in Nat \cup {-1}
  BY EditorFields, TextFacts DEF Texts
<1>2. CASE row >= Len(e.lines)
  <2>1. f = e
    BY <1>2 DEF editor_remote_update_line, RowCount
  <2> QED BY <1>1, <1>2, <2>1
<1>3. CASE row < Len(e.lines)
  <2> DEFINE new == [e.lines EXCEPT ![row + 1] = text]
             h == [e EXCEPT !.lines = new]
  <2>1. row + 1 \in 1 .. Len(e.lines)
    BY <1>1, <1>3
  <2>2. new \in Seq(Row) /\ Len(new) = Len(e.lines)
    BY <1>1, <2>1, ExceptSeq
  <2>3. new \in Texts
    BY <1>1, <2>1, <2>2, EmptySeq DEF Texts
  <2>4. f = clamp_scroll(h)
    <3>1. ~(row >= RowCount(e))
      BY <1>1, <1>3 DEF RowCount
    <3> QED BY <3>1 DEF editor_remote_update_line
  <2> HIDE DEF new
  <2>5. h = [e EXCEPT !.lines = new, !.rrow = e.rrow, !.rcol = e.rcol, !.crow = e.crow]
    BY DEF Editors
  <2>6. Shows(e, clamp_scroll([e EXCEPT !.lines = new, !.rrow = e.rrow, !.rcol = e.rcol,
                                        !.crow = e.crow]), new, e.crow)
    BY <1>1, <2>3, RemoteEdit
  <2> QED BY <1>1, <1>3, <2>3, <2>4, <2>5, <2>6 DEF new
<1> QED
  BY <1>1, <1>2, <1>3

\* A position of the peer.
LEMMA SetRemoteIs ==
  ASSUME NEW e \in Editors, NEW row \in Nat, NEW col \in Nat
  PROVE  Shows(e, editor_set_remote_cursor(e, row, col), e.lines, e.crow)
<1>1. Shows(e, e, e.lines, e.crow)
  BY DEF Shows
<1>2. Shows(e, [e EXCEPT !.rrow = row, !.rcol = col], e.lines, e.crow)
  BY DEF Shows, Editors
<1> QED
  BY <1>1, <1>2, Zenon DEF editor_set_remote_cursor

\* The text of one empty row.
Blankt == << << >> >>

\* The start of a transfer empties the text.
LEMMA InitIs ==
  ASSUME NEW e \in Editors
  PROVE  editor_init(e) \in Editors /\ editor_init(e).lines = Blankt
<1>1. << >> \in Row /\ << >> \in Seq(Row)
  BY EmptySeq DEF Row
<1>2. << << >> >> \in Seq(Row) /\ Len(<< << >> >>) = 1
  BY <1>1
<1>3. << << >> >> \in Seq(Row) \ {<< >>}
  BY <1>2, EmptySeq
<1>4. editor_init(e)
        = [lines |-> << << >> >>, crow |-> 0, ccol |-> 0, srow |-> 0, scol |-> 0,
           vrows |-> e.vrows, vcols |-> e.vcols, sel |-> FALSE, arow |-> 0, acol |-> 0,
           rrow |-> e.rrow, rcol |-> e.rcol, clip |-> << >>]
  <2>1. editor_sel_clear(e) = [e EXCEPT !.sel = FALSE, !.arow = 0, !.acol = 0]
    BY DEF editor_sel_clear
  <2>2. editor_init(e)
          = [e EXCEPT !.sel = FALSE, !.arow = 0, !.acol = 0, !.lines = << << >> >>,
                      !.crow = 0, !.ccol = 0, !.srow = 0, !.scol = 0, !.clip = NoClip]
    BY <2>1 DEF editor_init, Editors
  <2> QED BY <2>2 DEF NoClip, Editors
<1>5. /\ e.vrows \in {Viewport[1]} /\ e.vcols \in {Viewport[2]}
      /\ e.rrow \in Nat \cup {-1} /\ e.rcol \in Nat \cup {-1}
  BY DEF Editors
<1>6. editor_init(e).lines = << << >> >>
  BY <1>4
<1> QED
  BY <1>1, <1>3, <1>4, <1>5, <1>6, SMTT(30) DEF Editors, Blankt

\* A line of the file and an empty row after it.
Grown(lines, row) == Append([lines EXCEPT ![Len(lines)] = row], << >>)

\* A loaded line makes the text one row longer.
LEMMA GrownText ==
  ASSUME NEW lines \in Texts, NEW row \in Row
  PROVE  /\ Grown(lines, row) \in Texts /\ Len(Grown(lines, row)) = Len(lines) + 1
         /\ \A i \in 1 .. Len(lines) + 1 :
              Grown(lines, row)[i] = IF i < Len(lines) THEN lines[i]
                                     ELSE IF i = Len(lines) THEN row ELSE << >>
<1> DEFINE mid == [lines EXCEPT ![Len(lines)] = row]
<1>1. lines \in Seq(Row) /\ Len(lines) \in Nat \ {0} /\ Len(lines) \in 1 .. Len(lines)
  BY TextFacts DEF Texts
<1>2. << >> \in Row
  BY EmptySeq DEF Row
<1>3. /\ mid \in Seq(Row) /\ Len(mid) = Len(lines)
      /\ \A j \in 1 .. Len(lines) : mid[j] = IF j = Len(lines) THEN row ELSE lines[j]
  BY <1>1, ExceptSeq
<1>4. Grown(lines, row) = Append(mid, << >>)
  BY DEF Grown
<1> HIDE DEF mid
<1>5. /\ Append(mid, << >>) \in Seq(Row) /\ Append(mid, << >>) # << >>
      /\ Len(Append(mid, << >>)) = Len(mid) + 1
      /\ \A i \in 1 .. Len(mid) : Append(mid, << >>)[i] = mid[i]
      /\ Append(mid, << >>)[Len(mid) + 1] = << >>
  BY <1>2, <1>3, AppendProperties
<1>6. ASSUME NEW i \in 1 .. Len(lines) + 1
      PROVE  Append(mid, << >>)[i] = IF i < Len(lines) THEN lines[i]
                                     ELSE IF i = Len(lines) THEN row ELSE << >>
  <2>1. CASE i = Len(lines) + 1
    <3>1. ~(i < Len(lines)) /\ i # Len(lines)
      BY <1>1, <2>1
    <3> QED BY <1>3, <1>5, <2>1, <3>1
  <2>2. CASE i # Len(lines) + 1
    <3>1. i \in 1 .. Len(lines)
      BY <1>1, <2>2
    <3>2. Append(mid, << >>)[i] = mid[i]
      BY <1>3, <1>5, <3>1
    <3>3. mid[i] = IF i = Len(lines) THEN row ELSE lines[i]
      BY <1>3, <3>1
    <3>4. i # Len(lines) => i < Len(lines)
      BY <1>1, <3>1
    <3>5. i = Len(lines) => ~(i < Len(lines))
      BY <1>1
    <3> QED BY <3>2, <3>3, <3>4, <3>5
  <2> QED BY <2>1, <2>2
<1> QED
  BY <1>3, <1>4, <1>5, <1>6 DEF Texts

\* editor_load_line adds a row.
LEMMA LoadLineIs ==
  ASSUME NEW e \in Editors, NEW row \in Row
  PROVE  /\ editor_load_line(e, row) \in Editors
         /\ editor_load_line(e, row).lines = Grown(e.lines, row)
<1>1. Grown(e.lines, row) \in Texts
  BY EditorFields, GrownText
<1>2. editor_load_line(e, row) = [e EXCEPT !.lines = Grown(e.lines, row)]
  BY DEF editor_load_line, Grown
<1> QED
  BY <1>1, <1>2 DEF Editors, Texts

\* The rows without the empty one that a transfer leaves at the end.
Trimmed(lines) ==
  IF Len(lines) > 1 /\ Len(lines[Len(lines)]) = 0 THEN SubSeq(lines, 1, Len(lines) - 1)
  ELSE lines

\* A text does not lose its only row.
LEMMA TrimmedText ==
  ASSUME NEW lines \in Texts
  PROVE  Trimmed(lines) \in Texts
<1>1. Len(lines) \in Nat \ {0} /\ \A i \in 1 .. Len(lines) : lines[i] \in Row
  BY TextFacts
<1>2. CASE Len(lines) > 1 /\ Len(lines[Len(lines)]) = 0
  <2>1. /\ SubSeq(lines, 1, Len(lines) - 1) \in Seq(Row)
        /\ Len(SubSeq(lines, 1, Len(lines) - 1)) = Len(lines) - 1
    <3>1. \A i \in 1 .. Len(lines) - 1 : lines[i] \in Row
      BY <1>1
    <3>2. Len(lines) - 1 \in Int /\ 1 <= Len(lines) - 1
      BY <1>1, <1>2
    <3> QED BY <1>1, <3>1, <3>2, SubSeqProperties
  <2>2. Len(lines) - 1 # 0
    BY <1>1, <1>2
  <2>3. SubSeq(lines, 1, Len(lines) - 1) # << >>
    BY <2>1, <2>2, EmptySeq, Zenon
  <2> QED BY <1>2, <2>1, <2>3 DEF Trimmed, Texts
<1>3. CASE ~(Len(lines) > 1 /\ Len(lines[Len(lines)]) = 0)
  BY <1>3 DEF Trimmed
<1> QED
  BY <1>2, <1>3

\* editor_load_finalize trims the text.
LEMMA FinalizeIs ==
  ASSUME NEW e \in Editors
  PROVE  /\ editor_load_finalize(e) \in Editors
         /\ editor_load_finalize(e).lines = Trimmed(e.lines)
<1>1. Trimmed(e.lines) \in Texts /\ Len(e.lines) \in Nat
  BY EditorFields, TextFacts, TrimmedText
<1>2. RowLen(e, RowCount(e) - 1) = Len(e.lines[Len(e.lines)]) /\ RowCount(e) = Len(e.lines)
  BY <1>1 DEF RowLen, RowCount
<1>3. editor_load_finalize(e) = [e EXCEPT !.lines = Trimmed(e.lines)]
  <2>1. e = [e EXCEPT !.lines = e.lines]
    BY DEF Editors
  <2> QED BY <1>2, <2>1 DEF editor_load_finalize, Trimmed
<1> QED
  BY <1>1, <1>3 DEF Editors, Texts

-----------------------------------------------------------------------------
(* What is sent                                                            *)

\* The part of a row that fits in a packet is a row.
LEMMA CutRow ==
  ASSUME NEW row \in Row, NEW max \in Nat
  PROVE  Cut(row, max) \in Row /\ (Len(row) <= max => Cut(row, max) = row)
<1>1. Len(row) \in Nat
  BY LenProperties DEF Row
<1>2. CASE Len(row) > max
  <2>1. SubSeq(row, 1, max) \in Row
    BY <1>1, <1>2, RowPieces, 0 \in 0 .. Len(row), max \in 0 .. Len(row)
  <2> QED BY <1>1, <1>2, <2>1 DEF Cut
<1>3. CASE ~(Len(row) > max)
  BY <1>3 DEF Cut
<1> QED
  BY <1>2, <1>3

\* A row number of any kind in 16 bits; row -1 becomes the last number.
LEMMA SixteenBits ==
  ASSUME NEW r \in Int
  PROVE  /\ RowNumber(r) \in RowNumbers
         /\ r >= 0 /\ r < 65536 => RowNumber(r) = r
         /\ r < 0 /\ r > -2 => RowNumber(r) > 65534
<1>1. RowNumber(r) \in RowNumbers
  BY SMT DEF RowNumber, RowNumbers
<1>2. r >= 0 /\ r < 65536 => RowNumber(r) = r
  BY SMTT(60) DEF RowNumber
<1>3. r < 0 /\ r > -2 => RowNumber(r) > 65534
  BY SMTT(60) DEF RowNumber
<1> QED
  BY <1>1, <1>2, <1>3, SMT

\* Row numbers are natural numbers.
LEMMA RowNumberIsNat == RowNumbers \subseteq Nat
BY SMTT(60) DEF RowNumbers

\* The kinds of packets, one by one.
LEMMA PacketKinds ==
  /\ \A k \in [cmd : {"INSERT_CHAR"}, c : Char \cup {Newline}, at : Nat \X Nat] :
       k \in Packets
  /\ \A k \in [cmd : {"DELETE_CHAR"}, at : Nat \X Nat] : k \in Packets
  /\ \A k \in [cmd : {"MOVE_CURSOR"}, row : Nat, col : Nat] : k \in Packets
  /\ \A k \in [cmd : {"REPLACE_BLOCK"}, row : RowNumbers, deleted : Nat \ {0},
               inserted : Nat \ {0}] : k \in Packets
  /\ \A k \in [cmd : {"UPDATE_LINE"}, row : RowNumbers, text : Row] : k \in Packets
  /\ \A k \in [cmd : {"FILE_START"}, lines : Nat \ {0}] : k \in Packets
  /\ \A k \in [cmd : {"FILE_LINE"}, text : Row] : k \in Packets
BY Zenon DEF Packets

\* The packets of one row, of the cursor and of the relative edits.
LEMMA PacketsOfEditor ==
  ASSUME NEW e \in Editors
  PROVE  /\ \A r \in Int : UpdateLine(e, r) \in Packets
         /\ \A r, c \in Nat : MoveCursor(r, c) \in Packets
         /\ \A c \in Char \cup {Newline} : InsertChar(e, c) \in Packets
         /\ DeleteChar(e) \in Packets
<1>1. e.lines \in Texts /\ e.crow \in Nat /\ e.ccol \in Nat
  BY EditorFields
<1>2. ASSUME NEW r \in Int
      PROVE  UpdateLine(e, r) \in Packets
  <2>1. Line(e, r) \in Row
    <3>1. CASE r \in 0 .. RowCount(e) - 1
      <4>1. r + 1 \in 1 .. Len(e.lines)
        BY <1>1, <3>1, TextFacts DEF RowCount
      <4> QED BY <1>1, <3>1, <4>1, TextFacts DEF Line
    <3>2. CASE r \notin 0 .. RowCount(e) - 1
      BY <3>2, EmptySeq DEF Line, Row
    <3> QED BY <3>1, <3>2
  <2>2. Cut(Line(e, r), UPDATE_MAX) \in Row
    BY <2>1, CutRow DEF UPDATE_MAX
  <2>3. RowNumber(r) \in RowNumbers
    BY SixteenBits, SMT
  <2>4. UpdateLine(e, r) \in [cmd : {"UPDATE_LINE"}, row : RowNumbers, text : Row]
    BY <2>2, <2>3, SMT DEF UpdateLine
  <2> QED BY <2>4, PacketKinds, Zenon
<1>3. ASSUME NEW r \in Nat, NEW c \in Nat
      PROVE  MoveCursor(r, c) \in Packets
  <2>1. MoveCursor(r, c) \in [cmd : {"MOVE_CURSOR"}, row : Nat, col : Nat]
    BY DEF MoveCursor
  <2> QED BY <2>1, PacketKinds, Zenon
<1>4. ASSUME NEW c \in Char \cup {Newline}
      PROVE  InsertChar(e, c) \in Packets
  <2>1. InsertChar(e, c)
          \in [cmd : {"INSERT_CHAR"}, c : Char \cup {Newline}, at : Nat \X Nat]
    BY <1>1 DEF InsertChar
  <2> QED BY <2>1, PacketKinds, Zenon
<1>5. DeleteChar(e) \in Packets
  <2>1. DeleteChar(e) \in [cmd : {"DELETE_CHAR"}, at : Nat \X Nat]
    BY <1>1 DEF DeleteChar
  <2> QED BY <2>1, PacketKinds, Zenon
<1> QED
  BY <1>2, <1>3, <1>4, <1>5

\* The parts of a block: the room it makes, if any, and its rows.
Room(start, deleted, inserted) ==
  IF deleted = 1 /\ inserted = 1 THEN << >>
  ELSE << [cmd |-> "REPLACE_BLOCK", row |-> RowNumber(start), deleted |-> deleted,
           inserted |-> inserted] >>

BlockRows(e, start, inserted) == [i \in 1 .. inserted |-> UpdateLine(e, start + i - 1)]

\* A block is its room, its rows and the cursor.
LEMMA BlockParts ==
  ASSUME NEW e \in Editors, NEW start \in Int,
         NEW deleted \in Nat \ {0}, NEW inserted \in Nat \ {0}
  PROVE  /\ Room(start, deleted, inserted) \in Seq(Packets)
         /\ BlockRows(e, start, inserted) \in Seq(Packets)
         /\ Len(BlockRows(e, start, inserted)) = inserted
         /\ << MoveCursor(e.crow, e.ccol) >> \in Seq(Packets)
         /\ sync_block(e, start, deleted, inserted)
              = (Room(start, deleted, inserted) \o BlockRows(e, start, inserted))
                  \o << MoveCursor(e.crow, e.ccol) >>
         /\ sync_block(e, start, deleted, inserted) \in Seq(Packets)
<1> DEFINE a == Room(start, deleted, inserted)
           b == BlockRows(e, start, inserted)
           c == << MoveCursor(e.crow, e.ccol) >>
<1>1. a \in Seq(Packets)
  <2> DEFINE k == [cmd |-> "REPLACE_BLOCK", row |-> RowNumber(start), deleted |-> deleted,
                   inserted |-> inserted]
  <2>1. RowNumber(start) \in RowNumbers
    BY SixteenBits, SMT
  <2>2. k \in [cmd : {"REPLACE_BLOCK"}, row : RowNumbers, deleted : Nat \ {0},
               inserted : Nat \ {0}]
    BY <2>1, SMT
  <2>3. a = << >> \/ a = << k >>
    BY DEF Room
  <2> HIDE DEF k, a
  <2>4. k \in Packets
    BY <2>2, PacketKinds, Zenon
  <2>5. << k >> \in Seq(Packets) /\ << >> \in Seq(Packets)
    BY <2>4
  <2> QED BY <2>3, <2>5
<1>2. b \in Seq(Packets) /\ Len(b) = inserted
  <2>1. \A i \in 1 .. inserted : UpdateLine(e, start + i - 1) \in Packets
    BY PacketsOfEditor
  <2> QED BY <2>1 DEF BlockRows
<1>3. c \in Seq(Packets)
  <2>1. MoveCursor(e.crow, e.ccol) \in Packets
    BY EditorFields, PacketsOfEditor
  <2> QED BY <2>1
<1>4. sync_block(e, start, deleted, inserted) = (a \o b) \o c
  BY DEF sync_block, Room, BlockRows
<1> HIDE DEF a, b, c
<1>5. a \o b \in Seq(Packets)
  BY <1>1, <1>2, ConcatProperties
<1>6. (a \o b) \o c \in Seq(Packets)
  BY <1>3, <1>5, ConcatProperties
<1> QED
  BY <1>1, <1>2, <1>3, <1>4, <1>6 DEF a, b, c

\* The parts of a transfer: its start, its lines.
FileStart(e) == << [cmd |-> "FILE_START", lines |-> RowCount(e)] >>
FileLines(e) ==
  [i \in 1 .. RowCount(e) |-> [cmd |-> "FILE_LINE", text |-> Cut(e.lines[i], FILE_MAX)]]

\* A transfer is its start, its lines and the cursor.
LEMMA ShareParts ==
  ASSUME NEW e \in Editors
  PROVE  /\ FileStart(e) \in Seq(Packets) /\ FileLines(e) \in Seq(Packets)
         /\ << MoveCursor(e.crow, e.ccol) >> \in Seq(Packets)
         /\ Len(FileLines(e)) = Len(e.lines)
         /\ Share(e) = (FileStart(e) \o FileLines(e)) \o << MoveCursor(e.crow, e.ccol) >>
         /\ Share(e) \in Seq(Packets)
<1> DEFINE a == FileStart(e)
           b == FileLines(e)
           c == << MoveCursor(e.crow, e.ccol) >>
<1>1. e.lines \in Texts /\ RowCount(e) = Len(e.lines) /\ Len(e.lines) \in Nat \ {0}
  BY EditorFields, TextFacts DEF RowCount
<1>2. a \in Seq(Packets)
  <2>1. [cmd |-> "FILE_START", lines |-> RowCount(e)] \in Packets
    <3>1. [cmd |-> "FILE_START", lines |-> RowCount(e)]
            \in [cmd : {"FILE_START"}, lines : Nat \ {0}]
      BY <1>1
    <3> QED BY <3>1, PacketKinds, Zenon
  <2> QED BY <2>1 DEF FileStart
<1>3. b \in Seq(Packets) /\ Len(b) = Len(e.lines)
  <2>1. ASSUME NEW i \in 1 .. RowCount(e)
        PROVE  [cmd |-> "FILE_LINE", text |-> Cut(e.lines[i], FILE_MAX)] \in Packets
    <3>1. e.lines[i] \in Row
      BY <1>1, TextFacts
    <3>2. Cut(e.lines[i], FILE_MAX) \in Row
      BY <3>1, CutRow DEF FILE_MAX
    <3>3. [cmd |-> "FILE_LINE", text |-> Cut(e.lines[i], FILE_MAX)]
            \in [cmd : {"FILE_LINE"}, text : Row]
      BY <3>2
    <3> QED BY <3>3, PacketKinds, Zenon
  <2> QED BY <1>1, <2>1 DEF FileLines
<1>4. c \in Seq(Packets)
  <2>1. MoveCursor(e.crow, e.ccol) \in Packets
    BY EditorFields, PacketsOfEditor
  <2> QED BY <2>1
<1>5. Share(e) = (a \o b) \o c
  <2>1. Share(e) = a \o b \o c
    BY DEF Share, FileStart, FileLines
  <2> QED BY <2>1
<1> HIDE DEF a, b, c
<1>6. a \o b \in Seq(Packets)
  BY <1>2, <1>3, ConcatProperties
<1>7. (a \o b) \o c \in Seq(Packets)
  BY <1>4, <1>6, ConcatProperties
<1> QED
  BY <1>2, <1>3, <1>4, <1>5, <1>7 DEF a, b, c

\* A block replaced by a row and then that row by others.
LEMMA ReplacesTwice ==
  ASSUME NEW a \in Texts, NEW b \in Texts, NEW c \in Texts,
         NEW start, NEW deleted, NEW inserted,
         Replaces(a, b, start, deleted, 1), Replaces(b, c, start, 1, inserted)
  PROVE  Replaces(a, c, start, deleted, inserted)
<1>1. /\ Len(a) \in Nat /\ Len(b) \in Nat /\ Len(c) \in Nat
      /\ start \in Nat /\ deleted \in Nat \ {0} /\ inserted \in Nat \ {0}
      /\ start + deleted <= Len(a)
      /\ Len(b) = Len(a) - deleted + 1 /\ Len(c) = Len(b) - 1 + inserted
  BY TextFacts DEF Replaces
<1>2. Len(c) = Len(a) - deleted + inserted
  BY <1>1
<1>3. ASSUME NEW i \in 1 .. start
      PROVE  c[i] = a[i]
  BY DEF Replaces
<1>4. ASSUME NEW i \in start + inserted + 1 .. Len(c)
      PROVE  c[i] = a[i - inserted + deleted]
  <2> DEFINE k == i - inserted + 1
  <2>1. k \in start + 1 + 1 .. Len(b) /\ k - 1 + deleted = i - inserted + deleted
    BY <1>1
  <2>2. c[i] = b[k]
    BY DEF Replaces
  <2>3. b[k] = a[k - 1 + deleted]
    <3> HIDE DEF k
    <3> QED BY <2>1 DEF Replaces
  <2> QED BY <2>1, <2>2, <2>3
<1> QED
  BY <1>1, <1>2, <1>3, <1>4 DEF Replaces

\* What a command tells the peer: nothing; a position, the text being the same;
\* a symbol typed or erased at the cursor; a block; or a block before the text.
Tells(old, e, packets) ==
  \/ packets = << >>
  \/ \E r, c \in Nat : e.lines = old.lines /\ packets = << MoveCursor(r, c) >>
  \/ \E c \in Char \cup {Newline} :
       /\ At(old.lines, old.crow, old.ccol)
       /\ e.lines = Typed(old.lines, old.crow, old.ccol, c)
       /\ packets = << InsertChar(old, c) >>
  \/ /\ At(old.lines, old.crow, old.ccol)
     /\ e.lines = Erased(old.lines, old.crow, old.ccol)
     /\ packets = << DeleteChar(old) >>
  \/ \E start \in Nat, deleted, inserted \in Nat \ {0} :
       /\ Replaces(old.lines, e.lines, start, deleted, inserted)
       /\ packets = sync_block(e, start, deleted, inserted)
  \/ e.lines = old.lines /\ packets = sync_block(e, -1, 2, 1)

\* What is told is told in packets.
LEMMA TellsPackets ==
  ASSUME NEW old \in Editors, NEW e \in Editors, NEW packets, Tells(old, e, packets)
  PROVE  packets \in Seq(Packets)
<1>1. CASE packets = << >>
  BY <1>1, EmptySeq
<1>2. CASE \E r, c \in Nat : packets = << MoveCursor(r, c) >>
  <2>1. \A k \in Packets : << k >> \in Seq(Packets)
    OBVIOUS
  <2> QED BY <1>2, <2>1, PacketsOfEditor
<1>3. CASE \E c \in Char \cup {Newline} : packets = << InsertChar(old, c) >>
  <2>1. \A k \in Packets : << k >> \in Seq(Packets)
    OBVIOUS
  <2> QED BY <1>3, <2>1, PacketsOfEditor
<1>4. CASE packets = << DeleteChar(old) >>
  <2>1. \A k \in Packets : << k >> \in Seq(Packets)
    OBVIOUS
  <2> QED BY <1>4, <2>1, PacketsOfEditor
<1>5. CASE \E start \in Nat, deleted, inserted \in Nat \ {0} :
             packets = sync_block(e, start, deleted, inserted)
  <2>1. PICK start \in Nat, deleted \in Nat \ {0}, inserted \in Nat \ {0} :
               packets = sync_block(e, start, deleted, inserted)
    BY <1>5
  <2>2. start \in Int
    OBVIOUS
  <2> QED BY <2>1, <2>2, BlockParts
<1>6. CASE packets = sync_block(e, -1, 2, 1)
  <2>1. -1 \in Int /\ 2 \in Nat \ {0} /\ 1 \in Nat \ {0}
    OBVIOUS
  <2> QED BY <1>6, <2>1, BlockParts
<1> QED
  BY <1>1, <1>2, <1>3, <1>4, <1>5, <1>6 DEF Tells

\* A command of p's user, by what it leaves and what it tells.
Command(p) ==
  \E e \in Editors, packets \in Seq(Packets) :
    Does(p, e, packets) /\ Tells(ed[p], e, packets)

\* The rows of the selection replaced by one, then by what is put there.
LEMMA SelectionReplaced ==
  ASSUME NEW e \in Editors, e.sel, Usable(e),
         NEW mid, mid = editor_delete_selection(e), NEW new \in Editors, NEW inserted,
         Replaces(mid.lines, new.lines, mid.crow, 1, inserted)
  PROVE  Replaces(e.lines, new.lines, SelFirst(e), SelRows(e), inserted)
<1>1. /\ mid \in Editors /\ mid.crow = SelFirst(e)
      /\ Replaces(e.lines, mid.lines, SelFirst(e), SelRows(e), 1)
  BY DeleteSelectionIs
<1>2. e.lines \in Texts /\ mid.lines \in Texts /\ new.lines \in Texts
  BY <1>1, EditorFields
<1> QED
  BY <1>1, <1>2, ReplacesTwice

\* A symbol typed, over a selection or not.
LEMMA TypeTells ==
  ASSUME NEW p \in Peers, ed[p] \in Editors, Usable(ed[p]),
         NEW c \in Char \cup {Newline}, Type(p, c)
  PROVE  Command(p)
<1> DEFINE old == ed[p]
           mid == editor_delete_selection(old)
           new == editor_insert_char(mid, c)
           n == IF c = Newline THEN 2 ELSE 1
           packets == IF old.sel THEN sync_block(new, SelFirst(old), SelRows(old), n)
                      ELSE << InsertChar(old, c) >>
<1>1. Does(p, new, packets)
  BY DEF Type
<1>2. At(old.lines, old.crow, old.ccol)
  BY PositionAt DEF Usable
<1>3. new \in Editors /\ Tells(old, new, packets)
  <2>1. CASE old.sel
    <3>1. /\ mid \in Editors /\ At(mid.lines, mid.crow, mid.ccol)
          /\ mid.crow = SelFirst(old) /\ SelRows(old) \in Nat \ {0}
      BY <2>1, DeleteSelectionIs
    <3> HIDE DEF mid
    <3>2. new \in Editors /\ new.lines = Typed(mid.lines, mid.crow, mid.ccol, c)
      BY <3>1, InsertCharIs
    <3>3. Replaces(mid.lines, new.lines, mid.crow, 1, n)
      BY <3>1, <3>2, EditorFields, TypedText
    <3> HIDE DEF new
    <3>4. Replaces(old.lines, new.lines, SelFirst(old), SelRows(old), n)
      BY <2>1, <3>2, <3>3, SelectionReplaced DEF mid
    <3>5. SelFirst(old) \in Nat /\ n \in Nat \ {0}
      BY <3>4 DEF Replaces
    <3>6. packets = sync_block(new, SelFirst(old), SelRows(old), n)
      BY <2>1
    <3> HIDE DEF packets, n
    <3> QED BY <3>1, <3>2, <3>4, <3>5, <3>6 DEF Tells
  <2>2. CASE ~old.sel
    <3>1. mid = old
      BY <2>2 DEF editor_delete_selection
    <3>2. new \in Editors /\ new.lines = Typed(old.lines, old.crow, old.ccol, c)
      BY <1>2, <3>1, InsertCharIs
    <3>3. packets = << InsertChar(old, c) >>
      BY <2>2
    <3> HIDE DEF new, packets
    <3> QED BY <1>2, <3>2, <3>3 DEF Tells
  <2> QED BY <2>1, <2>2
<1> HIDE DEF new, packets
<1>4. packets \in Seq(Packets)
  BY <1>3, TellsPackets
<1> QED
  BY <1>1, <1>3, <1>4 DEF Command

\* The selection erased or cut: one row of it is left.
LEMMA EraseTells ==
  ASSUME NEW p \in Peers, ed[p] \in Editors, Usable(ed[p]),
         EraseSelection(p) \/ CutSelection(p)
  PROVE  Command(p)
<1> DEFINE old == ed[p]
           packets(new) == sync_block(new, SelFirst(old), SelRows(old), 1)
<1>1. old.sel
  BY DEF EraseSelection, CutSelection
<1>2. ASSUME NEW new \in Editors, Does(p, new, packets(new)), SelRows(old) \in Nat \ {0},
             Replaces(old.lines, new.lines, SelFirst(old), SelRows(old), 1)
      PROVE  Command(p)
  <2>1. SelFirst(old) \in Nat /\ 1 \in Nat \ {0}
    BY <1>2 DEF Replaces
  <2>2. Tells(old, new, packets(new))
    BY <1>2, <2>1 DEF Tells
  <2>3. packets(new) \in Seq(Packets)
    BY <1>2, <2>2, TellsPackets
  <2> QED BY <1>2, <2>2, <2>3 DEF Command
<1>3. CASE EraseSelection(p)
  <2> DEFINE new == editor_delete_selection(old)
  <2>1. Does(p, new, packets(new))
    BY <1>3 DEF EraseSelection
  <2>2. /\ new \in Editors /\ SelRows(old) \in Nat \ {0}
        /\ Replaces(old.lines, new.lines, SelFirst(old), SelRows(old), 1)
    BY <1>1, DeleteSelectionIs
  <2> HIDE DEF new, packets
  <2> QED BY <1>2, <2>1, <2>2
<1>4. CASE CutSelection(p)
  <2> DEFINE mid == editor_copy_selection(old)
             new == editor_delete_selection(mid)
  <2>1. Does(p, new, packets(new))
    BY <1>4 DEF CutSelection
  <2>2. /\ mid \in Editors /\ Usable(mid) /\ mid.lines = old.lines /\ mid.sel
        /\ SelFirst(mid) = SelFirst(old) /\ SelRows(mid) = SelRows(old)
    BY <1>1, CopyIs DEF SelFirst, SelRows
  <2> HIDE DEF mid
  <2>3. /\ new \in Editors /\ SelRows(mid) \in Nat \ {0}
        /\ Replaces(mid.lines, new.lines, SelFirst(mid), SelRows(mid), 1)
    BY <2>2, DeleteSelectionIs
  <2> HIDE DEF new, packets
  <2> QED BY <1>2, <2>1, <2>2, <2>3
<1> QED
  BY <1>3, <1>4

\* A symbol erased.
LEMMA BackspaceTells ==
  ASSUME NEW p \in Peers, ed[p] \in Editors, Usable(ed[p]), Backspace(p)
  PROVE  Command(p)
<1> DEFINE old == ed[p]
           new == editor_delete_char(old)
<1>1. Does(p, new, << DeleteChar(old) >>)
  BY DEF Backspace
<1>2. At(old.lines, old.crow, old.ccol)
  BY PositionAt DEF Usable
<1>3. new \in Editors /\ new.lines = Erased(old.lines, old.crow, old.ccol)
  BY <1>2, DeleteCharIs
<1> HIDE DEF new
<1>4. Tells(old, new, << DeleteChar(old) >>)
  BY <1>2, <1>3 DEF Tells
<1>5. << DeleteChar(old) >> \in Seq(Packets)
  BY <1>3, <1>4, TellsPackets
<1> QED
  BY <1>1, <1>3, <1>4, <1>5 DEF Command

\* A word erased, or two rows joined; at the start of the text a block is sent
\* for a row before it.
LEMMA CtrlBackspaceTells ==
  ASSUME NEW p \in Peers, ed[p] \in Editors, Usable(ed[p]), CtrlBackspace(p)
  PROVE  Command(p)
<1> DEFINE old == ed[p]
           join == editor_delete_char(old)
           word == editor_delete_word(old)
<1>1. /\ At(old.lines, old.crow, old.ccol) /\ old.lines \in Texts
      /\ old.crow \in Nat /\ old.ccol \in Nat
  BY PositionAt, EditorFields DEF Usable
<1>2. CASE old.ccol # 0
  <2> DEFINE packets == sync_block(word, old.crow, 1, 1)
  <2>1. Does(p, word, packets)
    BY <1>2 DEF CtrlBackspace
  <2>2. word \in Editors /\ Replaces(old.lines, word.lines, old.crow, 1, 1)
    BY <1>1, <1>2, DeleteWordIs
  <2> HIDE DEF word
  <2>3. Tells(old, word, packets)
    <3>1. 1 \in Nat \ {0}
      OBVIOUS
    <3> QED BY <1>1, <2>2, <3>1 DEF Tells
  <2>4. packets \in Seq(Packets)
    BY <2>2, <2>3, TellsPackets
  <2> HIDE DEF packets
  <2> QED BY <2>1, <2>2, <2>3, <2>4 DEF Command
<1>3. CASE old.ccol = 0
  <2> DEFINE packets == sync_block(join, old.crow - 1, 2, 1)
  <2>1. Does(p, join, packets)
    BY <1>3 DEF CtrlBackspace
  <2>2. join \in Editors /\ join.lines = Erased(old.lines, old.crow, old.ccol)
    BY <1>1, DeleteCharIs
  <2> HIDE DEF join
  <2>3. Tells(old, join, packets)
    <3>1. CASE old.crow > 0
      <4>1. /\ Replaces(old.lines, join.lines, old.crow - 1, 2, 1)
            /\ old.crow - 1 \in Nat /\ 2 \in Nat \ {0} /\ 1 \in Nat \ {0}
        BY <1>1, <1>3, <2>2, <3>1, ErasedText
      <4> QED BY <4>1 DEF Tells
    <3>2. CASE old.crow = 0
      <4>1. join.lines = old.lines
        BY <1>3, <2>2, <3>2 DEF Erased
      <4>2. old.crow - 1 = -1
        BY <3>2
      <4>3. packets = sync_block(join, -1, 2, 1)
        BY <4>2
      <4> HIDE DEF packets
      <4> QED BY <4>1, <4>3 DEF Tells
    <3> QED BY <1>1, <3>1, <3>2
  <2>4. packets \in Seq(Packets)
    BY <2>2, <2>3, TellsPackets
  <2> HIDE DEF packets
  <2> QED BY <2>1, <2>2, <2>3, <2>4 DEF Command
<1> QED
  BY <1>2, <1>3

\* Rows pasted; without a clipboard the selection goes untold.
LEMMA PasteTells ==
  ASSUME NEW p \in Peers, ed[p] \in Editors, Usable(ed[p]), Paste(p)
  PROVE  Command(p)
<1> DEFINE old == ed[p]
           mid == editor_delete_selection(old)
           new == editor_paste(mid)
           rows == IF old.sel THEN SelRows(old) ELSE 1
           n == RowCount(new) - RowCount(mid) + 1
           packets == IF old.clip = NoClip THEN << >>
                      ELSE sync_block(new, mid.crow, rows, n)
<1>1. Does(p, new, packets)
  BY DEF Paste
<1>2. At(old.lines, old.crow, old.ccol)
  BY PositionAt DEF Usable
<1>3. mid \in Editors /\ At(mid.lines, mid.crow, mid.ccol) /\ mid.clip = old.clip
  <2>1. CASE old.sel
    BY <2>1, DeleteSelectionIs
  <2>2. CASE ~old.sel
    BY <1>2, <2>2 DEF editor_delete_selection
  <2> QED BY <2>1, <2>2
<1>4. new \in Editors /\ Tells(old, new, packets)
  <2>1. CASE old.clip = NoClip
    <3>1. new = mid
      BY <1>3, <2>1 DEF editor_paste
    <3>2. packets = << >>
      BY <2>1
    <3> HIDE DEF new, packets, mid
    <3> QED BY <1>3, <3>1, <3>2 DEF Tells
  <2>2. CASE old.clip # NoClip
    <3> DEFINE k == Len(mid.clip)
    <3> HIDE DEF mid
    <3>1. /\ new \in Editors /\ k \in Nat \ {0}
          /\ Replaces(mid.lines, new.lines, mid.crow, 1, k)
      BY <1>3, <2>2, PasteIs
    <3> HIDE DEF new, k
    <3>2. Len(mid.lines) \in Nat /\ mid.crow \in Nat
      BY <1>3, EditorFields, TextFacts
    <3>3. n = k
      BY <3>1, <3>2 DEF Replaces, RowCount
    <3>4. rows \in Nat \ {0} /\ Replaces(old.lines, new.lines, mid.crow, rows, k)
      <4>1. CASE old.sel
        <5>1. mid.crow = SelFirst(old) /\ SelRows(old) \in Nat \ {0}
          BY <4>1, DeleteSelectionIs DEF mid
        <5>2. Replaces(old.lines, new.lines, SelFirst(old), SelRows(old), k)
          BY <3>1, <4>1, SelectionReplaced DEF mid
        <5> QED BY <4>1, <5>1, <5>2
      <4>2. CASE ~old.sel
        <5>1. mid = old
          BY <4>2 DEF editor_delete_selection, mid
        <5> QED BY <3>1, <4>2, <5>1
      <4> QED BY <4>1, <4>2
    <3>5. packets = sync_block(new, mid.crow, rows, k)
      BY <2>2, <3>3
    <3> HIDE DEF packets, rows, n
    <3> QED BY <3>1, <3>2, <3>4, <3>5 DEF Tells
  <2> QED BY <2>1, <2>2
<1> HIDE DEF new, packets
<1>5. packets \in Seq(Packets)
  BY <1>4, TellsPackets
<1> QED
  BY <1>1, <1>4, <1>5 DEF Command

\* The commands that edit nothing tell a position or nothing.
LEMMA QuietTells ==
  ASSUME NEW p \in Peers, ed[p] \in Editors, NEW e \in Editors, NEW packets,
         Does(p, e, packets),
         \/ packets = << >>
         \/ \E r, c \in Nat : e.lines = ed[p].lines /\ packets = << MoveCursor(r, c) >>
  PROVE  Command(p)
<1>1. Tells(ed[p], e, packets)
  BY DEF Tells
<1>2. packets \in Seq(Packets)
  BY <1>1, TellsPackets
<1> QED
  BY <1>1, <1>2 DEF Command

\* A cell of the text.
LEMMA CellIsNat ==
  ASSUME NEW e \in Editors, NEW pos \in Positions(e)
  PROVE  pos[1] \in Nat /\ pos[2] \in Nat
<1>1. PICK r \in 0 .. RowCount(e) - 1 : pos \in {r} \X (0 .. RowLen(e, r))
  BY DEF Positions
<1>2. /\ pos[1] = r /\ pos[2] \in 0 .. RowLen(e, r)
  BY <1>1
<1>3. RowCount(e) \in Nat /\ r \in Nat
  BY EditorFields, TextFacts DEF RowCount
<1>4. RowLen(e, r) \in Nat
  BY <1>3, EditorFields, TextFacts DEF RowLen, RowCount
<1> QED
  BY <1>2, <1>3, <1>4

\* Every command but :sync is one of these.
LEMMA CommandTells ==
  ASSUME NEW p \in Peers, ed[p] \in Editors, Keys(p) \/ Others(p)
  PROVE  Command(p) \/ Sync(p)
<1> DEFINE old == ed[p]
<1>1. ASSUME Keys(p)
      PROVE  Command(p)
  <2>1. Usable(old) /\ At(old.lines, old.crow, old.ccol)
    BY <1>1, PositionAt DEF Keys, Usable
  <2>2. CASE \E c \in Char \cup {Newline} : Type(p, c)
    BY <2>1, <2>2, TypeTells
  <2>3. CASE EraseSelection(p) \/ CutSelection(p)
    BY <2>1, <2>3, EraseTells
  <2>4. CASE Backspace(p)
    BY <2>1, <2>4, BackspaceTells
  <2>5. CASE CtrlBackspace(p)
    BY <2>1, <2>5, CtrlBackspaceTells
  <2>6. CASE Paste(p)
    BY <2>1, <2>6, PasteTells
  <2>7. CASE Copy(p)
    <3>1. editor_copy_selection(old) \in Editors
      BY <2>1, CopyIs
    <3> QED BY <2>7, <3>1, QuietTells DEF Copy
  <2>8. CASE \E shift \in BOOLEAN : Arrow(p, shift)
    <3>1. PICK shift \in BOOLEAN : Arrow(p, shift)
      BY <2>8
    <3>2. PICK e \in Motions(Anchored(old, shift)) :
                 Does(p, e, << MoveCursor(e.crow, e.ccol) >>)
      BY <3>1 DEF Arrow
    <3>3. e \in Editors /\ e.lines = old.lines
      BY <2>1, ArrowMoves DEF Moves
    <3>4. e.crow \in Nat /\ e.ccol \in Nat
      BY <3>3, EditorFields
    <3> QED BY <3>2, <3>3, <3>4, QuietTells
  <2> QED BY <1>1, <2>2, <2>3, <2>4, <2>5, <2>6, <2>7, <2>8 DEF Keys
<1>2. ASSUME Others(p), ~Sync(p)
      PROVE  Command(p)
  <2>1. CASE \E pos \in Positions(old) : Click(p, pos[1], pos[2])
    <3>1. PICK pos \in Positions(old) : Click(p, pos[1], pos[2])
      BY <2>1
    <3> DEFINE row == pos[1]
               col == pos[2]
               e == editor_sel_set_anchor(
                      editor_set_cursor(editor_sel_clear(old), row, col))
    <3>2. row \in Nat /\ col \in Nat
      BY CellIsNat
    <3>3. Does(p, e, << MoveCursor(row, col) >>)
      BY <3>1 DEF Click
    <3> HIDE DEF row, col
    <3>4. e \in Editors /\ e.lines = old.lines
      BY <3>2, ClickMoves DEF Moves
    <3> HIDE DEF e
    <3> QED BY <3>2, <3>3, <3>4, QuietTells
  <2>2. CASE \E pos \in Positions(old) : Drag(p, pos[1], pos[2])
    <3>1. PICK pos \in Positions(old) : Drag(p, pos[1], pos[2])
      BY <2>2
    <3> DEFINE e == editor_set_cursor(old, pos[1], pos[2])
    <3>2. pos[1] \in Nat /\ pos[2] \in Nat
      BY CellIsNat
    <3>3. Does(p, e, << >>)
      BY <3>1 DEF Drag
    <3>4. e \in Editors
      BY <3>2, SetCursorMoves DEF Moves
    <3> HIDE DEF e
    <3> QED BY <3>3, <3>4, QuietTells
  <2>3. CASE Unselect(p)
    <3>1. editor_sel_clear(old) \in Editors
      BY DEF editor_sel_clear, Editors
    <3> QED BY <2>3, <3>1, QuietTells DEF Unselect
  <2>4. CASE \E file \in Files : Open(p, file)
    <3>1. PICK file \in Files : Open(p, file)
      BY <2>4
    <3>2. file \in Texts
      BY FilesAssumption DEF Texts
    <3>3. Loaded(old, file) \in Editors
      BY <3>2, LoadedIs
    <3> QED BY <3>1, <3>3, QuietTells DEF Open
  <2> QED BY <1>2, <2>1, <2>2, <2>3, <2>4 DEF Others
<1> QED
  BY <1>1, <1>2

-----------------------------------------------------------------------------
(* The editors and the packets stay well formed                            *)

\* The Author's editor and the other peer's at the start.
LEMMA InitType == Init => TypeOK
<1> SUFFICES ASSUME Init PROVE TypeOK
  OBVIOUS
<1> DEFINE blank == [lines |-> << << >> >>, crow |-> 0, ccol |-> 0, srow |-> 0,
                     scol |-> 0, vrows |-> Viewport[1], vcols |-> Viewport[2],
                     sel |-> FALSE, arow |-> 0, acol |-> 0, rrow |-> -1, rcol |-> -1,
                     clip |-> NoClip]
           mine(file, clip) == [Loaded(blank, file) EXCEPT !.clip = clip]
<1>0. PICK file \in Files, clip \in Clips \cup {NoClip} :
        \E pos \in Positions(mine(file, clip)) :
             ed = [p \in Peers |->
                     IF p = Author THEN CursorTo(mine(file, clip), pos[1], pos[2])
                     ELSE blank]
  BY DEF Init
<1>1. PICK pos \in Positions(mine(file, clip)) :
             ed = [p \in Peers |->
                     IF p = Author THEN CursorTo(mine(file, clip), pos[1], pos[2])
                     ELSE blank]
  BY <1>0
<1>2. << << >> >> \in Seq(Row) \ {<< >>} /\ NoClip \in Seq(Row)
  <2>1. << >> \in Row /\ << >> \in Seq(Row)
    BY EmptySeq DEF Row
  <2>2. << << >> >> \in Seq(Row) /\ Len(<< << >> >>) = 1
    BY <2>1
  <2> QED BY <2>1, <2>2, EmptySeq DEF NoClip
<1>3. blank \in Editors
  BY <1>2, SMTT(30) DEF Editors
<1> HIDE DEF blank
<1>4. file \in Texts /\ clip \in Seq(Row)
  BY <1>2, FilesAssumption DEF Texts
<1>5. mine(file, clip) \in Editors
  <2>1. Loaded(blank, file) \in Editors
    BY <1>3, <1>4, LoadedIs
  <2> QED BY <1>4, <2>1 DEF Editors
<1> HIDE DEF mine
<1>6. CursorTo(mine(file, clip), pos[1], pos[2]) \in Editors
  <2>1. pos[1] \in Nat /\ pos[2] \in Nat
    BY <1>5, CellIsNat
  <2> QED BY <1>5, <2>1, MovedTo DEF Edited
<1>7. ed \in [Peers -> Editors]
  BY <1>1, <1>3, <1>6
<1>8. << >> \in Seq(Packets)
  BY EmptySeq
<1>9. /\ remote = [p \in Peers |-> FALSE] /\ crashed = [p \in Peers |-> FALSE]
      /\ load = [p \in Peers |-> [want |-> 0, got |-> 0]]
      /\ wire = [p \in Peers |-> << >>]
      /\ misplaced = FALSE /\ unsent = FALSE /\ crossed = FALSE
  BY DEF Init
<1>10. /\ load \in [Peers -> [want : Nat, got : Nat]]
       /\ \A p \in Peers : load[p].want > 0 => load[p].got < load[p].want
  BY <1>9
<1> QED
  BY <1>7, <1>8, <1>9, <1>10 DEF TypeOK

\* What was sent is added to what is under way.
LEMMA SendType ==
  ASSUME wire \in [Peers -> Seq(Packets)], NEW p \in Peers,
         NEW packets \in Seq(Packets), Send(p, packets)
  PROVE  /\ wire' \in [Peers -> Seq(Packets)]
         /\ wire'[Other(p)] = wire[Other(p)] \o packets
         /\ wire'[p] = wire[p]
<1> DEFINE q == Other(p)
<1>1. q \in Peers /\ q # p
  BY OtherPeer
<1> HIDE DEF q
<1>2. wire' = [wire EXCEPT ![q] = wire[q] \o packets]
  BY DEF Send, q
<1>3. wire[q] \o packets \in Seq(Packets)
  BY <1>1, ConcatProperties
<1> QED
  BY <1>1, <1>2, <1>3 DEF q

\* A command keeps the types.
LEMMA CommandType ==
  ASSUME TypeOK, NEW p \in Peers, Command(p)
  PROVE  TypeOK'
<1>1. PICK e \in Editors, packets \in Seq(Packets) : Does(p, e, packets)
  BY DEF Command
<1>2. /\ ed' = [ed EXCEPT ![p] = e] /\ Send(p, packets)
      /\ unsent' \in BOOLEAN /\ crossed' \in BOOLEAN
      /\ UNCHANGED <<remote, load, crashed, misplaced>>
  BY <1>1, Zenon DEF Does
<1>3. wire' \in [Peers -> Seq(Packets)]
  BY <1>2, SendType DEF TypeOK
<1>4. ed' \in [Peers -> Editors]
  BY <1>2 DEF TypeOK
<1> QED
  BY <1>2, <1>3, <1>4 DEF TypeOK

\* :sync keeps the types.
LEMMA SyncType ==
  ASSUME TypeOK, NEW p \in Peers, Sync(p)
  PROVE  TypeOK'
<1>1. /\ remote' = [remote EXCEPT ![p] = TRUE] /\ Send(p, Share(ed[p]))
      /\ unsent' \in BOOLEAN /\ crossed' \in BOOLEAN
      /\ UNCHANGED <<ed, load, crashed, misplaced>>
  BY DEF Sync
<1>2. Share(ed[p]) \in Seq(Packets)
  BY ShareParts DEF TypeOK
<1>3. wire' \in [Peers -> Seq(Packets)]
  BY <1>1, <1>2, SendType DEF TypeOK
<1> QED
  BY <1>1, <1>3 DEF TypeOK

\* A packet that is taken is one of those under way, with the fields of its kind.
LEMMA PacketFields ==
  ASSUME NEW k \in Packets
  PROVE  /\ k.cmd = "INSERT_CHAR" => k.c \in Char \cup {Newline} /\ k.at \in Nat \X Nat
         /\ k.cmd = "DELETE_CHAR" => k.at \in Nat \X Nat
         /\ k.cmd = "MOVE_CURSOR" => k.row \in Nat /\ k.col \in Nat
         /\ k.cmd = "REPLACE_BLOCK" =>
              /\ k.row \in Nat /\ k.deleted \in Nat \ {0} /\ k.inserted \in Nat \ {0}
         /\ k.cmd = "UPDATE_LINE" => k.row \in Nat /\ k.text \in Row
         /\ k.cmd = "FILE_START" => k.lines \in Nat \ {0}
         /\ k.cmd = "FILE_LINE" => k.text \in Row
BY RowNumberIsNat DEF Packets

\* What is under way after a packet was taken.
LEMMA TakesType ==
  ASSUME wire \in [Peers -> Seq(Packets)], NEW p \in Peers, NEW cmd, Takes(p, cmd)
  PROVE  /\ Packet(p) \in Packets /\ Packet(p).cmd = cmd
         /\ wire' \in [Peers -> Seq(Packets)]
         /\ wire[p] # << >> /\ wire'[p] = Tail(wire[p])
         /\ wire'[Other(p)] = wire[Other(p)]
<1>1. wire[p] \in Seq(Packets) /\ wire[p] # << >>
  BY DEF Takes
<1>2. Head(wire[p]) \in Packets /\ Tail(wire[p]) \in Seq(Packets)
  BY <1>1, HeadTailProperties
<1>3. wire' = [wire EXCEPT ![p] = Tail(wire[p])] /\ Head(wire[p]).cmd = cmd
  BY DEF Takes
<1> QED
  BY <1>1, <1>2, <1>3, OtherPeer DEF Packet

-----------------------------------------------------------------------------
(* What a packet does to the text and the transfer of a peer               *)

Replicas == [lines : Texts, want : Nat, got : Nat]
Replica(p) == [lines |-> ed[p].lines, want |-> load[p].want, got |-> load[p].got]

\* A relative edit needs the position it was made at.
Fits(k, t) ==
  k.cmd \in {"INSERT_CHAR", "DELETE_CHAR"} => At(t.lines, k.at[1], k.at[2])

\* One more line of a transfer.
Received(t, text) ==
  IF t.want = 0 THEN t
  ELSE IF t.got + 1 >= t.want
       THEN [lines |-> Trimmed(Grown(t.lines, text)), want |-> 0, got |-> t.got + 1]
       ELSE [lines |-> Grown(t.lines, text), want |-> t.want, got |-> t.got + 1]

\* The text after a packet.
After(k, t) ==
  CASE k.cmd = "INSERT_CHAR" ->
         [t EXCEPT !.lines = Typed(t.lines, k.at[1], k.at[2], k.c)]
    [] k.cmd = "DELETE_CHAR" -> [t EXCEPT !.lines = Erased(t.lines, k.at[1], k.at[2])]
    [] k.cmd = "MOVE_CURSOR" -> t
    [] k.cmd = "REPLACE_BLOCK" ->
         IF k.row > Len(t.lines) THEN t
         ELSE [t EXCEPT !.lines = Blocked(t.lines, k.row,
                                          Actual(t.lines, k.row, k.deleted), k.inserted)]
    [] k.cmd = "UPDATE_LINE" ->
         IF k.row >= Len(t.lines) THEN t
         ELSE [t EXCEPT !.lines = [t.lines EXCEPT ![k.row + 1] = k.text]]
    [] k.cmd = "FILE_START" -> [lines |-> Blankt, want |-> k.lines, got |-> 0]
    [] k.cmd = "FILE_LINE" -> Received(t, k.text)

\* The text after a packet, kind by kind.
LEMMA AfterIs ==
  ASSUME NEW k, NEW t
  PROVE  /\ k.cmd = "INSERT_CHAR" =>
              After(k, t) = [t EXCEPT !.lines = Typed(t.lines, k.at[1], k.at[2], k.c)]
         /\ k.cmd = "DELETE_CHAR" =>
              After(k, t) = [t EXCEPT !.lines = Erased(t.lines, k.at[1], k.at[2])]
         /\ k.cmd = "MOVE_CURSOR" => After(k, t) = t
         /\ k.cmd = "REPLACE_BLOCK" =>
              After(k, t) = IF k.row > Len(t.lines) THEN t
                            ELSE [t EXCEPT !.lines =
                                    Blocked(t.lines, k.row,
                                            Actual(t.lines, k.row, k.deleted), k.inserted)]
         /\ k.cmd = "UPDATE_LINE" =>
              After(k, t) = IF k.row >= Len(t.lines) THEN t
                            ELSE [t EXCEPT !.lines = [t.lines EXCEPT ![k.row + 1] = k.text]]
         /\ k.cmd = "FILE_START" =>
              After(k, t) = [lines |-> Blankt, want |-> k.lines, got |-> 0]
         /\ k.cmd = "FILE_LINE" => After(k, t) = Received(t, k.text)
BY DEF After

\* What is known of a step in which p takes a packet.  The text is the one
\* expected if the packet starts a transfer, or no edit was applied elsewhere
\* than it was made and the position of this one is in the text.
Taken(p) ==
  /\ TypeOK'
  /\ ~crashed[p] /\ Packet(p) \in Packets
  /\ wire[p] # << >> /\ wire'[p] = Tail(wire[p]) /\ wire'[Other(p)] = wire[Other(p)]
  /\ ed'[Other(p)] = ed[Other(p)] /\ Replica(Other(p))' = Replica(Other(p))
  /\ unsent' = unsent /\ crossed' = crossed
  /\ \A q \in Peers : remote[q] => remote'[q]
  /\ Packet(p).cmd # "FILE_START" /\ misplaced => misplaced'
  /\ Packet(p).cmd = "MOVE_CURSOR" => misplaced' = misplaced
  /\ crashed' # crashed => Packet(p).cmd \in {"INSERT_CHAR", "DELETE_CHAR"}
  /\ (Packet(p).cmd = "FILE_START" \/ ~misplaced') /\ Fits(Packet(p), Replica(p))
       => Replica(p)' = After(Packet(p), Replica(p)) /\ crashed' = crashed

\* A packet that is taken changes nothing of the other peer.
LEMMA TakenFrame ==
  ASSUME TypeOK, NEW p \in Peers, NEW cmd, Takes(p, cmd),
         NEW f \in Editors, ed' = [ed EXCEPT ![p] = f],
         NEW want \in Nat, NEW got \in Nat, want > 0 => got < want,
         load' = [load EXCEPT ![p] = [want |-> want, got |-> got]],
         remote' \in [Peers -> BOOLEAN], \A q \in Peers : remote[q] => remote'[q],
         crashed' \in [Peers -> BOOLEAN], misplaced' \in BOOLEAN
  PROVE  /\ TypeOK'
         /\ ~crashed[p] /\ Packet(p) \in Packets /\ Packet(p).cmd = cmd
         /\ wire[p] # << >> /\ wire'[p] = Tail(wire[p])
         /\ wire'[Other(p)] = wire[Other(p)]
         /\ ed'[Other(p)] = ed[Other(p)] /\ load'[Other(p)] = load[Other(p)]
         /\ unsent' = unsent /\ crossed' = crossed
         /\ \A q \in Peers : remote[q] => remote'[q]
         /\ ed'[p] = f
         /\ load'[p] = [want |-> want, got |-> got]
<1>1. /\ Packet(p) \in Packets /\ Packet(p).cmd = cmd
      /\ wire' \in [Peers -> Seq(Packets)]
      /\ wire[p] # << >> /\ wire'[p] = Tail(wire[p])
      /\ wire'[Other(p)] = wire[Other(p)]
  BY TakesType DEF TypeOK
<1>2. ~crashed[p] /\ unsent' = unsent /\ crossed' = crossed
  BY DEF Takes
<1>3. /\ ed' \in [Peers -> Editors] /\ ed'[p] = f
      /\ \A q \in Peers : q # p => ed'[q] = ed[q]
  BY DEF TypeOK
<1>4. /\ load' \in [Peers -> [want : Nat, got : Nat]]
      /\ load'[p] = [want |-> want, got |-> got]
      /\ \A q \in Peers : q # p => load'[q] = load[q]
  BY DEF TypeOK
<1>5. \A q \in Peers : load'[q].want > 0 => load'[q].got < load'[q].want
  BY <1>4 DEF TypeOK
<1>6. TypeOK'
  BY <1>1, <1>2, <1>3, <1>4, <1>5 DEF TypeOK
<1>7. Other(p) \in Peers /\ Other(p) # p
  BY OtherPeer
<1> QED
  BY <1>1, <1>2, <1>3, <1>4, <1>6, <1>7 DEF Replica

\* The same when p's transfer is left alone.
LEMMA TakenEditor ==
  ASSUME TypeOK, NEW p \in Peers, NEW cmd, Takes(p, cmd),
         NEW f \in Editors, ed' = [ed EXCEPT ![p] = f],
         UNCHANGED <<load, remote>>,
         crashed' \in [Peers -> BOOLEAN], misplaced' \in BOOLEAN
  PROVE  /\ TypeOK'
         /\ ~crashed[p] /\ Packet(p) \in Packets /\ Packet(p).cmd = cmd
         /\ wire[p] # << >> /\ wire'[p] = Tail(wire[p])
         /\ wire'[Other(p)] = wire[Other(p)]
         /\ ed'[Other(p)] = ed[Other(p)] /\ load'[Other(p)] = load[Other(p)]
         /\ unsent' = unsent /\ crossed' = crossed
         /\ \A q \in Peers : remote[q] => remote'[q]
         /\ ed'[p] = f
         /\ load'[p] = load[p]
<1> DEFINE want == load[p].want
           got  == load[p].got
<1>1. /\ load[p] \in [want : Nat, got : Nat] /\ load \in [Peers -> [want : Nat, got : Nat]]
      /\ want > 0 => got < want
      /\ remote \in [Peers -> BOOLEAN]
  BY DEF TypeOK
<1>2. want \in Nat /\ got \in Nat /\ load[p] = [want |-> want, got |-> got]
  BY <1>1
<1>3. load' = [load EXCEPT ![p] = [want |-> want, got |-> got]]
  BY <1>1, <1>2
<1> HIDE DEF want, got
<1>5. remote' \in [Peers -> BOOLEAN] /\ \A q \in Peers : remote[q] => remote'[q]
  BY <1>1
<1>6. /\ TypeOK'
      /\ ~crashed[p] /\ Packet(p) \in Packets /\ Packet(p).cmd = cmd
      /\ wire[p] # << >> /\ wire'[p] = Tail(wire[p])
      /\ wire'[Other(p)] = wire[Other(p)]
      /\ ed'[Other(p)] = ed[Other(p)] /\ load'[Other(p)] = load[Other(p)]
      /\ unsent' = unsent /\ crossed' = crossed
      /\ \A q \in Peers : remote[q] => remote'[q]
      /\ ed'[p] = f
      /\ load'[p] = [want |-> want, got |-> got]
  BY <1>1, <1>2, <1>3, <1>5, TakenFrame
<1> QED
  BY <1>2, <1>6, Zenon

\* A relative edit is taken: where it was made, in the text, or anywhere.
LEMMA RelativeEditIs ==
  ASSUME TypeOK, NEW p \in Peers, NEW cmd \in {"INSERT_CHAR", "DELETE_CHAR"},
         Takes(p, cmd), NEW defined \in BOOLEAN, NEW f, AtRemoteCursor(p, defined, f),
         defined => f \in Editors,
         At(ed[p].lines, ed[p].rrow, ed[p].rcol) => defined,
         /\ At(ed[p].lines, ed[p].rrow, ed[p].rcol)
         /\ Packet(p).at = <<ed[p].rrow, ed[p].rcol>>
         => After(Packet(p), Replica(p)) = [Replica(p) EXCEPT !.lines = f.lines]
  PROVE  Taken(p)
<1> DEFINE e == ed[p]
           g == IF defined THEN f ELSE e
           k == Packet(p)
<1>1. /\ misplaced' = (misplaced \/ k.at # <<e.rrow, e.rcol>>)
      /\ UNCHANGED <<load, remote>>
  BY DEF AtRemoteCursor
<1>2. /\ ed \in [Peers -> Editors] /\ crashed \in [Peers -> BOOLEAN]
      /\ misplaced \in BOOLEAN
  BY DEF TypeOK
<1>3. /\ ed' = [ed EXCEPT ![p] = g] /\ g \in Editors
      /\ crashed' \in [Peers -> BOOLEAN]
      /\ defined => crashed' = crashed
  <2>1. CASE defined
    BY <1>2, <2>1 DEF AtRemoteCursor
  <2>2. CASE ~defined
    <3>1. g = ed[p] /\ ed' = ed /\ crashed' = [crashed EXCEPT ![p] = TRUE]
      BY <2>2 DEF AtRemoteCursor
    <3> QED BY <1>2, <2>2, <3>1
  <2> QED BY <2>1, <2>2
<1>4. misplaced' \in BOOLEAN
  BY <1>1, <1>2
<1> HIDE DEF g
<1>5. /\ TypeOK'
      /\ ~crashed[p] /\ k \in Packets /\ k.cmd = cmd
      /\ wire[p] # << >> /\ wire'[p] = Tail(wire[p])
      /\ wire'[Other(p)] = wire[Other(p)]
      /\ ed'[Other(p)] = ed[Other(p)] /\ load'[Other(p)] = load[Other(p)]
      /\ unsent' = unsent /\ crossed' = crossed
      /\ \A q \in Peers : remote[q] => remote'[q]
      /\ ed'[p] = g /\ load'[p] = load[p]
  BY <1>1, <1>3, <1>4, TakenEditor
<1>6. Replica(Other(p))' = Replica(Other(p))
  BY <1>5 DEF Replica
<1>7. ASSUME ~misplaced', Fits(k, Replica(p))
      PROVE  Replica(p)' = After(k, Replica(p)) /\ crashed' = crashed
  <2>1. k.at = <<e.rrow, e.rcol>>
    BY <1>1, <1>7
  <2>2. k.at[1] = e.rrow /\ k.at[2] = e.rcol
    BY <2>1
  <2>3. At(e.lines, e.rrow, e.rcol)
    <3>1. At(Replica(p).lines, k.at[1], k.at[2])
      BY <1>5, <1>7 DEF Fits
    <3>2. Replica(p).lines = e.lines
      BY DEF Replica
    <3> QED BY <2>2, <3>1, <3>2
  <2>4. /\ After(k, Replica(p)) = [Replica(p) EXCEPT !.lines = f.lines]
        /\ defined
    BY <2>1, <2>3
  <2>5. g = f /\ crashed' = crashed
    BY <1>3, <2>4 DEF g
  <2>6. Replica(p)' = [Replica(p) EXCEPT !.lines = f.lines]
    BY <1>5, <2>5 DEF Replica
  <2> QED BY <2>4, <2>5, <2>6
<1>8. k.cmd # "FILE_START" /\ k.cmd # "MOVE_CURSOR"
  BY <1>5
<1> QED
  BY <1>1, <1>5, <1>6, <1>7, <1>8 DEF Taken

\* A typed symbol of the peer is taken.
LEMMA TakeInsertIs ==
  ASSUME TypeOK, NEW p \in Peers, TakeInsertChar(p)
  PROVE  Taken(p)
<1> DEFINE e == ed[p]
           k == Packet(p)
           f == editor_remote_insert_char(e, k.c)
           defined == Position(e, e.rrow, e.rcol)
<1>1. Takes(p, "INSERT_CHAR") /\ AtRemoteCursor(p, defined, f)
  BY DEF TakeInsertChar
<1>2. e \in Editors /\ k \in Packets /\ k.cmd = "INSERT_CHAR"
  BY <1>1, TakesType DEF TypeOK
<1>3. k.c \in Char \cup {Newline}
  BY <1>2, PacketFields
<1>4. defined <=> At(e.lines, e.rrow, e.rcol)
  BY PositionAt
<1>5. defined \in BOOLEAN
  BY DEF Position
<1>6. ASSUME defined
      PROVE  f \in Editors /\ f.lines = Typed(e.lines, e.rrow, e.rcol, k.c)
  <2> DEFINE r == IF k.c = Newline THEN Shifted(e.crow, e.rrow, 1) ELSE e.crow
             c == k.c
             h == editor_remote_insert_char(e, c)
             new == Typed(e.lines, e.rrow, e.rcol, c)
  <2>1. Shows(e, h, new, r)
    <3> HIDE DEF c
    <3> QED BY <1>2, <1>3, <1>4, <1>6, RemoteInsertIs DEF c
  <2> HIDE DEF r
  <2> QED BY <2>1 DEF Shows
<1>7. ASSUME defined, k.at = <<e.rrow, e.rcol>>
      PROVE  After(k, Replica(p)) = [Replica(p) EXCEPT !.lines = f.lines]
  <2>1. k.at[1] = e.rrow /\ k.at[2] = e.rcol /\ Replica(p).lines = e.lines
    BY <1>7 DEF Replica
  <2>2. After(k, Replica(p))
          = [Replica(p) EXCEPT !.lines = Typed(Replica(p).lines, k.at[1], k.at[2], k.c)]
    BY <1>2, AfterIs
  <2> QED BY <1>6, <1>7, <2>1, <2>2, Zenon
<1> HIDE DEF f, defined
<1> QED
  BY <1>1, <1>4, <1>5, <1>6, <1>7, RelativeEditIs

\* A Backspace of the peer is taken.
LEMMA TakeDeleteIs ==
  ASSUME TypeOK, NEW p \in Peers, TakeDeleteChar(p)
  PROVE  Taken(p)
<1> DEFINE e == ed[p]
           k == Packet(p)
           f == editor_remote_delete_char(e)
           defined == Position(e, e.rrow, e.rcol) \/ (e.rrow <= 0 /\ e.rcol <= 0)
<1>1. Takes(p, "DELETE_CHAR") /\ AtRemoteCursor(p, defined, f)
  BY DEF TakeDeleteChar
<1>2. e \in Editors /\ k \in Packets /\ k.cmd = "DELETE_CHAR"
  BY <1>1, TakesType DEF TypeOK
<1>3. Position(e, e.rrow, e.rcol) <=> At(e.lines, e.rrow, e.rcol)
  BY PositionAt
<1>4. defined \in BOOLEAN
  BY DEF Position
<1>5. ASSUME At(e.lines, e.rrow, e.rcol)
      PROVE  f \in Editors /\ f.lines = Erased(e.lines, e.rrow, e.rcol)
  BY <1>2, <1>5, RemoteDeleteIs DEF Shows
<1>6. defined => f \in Editors
  <2>1. CASE Position(e, e.rrow, e.rcol)
    BY <1>3, <1>5, <2>1
  <2>2. CASE e.rrow <= 0 /\ e.rcol <= 0
    BY <1>2, <2>2, RemoteDeleteNothing DEF Shows
  <2> QED BY <2>1, <2>2
<1>7. ASSUME At(e.lines, e.rrow, e.rcol), k.at = <<e.rrow, e.rcol>>
      PROVE  After(k, Replica(p)) = [Replica(p) EXCEPT !.lines = f.lines]
  <2>1. k.at[1] = e.rrow /\ k.at[2] = e.rcol /\ Replica(p).lines = e.lines
    BY <1>7 DEF Replica
  <2>2. After(k, Replica(p))
          = [Replica(p) EXCEPT !.lines = Erased(Replica(p).lines, k.at[1], k.at[2])]
    BY <1>2, AfterIs
  <2> QED BY <1>5, <1>7, <2>1, <2>2, Zenon
<1>8. At(e.lines, e.rrow, e.rcol) => defined
  BY <1>3
<1> HIDE DEF f, defined
<1> QED
  BY <1>1, <1>4, <1>6, <1>7, <1>8, RelativeEditIs

\* A packet that is applied to the editor wherever its cursors are.
LEMMA AppliedIs ==
  ASSUME TypeOK, NEW p \in Peers,
         NEW cmd \in {"MOVE_CURSOR", "REPLACE_BLOCK", "UPDATE_LINE"},
         Takes(p, cmd), NEW f \in Editors, Applies(p, f),
         After(Packet(p), Replica(p)) = [Replica(p) EXCEPT !.lines = f.lines]
  PROVE  Taken(p)
<1>1. /\ ed' = [ed EXCEPT ![p] = f] /\ UNCHANGED <<load, remote>>
      /\ crashed' = crashed /\ misplaced' = misplaced
      /\ crashed' \in [Peers -> BOOLEAN] /\ misplaced' \in BOOLEAN
  BY DEF Applies, TypeOK
<1>2. /\ TypeOK'
      /\ ~crashed[p] /\ Packet(p) \in Packets /\ Packet(p).cmd = cmd
      /\ wire[p] # << >> /\ wire'[p] = Tail(wire[p])
      /\ wire'[Other(p)] = wire[Other(p)]
      /\ ed'[Other(p)] = ed[Other(p)] /\ load'[Other(p)] = load[Other(p)]
      /\ unsent' = unsent /\ crossed' = crossed
      /\ \A q \in Peers : remote[q] => remote'[q]
      /\ ed'[p] = f /\ load'[p] = load[p]
  BY <1>1, TakenEditor
<1>3. /\ Replica(p)' = [Replica(p) EXCEPT !.lines = f.lines]
      /\ Replica(Other(p))' = Replica(Other(p))
  BY <1>2 DEF Replica
<1> QED
  BY <1>1, <1>2, <1>3 DEF Taken

\* A position of the peer is taken.
LEMMA TakeMoveIs ==
  ASSUME TypeOK, NEW p \in Peers, TakeMoveCursor(p)
  PROVE  Taken(p)
<1> DEFINE e == ed[p]
           row == Packet(p).row
           col == Packet(p).col
           f == editor_set_remote_cursor(e, row, col)
<1>1. Takes(p, "MOVE_CURSOR") /\ Applies(p, f)
  BY DEF TakeMoveCursor
<1>2. e \in Editors /\ Packet(p) \in Packets /\ Packet(p).cmd = "MOVE_CURSOR"
  BY <1>1, TakesType DEF TypeOK
<1>3. row \in Nat /\ col \in Nat
  BY <1>2, PacketFields
<1> HIDE DEF row, col
<1>4. Shows(e, f, e.lines, e.crow)
  BY <1>2, <1>3, SetRemoteIs
<1> HIDE DEF f
<1>5. After(Packet(p), Replica(p)) = [Replica(p) EXCEPT !.lines = f.lines]
  BY <1>2, <1>4, AfterIs DEF Replica, Shows
<1> QED
  BY <1>1, <1>4, <1>5, AppliedIs DEF Shows

\* The room for a block is made.
LEMMA TakeBlockIs ==
  ASSUME TypeOK, NEW p \in Peers, TakeReplaceBlock(p)
  PROVE  Taken(p)
<1> DEFINE e == ed[p]
           k == Packet(p)
           t == Replica(p)
           row == k.row
           deleted == k.deleted
           inserted == k.inserted
           f == editor_remote_replace_block(e, row, deleted, inserted)
           actual == Actual(e.lines, row, deleted)
           new == Blocked(e.lines, row, actual, inserted)
           r == Shifted(e.crow, row + actual - 1, inserted - actual)
<1>1. Takes(p, "REPLACE_BLOCK") /\ Applies(p, f)
  BY DEF TakeReplaceBlock
<1>2. e \in Editors /\ k \in Packets /\ k.cmd = "REPLACE_BLOCK" /\ t.lines = e.lines
  BY <1>1, TakesType DEF TypeOK, Replica
<1>3. row \in Nat /\ deleted \in Nat \ {0} /\ inserted \in Nat \ {0}
  BY <1>2, PacketFields
<1>4. After(k, t) = IF row > Len(e.lines) THEN t ELSE [t EXCEPT !.lines = new]
  BY <1>2, AfterIs
<1> HIDE DEF row, deleted, inserted, k, t
<1>5. /\ row > Len(e.lines) => f = e
      /\ row <= Len(e.lines) => Shows(e, f, new, r)
  <2> HIDE DEF e, r, actual
  <2> QED BY <1>2, <1>3, ReplaceBlockIs DEF r, actual
<1>6. Len(e.lines) \in Nat
  BY <1>2, EditorFields, TextFacts
<1> HIDE DEF f, new, r
<1>7. /\ f \in Editors
      /\ f.lines = IF row > Len(e.lines) THEN e.lines ELSE new
  <2>1. CASE row > Len(e.lines)
    BY <1>2, <1>5, <2>1
  <2>2. CASE ~(row > Len(e.lines))
    <3>1. row <= Len(e.lines)
      BY <1>3, <1>6, <2>2
    <3> QED BY <1>5, <2>2, <3>1 DEF Shows
  <2> QED BY <2>1, <2>2
<1>8. After(k, t) = [t EXCEPT !.lines = f.lines]
  BY <1>2, <1>4, <1>7 DEF t, Replica
<1> QED
  BY <1>1, <1>7, <1>8, AppliedIs DEF k, t

\* A row of a block is taken.
LEMMA TakeUpdateIs ==
  ASSUME TypeOK, NEW p \in Peers, TakeUpdateLine(p)
  PROVE  Taken(p)
<1> DEFINE e == ed[p]
           k == Packet(p)
           t == Replica(p)
           row == k.row
           text == k.text
           f == editor_remote_update_line(e, row, text)
           new == [e.lines EXCEPT ![row + 1] = text]
<1>1. Takes(p, "UPDATE_LINE") /\ Applies(p, f)
  BY DEF TakeUpdateLine
<1>2. e \in Editors /\ k \in Packets /\ k.cmd = "UPDATE_LINE" /\ t.lines = e.lines
  BY <1>1, TakesType DEF TypeOK, Replica
<1>3. row \in Nat /\ text \in Row
  BY <1>2, PacketFields
<1>4. After(k, t) = IF row >= Len(e.lines) THEN t ELSE [t EXCEPT !.lines = new]
  BY <1>2, AfterIs
<1> HIDE DEF row, text, k, t
<1>5. /\ row >= Len(e.lines) => f = e
      /\ row < Len(e.lines) => Shows(e, f, new, e.crow)
  <2> HIDE DEF e
  <2> QED BY <1>2, <1>3, UpdateLineIs
<1>6. Len(e.lines) \in Nat
  BY <1>2, EditorFields, TextFacts
<1> HIDE DEF f, new
<1>7. /\ f \in Editors
      /\ f.lines = IF row >= Len(e.lines) THEN e.lines ELSE new
  <2>1. CASE row >= Len(e.lines)
    BY <1>2, <1>5, <2>1
  <2>2. CASE ~(row >= Len(e.lines))
    <3>1. row < Len(e.lines)
      BY <1>3, <1>6, <2>2
    <3> QED BY <1>5, <2>2, <3>1 DEF Shows
  <2> QED BY <2>1, <2>2
<1>8. After(k, t) = [t EXCEPT !.lines = f.lines]
  BY <1>2, <1>4, <1>7 DEF t, Replica
<1> QED
  BY <1>1, <1>7, <1>8, AppliedIs DEF k, t

\* The start of a transfer is taken.
LEMMA TakeStartIs ==
  ASSUME TypeOK, NEW p \in Peers, TakeFileStart(p)
  PROVE  Taken(p)
<1> DEFINE k == Packet(p)
           f == editor_init(ed[p])
           want == k.lines
           got == 0
<1>1. Takes(p, "FILE_START") /\ ed' = [ed EXCEPT ![p] = f]
  BY DEF TakeFileStart
<1>2. ed[p] \in Editors /\ k \in Packets /\ k.cmd = "FILE_START"
  BY <1>1, TakesType DEF TypeOK
<1>3. want \in Nat \ {0}
  BY <1>2, PacketFields
<1>4. f \in Editors /\ f.lines = Blankt
  BY <1>2, InitIs
<1>5. /\ load' = [load EXCEPT ![p] = [want |-> want, got |-> got]]
      /\ remote' \in [Peers -> BOOLEAN] /\ \A q \in Peers : remote[q] => remote'[q]
      /\ crashed' = crashed /\ crashed' \in [Peers -> BOOLEAN] /\ misplaced' \in BOOLEAN
  BY DEF TakeFileStart, TypeOK
<1>6. want \in Nat /\ got \in Nat /\ (want > 0 => got < want)
  BY <1>3
<1>7. After(k, Replica(p)) = [lines |-> f.lines, want |-> want, got |-> got]
  BY <1>2, <1>4, AfterIs
<1> HIDE DEF f, want, got
<1>8. /\ TypeOK'
      /\ ~crashed[p]
      /\ wire[p] # << >> /\ wire'[p] = Tail(wire[p])
      /\ wire'[Other(p)] = wire[Other(p)]
      /\ ed'[Other(p)] = ed[Other(p)] /\ load'[Other(p)] = load[Other(p)]
      /\ unsent' = unsent /\ crossed' = crossed
      /\ ed'[p] = f /\ load'[p] = [want |-> want, got |-> got]
  <2>1. remote' \in [Peers -> BOOLEAN] /\ \A q \in Peers : remote[q] => remote'[q]
    BY <1>5
  <2>2. crashed' \in [Peers -> BOOLEAN] /\ misplaced' \in BOOLEAN
    BY <1>5
  <2>3. load' = [load EXCEPT ![p] = [want |-> want, got |-> got]]
    BY <1>5
  <2>4. f \in Editors
    BY <1>4
  <2>5. TypeOK'
    BY <1>1, <1>6, <2>1, <2>2, <2>3, <2>4, TakenFrame
  <2>6. /\ ~crashed[p]
        /\ wire[p] # << >> /\ wire'[p] = Tail(wire[p])
        /\ wire'[Other(p)] = wire[Other(p)]
    BY <1>1, <1>6, <2>1, <2>2, <2>3, <2>4, TakenFrame
  <2>7. /\ ed'[Other(p)] = ed[Other(p)] /\ load'[Other(p)] = load[Other(p)]
        /\ unsent' = unsent /\ crossed' = crossed
        /\ ed'[p] = f
    BY <1>1, <1>6, <2>1, <2>2, <2>3, <2>4, TakenFrame
  <2>8. load'[p] = [want |-> want, got |-> got]
    BY <2>3 DEF TypeOK
  <2> QED BY <2>5, <2>6, <2>7, <2>8
<1>9. Replica(p)' = After(k, Replica(p)) /\ Replica(Other(p))' = Replica(Other(p))
  BY <1>7, <1>8 DEF Replica
<1> QED
  BY <1>2, <1>5, <1>8, <1>9 DEF Taken

\* A line of a transfer is taken.
LEMMA TakeLineIs ==
  ASSUME TypeOK, NEW p \in Peers, TakeFileLine(p)
  PROVE  Taken(p)
<1> DEFINE e == ed[p]
           k == Packet(p)
           t == Replica(p)
           text == k.text
           more == editor_load_line(e, text)
           done == load[p].got + 1 >= load[p].want
           idle == load[p].want = 0
           f == IF idle THEN e ELSE IF done THEN editor_load_finalize(more) ELSE more
           want == IF idle \/ done THEN 0 ELSE load[p].want
           got == IF idle THEN load[p].got ELSE load[p].got + 1
<1>1. /\ Takes(p, "FILE_LINE")
      /\ remote' = remote /\ crashed' = crashed /\ misplaced' = misplaced
  BY DEF TakeFileLine
<1>2. e \in Editors /\ k \in Packets /\ k.cmd = "FILE_LINE"
  BY <1>1, TakesType DEF TypeOK
<1>3. text \in Row
  BY <1>2, PacketFields
<1>4. /\ ed \in [Peers -> Editors] /\ load \in [Peers -> [want : Nat, got : Nat]]
      /\ load[p] \in [want : Nat, got : Nat]
      /\ remote' \in [Peers -> BOOLEAN] /\ \A q \in Peers : remote[q] => remote'[q]
      /\ crashed' \in [Peers -> BOOLEAN] /\ misplaced' \in BOOLEAN
  BY <1>1 DEF TypeOK
<1>5. load[p].want \in Nat /\ load[p].got \in Nat
      /\ load[p] = [want |-> load[p].want, got |-> load[p].got]
  BY <1>4
<1>6. /\ more \in Editors /\ more.lines = Grown(e.lines, text)
      /\ editor_load_finalize(more) \in Editors
      /\ editor_load_finalize(more).lines = Trimmed(Grown(e.lines, text))
  <2>1. more \in Editors /\ more.lines = Grown(e.lines, text)
    BY <1>2, <1>3, LoadLineIs
  <2> HIDE DEF more
  <2> QED BY <2>1, FinalizeIs
<1>7. f \in Editors
  BY <1>2, <1>6
<1>8. want \in Nat /\ got \in Nat /\ (want > 0 => got < want)
  BY <1>5
<1>9. /\ ed' = [ed EXCEPT ![p] = f]
      /\ load' = [load EXCEPT ![p] = [want |-> want, got |-> got]]
  <2>1. CASE idle
    <3>1. ed' = ed /\ load' = load
      BY <2>1 DEF TakeFileLine
    <3>2. f = ed[p] /\ [want |-> want, got |-> got] = load[p]
      BY <1>5, <2>1
    <3> HIDE DEF f, want, got
    <3> QED BY <1>4, <3>1, <3>2
  <2>2. CASE ~idle
    <3>1. /\ ed' = [ed EXCEPT ![p] = IF done THEN editor_load_finalize(more) ELSE more]
          /\ load' = [load EXCEPT ![p] =
                        [want |-> IF done THEN 0 ELSE @.want, got |-> load[p].got + 1]]
      <4> HIDE DEF idle
      <4> QED BY <2>2 DEF TakeFileLine, LastLine, idle
    <3>2. /\ f = IF done THEN editor_load_finalize(more) ELSE more
          /\ want = IF done THEN 0 ELSE load[p].want
          /\ got = load[p].got + 1
      BY <2>2
    <3> HIDE DEF f, want, got, done, more
    <3> QED BY <1>4, <3>1, <3>2
  <2> QED BY <2>1, <2>2
<1>10. After(k, t) = [lines |-> f.lines, want |-> want, got |-> got]
  <2>1. /\ t.lines = e.lines /\ t.want = load[p].want /\ t.got = load[p].got
        /\ t = [lines |-> e.lines, want |-> load[p].want, got |-> load[p].got]
    BY DEF Replica
  <2>2. After(k, t) = Received(t, text)
    BY <1>2, AfterIs
  <2> HIDE DEF t, more, e
  <2>3. CASE idle
    BY <2>1, <2>2, <2>3 DEF Received
  <2>4. CASE ~idle /\ done
    <3>1. Received(t, text)
            = [lines |-> Trimmed(Grown(e.lines, text)), want |-> 0,
               got |-> load[p].got + 1]
      BY <2>1, <2>4 DEF Received
    <3> QED BY <1>6, <2>2, <2>4, <3>1
  <2>5. CASE ~idle /\ ~done
    <3>1. Received(t, text)
            = [lines |-> Grown(e.lines, text), want |-> load[p].want,
               got |-> load[p].got + 1]
      BY <2>1, <2>5 DEF Received
    <3> QED BY <1>6, <2>2, <2>5, <3>1
  <2> QED BY <2>3, <2>4, <2>5
<1> HIDE DEF f, want, got
<1>11. /\ TypeOK'
       /\ ~crashed[p]
       /\ wire[p] # << >> /\ wire'[p] = Tail(wire[p])
       /\ wire'[Other(p)] = wire[Other(p)]
       /\ ed'[Other(p)] = ed[Other(p)] /\ load'[Other(p)] = load[Other(p)]
       /\ unsent' = unsent /\ crossed' = crossed
       /\ ed'[p] = f /\ load'[p] = [want |-> want, got |-> got]
  BY <1>1, <1>4, <1>7, <1>8, <1>9, TakenFrame
<1>12. Replica(p)' = After(k, t) /\ Replica(Other(p))' = Replica(Other(p))
  BY <1>10, <1>11 DEF Replica
<1> QED
  BY <1>1, <1>2, <1>4, <1>11, <1>12 DEF Taken

\* Every packet that is taken.
LEMMA ReceiveIs ==
  ASSUME TypeOK, NEW p \in Peers, Receive(p)
  PROVE  Taken(p)
BY TakeInsertIs, TakeDeleteIs, TakeMoveIs, TakeBlockIs, TakeUpdateIs, TakeStartIs,
   TakeLineIs DEF Receive

\* Both editors stay well formed, whatever the users do and whenever the packets
\* arrive: at least one row, no negative cursor, no packet of an unknown shape, no
\* transfer that counts further than was announced.
THEOREM TypeCorrect == Spec => []TypeOK
<1>1. Init => TypeOK
  BY InitType
<1>2. TypeOK /\ [Next]_vars => TypeOK'
  <2> SUFFICES ASSUME TypeOK, [Next]_vars PROVE TypeOK'
    OBVIOUS
  <2>1. CASE Next
    <3>1. PICK p \in Peers : Keys(p) \/ Others(p) \/ Receive(p)
      BY <2>1 DEF Next
    <3>2. CASE Receive(p)
      BY <3>2, ReceiveIs DEF Taken
    <3>3. CASE Keys(p) \/ Others(p)
      <4>1. ed[p] \in Editors
        BY DEF TypeOK
      <4>2. Command(p) \/ Sync(p)
        BY <3>3, <4>1, CommandTells
      <4> QED BY <4>2, CommandType, SyncType
    <3> QED BY <3>1, <3>2, <3>3
  <2>2. CASE UNCHANGED vars
    BY <2>2 DEF vars, TypeOK
  <2> QED BY <2>1, <2>2
<1> QED
  BY <1>1, <1>2, PTL DEF Spec

-----------------------------------------------------------------------------
(* An edit of other rows leaves the cursor on its line                     *)

\* f's cursor is on the line that e's is on.
Kept(e, f) ==
  /\ f.ccol = e.ccol
  /\ f.crow \in 0 .. RowCount(f) - 1
  /\ f.lines[f.crow + 1] = e.lines[e.crow + 1]

\* The rows around a block stay, in their order.
Around(old, new, start, deleted, inserted) ==
  /\ \A i \in 1 .. start : new[i] = old[i]
  /\ \A i \in start + inserted + 1 .. Len(new) : new[i] = old[i - inserted + deleted]

\* A row outside a block, and the place it has after the block was replaced.
LEMMA RowKept ==
  ASSUME NEW old \in Texts, NEW new \in Texts,
         NEW start \in Nat, NEW deleted \in Nat, NEW inserted \in Nat,
         start + deleted <= Len(old), Len(new) = Len(old) - deleted + inserted,
         Around(old, new, start, deleted, inserted),
         NEW r \in 0 .. Len(old) - 1, r \notin start .. start + deleted - 1,
         NEW s, s = Shifted(r, start + deleted - 1, inserted - deleted)
  PROVE  s \in 0 .. Len(new) - 1 /\ new[s + 1] = old[r + 1]
<1>1. Len(old) \in Nat /\ Len(new) \in Nat
  BY TextFacts
<1>2. CASE r < start
  <2>1. s = r /\ r + 1 \in 1 .. start /\ s \in 0 .. Len(new) - 1
    BY <1>1, <1>2 DEF Shifted
  <2> QED BY <2>1 DEF Around
<1>3. CASE ~(r < start)
  <2> DEFINE i == s + 1
  <2>1. r >= start + deleted
    BY <1>1, <1>3
  <2>2. s = r + (inserted - deleted)
    BY <1>1, <2>1 DEF Shifted
  <2>3. s \in 0 .. Len(new) - 1
    BY <1>1, <2>1, <2>2
  <2>4. i \in start + inserted + 1 .. Len(new) /\ i - inserted + deleted = r + 1
    BY <1>1, <2>1, <2>2, SMTT(30)
  <2>5. new[i] = old[i - inserted + deleted]
    <3> HIDE DEF i
    <3> QED BY <2>4 DEF Around
  <2> QED BY <2>3, <2>4, <2>5
<1> QED
  BY <1>2, <1>3

\* The same for what an edit replaces.
LEMMA ReplacesKeeps ==
  ASSUME NEW old \in Texts, NEW new \in Texts, NEW start, NEW deleted, NEW inserted,
         Replaces(old, new, start, deleted, inserted),
         NEW r \in 0 .. Len(old) - 1, r \notin start .. start + deleted - 1,
         NEW s, s = Shifted(r, start + deleted - 1, inserted - deleted)
  PROVE  s \in 0 .. Len(new) - 1 /\ new[s + 1] = old[r + 1]
<1>1. /\ start \in Nat /\ deleted \in Nat /\ inserted \in Nat
      /\ start + deleted <= Len(old) /\ Len(new) = Len(old) - deleted + inserted
  BY DEF Replaces
<1>2. Around(old, new, start, deleted, inserted)
  BY DEF Replaces, Around
<1> QED
  BY <1>1, <1>2, RowKept

\* A typed symbol of the peer, on another row.
LEMMA InsertKeeps ==
  ASSUME NEW e \in Editors, At(e.lines, e.rrow, e.rcol), NEW c \in Char \cup {Newline},
         At(e.lines, e.crow, e.ccol), e.crow # e.rrow,
         NEW f, f = editor_remote_insert_char(e, c)
  PROVE  Kept(e, f)
<1> DEFINE n == IF c = Newline THEN 2 ELSE 1
           r == IF c = Newline THEN Shifted(e.crow, e.rrow, 1) ELSE e.crow
           new == Typed(e.lines, e.rrow, e.rcol, c)
<1>1. Shows(e, f, new, r)
  BY RemoteInsertIs
<1>2. e.lines \in Texts /\ e.crow \in 0 .. Len(e.lines) - 1
  BY EditorFields DEF At
<1>3. new \in Texts /\ Replaces(e.lines, new, e.rrow, 1, n)
  BY <1>2, TypedText
<1>4. e.rrow \in Nat /\ e.crow \in Nat
  BY <1>2, AtIsNat
<1>5. r = Shifted(e.crow, e.rrow + 1 - 1, n - 1) /\ e.crow \notin e.rrow .. e.rrow + 1 - 1
  <2>1. CASE c = Newline
    BY <1>4, <2>1 DEF Shifted
  <2>2. CASE c # Newline
    BY <1>4, <2>2 DEF Shifted
  <2> QED BY <2>1, <2>2
<1> HIDE DEF r, n, new
<1>6. r \in 0 .. Len(new) - 1 /\ new[r + 1] = e.lines[e.crow + 1]
  BY <1>2, <1>3, <1>5, ReplacesKeeps
<1> QED
  BY <1>1, <1>6 DEF Shows, Kept, RowCount

\* A Backspace of the peer, on other rows.
LEMMA DeleteKeeps ==
  ASSUME NEW e \in Editors, At(e.lines, e.rrow, e.rcol),
         At(e.lines, e.crow, e.ccol), e.crow # e.rrow,
         e.crow = e.rrow - 1 => e.rcol > 0,
         NEW f, f = editor_remote_delete_char(e)
  PROVE  Kept(e, f)
<1> DEFINE r == IF e.rcol = 0 /\ e.rrow > 0 THEN Shifted(e.crow, e.rrow, -1) ELSE e.crow
           new == Erased(e.lines, e.rrow, e.rcol)
<1>1. Shows(e, f, new, r)
  BY RemoteDeleteIs
<1>2. e.lines \in Texts /\ e.crow \in 0 .. Len(e.lines) - 1
  BY EditorFields DEF At
<1>3. /\ e.rrow \in Nat /\ e.crow \in Nat /\ e.rcol \in Nat
  BY <1>2, AtIsNat
<1>4. /\ new \in Texts
      /\ e.rcol > 0 => Replaces(e.lines, new, e.rrow, 1, 1)
      /\ e.rcol = 0 /\ e.rrow > 0 => Replaces(e.lines, new, e.rrow - 1, 2, 1)
  BY <1>2, ErasedText
<1>5. r \in 0 .. Len(new) - 1 /\ new[r + 1] = e.lines[e.crow + 1]
  <2>1. CASE e.rcol > 0
    <3>1. r = Shifted(e.crow, e.rrow + 1 - 1, 1 - 1)
      BY <1>3, <2>1 DEF Shifted
    <3>2. e.crow \notin e.rrow .. e.rrow + 1 - 1
      BY <1>3
    <3> HIDE DEF r, new
    <3> QED BY <1>2, <1>4, <2>1, <3>1, <3>2, ReplacesKeeps
  <2>2. CASE e.rcol = 0 /\ e.rrow > 0
    <3>1. r = Shifted(e.crow, (e.rrow - 1) + 2 - 1, 1 - 2)
      BY <1>3, <2>2 DEF Shifted
    <3>2. e.crow \notin e.rrow - 1 .. (e.rrow - 1) + 2 - 1
      BY <1>3, <2>2
    <3> HIDE DEF r, new
    <3> QED BY <1>2, <1>4, <2>2, <3>1, <3>2, ReplacesKeeps
  <2>3. CASE e.rcol = 0 /\ e.rrow = 0
    <3>1. new = e.lines /\ r = e.crow
      BY <2>3 DEF Erased
    <3> QED BY <1>2, <3>1
  <2> QED BY <1>3, <2>1, <2>2, <2>3
<1> HIDE DEF r, new
<1> QED
  BY <1>1, <1>5 DEF Shows, Kept, RowCount

\* A block of the peer, over other rows.
LEMMA BlockKeeps ==
  ASSUME NEW e \in Editors, At(e.lines, e.crow, e.ccol), NEW start \in Nat,
         NEW deleted \in Nat \ {0}, NEW inserted \in Nat \ {0},
         e.crow \notin start .. start + deleted - 1,
         NEW f, f = editor_remote_replace_block(e, start, deleted, inserted)
  PROVE  Kept(e, f)
<1> DEFINE actual == Actual(e.lines, start, deleted)
           new == Blocked(e.lines, start, actual, inserted)
           r == Shifted(e.crow, start + actual - 1, inserted - actual)
<1>1. /\ e.lines \in Texts /\ e.crow \in 0 .. Len(e.lines) - 1 /\ Len(e.lines) \in Nat
  BY EditorFields, TextFacts DEF At
<1>2. /\ start > Len(e.lines) => f = e
      /\ start <= Len(e.lines) => actual \in 0 .. Len(e.lines) - start /\ Shows(e, f, new, r)
  BY ReplaceBlockIs, SMTT(30)
<1>3. CASE start > Len(e.lines)
  BY <1>1, <1>2, <1>3 DEF Kept, RowCount
<1>4. CASE start <= Len(e.lines)
  <2>1. actual <= deleted
    BY <1>1, <1>4 DEF Actual
  <2> HIDE DEF actual
  <2>2. /\ start \in 0 .. Len(e.lines) /\ actual \in 0 .. Len(e.lines) - start
        /\ actual \in Nat /\ start + actual <= Len(e.lines)
        /\ e.crow \notin start .. start + actual - 1
    BY <1>1, <1>2, <1>4, <2>1
  <2>3. /\ new \in Texts /\ Len(new) = Len(e.lines) - actual + inserted
        /\ Around(e.lines, new, start, actual, inserted)
    <3> DEFINE lines == e.lines
    <3>1. /\ lines \in Texts /\ start \in 0 .. Len(lines)
          /\ actual \in 0 .. Len(lines) - start /\ new = Blocked(lines, start, actual, inserted)
      BY <1>1, <2>2
    <3> HIDE DEF new, lines
    <3>2. /\ new \in Texts /\ Len(new) = Len(lines) - actual + inserted
          /\ \A i \in 1 .. start : new[i] = lines[i]
          /\ \A i \in start + inserted + 1 .. Len(new) :
               new[i] = lines[i - inserted + actual]
      <4>1. Within(lines, start, actual) /\ inserted \in Nat \ {0}
        BY <1>1, <2>2, <3>1 DEF Within
      <4>2. new \in Texts /\ Makes(lines, new, start, actual, inserted)
        BY <3>1, <4>1, BlockedRows
      <4> QED BY <4>2 DEF Makes
    <3> QED BY <3>2 DEF Around, lines
  <2> HIDE DEF new
  <2>4. r \in 0 .. Len(new) - 1 /\ new[r + 1] = e.lines[e.crow + 1]
    <3> DEFINE lines == e.lines
               crow == e.crow
    <3>1. /\ start \in Nat /\ actual \in Nat /\ inserted \in Nat
          /\ lines \in Texts /\ new \in Texts /\ crow \in 0 .. Len(lines) - 1
      BY <1>1, <2>2, <2>3
    <3>2. /\ start + actual <= Len(lines) /\ crow \notin start .. start + actual - 1
          /\ Len(new) = Len(lines) - actual + inserted
          /\ Around(lines, new, start, actual, inserted)
          /\ r = Shifted(crow, start + actual - 1, inserted - actual)
      BY <2>2, <2>3
    <3> HIDE DEF r, lines, crow
    <3>3. r \in 0 .. Len(new) - 1 /\ new[r + 1] = lines[crow + 1]
      BY <3>1, <3>2, RowKept, SMTT(30)
    <3> QED BY <3>3 DEF lines, crow
  <2> HIDE DEF r
  <2> QED BY <1>2, <1>4, <2>4 DEF Shows, Kept, RowCount
<1> QED
  BY <1>1, <1>3, <1>4

\* Another row of the peer's.
LEMMA UpdateKeeps ==
  ASSUME NEW e \in Editors, At(e.lines, e.crow, e.ccol), NEW row \in Nat,
         NEW text \in Row, e.crow # row, NEW f, f = editor_remote_update_line(e, row, text)
  PROVE  Kept(e, f)
<1> DEFINE new == [e.lines EXCEPT ![row + 1] = text]
<1>1. /\ e.lines \in Texts /\ e.lines \in Seq(Row)
      /\ e.crow \in 0 .. Len(e.lines) - 1 /\ Len(e.lines) \in Nat
  BY EditorFields, TextFacts DEF At, Texts
<1>2. /\ row >= Len(e.lines) => f = e
      /\ row < Len(e.lines) => Shows(e, f, new, e.crow)
  BY UpdateLineIs
<1>3. CASE row >= Len(e.lines)
  BY <1>1, <1>2, <1>3 DEF Kept, RowCount
<1>4. CASE row < Len(e.lines)
  <2>1. row + 1 \in 1 .. Len(e.lines) /\ e.crow + 1 \in 1 .. Len(e.lines)
        /\ e.crow + 1 # row + 1
    BY <1>1, <1>4
  <2>2. Len(new) = Len(e.lines) /\ new[e.crow + 1] = e.lines[e.crow + 1]
    BY <1>1, <2>1, ExceptSeq
  <2> HIDE DEF new
  <2> QED BY <1>1, <1>2, <1>4, <2>2 DEF Shows, Kept, RowCount
<1> QED
  BY <1>1, <1>3, <1>4

\* The packet p takes leaves its cursor on its line when it edits other rows.
LEMMA TakenKeeps ==
  ASSUME TypeOK, NEW p \in Peers, Receive(p), At(ed[p].lines, ed[p].crow, ed[p].ccol),
         Elsewhere(p)
  PROVE  Kept(ed[p], ed'[p])
<1> DEFINE e == ed[p]
           k == Packet(p)
<1>1. /\ e \in Editors /\ ed \in [Peers -> Editors]
      /\ At(e.lines, e.crow, e.ccol)
  BY DEF TypeOK
<1>2. Kept(e, e)
  <2>1. Len(e.lines) \in Nat
    BY <1>1, EditorFields, TextFacts
  <2> QED BY <1>1, <2>1 DEF Kept, At, RowCount
<1>3. /\ k \in Packets
      /\ TakeInsertChar(p) => k.cmd = "INSERT_CHAR"
      /\ TakeDeleteChar(p) => k.cmd = "DELETE_CHAR"
      /\ TakeMoveCursor(p) => k.cmd = "MOVE_CURSOR"
      /\ TakeReplaceBlock(p) => k.cmd = "REPLACE_BLOCK"
      /\ TakeUpdateLine(p) => k.cmd = "UPDATE_LINE"
      /\ TakeFileStart(p) => k.cmd = "FILE_START"
      /\ TakeFileLine(p) => k.cmd = "FILE_LINE"
  <2>1. k \in Packets
    BY ReceiveIs DEF Taken
  <2> QED BY <2>1 DEF TakeInsertChar, TakeDeleteChar, TakeMoveCursor, TakeReplaceBlock,
                      TakeUpdateLine, TakeFileStart, TakeFileLine, Takes, Packet
<1>4. CASE TakeInsertChar(p)
  <2> DEFINE c == k.c
             f == editor_remote_insert_char(e, c)
  <2>1. c \in Char \cup {Newline} /\ e.crow # e.rrow
    BY <1>3, <1>4, PacketFields DEF Elsewhere
  <2>2. Position(e, e.rrow, e.rcol) <=> At(e.lines, e.rrow, e.rcol)
    BY PositionAt
  <2>3. AtRemoteCursor(p, Position(e, e.rrow, e.rcol), f)
    BY <1>4 DEF TakeInsertChar
  <2> HIDE DEF c
  <2>4. CASE Position(e, e.rrow, e.rcol)
    <3>1. Kept(e, f)
      BY <1>1, <2>1, <2>2, <2>4, InsertKeeps
    <3> HIDE DEF f
    <3>2. ed'[p] = f
      BY <1>1, <2>3, <2>4 DEF AtRemoteCursor
    <3> QED BY <3>1, <3>2
  <2>5. CASE ~Position(e, e.rrow, e.rcol)
    BY <1>2, <2>3, <2>5 DEF AtRemoteCursor
  <2> QED BY <2>4, <2>5
<1>5. CASE TakeDeleteChar(p)
  <2> DEFINE f == editor_remote_delete_char(e)
             none == e.rrow <= 0 /\ e.rcol <= 0
  <2>1. e.crow # e.rrow /\ (e.crow = e.rrow - 1 => e.rcol > 0)
    BY <1>3, <1>5 DEF Elsewhere
  <2>2. Position(e, e.rrow, e.rcol) <=> At(e.lines, e.rrow, e.rcol)
    BY PositionAt
  <2>3. AtRemoteCursor(p, Position(e, e.rrow, e.rcol) \/ none, f)
    BY <1>5 DEF TakeDeleteChar
  <2>4. CASE Position(e, e.rrow, e.rcol)
    <3>1. Kept(e, f)
      BY <1>1, <2>1, <2>2, <2>4, DeleteKeeps
    <3> HIDE DEF f
    <3>2. ed'[p] = f
      BY <1>1, <2>3, <2>4 DEF AtRemoteCursor
    <3> QED BY <3>1, <3>2
  <2>5. CASE none
    <3>1. Shows(e, f, e.lines, e.crow)
      BY <1>1, <2>5, RemoteDeleteNothing
    <3> HIDE DEF f
    <3>2. Kept(e, f)
      BY <1>2, <3>1 DEF Kept, Shows, RowCount
    <3>3. ed'[p] = f
      BY <1>1, <2>3, <2>5 DEF AtRemoteCursor
    <3> QED BY <3>2, <3>3
  <2>6. CASE ~Position(e, e.rrow, e.rcol) /\ ~none
    BY <1>2, <2>3, <2>6 DEF AtRemoteCursor
  <2> QED BY <2>4, <2>5, <2>6
<1>6. CASE TakeReplaceBlock(p)
  <2> DEFINE start == k.row
             deleted == k.deleted
             inserted == k.inserted
             f == editor_remote_replace_block(e, start, deleted, inserted)
  <2>1. /\ start \in Nat /\ deleted \in Nat \ {0} /\ inserted \in Nat \ {0}
        /\ e.crow \notin start .. start + deleted - 1
    BY <1>3, <1>6, PacketFields DEF Elsewhere
  <2>2. ed'[p] = f
    BY <1>1, <1>6 DEF TakeReplaceBlock, Applies
  <2> HIDE DEF start, deleted, inserted
  <2>3. Kept(e, f)
    BY <1>1, <2>1, BlockKeeps
  <2> HIDE DEF f
  <2> QED BY <2>2, <2>3
<1>7. CASE TakeUpdateLine(p)
  <2> DEFINE row == k.row
             text == k.text
             f == editor_remote_update_line(e, row, text)
  <2>1. row \in Nat /\ text \in Row /\ e.crow # row
    BY <1>3, <1>7, PacketFields DEF Elsewhere
  <2>2. ed'[p] = f
    BY <1>1, <1>7 DEF TakeUpdateLine, Applies
  <2> HIDE DEF row, text
  <2>3. Kept(e, f)
    BY <1>1, <2>1, UpdateKeeps
  <2> HIDE DEF f
  <2> QED BY <2>2, <2>3
<1>8. CASE TakeMoveCursor(p) \/ TakeFileStart(p) \/ TakeFileLine(p)
  <2>1. /\ k.cmd # "INSERT_CHAR" /\ k.cmd # "DELETE_CHAR"
        /\ k.cmd # "REPLACE_BLOCK" /\ k.cmd # "UPDATE_LINE"
    BY <1>3, <1>8
  <2> QED BY <2>1 DEF Elsewhere
<1> QED
  BY <1>4, <1>5, <1>6, <1>7, <1>8 DEF Receive

\* A user's command takes no packet, and neither does the other peer's receiving.
LEMMA OnlyReceives ==
  ASSUME TypeOK, NEW p \in Peers, NEW q \in Peers,
         wire[p] # << >>, wire'[p] = Tail(wire[p]),
         Command(q) \/ Sync(q) \/ Receive(q)
  PROVE  q = p /\ Receive(p)
<1>1. wire[p] \in Seq(Packets) /\ wire \in [Peers -> Seq(Packets)] /\ ed[q] \in Editors
  BY DEF TypeOK
<1>2. /\ Len(wire[p]) \in Nat \ {0} /\ Len(wire'[p]) = Len(wire[p]) - 1
  <2>1. Len(wire[p]) \in Nat \ {0}
    BY <1>1, EmptySeq, LenProperties
  <2>2. Len(Tail(wire[p])) = Len(wire[p]) - 1
    BY <1>1, HeadTailProperties
  <2> QED BY <2>1, <2>2
<1>3. ASSUME NEW packets \in Seq(Packets), Send(q, packets)
      PROVE  FALSE
  <2>1. /\ wire'[Other(q)] = wire[Other(q)] \o packets /\ wire'[q] = wire[q]
    BY <1>1, <1>3, SendType
  <2>2. p = q \/ p = Other(q)
    BY OtherPeer
  <2>3. Len(wire[p] \o packets) = Len(wire[p]) + Len(packets) /\ Len(packets) \in Nat
    BY <1>1, ConcatProperties, LenProperties
  <2>4. wire'[p] = wire[p] \/ wire'[p] = wire[p] \o packets
    BY <2>1, <2>2
  <2>5. Len(wire'[p]) = Len(wire[p]) \/ Len(wire'[p]) = Len(wire[p]) + Len(packets)
    BY <2>3, <2>4, Zenon
  <2> QED BY <1>2, <2>3, <2>5
<1>4. ~Command(q)
  BY <1>3 DEF Command, Does
<1>5. ~Sync(q)
  BY <1>1, <1>3, ShareParts DEF Sync
<1>6. CASE Receive(q)
  <2>1. wire'[Other(q)] = wire[Other(q)]
    BY <1>6, ReceiveIs DEF Taken
  <2>2. p = q \/ p = Other(q)
    BY OtherPeer
  <2>3. ASSUME p = Other(q)
        PROVE  FALSE
    <3>1. wire'[p] = wire[p]
      BY <2>1, <2>3
    <3>2. Len(wire'[p]) = Len(wire[p])
      BY <3>1, Zenon
    <3> QED BY <1>2, <3>2
  <2> QED BY <1>6, <2>2, <2>3
<1> QED
  BY <1>4, <1>5, <1>6

\* A packet of the peer that edits other rows never moves the user's cursor off
\* the line it is on, whether rows appear or go above it.
THEOREM CursorKeepsLine == Spec => KeepsLine
<1>1. TypeOK /\ [Next]_vars =>
        [\A p \in Peers :
           /\ wire[p] # << >> /\ wire'[p] = Tail(wire[p])
           /\ Position(ed[p], ed[p].crow, ed[p].ccol)
           /\ Elsewhere(p)
           => /\ ed'[p].ccol = ed[p].ccol
              /\ ed'[p].crow \in 0 .. RowCount(ed'[p]) - 1
              /\ ed'[p].lines[ed'[p].crow + 1] = ed[p].lines[ed[p].crow + 1]]_vars
  <2> SUFFICES ASSUME TypeOK, Next, NEW p \in Peers,
                      wire[p] # << >>, wire'[p] = Tail(wire[p]),
                      Position(ed[p], ed[p].crow, ed[p].ccol), Elsewhere(p)
               PROVE  Kept(ed[p], ed'[p])
    BY DEF Kept
  <2>1. PICK q \in Peers : Keys(q) \/ Others(q) \/ Receive(q)
    BY DEF Next
  <2>2. Command(q) \/ Sync(q) \/ Receive(q)
    BY <2>1, CommandTells DEF TypeOK
  <2>3. Receive(p)
    BY <2>2, OnlyReceives
  <2>4. At(ed[p].lines, ed[p].crow, ed[p].ccol)
    BY PositionAt
  <2> QED BY <2>3, <2>4, TakenKeeps
<1> QED
  BY <1>1, TypeCorrect, PTL DEF Spec, KeepsLine

-----------------------------------------------------------------------------
(* What the packets under way will do                                      *)

\* The packets w, one after the other, take text t to text u, and each relative
\* edit among them finds its position.
Chain(w, t, u) ==
  \E s \in [0 .. Len(w) -> Replicas] :
    /\ s[0] = t /\ s[Len(w)] = u
    /\ \A i \in 1 .. Len(w) : Fits(w[i], s[i - 1]) /\ s[i] = After(w[i], s[i - 1])

\* Induction up to n, for a property given by the set of the numbers that have it.
LEMMA InductTo ==
  ASSUME NEW n \in Nat, NEW S, 0 \in S, \A i \in 1 .. n : i - 1 \in S => i \in S
  PROVE  n \in S
<1> DEFINE T == {i \in Nat : i <= n /\ i \notin S}
<1>1. SUFFICES ASSUME n \notin S PROVE FALSE
  OBVIOUS
<1>2. T \in SUBSET Nat /\ T # {}
  BY <1>1
<1>3. PICK x \in T : \A y \in T : ~(<<y, x>> \in OpToRel(<, Nat))
  BY <1>2, NatLessThanWellFounded, WFMin
<1>4. x \in Nat /\ x <= n /\ x \notin S /\ x # 0
  BY <1>3
<1>5. x \in 1 .. n /\ x - 1 \in Nat /\ x - 1 <= n /\ x - 1 < x
  BY <1>4
<1>6. x - 1 \notin S
  BY <1>4, <1>5
<1>7. x - 1 \in T
  BY <1>5, <1>6
<1>8. ~(x - 1 < x)
  BY <1>3, <1>4, <1>5, <1>7, Zenon DEF OpToRel
<1> QED
  BY <1>5, <1>8

\* No packet changes nothing.
LEMMA ChainNone ==
  ASSUME NEW t \in Replicas
  PROVE  Chain(<< >>, t, t)
<1> DEFINE s == [i \in 0 .. 0 |-> t]
<1>1. Len(<< >>) = 0
  OBVIOUS
<1>2. s \in [0 .. 0 -> Replicas] /\ s[0] = t /\ 1 .. 0 = {}
  OBVIOUS
<1> HIDE DEF s
<1> QED
  BY <1>1, <1>2 DEF Chain

\* One packet.
LEMMA ChainOne ==
  ASSUME NEW t \in Replicas, NEW k, Fits(k, t), NEW u \in Replicas, u = After(k, t)
  PROVE  Chain(<< k >>, t, u)
<1> DEFINE s == [i \in 0 .. 1 |-> IF i = 0 THEN t ELSE u]
<1>1. Len(<< k >>) = 1 /\ << k >>[1] = k
  OBVIOUS
<1>2. s \in [0 .. 1 -> Replicas] /\ s[0] = t /\ s[1] = u
  OBVIOUS
<1>3. \A i \in 1 .. 1 : i = 1 /\ i - 1 = 0
  OBVIOUS
<1> HIDE DEF s
<1>4. \A i \in 1 .. 1 : Fits(<< k >>[i], s[i - 1]) /\ s[i] = After(<< k >>[i], s[i - 1])
  BY <1>1, <1>2, <1>3, Zenon
<1> QED
  BY <1>1, <1>2, <1>4 DEF Chain

\* Packets after packets.
LEMMA ChainJoin ==
  ASSUME NEW v \in Seq(Packets), NEW w \in Seq(Packets), NEW t, NEW m, NEW u,
         Chain(v, t, m), Chain(w, m, u)
  PROVE  Chain(v \o w, t, u)
<1> DEFINE a == Len(v)
           b == Len(w)
           x == v \o w
<1>1. /\ a \in Nat /\ b \in Nat /\ Len(x) = a + b
      /\ \A i \in 1 .. a + b : x[i] = IF i <= a THEN v[i] ELSE w[i - a]
  BY LenProperties, ConcatProperties
<1> HIDE DEF a, b, x
<1>2. PICK f \in [0 .. a -> Replicas] :
        /\ f[0] = t /\ f[a] = m
        /\ \A i \in 1 .. a : Fits(v[i], f[i - 1]) /\ f[i] = After(v[i], f[i - 1])
  BY DEF Chain, a
<1>3. PICK g \in [0 .. b -> Replicas] :
        /\ g[0] = m /\ g[b] = u
        /\ \A i \in 1 .. b : Fits(w[i], g[i - 1]) /\ g[i] = After(w[i], g[i - 1])
  BY DEF Chain, b
<1> DEFINE s == [i \in 0 .. a + b |-> IF i <= a THEN f[i] ELSE g[i - a]]
<1>4. s \in [0 .. a + b -> Replicas]
  <2>1. ASSUME NEW i \in 0 .. a + b
        PROVE  (IF i <= a THEN f[i] ELSE g[i - a]) \in Replicas
    <3>1. CASE i <= a
      <4>1. i \in 0 .. a
        BY <1>1, <3>1
      <4> QED BY <3>1, <4>1
    <3>2. CASE ~(i <= a)
      <4>1. i - a \in 0 .. b
        BY <1>1, <3>2
      <4> QED BY <3>2, <4>1
    <3> QED BY <3>1, <3>2
  <2> QED BY <2>1
<1>5. \A i \in 0 .. a + b : s[i] = IF i <= a THEN f[i] ELSE g[i - a]
  OBVIOUS
<1> HIDE DEF s
<1>6. s[0] = t
  <2>1. 0 \in 0 .. a + b /\ 0 <= a
    BY <1>1
  <2> QED BY <1>2, <1>5, <2>1
<1>7. s[a + b] = u
  <2>1. CASE b = 0
    <3>1. a + b \in 0 .. a + b /\ a + b <= a /\ a + b = a
      BY <1>1, <2>1
    <3>2. s[a + b] = f[a]
      BY <1>5, <3>1
    <3> QED BY <1>2, <1>3, <2>1, <3>2
  <2>2. CASE b # 0
    <3>1. a + b \in 0 .. a + b /\ ~(a + b <= a) /\ (a + b) - a = b
      BY <1>1, <2>2
    <3>2. s[a + b] = g[(a + b) - a]
      <4> DEFINE i == a + b
      <4>1. i \in 0 .. a + b /\ ~(i <= a)
        BY <3>1
      <4> HIDE DEF i
      <4>2. s[i] = g[i - a]
        BY <1>5, <4>1
      <4> QED BY <4>2 DEF i
    <3> QED BY <1>3, <3>1, <3>2
  <2> QED BY <2>1, <2>2
<1>8. ASSUME NEW i \in 1 .. a + b
      PROVE  Fits(x[i], s[i - 1]) /\ s[i] = After(x[i], s[i - 1])
  <2>1. i - 1 \in 0 .. a + b /\ i \in 0 .. a + b
    BY <1>1
  <2>2. CASE i <= a
    <3>1. i \in 1 .. a /\ i - 1 <= a
      BY <1>1, <2>2
    <3>2. x[i] = v[i] /\ s[i - 1] = f[i - 1] /\ s[i] = f[i]
      BY <1>1, <1>5, <2>1, <2>2, <3>1
    <3> QED BY <1>2, <3>1, <3>2
  <2>3. CASE ~(i <= a)
    <3> DEFINE j == i - a
    <3>1. j \in 1 .. b /\ (i - 1) - a = j - 1
      BY <1>1, <2>3
    <3>2. x[i] = w[j] /\ s[i] = g[j]
      BY <1>1, <1>5, <2>1, <2>3
    <3>3. s[i - 1] = g[j - 1]
      <4>1. CASE i - 1 <= a
        <5>1. i - 1 = a /\ j - 1 = 0
          BY <1>1, <2>3, <4>1
        <5>2. s[i - 1] = f[a]
          BY <1>5, <2>1, <4>1, <5>1
        <5> QED BY <1>2, <1>3, <5>1, <5>2
      <4>2. CASE ~(i - 1 <= a)
        BY <1>5, <2>1, <3>1, <4>2
      <4> QED BY <4>1, <4>2
    <3> HIDE DEF j
    <3> QED BY <1>3, <3>1, <3>2, <3>3
  <2> QED BY <2>2, <2>3
<1> QED
  <2>1. Chain(x, t, u)
    BY <1>1, <1>4, <1>6, <1>7, <1>8 DEF Chain
  <2> QED BY <2>1 DEF x

\* The first packet, then the others.
LEMMA ChainTail ==
  ASSUME NEW w \in Seq(Packets), w # << >>, NEW t, NEW u, Chain(w, t, u)
  PROVE  /\ t \in Replicas /\ Fits(Head(w), t)
         /\ Chain(Tail(w), After(Head(w), t), u)
<1> DEFINE n == Len(w)
           x == Tail(w)
<1>1. /\ n \in Nat \ {0} /\ Head(w) = w[1] /\ Len(x) = n - 1
      /\ \A i \in 1 .. n - 1 : x[i] = w[i + 1]
  <2>1. n \in Nat \ {0}
    BY EmptySeq, LenProperties
  <2> QED BY <2>1, HeadTailProperties
<1> HIDE DEF n, x
<1>2. PICK s \in [0 .. n -> Replicas] :
        /\ s[0] = t /\ s[n] = u
        /\ \A i \in 1 .. n : Fits(w[i], s[i - 1]) /\ s[i] = After(w[i], s[i - 1])
  BY DEF Chain, n
<1>3. t \in Replicas /\ Fits(Head(w), t) /\ s[1] = After(Head(w), t)
  <2>1. 1 \in 1 .. n /\ 1 - 1 = 0 /\ 0 \in 0 .. n
    BY <1>1
  <2> QED BY <1>1, <1>2, <2>1
<1> DEFINE r == [i \in 0 .. n - 1 |-> s[i + 1]]
<1>4. r \in [0 .. n - 1 -> Replicas]
  <2>1. \A i \in 0 .. n - 1 : i + 1 \in 0 .. n
    BY <1>1
  <2> QED BY <2>1
<1>5. \A i \in 0 .. n - 1 : r[i] = s[i + 1]
  OBVIOUS
<1> HIDE DEF r
<1>6. r[0] = s[1] /\ r[n - 1] = u
  <2>1. 0 \in 0 .. n - 1 /\ n - 1 \in 0 .. n - 1 /\ n - 1 + 1 = n /\ 0 + 1 = 1
    BY <1>1
  <2> QED BY <1>2, <1>5, <2>1
<1>7. ASSUME NEW i \in 1 .. n - 1
      PROVE  Fits(x[i], r[i - 1]) /\ r[i] = After(x[i], r[i - 1])
  <2> DEFINE j == i + 1
  <2>1. /\ j \in 1 .. n /\ j - 1 = i /\ i \in 0 .. n - 1 /\ i - 1 \in 0 .. n - 1
        /\ (i - 1) + 1 = i
    BY <1>1
  <2>2. x[i] = w[j] /\ r[i] = s[j] /\ r[i - 1] = s[j - 1]
    BY <1>1, <1>5, <2>1
  <2> HIDE DEF j
  <2> QED BY <1>2, <2>1, <2>2
<1>8. Chain(x, s[1], u)
  BY <1>1, <1>4, <1>6, <1>7 DEF Chain
<1> QED
  BY <1>3, <1>8 DEF x

\* Packets that edit nothing leave the text as it is.
LEMMA ChainMoves ==
  ASSUME NEW w \in Seq(Packets), NoEdits(w), NEW t, NEW u, Chain(w, t, u)
  PROVE  u = t
<1> DEFINE n == Len(w)
<1>1. n \in Nat /\ \A i \in 1 .. n : w[i].cmd = "MOVE_CURSOR"
  BY LenProperties DEF NoEdits
<1> HIDE DEF n
<1>2. PICK s \in [0 .. n -> Replicas] :
        /\ s[0] = t /\ s[n] = u
        /\ \A i \in 1 .. n : Fits(w[i], s[i - 1]) /\ s[i] = After(w[i], s[i - 1])
  BY DEF Chain, n
<1> DEFINE S == {i \in 0 .. n : s[i] = t}
<1>3. 0 \in S
  BY <1>1, <1>2
<1>4. ASSUME NEW i \in 1 .. n, i - 1 \in S
      PROVE  i \in S
  <2>1. s[i - 1] = t
    BY <1>4
  <2>2. s[i] = After(w[i], t) /\ After(w[i], t) = t
    BY <1>1, <1>2, <2>1, AfterIs
  <2>3. i \in 0 .. n
    BY <1>1
  <2> QED BY <2>2, <2>3
<1>5. n \in S
  <2> HIDE DEF S
  <2> QED BY <1>1, <1>3, <1>4, InductTo
<1> QED
  BY <1>2, <1>5

\* One more position sent.
LEMMA ChainMove ==
  ASSUME NEW t \in Replicas, NEW r, NEW c
  PROVE  Chain(<< MoveCursor(r, c) >>, t, t)
<1> DEFINE k == MoveCursor(r, c)
<1>1. k.cmd = "MOVE_CURSOR"
  BY DEF MoveCursor
<1> HIDE DEF k
<1>2. Fits(k, t) /\ t = After(k, t)
  BY <1>1, AfterIs DEF Fits
<1>3. Chain(<< k >>, t, t)
  BY <1>2, ChainOne
<1> QED
  BY <1>3 DEF k

-----------------------------------------------------------------------------
(* Texts that a session can carry                                          *)

\* The last row number of 16 bits, which row -1 is sent as.
LastRowNumber == RowNumber(-1)

\* No row of the text is cut when it is sent, and each has a number that row -1 is
\* not sent as.
Fitting(e) ==
  /\ RowCount(e) < LastRowNumber
  /\ \A i \in 1 .. RowCount(e) : Len(e.lines[i]) <= UPDATE_MAX

\* Row numbers that are sent as they are.
LEMMA RowNumberIs ==
  /\ LastRowNumber \in Nat
  /\ LastRowNumber = RowNumber(-1)
  /\ \A r \in Nat : r < LastRowNumber => RowNumber(r) = r
<1>1. RowNumber(-1) \in RowNumbers
  <2>1. -1 \in Int
    OBVIOUS
  <2> QED BY <2>1, SixteenBits
<1>2. RowNumber(-1) \in Nat
  BY <1>1, RowNumberIsNat, Zenon
<1>3. LastRowNumber \in RowNumbers /\ LastRowNumber \in Nat
  BY <1>1, <1>2, Zenon DEF LastRowNumber
<1>4. ASSUME NEW r \in Nat, r < LastRowNumber
      PROVE  RowNumber(r) = r
  <2>1. \A n \in RowNumbers : n < 65536
    BY SMT DEF RowNumbers
  <2>2. LastRowNumber < 65536
    BY <1>3, <2>1, SMT
  <2>3. \A n \in Nat : n < LastRowNumber /\ LastRowNumber < 65536 => n < 65536
    BY <1>3, SMT
  <2>4. \A n \in Nat : n < 65536 => RowNumber(n) = n
    BY SMTT(60) DEF RowNumber
  <2> QED BY <1>4, <2>2, <2>3, <2>4, SMT
<1> QED
  BY <1>3, <1>4 DEF LastRowNumber

\* The packet of a row has the whole of it.
LEMMA UpdateIsRow ==
  ASSUME NEW e \in Editors, Fitting(e), NEW r \in 0 .. Len(e.lines) - 1,
         NEW k, k = UpdateLine(e, r)
  PROVE  k.cmd = "UPDATE_LINE" /\ k.row = r /\ k.text = e.lines[r + 1]
<1>1. /\ Len(e.lines) \in Nat /\ r + 1 \in 1 .. Len(e.lines) /\ r \in Nat
      /\ RowCount(e) = Len(e.lines)
  BY EditorFields, TextFacts DEF RowCount
<1>2. Line(e, r) = e.lines[r + 1]
  BY <1>1 DEF Line
<1>3. Cut(Line(e, r), UPDATE_MAX) = e.lines[r + 1]
  <2>1. Len(e.lines[r + 1]) <= UPDATE_MAX /\ Len(e.lines[r + 1]) \in Nat
    BY <1>1, EditorFields, TextFacts DEF Fitting
  <2>2. ~(Len(e.lines[r + 1]) > UPDATE_MAX)
    BY <2>1 DEF UPDATE_MAX
  <2> QED BY <1>2, <2>2 DEF Cut
<1>4. RowNumber(r) = r
  BY <1>1, RowNumberIs DEF Fitting
<1> QED
  BY <1>3, <1>4 DEF UpdateLine

\* The rows of a block fill their places in the text.
LEMMA RowsChain ==
  ASSUME NEW e \in Editors, Fitting(e), NEW mid \in Texts,
         NEW start \in Nat, NEW inserted \in Nat \ {0},
         start + inserted <= Len(e.lines), Len(mid) = Len(e.lines),
         \A i \in 1 .. start : mid[i] = e.lines[i],
         \A i \in start + inserted + 1 .. Len(mid) : mid[i] = e.lines[i],
         NEW want \in Nat, NEW got \in Nat
  PROVE  Chain(BlockRows(e, start, inserted),
               [lines |-> mid, want |-> want, got |-> got],
               [lines |-> e.lines, want |-> want, got |-> got])
<1> DEFINE n == Len(e.lines)
           new == e.lines
           w == BlockRows(e, start, inserted)
           at(j, i) == IF i > start + j /\ i <= start + inserted THEN mid[i] ELSE new[i]
           rows(j) == [i \in 1 .. n |-> at(j, i)]
           s == [j \in 0 .. inserted |-> [lines |-> rows(j), want |-> want, got |-> got]]
<1>1. /\ n \in Nat \ {0} /\ new \in Texts /\ \A i \in 1 .. n : new[i] \in Row
      /\ \A i \in 1 .. n : mid[i] \in Row
      /\ start + inserted <= n /\ Len(mid) = n
      /\ DOMAIN new = 1 .. n /\ DOMAIN mid = 1 .. n
      /\ new \in Seq(Row) /\ mid \in Seq(Row)
  BY EditorFields, TextFacts DEF Texts
<1>2. /\ Len(w) = inserted
      /\ \A j \in 1 .. inserted : w[j] = UpdateLine(e, start + j - 1)
  <2>1. start \in Int /\ 1 \in Nat \ {0}
    OBVIOUS
  <2>2. Len(w) = inserted
    BY <2>1, BlockParts
  <2> QED BY <2>2 DEF BlockRows
<1>3. \A i \in 1 .. n : i <= start \/ i > start + inserted => mid[i] = new[i]
  BY <1>1
<1> HIDE DEF n, new, w
<1>4. ASSUME NEW j \in 0 .. inserted
      PROVE  /\ rows(j) \in Texts /\ Len(rows(j)) = n
             /\ \A i \in 1 .. n : rows(j)[i] = at(j, i)
  <2>1. \A i \in 1 .. n : at(j, i) \in Row
    BY <1>1
  <2> HIDE DEF at
  <2>2. rows(j) \in [1 .. n -> Row]
    BY <2>1
  <2> QED BY <1>1, <2>2, TextOf
<1>5. rows(0) = mid
  <2>1. 0 \in 0 .. inserted /\ start + 0 = start
    OBVIOUS
  <2>2. /\ rows(0) \in Seq(Row) /\ Len(rows(0)) = n
        /\ \A i \in 1 .. n : rows(0)[i] = at(0, i)
    BY <1>4, <2>1 DEF Texts
  <2>3. \A i \in 1 .. n : at(0, i) = mid[i]
    BY <1>1, <1>3
  <2> HIDE DEF rows, at
  <2>4. \A i \in 1 .. n : rows(0)[i] = mid[i]
    BY <2>2, <2>3
  <2> QED BY <1>1, <2>2, <2>4, SeqEqual
<1>6. rows(inserted) = new
  <2>1. inserted \in 0 .. inserted
    OBVIOUS
  <2>2. /\ rows(inserted) \in Seq(Row) /\ Len(rows(inserted)) = n
        /\ \A i \in 1 .. n : rows(inserted)[i] = at(inserted, i)
    BY <1>4, <2>1 DEF Texts
  <2>3. \A i \in 1 .. n : at(inserted, i) = new[i]
    BY <1>1
  <2>4. Len(new) = n
    BY DEF new, n
  <2> HIDE DEF rows, at
  <2>5. \A i \in 1 .. n : rows(inserted)[i] = new[i]
    BY <2>2, <2>3
  <2> QED BY <1>1, <2>2, <2>4, <2>5, SeqEqual
<1>7. s \in [0 .. inserted -> Replicas]
  <2>1. \A j \in 0 .. inserted : rows(j) \in Texts
    BY <1>4
  <2> HIDE DEF rows
  <2> QED BY <2>1 DEF Replicas
<1>8. ASSUME NEW j \in 1 .. inserted
      PROVE  Fits(w[j], s[j - 1]) /\ s[j] = After(w[j], s[j - 1])
  <2> DEFINE r == start + j - 1
             k == w[j]
             t == s[j - 1]
             a == rows(j - 1)
             b == rows(j)
  <2>1. /\ r \in 0 .. n - 1 /\ r + 1 = start + j /\ r + 1 \in 1 .. n
        /\ j - 1 \in 0 .. inserted /\ j \in 0 .. inserted
    BY <1>1
  <2>2. k.cmd = "UPDATE_LINE" /\ k.row = r /\ k.text = new[r + 1]
    <3>1. r \in 0 .. Len(e.lines) - 1
      BY <2>1 DEF n
    <3>2. k = UpdateLine(e, r)
      BY <1>2
    <3> HIDE DEF r, k
    <3> QED BY <3>1, <3>2, UpdateIsRow DEF new
  <2>3. /\ t = [lines |-> a, want |-> want, got |-> got]
        /\ s[j] = [lines |-> b, want |-> want, got |-> got]
    BY <2>1
  <2>4. /\ a \in Texts /\ Len(a) = n /\ \A i \in 1 .. n : a[i] = at(j - 1, i)
        /\ b \in Texts /\ Len(b) = n /\ \A i \in 1 .. n : b[i] = at(j, i)
    BY <1>4, <2>1
  <2> DEFINE c == [a EXCEPT ![r + 1] = new[r + 1]]
  <2>5. b = c
    <3>1. \A i \in 1 .. n : at(j, i) = IF i = r + 1 THEN new[r + 1] ELSE at(j - 1, i)
      BY <1>1, <2>1
    <3> HIDE DEF a, b, at
    <3>2. a \in Seq(Row) /\ b \in Seq(Row) /\ new[r + 1] \in Row
      BY <1>1, <2>1, <2>4 DEF Texts
    <3> HIDE DEF r
    <3>3. /\ c \in Seq(Row) /\ Len(c) = n
          /\ \A i \in 1 .. n : c[i] = IF i = r + 1 THEN new[r + 1] ELSE a[i]
      BY <2>1, <2>4, <3>2, ExceptSeq
    <3> HIDE DEF c
    <3>4. \A i \in 1 .. n : b[i] = c[i]
      BY <2>4, <3>1, <3>3
    <3> QED BY <2>4, <3>2, <3>3, <3>4, SeqEqual
  <2> HIDE DEF s, a, b, r, k, t
  <2>6. ~(k.row >= Len(t.lines))
    BY <1>1, <2>1, <2>2, <2>3, <2>4
  <2>7. After(k, t) = [t EXCEPT !.lines = [t.lines EXCEPT ![k.row + 1] = k.text]]
    BY <2>2, <2>6, AfterIs
  <2>8. s[j] = After(k, t)
    <3>1. t.lines = a /\ [t EXCEPT !.lines = c] = [lines |-> c, want |-> want, got |-> got]
      BY <2>3
    <3> QED BY <2>2, <2>3, <2>5, <2>7, <3>1
  <2>9. Fits(k, t)
    BY <2>2 DEF Fits
  <2> QED BY <2>8, <2>9 DEF k, t
<1>9. /\ s[0] = [lines |-> mid, want |-> want, got |-> got]
      /\ s[inserted] = [lines |-> new, want |-> want, got |-> got]
  <2>1. 0 \in 0 .. inserted /\ inserted \in 0 .. inserted
    OBVIOUS
  <2> HIDE DEF rows
  <2> QED BY <1>5, <1>6, <2>1
<1> HIDE DEF s
<1> QED
  BY <1>2, <1>7, <1>8, <1>9 DEF Chain, new, w

\* A text and what is expected of a transfer.
LEMMA ReplicaFields ==
  ASSUME NEW t \in Replicas
  PROVE  /\ t.lines \in Texts /\ t.want \in Nat /\ t.got \in Nat
         /\ t = [lines |-> t.lines, want |-> t.want, got |-> t.got]
         /\ \A u : [t EXCEPT !.lines = u] = [lines |-> u, want |-> t.want, got |-> t.got]
BY DEF Replicas

\* A text with room for the rows that replace others has the rows around them.
LEMMA RoomRows ==
  ASSUME NEW old \in Texts, NEW new \in Texts, NEW start, NEW deleted, NEW inserted,
         Replaces(old, new, start, deleted, inserted),
         NEW mid, mid = Blocked(old, start, deleted, inserted)
  PROVE  /\ mid \in Texts /\ Len(mid) = Len(new)
         /\ \A i \in 1 .. start : mid[i] = new[i]
         /\ \A i \in start + inserted + 1 .. Len(mid) : mid[i] = new[i]
<1>1. /\ start \in Nat /\ deleted \in Nat \ {0} /\ inserted \in Nat \ {0}
      /\ start + deleted <= Len(old) /\ Len(new) = Len(old) - deleted + inserted
  BY DEF Replaces
<1>2. Within(old, start, deleted)
  <2>1. Len(old) \in Nat
    BY TextFacts
  <2> QED BY <1>1, <2>1 DEF Within
<1>3. mid \in Texts /\ Makes(old, mid, start, deleted, inserted)
  <2>1. inserted \in Nat \ {0}
    BY <1>1
  <2> QED BY <1>2, <2>1, BlockedRows
<1>4. \A i \in 1 .. start : mid[i] = new[i]
  BY <1>3 DEF Makes, Replaces
<1>5. Len(mid) = Len(new)
  BY <1>1, <1>3 DEF Makes
<1>6. \A i \in start + inserted + 1 .. Len(mid) : mid[i] = new[i]
  BY <1>3, <1>5 DEF Makes, Replaces
<1> QED
  BY <1>3, <1>4, <1>5, <1>6

\* The packet that makes room for a block leaves the rows around it.
LEMMA RoomChain ==
  ASSUME NEW e \in Editors, Fitting(e), NEW t \in Replicas,
         NEW start, NEW deleted, NEW inserted,
         Replaces(t.lines, e.lines, start, deleted, inserted)
  PROVE  \E mid \in Texts :
           /\ Len(mid) = Len(e.lines)
           /\ \A i \in 1 .. start : mid[i] = e.lines[i]
           /\ \A i \in start + inserted + 1 .. Len(mid) : mid[i] = e.lines[i]
           /\ Chain(Room(start, deleted, inserted), t,
                    [lines |-> mid, want |-> t.want, got |-> t.got])
<1> DEFINE old == t.lines
           new == e.lines
           n == Len(old)
           m == Len(new)
<1>1. /\ n \in Nat \ {0} /\ m \in Nat \ {0} /\ m < LastRowNumber
      /\ old \in Texts
  BY EditorFields, TextFacts, ReplicaFields DEF Fitting, RowCount
<1>2. /\ start \in Nat /\ deleted \in Nat \ {0} /\ inserted \in Nat \ {0}
      /\ start + deleted <= n /\ m = n - deleted + inserted
      /\ \A i \in 1 .. start : new[i] = old[i]
      /\ \A i \in start + inserted + 1 .. m : new[i] = old[i - inserted + deleted]
  BY DEF Replaces
<1> HIDE DEF old, new, n, m
<1>3. CASE deleted = 1 /\ inserted = 1
  <2>1. Chain(Room(start, deleted, inserted), t, t)
    BY <1>3, ChainNone DEF Room
  <2>2. Chain(Room(start, deleted, inserted), t,
              [lines |-> old, want |-> t.want, got |-> t.got])
    BY <2>1, ReplicaFields DEF old
  <2>3. n = m /\ \A i \in 1 .. start : old[i] = new[i]
    BY <1>1, <1>2, <1>3
  <2>4. \A i \in start + inserted + 1 .. n : old[i] = new[i]
    BY <1>1, <1>2, <1>3
  <2> QED BY <1>1, <2>2, <2>3, <2>4 DEF new, n, m
<1>4. CASE ~(deleted = 1 /\ inserted = 1)
  <2> DEFINE k == [cmd |-> "REPLACE_BLOCK", row |-> RowNumber(start),
                   deleted |-> deleted, inserted |-> inserted]
             mid == Blocked(old, start, deleted, inserted)
             u == [lines |-> mid, want |-> t.want, got |-> t.got]
  <2>1. start < LastRowNumber /\ start <= n /\ deleted <= n - start
    BY <1>1, <1>2, RowNumberIs
  <2>2. /\ k.cmd = "REPLACE_BLOCK" /\ k.row = start
        /\ k.deleted = deleted /\ k.inserted = inserted
    BY <1>2, <2>1, RowNumberIs
  <2>3. Room(start, deleted, inserted) = << k >>
    BY <1>4 DEF Room
  <2> HIDE DEF k
  <2>4. Actual(old, start, deleted) = deleted
    BY <2>1 DEF Actual, n
  <2>5. /\ mid \in Texts /\ Len(mid) = m
        /\ \A i \in 1 .. start : mid[i] = new[i]
        /\ \A i \in start + inserted + 1 .. Len(mid) : mid[i] = new[i]
    <3>1. Replaces(old, new, start, deleted, inserted) /\ new \in Texts
      BY EditorFields DEF old, new
    <3>2. mid = Blocked(old, start, deleted, inserted)
      BY DEF mid
    <3> HIDE DEF mid
    <3> QED BY <1>1, <3>1, <3>2, RoomRows DEF m
  <2>6. After(k, t) = u
    <3>1. ~(k.row > Len(t.lines))
      BY <1>1, <1>2, <2>1, <2>2 DEF n, old
    <3>2. After(k, t) = [t EXCEPT !.lines = Blocked(t.lines, k.row,
                              Actual(t.lines, k.row, k.deleted), k.inserted)]
      BY <2>2, <3>1, AfterIs
    <3>3. Blocked(t.lines, k.row, Actual(t.lines, k.row, k.deleted), k.inserted) = mid
      BY <2>2, <2>4, Zenon DEF old
    <3> HIDE DEF mid
    <3> QED BY <3>2, <3>3, ReplicaFields
  <2>7. Fits(k, t)
    BY <2>2 DEF Fits
  <2> HIDE DEF mid
  <2>8. u \in Replicas
    BY <2>5, ReplicaFields DEF Replicas
  <2>9. Chain(Room(start, deleted, inserted), t, u)
    BY <2>3, <2>6, <2>7, <2>8, ChainOne
  <2> QED BY <2>5, <2>9 DEF new, m
<1> QED
  BY <1>3, <1>4

\* The packets of a block make the same change in the same text.
LEMMA BlockChain ==
  ASSUME NEW e \in Editors, Fitting(e), NEW t \in Replicas,
         NEW start, NEW deleted, NEW inserted,
         Replaces(t.lines, e.lines, start, deleted, inserted)
  PROVE  Chain(sync_block(e, start, deleted, inserted), t,
               [lines |-> e.lines, want |-> t.want, got |-> t.got])
<1> DEFINE a == Room(start, deleted, inserted)
           b == BlockRows(e, start, inserted)
           c == << MoveCursor(e.crow, e.ccol) >>
           u == [lines |-> e.lines, want |-> t.want, got |-> t.got]
<1>1. /\ start \in Nat /\ deleted \in Nat \ {0} /\ inserted \in Nat \ {0}
      /\ start + deleted <= Len(t.lines)
      /\ Len(e.lines) = Len(t.lines) - deleted + inserted
  BY DEF Replaces
<1>2. start + inserted <= Len(e.lines)
  <2>1. Len(t.lines) \in Nat
    BY ReplicaFields, TextFacts
  <2> QED BY <1>1, <2>1
<1>3. PICK mid \in Texts :
        /\ Len(mid) = Len(e.lines)
        /\ \A i \in 1 .. start : mid[i] = e.lines[i]
        /\ \A i \in start + inserted + 1 .. Len(mid) : mid[i] = e.lines[i]
        /\ Chain(a, t, [lines |-> mid, want |-> t.want, got |-> t.got])
  BY RoomChain
<1>4. Chain(b, [lines |-> mid, want |-> t.want, got |-> t.got], u)
  <2>1. t.want \in Nat /\ t.got \in Nat
    BY ReplicaFields
  <2> QED BY <1>1, <1>2, <1>3, <2>1, RowsChain
<1>5. u \in Replicas
  BY EditorFields, ReplicaFields DEF Replicas
<1>6. /\ a \in Seq(Packets) /\ b \in Seq(Packets) /\ c \in Seq(Packets)
      /\ sync_block(e, start, deleted, inserted) = (a \o b) \o c
  <2>1. start \in Int
    BY <1>1
  <2> QED BY <1>1, <2>1, BlockParts
<1> HIDE DEF a, b
<1>7. Chain(c, u, u)
  BY <1>5, ChainMove
<1> HIDE DEF c, u
<1>8. Chain(a \o b, t, u) /\ a \o b \in Seq(Packets)
  <2>1. Chain(a \o b, t, u)
    BY <1>3, <1>4, <1>6, ChainJoin
  <2> QED BY <1>6, <2>1, ConcatProperties
<1>9. Chain((a \o b) \o c, t, u)
  BY <1>6, <1>7, <1>8, ChainJoin
<1> QED
  BY <1>6, <1>9 DEF u

\* The block that Ctrl+Backspace sends at the start of the text, for row -1 and the
\* one after it, is outside the text and changes nothing.
LEMMA NoBlockChain ==
  ASSUME NEW e \in Editors, Fitting(e), NEW t \in Replicas, t.lines = e.lines
  PROVE  Chain(sync_block(e, -1, 2, 1), t, t)
<1>0. ASSUME NEW i \in Int, NEW m \in Nat \ {0}, NEW n \in Nat \ {0}
      PROVE  /\ Room(i, m, n) \in Seq(Packets) /\ BlockRows(e, i, n) \in Seq(Packets)
             /\ Len(BlockRows(e, i, n)) = n
             /\ << MoveCursor(e.crow, e.ccol) >> \in Seq(Packets)
             /\ sync_block(e, i, m, n)
                  = (Room(i, m, n) \o BlockRows(e, i, n)) \o << MoveCursor(e.crow, e.ccol) >>
  BY BlockParts
<1> DEFINE a == Room(-1, 2, 1)
           b == BlockRows(e, -1, 1)
           c == << MoveCursor(e.crow, e.ccol) >>
<1>1. /\ a \in Seq(Packets) /\ b \in Seq(Packets) /\ c \in Seq(Packets)
      /\ sync_block(e, -1, 2, 1) = (a \o b) \o c /\ Len(b) = 1
  <2>1. -1 \in Int /\ 2 \in Nat \ {0} /\ 1 \in Nat \ {0}
    OBVIOUS
  <2> HIDE DEF c
  <2> QED BY <1>0, <2>1, Zenon DEF c
<1>2. LastRowNumber \in Nat /\ Len(t.lines) \in Nat /\ Len(t.lines) < LastRowNumber
  BY RowNumberIs, ReplicaFields, TextFacts DEF Fitting, RowCount
<1>3. Chain(a, t, t)
  <2> DEFINE k == [cmd |-> "REPLACE_BLOCK", row |-> RowNumber(-1), deleted |-> 2,
                   inserted |-> 1]
  <2>1. a = << k >> /\ k.cmd = "REPLACE_BLOCK" /\ k.row = LastRowNumber
    BY RowNumberIs DEF Room
  <2> HIDE DEF k, a
  <2>2. t = After(k, t) /\ Fits(k, t)
    BY <1>2, <2>1, AfterIs DEF Fits
  <2> QED BY <2>1, <2>2, ChainOne
<1>4. Chain(b, t, t)
  <2> DEFINE k == UpdateLine(e, -1)
  <2>1. b = << k >>
    <3>1. b = [i \in 1 .. 1 |-> UpdateLine(e, -1 + i - 1)]
      BY DEF BlockRows
    <3>2. \A i \in 1 .. 1 : -1 + i - 1 = -1
      OBVIOUS
    <3>3. b = [i \in 1 .. 1 |-> k]
      BY <3>1, <3>2, Zenon
    <3> HIDE DEF k, b
    <3>4. << k >> = [i \in 1 .. 1 |-> k]
      OBVIOUS
    <3> QED BY <3>3, <3>4
  <2>2. k.cmd = "UPDATE_LINE" /\ k.row = LastRowNumber
    BY RowNumberIs DEF UpdateLine
  <2> HIDE DEF k, b
  <2>3. t = After(k, t) /\ Fits(k, t)
    BY <1>2, <2>2, AfterIs DEF Fits
  <2> QED BY <2>1, <2>3, ChainOne
<1> HIDE DEF a, b
<1>5. Chain(c, t, t)
  BY ChainMove
<1> HIDE DEF c
<1>6. Chain(a \o b, t, t) /\ a \o b \in Seq(Packets)
  <2>1. Chain(a \o b, t, t)
    BY <1>1, <1>3, <1>4, ChainJoin
  <2> QED BY <1>1, <2>1, ConcatProperties
<1> QED
  BY <1>1, <1>5, <1>6, ChainJoin

\* What a command tells makes the same change in the same text.
LEMMA TellsChain ==
  ASSUME NEW old \in Editors, NEW e \in Editors, NEW packets, Tells(old, e, packets),
         Fitting(e), packets # << >> \/ e.lines = old.lines,
         NEW t \in Replicas, t.lines = old.lines
  PROVE  Chain(packets, t, [lines |-> e.lines, want |-> t.want, got |-> t.got])
<1> DEFINE u == [lines |-> e.lines, want |-> t.want, got |-> t.got]
<1>1. u \in Replicas /\ (e.lines = old.lines => u = t)
  BY EditorFields, ReplicaFields DEF Replicas
<1>2. u.lines = e.lines /\ u = [t EXCEPT !.lines = e.lines]
  BY ReplicaFields
<1> HIDE DEF u
<1>3. CASE packets = << >>
  BY <1>1, <1>3, ChainNone DEF u
<1>4. CASE \E r, c \in Nat : e.lines = old.lines /\ packets = << MoveCursor(r, c) >>
  BY <1>1, <1>4, ChainMove DEF u
<1>5. CASE \E c \in Char \cup {Newline} :
             /\ At(old.lines, old.crow, old.ccol)
             /\ e.lines = Typed(old.lines, old.crow, old.ccol, c)
             /\ packets = << InsertChar(old, c) >>
  <2>1. PICK c \in Char \cup {Newline} :
          /\ At(old.lines, old.crow, old.ccol)
          /\ e.lines = Typed(old.lines, old.crow, old.ccol, c)
          /\ packets = << InsertChar(old, c) >>
    BY <1>5
  <2> DEFINE k == InsertChar(old, c)
  <2>2. /\ k.cmd = "INSERT_CHAR" /\ k.c = c
        /\ k.at[1] = old.crow /\ k.at[2] = old.ccol
    BY DEF InsertChar
  <2> HIDE DEF k
  <2>3. Fits(k, t) /\ u = After(k, t)
    BY <1>2, <2>1, <2>2, AfterIs DEF Fits
  <2>4. packets = << k >>
    BY <2>1 DEF k
  <2> QED BY <1>1, <2>3, <2>4, ChainOne DEF u
<1>6. CASE /\ At(old.lines, old.crow, old.ccol)
           /\ e.lines = Erased(old.lines, old.crow, old.ccol)
           /\ packets = << DeleteChar(old) >>
  <2> DEFINE k == DeleteChar(old)
  <2>1. k.cmd = "DELETE_CHAR" /\ k.at[1] = old.crow /\ k.at[2] = old.ccol
    BY DEF DeleteChar
  <2> HIDE DEF k
  <2>2. Fits(k, t) /\ u = After(k, t)
    BY <1>2, <1>6, <2>1, AfterIs DEF Fits
  <2>3. packets = << k >>
    BY <1>6 DEF k
  <2> QED BY <1>1, <2>2, <2>3, ChainOne DEF u
<1>7. CASE \E start \in Nat, deleted, inserted \in Nat \ {0} :
             /\ Replaces(old.lines, e.lines, start, deleted, inserted)
             /\ packets = sync_block(e, start, deleted, inserted)
  BY <1>7, BlockChain DEF u
<1>8. CASE e.lines = old.lines /\ packets = sync_block(e, -1, 2, 1)
  BY <1>1, <1>8, NoBlockChain DEF u
<1>9. Chain(packets, t, u)
  BY <1>3, <1>4, <1>5, <1>6, <1>7, <1>8 DEF Tells, u
<1> QED
  BY <1>9 DEF u

\* The rows received of a transfer, and the empty one behind them.
Loading(lines, j) == [i \in 1 .. j + 1 |-> IF i <= j THEN lines[i] ELSE << >>]

\* One more row of the transfer.
LEMMA LoadingGrows ==
  ASSUME NEW lines \in Texts, NEW j \in 1 .. Len(lines)
  PROVE  /\ Loading(lines, j - 1) \in Texts
         /\ Grown(Loading(lines, j - 1), lines[j]) = Loading(lines, j)
<1> DEFINE a == Loading(lines, j - 1)
           b == Loading(lines, j)
<1>1. /\ Len(lines) \in Nat /\ j \in Nat \ {0} /\ lines[j] \in Row /\ << >> \in Row
      /\ \A i \in 1 .. j : lines[i] \in Row
  BY TextFacts, EmptySeq DEF Row
<1>2. /\ a \in Texts /\ Len(a) = j
      /\ \A i \in 1 .. j : a[i] = IF i <= j - 1 THEN lines[i] ELSE << >>
  <2>1. j - 1 + 1 = j
    BY <1>1
  <2>2. a = [i \in 1 .. j |-> IF i <= j - 1 THEN lines[i] ELSE << >>]
    BY <2>1, Zenon DEF Loading
  <2>3. \A i \in 1 .. j : (IF i <= j - 1 THEN lines[i] ELSE << >>) \in Row
    BY <1>1
  <2> HIDE DEF a
  <2>4. a \in [1 .. j -> Row]
    BY <2>2, <2>3
  <2> QED BY <1>1, <2>2, <2>4, TextOf
<1>3. /\ b \in Texts /\ Len(b) = j + 1
      /\ \A i \in 1 .. j + 1 : b[i] = IF i <= j THEN lines[i] ELSE << >>
  <2>1. \A i \in 1 .. j + 1 : (IF i <= j THEN lines[i] ELSE << >>) \in Row
    BY <1>1
  <2>2. b \in [1 .. j + 1 -> Row] /\ j + 1 \in Nat \ {0}
    BY <1>1, <2>1 DEF Loading
  <2>3. \A i \in 1 .. j + 1 : b[i] = IF i <= j THEN lines[i] ELSE << >>
    BY DEF Loading
  <2> HIDE DEF b
  <2> QED BY <2>2, <2>3, TextOf
<1> HIDE DEF a, b
<1> DEFINE c == Grown(a, lines[j])
<1>4. /\ c \in Texts /\ Len(c) = Len(a) + 1
      /\ \A i \in 1 .. Len(a) + 1 :
           c[i] = IF i < Len(a) THEN a[i] ELSE IF i = Len(a) THEN lines[j] ELSE << >>
  BY <1>1, <1>2, GrownText
<1> HIDE DEF c
<1>5. ASSUME NEW i \in 1 .. j + 1
      PROVE  c[i] = b[i]
  <2>1. CASE i < j
    <3>1. i \in 1 .. j /\ i <= j - 1 /\ i <= j
      BY <1>1, <2>1
    <3>2. c[i] = a[i] /\ a[i] = lines[i] /\ b[i] = lines[i]
      BY <1>2, <1>3, <1>4, <2>1, <3>1
    <3> QED BY <3>2
  <2>2. CASE i = j
    <3>1. ~(i < j) /\ i <= j
      BY <1>1, <2>2
    <3>2. c[i] = lines[j] /\ b[i] = lines[i]
      BY <1>2, <1>3, <1>4, <2>2, <3>1
    <3> QED BY <2>2, <3>2
  <2>3. CASE ~(i < j) /\ i # j
    <3>1. ~(i <= j)
      BY <1>1, <2>3
    <3>2. c[i] = << >> /\ b[i] = << >>
      BY <1>2, <1>3, <1>4, <2>3, <3>1
    <3> QED BY <3>2
  <2> QED BY <2>1, <2>2, <2>3
<1>6. c = b
  <2>1. c \in Seq(Row) /\ b \in Seq(Row) /\ Len(c) = j + 1 /\ Len(b) = j + 1
    BY <1>2, <1>3, <1>4 DEF Texts
  <2> QED BY <1>5, <2>1, SeqEqual
<1> QED
  BY <1>2, <1>6 DEF a, b, c

\* The empty row goes with the last line.
LEMMA LoadingEnds ==
  ASSUME NEW lines \in Texts
  PROVE  Trimmed(Loading(lines, Len(lines))) = lines
<1> DEFINE n == Len(lines)
           b == Loading(lines, n)
<1>1. n \in Nat \ {0} /\ lines \in Seq(Row) /\ \A i \in 1 .. n : lines[i] \in Row
  BY TextFacts DEF Texts
<1>2. << >> \in Row
  BY EmptySeq DEF Row
<1> HIDE DEF n
<1>3. /\ b \in Texts /\ Len(b) = n + 1
      /\ \A i \in 1 .. n + 1 : b[i] = IF i <= n THEN lines[i] ELSE << >>
  <2>1. \A i \in 1 .. n + 1 : (IF i <= n THEN lines[i] ELSE << >>) \in Row
    BY <1>1, <1>2
  <2>2. b \in [1 .. n + 1 -> Row] /\ n + 1 \in Nat \ {0}
    BY <1>1, <2>1 DEF Loading
  <2>3. \A i \in 1 .. n + 1 : b[i] = IF i <= n THEN lines[i] ELSE << >>
    BY DEF Loading
  <2> HIDE DEF b
  <2> QED BY <2>2, <2>3, TextOf
<1> HIDE DEF b
<1>4. Len(b) > 1 /\ Len(b[Len(b)]) = 0 /\ Len(b) - 1 = n
  <2>1. b[n + 1] = << >>
    BY <1>1, <1>3
  <2> QED BY <1>1, <1>3, <2>1
<1>5. Trimmed(b) = SubSeq(b, 1, n)
  BY <1>4 DEF Trimmed
<1>6. /\ SubSeq(b, 1, n) \in Seq(Row) /\ Len(SubSeq(b, 1, n)) = n
      /\ \A i \in 1 .. n : SubSeq(b, 1, n)[i] = lines[i]
  <2>1. \A i \in 1 .. n : b[i] \in Row /\ b[i] = lines[i]
    BY <1>1, <1>3
  <2>2. 1 \in Int /\ n \in Int /\ 1 <= n /\ n - 1 + 1 = n
    BY <1>1
  <2>3. b \in Seq(Row)
    BY <1>3 DEF Texts
  <2>4. \A i \in 1 .. n : b[i] \in Row
    BY <2>1
  <2>5. /\ SubSeq(b, 1, n) \in Seq(Row) /\ Len(SubSeq(b, 1, n)) = n
        /\ \A i \in 1 .. n : SubSeq(b, 1, n)[i] = b[i]
    BY <2>2, <2>4, SubSeqProperties
  <2> QED BY <2>1, <2>5
<1>7. SubSeq(b, 1, n) = lines
  BY <1>1, <1>6, SeqEqual DEF n
<1> QED
  BY <1>5, <1>7 DEF b, n

\* The lines of a transfer, received by a peer that was told how many they are.
LEMMA LinesChain ==
  ASSUME NEW e \in Editors, Fitting(e)
  PROVE  Chain(FileLines(e), [lines |-> Blankt, want |-> Len(e.lines), got |-> 0],
               [lines |-> e.lines, want |-> 0, got |-> Len(e.lines)])
<1> DEFINE n == Len(e.lines)
           new == e.lines
           w == FileLines(e)
           part(j) == [lines |-> Loading(new, j), want |-> n, got |-> j]
           whole == [lines |-> new, want |-> 0, got |-> n]
           s == [j \in 0 .. n |-> IF j = n THEN whole ELSE part(j)]
<1>1. /\ n \in Nat \ {0} /\ new \in Texts /\ Len(new) = n
      /\ \A i \in 1 .. n : new[i] \in Row
  BY EditorFields, TextFacts
<1>2. ASSUME NEW j \in 1 .. n
      PROVE  w[j].cmd = "FILE_LINE" /\ w[j].text = new[j]
  <2>1. Len(new[j]) \in Nat /\ Len(new[j]) <= UPDATE_MAX /\ new[j] \in Row
    BY EditorFields, TextFacts DEF Fitting, RowCount
  <2>2. FILE_MAX \in Nat /\ Len(new[j]) <= FILE_MAX
    BY <2>1 DEF UPDATE_MAX, FILE_MAX
  <2>3. Cut(new[j], FILE_MAX) = new[j]
    BY <2>1, <2>2, CutRow
  <2>4. w[j] = [cmd |-> "FILE_LINE", text |-> Cut(e.lines[j], FILE_MAX)]
    BY DEF FileLines, RowCount
  <2> QED BY <2>3, <2>4
<1>3. Len(w) = n
  BY ShareParts
<1> HIDE DEF n, new, w
<1>4. \A j \in 0 .. n - 1 : Loading(new, j) \in Texts
  <2>1. ASSUME NEW j \in 0 .. n - 1
        PROVE  Loading(new, j) \in Texts
    <3>1. j + 1 \in 1 .. Len(new) /\ (j + 1) - 1 = j
      BY <1>1
    <3>2. Loading(new, (j + 1) - 1) \in Texts
      BY <1>1, <3>1, LoadingGrows
    <3> QED BY <3>1, <3>2
  <2> QED BY <2>1
<1>5. whole \in Replicas /\ \A j \in 0 .. n - 1 : part(j) \in Replicas
  BY <1>1, <1>4 DEF Replicas
<1> HIDE DEF whole, part
<1>6. s \in [0 .. n -> Replicas]
  <2>1. \A j \in 0 .. n : j # n => j \in 0 .. n - 1
    BY <1>1
  <2> QED BY <1>5, <2>1
<1>7. s[n] = whole /\ \A j \in 0 .. n - 1 : s[j] = part(j)
  <2>1. n \in 0 .. n /\ \A j \in 0 .. n - 1 : j \in 0 .. n /\ j # n
    BY <1>1
  <2> QED BY <2>1
<1> HIDE DEF s
<1>8. ASSUME NEW j \in 1 .. n
      PROVE  Fits(w[j], s[j - 1]) /\ s[j] = After(w[j], s[j - 1])
  <2> DEFINE t == s[j - 1]
             k == w[j]
  <2>1. j - 1 \in 0 .. n - 1 /\ (j - 1) + 1 = j /\ n > 0 /\ n # 0
    BY <1>1
  <2>2. t.lines = Loading(new, j - 1) /\ t.want = n /\ t.got = j - 1
    <3>1. t = part(j - 1)
      BY <1>7, <2>1
    <3> HIDE DEF t
    <3> QED BY <3>1 DEF part
  <2>3. k.cmd = "FILE_LINE" /\ k.text = new[j]
    BY <1>2
  <2> HIDE DEF t, k
  <2>4. Grown(t.lines, k.text) = Loading(new, j)
    BY <1>1, <2>2, <2>3, LoadingGrows
  <2>5. After(k, t) = Received(t, k.text)
    BY <2>3, AfterIs
  <2>6. s[j] = Received(t, k.text)
    <3>1. CASE j = n
      <4>1. t.want # 0 /\ t.got + 1 >= t.want /\ t.got + 1 = n
        BY <1>1, <2>1, <2>2, <3>1
      <4>2. Received(t, k.text)
              = [lines |-> Trimmed(Grown(t.lines, k.text)), want |-> 0, got |-> n]
        BY <4>1 DEF Received
      <4>3. Trimmed(Loading(new, n)) = new
        BY <1>1, LoadingEnds
      <4> QED BY <1>7, <2>4, <3>1, <4>2, <4>3 DEF whole
    <3>2. CASE j # n
      <4>1. t.want # 0 /\ ~(t.got + 1 >= t.want) /\ t.got + 1 = j /\ j \in 0 .. n - 1
        BY <1>1, <2>1, <2>2, <3>2
      <4>2. Received(t, k.text)
              = [lines |-> Grown(t.lines, k.text), want |-> n, got |-> j]
        BY <2>2, <4>1 DEF Received
      <4> QED BY <1>7, <2>4, <4>1, <4>2 DEF part
    <3> QED BY <3>1, <3>2
  <2>7. Fits(k, t)
    BY <2>3 DEF Fits
  <2> QED BY <2>5, <2>6, <2>7 DEF t, k
<1>9. s[0] = [lines |-> Blankt, want |-> n, got |-> 0]
  <2>1. Loading(new, 0) = Blankt
    <3>1. Loading(new, 0) = [i \in 1 .. 1 |-> << >>]
      <4>1. \A i \in 1 .. 0 + 1 : ~(i <= 0)
        OBVIOUS
      <4>2. 0 + 1 = 1
        OBVIOUS
      <4> QED BY <4>1, <4>2, Zenon DEF Loading
    <3>2. Blankt = [i \in 1 .. 1 |-> << >>]
      BY DEF Blankt
    <3> QED BY <3>1, <3>2
  <2>2. s[0] = part(0)
    BY <1>1, <1>7
  <2> QED BY <2>1, <2>2 DEF part
<1> QED
  BY <1>3, <1>6, <1>7, <1>8, <1>9 DEF Chain, n, new, w, whole

\* A transfer makes any text the shared one.
LEMMA ShareChain ==
  ASSUME NEW e \in Editors, Fitting(e), NEW t \in Replicas
  PROVE  Chain(Share(e), t, [lines |-> e.lines, want |-> 0, got |-> Len(e.lines)])
<1> DEFINE a == FileStart(e)
           b == FileLines(e)
           c == << MoveCursor(e.crow, e.ccol) >>
           n == Len(e.lines)
           m == [lines |-> Blankt, want |-> n, got |-> 0]
           u == [lines |-> e.lines, want |-> 0, got |-> n]
<1>1. n \in Nat \ {0} /\ e.lines \in Texts
  BY EditorFields, TextFacts
<1>2. /\ a \in Seq(Packets) /\ b \in Seq(Packets) /\ c \in Seq(Packets)
      /\ Share(e) = (a \o b) \o c
  BY ShareParts
<1>3. m \in Replicas /\ u \in Replicas
  <2>1. Blankt \in Texts
    <3>1. << >> \in Row
      BY EmptySeq DEF Row
    <3> QED BY <3>1 DEF Blankt, Texts
  <2> QED BY <1>1, <2>1 DEF Replicas
<1>4. Chain(a, t, m)
  <2> DEFINE k == [cmd |-> "FILE_START", lines |-> RowCount(e)]
  <2>1. k.cmd = "FILE_START" /\ k.lines = n /\ a = << k >>
    BY DEF RowCount, FileStart
  <2> HIDE DEF k, a
  <2>2. Fits(k, t) /\ m = After(k, t)
    BY <2>1, AfterIs DEF Fits
  <2> HIDE DEF m
  <2> QED BY <1>3, <2>1, <2>2, ChainOne
<1>5. Chain(b, m, u)
  BY LinesChain
<1> HIDE DEF a, b, m, u
<1>6. Chain(c, u, u)
  BY <1>3, ChainMove
<1> HIDE DEF c
<1>7. Chain(a \o b, t, u) /\ a \o b \in Seq(Packets)
  <2>1. Chain(a \o b, t, u)
    BY <1>2, <1>4, <1>5, ChainJoin
  <2> QED BY <1>2, <2>1, ConcatProperties
<1>8. Chain((a \o b) \o c, t, u)
  BY <1>2, <1>6, <1>7, ChainJoin
<1> QED
  BY <1>2, <1>8 DEF u, n

-----------------------------------------------------------------------------
(* The two texts become equal                                              *)

\* A transfer is still to come, before anything else.
Starts(w) == w # << >> /\ w[1].cmd = "FILE_START"

\* No transfer starts behind another packet.
StartsFirst(w) == \A i \in 2 .. Len(w) : w[i].cmd # "FILE_START"

\* Nothing to take v changes the text a of the leader, and the packets w take the
\* text of the follower to a: from any text if a transfer is still to come, else
\* unless an edit was applied elsewhere than it was made.
Follows(v, w, wrong, t, a) ==
  /\ NoEdits(v)
  /\ Starts(w) \/ ~wrong => \E u \in Replicas : u.lines = a /\ Chain(w, t, u)

\* Two lists of packets, neither of which starts a transfer.
LEMMA JoinAll ==
  ASSUME NEW v \in Seq(Packets), NEW w \in Seq(Packets),
         \A i \in 1 .. Len(v) : v[i].cmd # "FILE_START",
         \A i \in 1 .. Len(w) : w[i].cmd # "FILE_START"
  PROVE  /\ v \o w \in Seq(Packets)
         /\ \A i \in 1 .. Len(v \o w) : (v \o w)[i].cmd # "FILE_START"
<1> DEFINE x == v \o w
<1>1. /\ x \in Seq(Packets) /\ Len(x) = Len(v) + Len(w)
      /\ Len(v) \in Nat /\ Len(w) \in Nat
      /\ \A i \in 1 .. Len(v) + Len(w) : x[i] = IF i <= Len(v) THEN v[i] ELSE w[i - Len(v)]
  BY ConcatProperties, LenProperties
<1> HIDE DEF x
<1>2. ASSUME NEW i \in 1 .. Len(x)
      PROVE  x[i].cmd # "FILE_START"
  <2>1. CASE i <= Len(v)
    <3>1. i \in 1 .. Len(v) /\ x[i] = v[i]
      BY <1>1, <2>1
    <3> QED BY <3>1
  <2>2. CASE ~(i <= Len(v))
    <3>1. i - Len(v) \in 1 .. Len(w) /\ x[i] = w[i - Len(v)]
      BY <1>1, <2>2
    <3> QED BY <3>1
  <2> QED BY <2>1, <2>2
<1> QED
  BY <1>1, <1>2 DEF x

\* A command starts no transfer.
LEMMA TellsNoStart ==
  ASSUME NEW old \in Editors, NEW e \in Editors, NEW packets, Tells(old, e, packets)
  PROVE  \A i \in 1 .. Len(packets) : packets[i].cmd # "FILE_START"
<1>1. ASSUME NEW k, k.cmd # "FILE_START"
      PROVE  \A i \in 1 .. Len(<< k >>) : << k >>[i].cmd # "FILE_START"
  <2>1. Len(<< k >>) = 1 /\ << k >>[1] = k
    OBVIOUS
  <2> QED BY <1>1, <2>1
<1>2. ASSUME NEW start \in Int, NEW deleted \in Nat \ {0}, NEW inserted \in Nat \ {0},
             packets = sync_block(e, start, deleted, inserted)
      PROVE  \A i \in 1 .. Len(packets) : packets[i].cmd # "FILE_START"
  <2> DEFINE a == Room(start, deleted, inserted)
             b == BlockRows(e, start, inserted)
             c == << MoveCursor(e.crow, e.ccol) >>
  <2>1. /\ a \in Seq(Packets) /\ b \in Seq(Packets) /\ c \in Seq(Packets)
        /\ Len(b) = inserted /\ packets = (a \o b) \o c
    BY <1>2, BlockParts
  <2>2. \A i \in 1 .. Len(a) : a[i].cmd # "FILE_START"
    BY <1>1 DEF Room
  <2>3. \A i \in 1 .. Len(b) : b[i].cmd # "FILE_START"
    BY <2>1 DEF BlockRows, UpdateLine
  <2>4. \A i \in 1 .. Len(c) : c[i].cmd # "FILE_START"
    BY <1>1 DEF MoveCursor
  <2> HIDE DEF a, b, c
  <2>5. /\ a \o b \in Seq(Packets)
        /\ \A i \in 1 .. Len(a \o b) : (a \o b)[i].cmd # "FILE_START"
    BY <2>1, <2>2, <2>3, JoinAll
  <2> QED BY <2>1, <2>4, <2>5, JoinAll
<1>3. CASE packets = << >>
  BY <1>3
<1>4. CASE \E r, c \in Nat : packets = << MoveCursor(r, c) >>
  BY <1>1, <1>4 DEF MoveCursor
<1>5. CASE \E c \in Char \cup {Newline} : packets = << InsertChar(old, c) >>
  BY <1>1, <1>5 DEF InsertChar
<1>6. CASE packets = << DeleteChar(old) >>
  BY <1>1, <1>6 DEF DeleteChar
<1>7. CASE \E start \in Nat, deleted, inserted \in Nat \ {0} :
             packets = sync_block(e, start, deleted, inserted)
  BY <1>2, <1>7
<1>8. CASE packets = sync_block(e, -1, 2, 1)
  BY <1>2, <1>8, -1 \in Int, 2 \in Nat \ {0}, 1 \in Nat \ {0}
<1> QED
  BY <1>3, <1>4, <1>5, <1>6, <1>7, <1>8 DEF Tells

\* Packets that edit nothing leave any text as it is.
LEMMA MovesChain ==
  ASSUME NEW w \in Seq(Packets), NoEdits(w), NEW t \in Replicas
  PROVE  Chain(w, t, t)
<1> DEFINE n == Len(w)
           s == [i \in 0 .. n |-> t]
<1>1. n \in Nat /\ \A i \in 1 .. n : w[i].cmd = "MOVE_CURSOR"
  BY LenProperties DEF NoEdits
<1> HIDE DEF n
<1>2. s \in [0 .. n -> Replicas] /\ s[0] = t /\ s[n] = t
  BY <1>1
<1>3. ASSUME NEW i \in 1 .. n
      PROVE  Fits(w[i], s[i - 1]) /\ s[i] = After(w[i], s[i - 1])
  <2>1. i - 1 \in 0 .. n /\ i \in 0 .. n
    BY <1>1
  <2>2. s[i - 1] = t /\ s[i] = t
    BY <2>1
  <2> HIDE DEF s
  <2> QED BY <1>1, <2>2, AfterIs DEF Fits
<1> HIDE DEF s
<1> QED
  BY <1>2, <1>3 DEF Chain, n

\* Packets that edit nothing, behind others that do not either.
LEMMA MovesJoin ==
  ASSUME NEW v \in Seq(Packets), NEW w \in Seq(Packets), NoEdits(v), NoEdits(w)
  PROVE  NoEdits(v \o w)
<1> DEFINE x == v \o w
<1>1. /\ x \in Seq(Packets) /\ Len(x) = Len(v) + Len(w)
      /\ Len(v) \in Nat /\ Len(w) \in Nat
      /\ \A i \in 1 .. Len(v) + Len(w) : x[i] = IF i <= Len(v) THEN v[i] ELSE w[i - Len(v)]
      /\ DOMAIN v = 1 .. Len(v) /\ DOMAIN w = 1 .. Len(w) /\ DOMAIN x = 1 .. Len(x)
  BY ConcatProperties, LenProperties
<1> HIDE DEF x
<1>2. ASSUME NEW i \in 1 .. Len(x)
      PROVE  x[i].cmd = "MOVE_CURSOR"
  <2>1. CASE i <= Len(v)
    <3>1. i \in 1 .. Len(v) /\ x[i] = v[i]
      BY <1>1, <2>1
    <3> QED BY <1>1, <3>1 DEF NoEdits
  <2>2. CASE ~(i <= Len(v))
    <3>1. i - Len(v) \in 1 .. Len(w) /\ x[i] = w[i - Len(v)]
      BY <1>1, <2>2
    <3> QED BY <1>1, <3>1 DEF NoEdits
  <2> QED BY <2>1, <2>2
<1>3. NoEdits(x)
  BY <1>1, <1>2 DEF NoEdits
<1> QED
  BY <1>3 DEF x

\* A transfer starts, or not, as before when others follow; none starts behind.
LEMMA StartsJoin ==
  ASSUME NEW v \in Seq(Packets), NEW w \in Seq(Packets),
         \A i \in 1 .. Len(w) : w[i].cmd # "FILE_START"
  PROVE  /\ Starts(v \o w) => Starts(v)
         /\ StartsFirst(v) => StartsFirst(v \o w)
<1> DEFINE x == v \o w
<1>1. /\ x \in Seq(Packets) /\ Len(x) = Len(v) + Len(w)
      /\ Len(v) \in Nat /\ Len(w) \in Nat
      /\ \A i \in 1 .. Len(v) + Len(w) : x[i] = IF i <= Len(v) THEN v[i] ELSE w[i - Len(v)]
  BY ConcatProperties, LenProperties
<1>2. x # << >> => Len(x) # 0
  BY <1>1, EmptySeq
<1>3. Len(v) # 0 => v # << >>
  OBVIOUS
<1> HIDE DEF x
<1>4. ASSUME NEW i \in 1 .. Len(x), ~(i <= Len(v))
      PROVE  x[i].cmd # "FILE_START"
  <2>1. i - Len(v) \in 1 .. Len(w) /\ x[i] = w[i - Len(v)]
    BY <1>1, <1>4
  <2> QED BY <2>1
<1>5. ASSUME Starts(x)
      PROVE  Starts(v)
  <2>1. 1 \in 1 .. Len(x) /\ x[1].cmd = "FILE_START"
    BY <1>1, <1>2, <1>5 DEF Starts
  <2>2. 1 <= Len(v)
    BY <1>4, <2>1
  <2>3. x[1] = v[1] /\ Len(v) # 0
    BY <1>1, <2>1, <2>2
  <2> QED BY <1>3, <2>1, <2>3 DEF Starts
<1>6. ASSUME StartsFirst(v), NEW i \in 2 .. Len(x)
      PROVE  x[i].cmd # "FILE_START"
  <2>1. CASE i <= Len(v)
    <3>1. i \in 2 .. Len(v) /\ x[i] = v[i]
      BY <1>1, <2>1
    <3> QED BY <1>6, <3>1 DEF StartsFirst
  <2>2. CASE ~(i <= Len(v))
    <3>1. i \in 1 .. Len(x)
      BY <1>1
    <3> QED BY <1>4, <2>2, <3>1
  <2> QED BY <2>1, <2>2
<1> QED
  BY <1>5, <1>6 DEF StartsFirst, x

\* The lines of a transfer and the position behind them start no other.
LEMMA ShareStartsFirst ==
  ASSUME NEW e \in Editors
  PROVE  StartsFirst(Share(e))
<1> DEFINE a == FileStart(e)
           b == FileLines(e)
           c == << MoveCursor(e.crow, e.ccol) >>
<1>1. /\ a \in Seq(Packets) /\ b \in Seq(Packets) /\ c \in Seq(Packets)
      /\ Share(e) = (a \o b) \o c /\ Len(b) = Len(e.lines)
  BY ShareParts
<1>2. StartsFirst(a)
  <2>1. Len(a) = 1 /\ 2 .. 1 = {}
    BY DEF FileStart
  <2> QED BY <2>1 DEF StartsFirst
<1>3. \A i \in 1 .. Len(b) : b[i].cmd # "FILE_START"
  BY <1>1 DEF FileLines, RowCount
<1>4. \A i \in 1 .. Len(c) : c[i].cmd # "FILE_START"
  <2>1. Len(c) = 1 /\ c[1].cmd = "MOVE_CURSOR"
    BY DEF MoveCursor
  <2> HIDE DEF c
  <2>2. \A i \in 1 .. Len(c) : i = 1
    BY <2>1
  <2> QED BY <2>1, <2>2
<1> HIDE DEF a, b, c
<1>5. StartsFirst(a \o b) /\ a \o b \in Seq(Packets)
  <2>1. StartsFirst(a \o b)
    BY <1>1, <1>2, <1>3, StartsJoin
  <2> QED BY <1>1, <2>1, ConcatProperties
<1> QED
  BY <1>1, <1>4, <1>5, StartsJoin

\* A transfer that starts is the first packet, and the next one starts none.
LEMMA StartsTail ==
  ASSUME NEW w \in Seq(Packets), w # << >>, StartsFirst(w)
  PROVE  /\ Starts(w) <=> Head(w).cmd = "FILE_START"
         /\ ~Starts(Tail(w)) /\ StartsFirst(Tail(w))
<1> DEFINE n == Len(w)
           x == Tail(w)
<1>1. /\ n \in Nat \ {0} /\ Head(w) = w[1] /\ Len(x) = n - 1 /\ x \in Seq(Packets)
      /\ \A i \in 1 .. n - 1 : x[i] = w[i + 1]
  <2>1. n \in Nat \ {0}
    BY EmptySeq, LenProperties
  <2> QED BY <2>1, HeadTailProperties
<1>2. x # << >> => Len(x) # 0
  BY <1>1, EmptySeq
<1>3. \A i \in 2 .. n : w[i].cmd # "FILE_START"
  BY DEF StartsFirst
<1> HIDE DEF n, x
<1>4. ASSUME NEW i \in 1 .. n - 1
      PROVE  x[i].cmd # "FILE_START"
  <2>1. i + 1 \in 2 .. n /\ x[i] = w[i + 1]
    BY <1>1
  <2> QED BY <1>3, <2>1
<1>5. ~Starts(x)
  <2>1. x # << >> => 1 \in 1 .. n - 1
    BY <1>1, <1>2
  <2> QED BY <1>4, <2>1 DEF Starts
<1>6. StartsFirst(x)
  <2>1. \A i \in 2 .. Len(x) : i \in 1 .. n - 1
    BY <1>1
  <2> QED BY <1>4, <2>1 DEF StartsFirst
<1> QED
  BY <1>1, <1>5, <1>6 DEF Starts, x

\* The leader gives a command: what it tells is behind what is under way.
LEMMA LeaderTells ==
  ASSUME NEW v \in Seq(Packets), NEW w \in Seq(Packets), NEW wrong \in BOOLEAN,
         NEW t \in Replicas, NEW old \in Editors, NEW e \in Editors,
         NEW packets \in Seq(Packets), Tells(old, e, packets), Fitting(e),
         packets # << >> \/ e.lines = old.lines,
         Follows(v, w, wrong, t, old.lines)
  PROVE  Follows(v, w \o packets, wrong, t, e.lines)
<1>1. NoEdits(v)
  BY DEF Follows
<1>2. ASSUME Starts(w \o packets) \/ ~wrong
      PROVE  \E u \in Replicas : u.lines = e.lines /\ Chain(w \o packets, t, u)
  <2>1. Starts(w) \/ ~wrong
    BY <1>2, StartsJoin, TellsNoStart
  <2>2. PICK m \in Replicas : m.lines = old.lines /\ Chain(w, t, m)
    BY <2>1 DEF Follows
  <2> DEFINE u == [lines |-> e.lines, want |-> m.want, got |-> m.got]
  <2>3. u \in Replicas /\ u.lines = e.lines
    BY EditorFields, ReplicaFields DEF Replicas
  <2>4. Chain(packets, m, u)
    BY <2>2, TellsChain
  <2> HIDE DEF u
  <2>5. Chain(w \o packets, t, u)
    BY <2>2, <2>4, ChainJoin
  <2> QED BY <2>3, <2>5
<1> QED
  BY <1>1, <1>2 DEF Follows

\* The follower moves its cursor.
LEMMA FollowerMoves ==
  ASSUME NEW v \in Seq(Packets), NEW w, NEW wrong, NEW t, NEW a,
         NEW packets \in Seq(Packets), NoEdits(packets), Follows(v, w, wrong, t, a)
  PROVE  Follows(v \o packets, w, wrong, t, a)
BY MovesJoin DEF Follows

\* The follower edits the text when no edit of the leader is under way: it leads
\* from now on.
LEMMA FollowerTells ==
  ASSUME NEW v \in Seq(Packets), NEW w \in Seq(Packets), NEW wrong \in BOOLEAN,
         NEW t \in Replicas, NEW s \in Replicas, NEW old \in Editors, NEW e \in Editors,
         NEW packets \in Seq(Packets), Tells(old, e, packets), Fitting(e),
         packets # << >> \/ e.lines = old.lines,
         t.lines = old.lines, NoEdits(w), Follows(v, w, wrong, t, s.lines)
  PROVE  Follows(w, v \o packets, wrong, s, e.lines)
<1>1. ASSUME Starts(v \o packets) \/ ~wrong
      PROVE  \E u \in Replicas : u.lines = e.lines /\ Chain(v \o packets, s, u)
  <2>1. NoEdits(v)
    BY DEF Follows
  <2>2. ~Starts(v)
    <3>1. \A i \in 1 .. Len(v) : v[i].cmd = "MOVE_CURSOR"
      BY <2>1, LenProperties DEF NoEdits
    <3>2. v # << >> => 1 \in 1 .. Len(v)
      BY EmptySeq, LenProperties
    <3> QED BY <3>1, <3>2 DEF Starts
  <2>3. ~wrong
    BY <1>1, <2>2, StartsJoin, TellsNoStart
  <2>4. PICK m \in Replicas : m.lines = s.lines /\ Chain(w, t, m)
    BY <2>3 DEF Follows
  <2>5. s.lines = old.lines
    BY <2>4, ChainMoves
  <2> DEFINE u == [lines |-> e.lines, want |-> s.want, got |-> s.got]
  <2>6. u \in Replicas /\ u.lines = e.lines
    BY EditorFields, ReplicaFields DEF Replicas
  <2>7. Chain(v, s, s) /\ Chain(packets, s, u)
    BY <2>1, <2>5, MovesChain, TellsChain
  <2> HIDE DEF u
  <2>8. Chain(v \o packets, s, u)
    BY <2>7, ChainJoin
  <2> QED BY <2>6, <2>8
<1> QED
  BY <1>1 DEF Follows

\* A transfer makes its sender the leader.
LEMMA SyncFollows ==
  ASSUME NEW v, NoEdits(v), NEW wrong, NEW t \in Replicas, NEW e \in Editors, Fitting(e)
  PROVE  Follows(v, Share(e), wrong, t, e.lines)
<1> DEFINE u == [lines |-> e.lines, want |-> 0, got |-> Len(e.lines)]
<1>1. u \in Replicas /\ u.lines = e.lines
  BY EditorFields, TextFacts DEF Replicas
<1>2. Chain(Share(e), t, u)
  BY ShareChain
<1> HIDE DEF u
<1> QED
  BY <1>1, <1>2 DEF Follows

\* The follower takes a packet.
LEMMA FollowerTakes ==
  ASSUME NEW v, NEW w \in Seq(Packets), w # << >>, StartsFirst(w),
         NEW wrong \in BOOLEAN, NEW after \in BOOLEAN, NEW t, NEW s, NEW a,
         Follows(v, w, wrong, t, a),
         Head(w).cmd # "FILE_START" /\ wrong => after,
         (Head(w).cmd = "FILE_START" \/ ~after) /\ Fits(Head(w), t)
           => s = After(Head(w), t)
  PROVE  Follows(v, Tail(w), after, s, a)
<1>1. NoEdits(v) /\ ~Starts(Tail(w))
  BY StartsTail DEF Follows
<1>2. ASSUME ~after
      PROVE  \E u \in Replicas : u.lines = a /\ Chain(Tail(w), s, u)
  <2>1. Starts(w) \/ ~wrong
    BY <1>2, StartsTail
  <2>2. PICK u \in Replicas : u.lines = a /\ Chain(w, t, u)
    BY <2>1 DEF Follows
  <2>3. Fits(Head(w), t) /\ Chain(Tail(w), After(Head(w), t), u)
    BY <2>2, ChainTail
  <2> QED BY <1>2, <2>2, <2>3
<1> QED
  BY <1>1, <1>2 DEF Follows

\* The leader takes a packet: it is the position of the follower's cursor.
LEMMA LeaderTakes ==
  ASSUME NEW v \in Seq(Packets), v # << >>, NEW w, NEW wrong, NEW t, NEW a,
         Follows(v, w, wrong, t, a)
  PROVE  Head(v).cmd = "MOVE_CURSOR" /\ Follows(Tail(v), w, wrong, t, a)
<1> DEFINE n == Len(v)
           x == Tail(v)
<1>1. /\ n \in Nat \ {0} /\ Head(v) = v[1] /\ Len(x) = n - 1 /\ x \in Seq(Packets)
      /\ \A i \in 1 .. n - 1 : x[i] = v[i + 1]
  <2>1. n \in Nat \ {0}
    BY EmptySeq, LenProperties
  <2> QED BY <2>1, HeadTailProperties
<1>2. \A i \in 1 .. n : v[i].cmd = "MOVE_CURSOR"
  BY LenProperties DEF Follows, NoEdits
<1>3. DOMAIN x = 1 .. n - 1
  BY <1>1, LenProperties
<1> HIDE DEF n, x
<1>4. 1 \in 1 .. n /\ \A i \in 1 .. n - 1 : i + 1 \in 1 .. n
  BY <1>1
<1>5. NoEdits(x)
  BY <1>1, <1>2, <1>3, <1>4 DEF NoEdits
<1> QED
  BY <1>1, <1>2, <1>4, <1>5 DEF Follows, x

\* p's text is the one that the packets under way make of the other peer's.
Leads(p) ==
  Follows(wire[p], wire[Other(p)], misplaced, Replica(Other(p)), ed[p].lines)

\* Nothing is under way before a session.
Idle == (\A p \in Peers : ~remote[p]) => \A p \in Peers : wire[p] = << >>

\* Sync waits until the peer has taken everything, so no transfer is behind
\* another packet.
OneStart == \A p \in Peers : StartsFirst(wire[p])

\* In a session in which every change was told, and none was made before an earlier
\* one of the peer came, one of the peers leads: the other's text becomes the
\* leader's with the packets under way.
OneLeads ==
  ~unsent /\ ~crossed /\ (\E p \in Peers : remote[p]) => \E p \in Peers : Leads(p)

Agreement == Idle /\ OneStart /\ OneLeads

\* Every text fits the packets that carry it.
Short == \A p \in Peers : Fitting(ed[p])

\* The replicas and wires of a well-formed state.
LEMMA PeerFields ==
  ASSUME TypeOK, NEW p \in Peers
  PROVE  /\ ed[p] \in Editors /\ wire[p] \in Seq(Packets)
         /\ Replica(p) \in Replicas /\ Replica(p).lines = ed[p].lines
<1>1. ed[p] \in Editors /\ wire[p] \in Seq(Packets)
  BY DEF TypeOK
<1>2. load[p].want \in Nat /\ load[p].got \in Nat
  BY DEF TypeOK
<1> QED
  BY <1>1, <1>2, EditorFields DEF Replica, Replicas

\* A session starts from nothing.
LEMMA InitAgrees == Init => Agreement
<1> SUFFICES ASSUME Init PROVE Agreement
  OBVIOUS
<1>1. /\ \A p \in Peers : ~remote[p]
      /\ \A p \in Peers : wire[p] = << >>
  BY DEF Init
<1>2. StartsFirst(<< >>)
  BY DEF StartsFirst
<1> QED
  BY <1>1, <1>2 DEF Agreement, Idle, OneStart, OneLeads

\* A command of the leader, of the follower, or of the one who leads from now on.
LEMMA CommandAgrees ==
  ASSUME TypeOK, Agreement, NEW p \in Peers, Command(p), Short'
  PROVE  Agreement'
<1>1. PICK e \in Editors, packets \in Seq(Packets) :
        Does(p, e, packets) /\ Tells(ed[p], e, packets)
  BY DEF Command
<1> DEFINE old == ed[p]
           edit == e.lines # old.lines \/ ~NoEdits(packets)
<1>2. /\ remote[p] /\ remote' = remote /\ load' = load /\ misplaced' = misplaced
      /\ ed' = [ed EXCEPT ![p] = e] /\ Send(p, packets)
      /\ unsent' = (unsent \/ (packets = << >> /\ e.lines # old.lines))
      /\ crossed' = (crossed \/ (edit /\ ~NoEdits(wire[p])))
  BY <1>1, Zenon DEF Does
<1>3. PICK q \in Peers : q = Other(p) /\ q # p /\ Other(q) = p /\ \A x \in Peers : x = p \/ x = q
  BY OtherPeer, OtherTwice
<1>4. /\ wire'[q] = wire[q] \o packets /\ wire'[p] = wire[p]
      /\ wire[q] \in Seq(Packets) /\ wire[p] \in Seq(Packets)
  BY <1>2, <1>3, SendType DEF TypeOK
<1>5. ed'[p] = e /\ ed'[q] = ed[q] /\ old \in Editors
  BY <1>2, <1>3 DEF TypeOK
<1>6. Fitting(e)
  BY <1>5 DEF Short
<1> DEFINE s == Replica(p)
           t == Replica(q)
<1>7. /\ s \in Replicas /\ s.lines = old.lines /\ t \in Replicas /\ t.lines = ed[q].lines
      /\ t = [lines |-> ed'[q].lines, want |-> load'[q].want, got |-> load'[q].got]
  BY <1>2, <1>5, PeerFields DEF Replica
<1>8. /\ e.lines = old.lines =>
           s = [lines |-> ed'[p].lines, want |-> load'[p].want, got |-> load'[p].got]
  BY <1>2, <1>5 DEF Replica
<1> HIDE DEF old, s, t
<1>9. Idle'
  BY <1>2 DEF Idle
<1>10. OneStart'
  <2>1. StartsFirst(wire[q]) /\ StartsFirst(wire[p])
    BY DEF Agreement, OneStart
  <2>2. StartsFirst(wire'[q]) /\ StartsFirst(wire'[p])
    BY <1>1, <1>4, <1>5, <2>1, StartsJoin, TellsNoStart DEF old
  <2> QED BY <1>3, <2>2 DEF OneStart
<1>11. ASSUME ~unsent', ~crossed'
       PROVE  \/ Follows(wire'[p], wire'[q], misplaced',
                         [lines |-> ed'[q].lines, want |-> load'[q].want,
                          got |-> load'[q].got], ed'[p].lines)
              \/ Follows(wire'[q], wire'[p], misplaced',
                         [lines |-> ed'[p].lines, want |-> load'[p].want,
                          got |-> load'[p].got], ed'[q].lines)
  <2>1. /\ packets # << >> \/ e.lines = old.lines
        /\ edit => NoEdits(wire[p])
        /\ ~unsent /\ ~crossed
    BY <1>2, <1>11
  <2>2. Tells(old, e, packets) /\ misplaced \in BOOLEAN
    BY <1>1 DEF old, TypeOK
  <2>3. \/ Follows(wire[p], wire[q], misplaced, t, old.lines)
        \/ Follows(wire[q], wire[p], misplaced, s, ed[q].lines)
    <3>1. PICK x \in Peers : Leads(x)
      BY <1>2, <2>1 DEF Agreement, OneLeads
    <3> QED BY <1>3, <3>1 DEF Leads, s, t, old
  <2>4. CASE Follows(wire[p], wire[q], misplaced, t, old.lines)
    <3>1. Follows(wire[p], wire[q] \o packets, misplaced, t, e.lines)
      BY <1>4, <1>5, <1>6, <1>7, <2>1, <2>2, <2>4, LeaderTells
    <3> QED BY <1>2, <1>4, <1>5, <1>7, <3>1
  <2>5. CASE Follows(wire[q], wire[p], misplaced, s, ed[q].lines)
    <3>1. CASE edit
      <4>1. NoEdits(wire[p])
        BY <2>1, <3>1
      <4>2. Follows(wire[q], wire[p], misplaced, s, t.lines)
        BY <1>7, <2>5
      <4>3. Follows(wire[p], wire[q] \o packets, misplaced, t, e.lines)
        BY <1>4, <1>5, <1>6, <1>7, <2>1, <2>2, <4>1, <4>2, FollowerTells
      <4> QED BY <1>2, <1>4, <1>5, <1>7, <4>3
    <3>2. CASE ~edit
      <4>1. NoEdits(packets) /\ e.lines = old.lines
        BY <3>2
      <4>2. Follows(wire[q] \o packets, wire[p], misplaced, s, ed[q].lines)
        BY <1>4, <2>5, <4>1, FollowerMoves
      <4> QED BY <1>2, <1>4, <1>5, <1>8, <4>1, <4>2
    <3> QED BY <3>1, <3>2
  <2> QED BY <2>3, <2>4, <2>5
<1>12. OneLeads'
  BY <1>3, <1>11 DEF OneLeads, Leads, Replica
<1> QED
  BY <1>9, <1>10, <1>12 DEF Agreement

\* The peer that syncs leads.
LEMMA SyncAgrees ==
  ASSUME TypeOK, Agreement, NEW p \in Peers, Sync(p), Short'
  PROVE  Agreement'
<1> DEFINE e == ed[p]
<1>1. /\ remote' = [remote EXCEPT ![p] = TRUE] /\ Send(p, Share(e))
      /\ wire[Other(p)] = << >> /\ crossed' = ~NoEdits(wire[p])
      /\ ed' = ed /\ load' = load /\ misplaced' = misplaced
  BY DEF Sync
<1>2. PICK q \in Peers : q = Other(p) /\ q # p /\ Other(q) = p /\ \A x \in Peers : x = p \/ x = q
  BY OtherPeer, OtherTwice
<1>3. /\ e \in Editors /\ Fitting(e) /\ wire[p] \in Seq(Packets)
      /\ Replica(q) \in Replicas
  BY <1>1, PeerFields DEF Short
<1>4. Share(e) \in Seq(Packets)
  BY <1>3, ShareParts
<1>5. wire'[q] = Share(e) /\ wire'[p] = wire[p]
  <2>1. wire'[q] = wire[q] \o Share(e) /\ wire'[p] = wire[p]
    BY <1>1, <1>2, <1>4, SendType DEF TypeOK
  <2>2. << >> \o Share(e) = Share(e)
    BY <1>4, ConcatEmptySeq
  <2> QED BY <1>1, <1>2, <2>1, <2>2
<1>6. Idle'
  <2>1. remote'[p]
    BY <1>1 DEF TypeOK
  <2> QED BY <2>1 DEF Idle
<1>7. OneStart'
  <2>1. StartsFirst(wire[p])
    BY DEF Agreement, OneStart
  <2>2. StartsFirst(Share(e))
    BY <1>3, ShareStartsFirst
  <2> QED BY <1>2, <1>5, <2>1, <2>2 DEF OneStart
<1>8. ASSUME ~crossed'
      PROVE  Follows(wire'[p], wire'[q], misplaced',
                     [lines |-> ed'[q].lines, want |-> load'[q].want,
                      got |-> load'[q].got], ed'[p].lines)
  <2>1. NoEdits(wire[p])
    BY <1>1, <1>8
  <2>2. Follows(wire[p], Share(e), misplaced, Replica(q), e.lines)
    BY <1>3, <2>1, SyncFollows
  <2> QED BY <1>1, <1>5, <2>2 DEF Replica
<1>9. OneLeads'
  BY <1>2, <1>8 DEF OneLeads, Leads, Replica
<1> QED
  BY <1>6, <1>7, <1>9 DEF Agreement

\* A position that is taken changes no text.
LEMMA MoveKeepsText ==
  ASSUME TypeOK, NEW p \in Peers, Receive(p), Packet(p).cmd = "MOVE_CURSOR"
  PROVE  ed'[p].lines = ed[p].lines /\ load' = load
<1> DEFINE f == editor_set_remote_cursor(ed[p], Packet(p).row, Packet(p).col)
<1>1. Takes(p, "MOVE_CURSOR") /\ Applies(p, f)
  <2>1. TakeMoveCursor(p)
    BY DEF Receive, Packet, Takes, TakeInsertChar, TakeDeleteChar, TakeReplaceBlock,
           TakeUpdateLine, TakeFileStart, TakeFileLine
  <2> QED BY <2>1 DEF TakeMoveCursor
<1>2. ed[p] \in Editors /\ Packet(p) \in Packets
  BY <1>1, TakesType DEF TypeOK
<1>3. Packet(p).row \in Nat /\ Packet(p).col \in Nat
  BY <1>2, PacketFields
<1>4. f.lines = ed[p].lines
  BY <1>2, <1>3, SetRemoteIs DEF Shows
<1> HIDE DEF f
<1>5. ed' = [ed EXCEPT ![p] = f] /\ load' = load
  BY <1>1 DEF Applies
<1> QED
  BY <1>4, <1>5 DEF TypeOK

\* A packet taken by the follower is one less to come; the leader only learns where
\* the follower's cursor is.
LEMMA ReceiveAgrees ==
  ASSUME TypeOK, Agreement, NEW p \in Peers, Receive(p)
  PROVE  Agreement'
<1> DEFINE k == Packet(p)
           q == Other(p)
           s == Replica(p)
           t == Replica(q)
           after == [lines |-> ed'[p].lines, want |-> load'[p].want, got |-> load'[p].got]
<1>0. Taken(p) /\ TypeOK'
  BY ReceiveIs DEF Taken
<1>1. /\ wire[p] # << >> /\ wire'[p] = Tail(wire[p]) /\ wire'[q] = wire[q]
      /\ ed'[q] = ed[q] /\ unsent' = unsent /\ crossed' = crossed
      /\ \A x \in Peers : remote[x] => remote'[x]
      /\ k.cmd # "FILE_START" /\ misplaced => misplaced'
      /\ k.cmd = "MOVE_CURSOR" => misplaced' = misplaced
  BY <1>0 DEF Taken
<1>2. t = [lines |-> ed'[q].lines, want |-> load'[q].want, got |-> load'[q].got]
  BY <1>0 DEF Taken, Replica
<1>3. (k.cmd = "FILE_START" \/ ~misplaced') /\ Fits(k, s) => after = After(k, s)
  BY <1>0 DEF Taken, Replica
<1>4. q \in Peers /\ q # p /\ Other(q) = p /\ \A x \in Peers : x = p \/ x = q
  BY OtherPeer, OtherTwice
<1>5. /\ wire[p] \in Seq(Packets) /\ wire[q] \in Seq(Packets) /\ k = Head(wire[p])
      /\ misplaced \in BOOLEAN /\ misplaced' \in BOOLEAN
  BY <1>0, <1>4 DEF TypeOK, Packet
<1>6. k.cmd = "MOVE_CURSOR" => after = s
  BY MoveKeepsText DEF Replica
<1>7. StartsFirst(wire[p]) /\ StartsFirst(wire[q])
  BY <1>4 DEF Agreement, OneStart
<1>8. \E x \in Peers : remote[x]
  BY <1>1 DEF Agreement, Idle
<1> HIDE DEF k, s, t, after, q
<1>9. Idle'
  BY <1>1, <1>8 DEF Idle
<1>10. OneStart'
  <2>1. StartsFirst(Tail(wire[p]))
    BY <1>1, <1>5, <1>7, StartsTail
  <2> QED BY <1>1, <1>4, <1>7, <2>1 DEF OneStart
<1>11. ASSUME ~unsent', ~crossed'
       PROVE  \/ Follows(wire'[p], wire'[q], misplaced', t, ed'[p].lines)
              \/ Follows(wire'[q], wire'[p], misplaced', after, ed'[q].lines)
  <2>1. \/ Follows(wire[p], wire[q], misplaced, t, ed[p].lines)
        \/ Follows(wire[q], wire[p], misplaced, s, ed[q].lines)
    <3>1. PICK x \in Peers : Leads(x)
      BY <1>1, <1>8, <1>11 DEF Agreement, OneLeads
    <3>2. x = p \/ x = q
      BY <1>4
    <3>3. Leads(p) => Follows(wire[p], wire[q], misplaced, t, ed[p].lines)
      BY DEF Leads, q, t
    <3>4. Leads(q) => Follows(wire[q], wire[p], misplaced, s, ed[q].lines)
      BY <1>4 DEF Leads, s
    <3> QED BY <3>1, <3>2, <3>3, <3>4
  <2>2. CASE Follows(wire[p], wire[q], misplaced, t, ed[p].lines)
    <3>1. k.cmd = "MOVE_CURSOR" /\ Follows(Tail(wire[p]), wire[q], misplaced, t, ed[p].lines)
      BY <1>1, <1>5, <2>2, LeaderTakes
    <3>2. ed'[p].lines = ed[p].lines
      BY <3>1, MoveKeepsText DEF k
    <3> QED BY <1>1, <3>1, <3>2
  <2>3. CASE Follows(wire[q], wire[p], misplaced, s, ed[q].lines)
    <3>1. Follows(wire[q], Tail(wire[p]), misplaced', after, ed[q].lines)
      BY <1>1, <1>3, <1>5, <1>7, <2>3, FollowerTakes
    <3> QED BY <1>1, <3>1
  <2> QED BY <2>1, <2>2, <2>3
<1>12. OneLeads'
  BY <1>2, <1>4, <1>11 DEF OneLeads, Leads, Replica, after, q
<1> QED
  BY <1>9, <1>10, <1>12 DEF Agreement

\* Every step keeps the agreement of texts and packets.
LEMMA StepAgrees == TypeOK /\ Agreement /\ [Next]_vars /\ Short' => Agreement'
<1> SUFFICES ASSUME TypeOK, Agreement, [Next]_vars, Short' PROVE Agreement'
  OBVIOUS
<1>1. CASE Next
  <2>1. PICK p \in Peers : Keys(p) \/ Others(p) \/ Receive(p)
    BY <1>1 DEF Next
  <2>2. CASE Receive(p)
    BY <2>2, ReceiveAgrees
  <2>3. CASE Keys(p) \/ Others(p)
    <3>1. Command(p) \/ Sync(p)
      BY <2>3, CommandTells, PeerFields
    <3> QED BY <3>1, CommandAgrees, SyncAgrees
  <2> QED BY <2>1, <2>2, <2>3
<1>2. CASE UNCHANGED vars
  BY <1>2 DEF vars, Agreement, Idle, OneStart, OneLeads, Leads, Replica
<1> QED
  BY <1>1, <1>2

\* With nothing left that edits, the text of the follower is the leader's.
LEMMA AgreementConverges == TypeOK /\ Agreement => Converged
<1> SUFFICES ASSUME TypeOK, Agreement,
                    \A p \in Peers : remote[p] /\ ~crashed[p] /\ NoEdits(wire[p]),
                    ~misplaced, ~unsent, ~crossed
             PROVE  ed[Reader].lines = ed[Author].lines
  BY DEF Converged
<1>1. /\ Author \in Peers /\ Reader \in Peers
      /\ \A x \in Peers : x = Author \/ x = Reader
  BY PeersAssumption, OtherPeer DEF Reader
<1>2. PICK p \in Peers : Leads(p)
  BY <1>1 DEF Agreement, OneLeads
<1> DEFINE q == Other(p)
<1>3. q \in Peers /\ q # p
  BY OtherPeer
<1>4. PICK u \in Replicas : u.lines = ed[p].lines /\ Chain(wire[q], Replica(q), u)
  BY <1>2 DEF Leads, Follows
<1>5. Replica(q).lines = ed[q].lines /\ wire[q] \in Seq(Packets)
  BY <1>3, PeerFields
<1>6. u = Replica(q)
  BY <1>3, <1>4, <1>5, ChainMoves
<1>7. ed[q].lines = ed[p].lines
  BY <1>4, <1>5, <1>6
<1> HIDE DEF q
<1> QED
  BY <1>1, <1>3, <1>7

\* While every row fits its packet, the two texts are the same once every edit is
\* applied: whichever user edits and however the blocks, relative edits, transfers
\* and cursors of the two are mixed, unless an edit was applied elsewhere than it was
\* made, was never sent, or crossed one of the peer.
THEOREM ShortConverges == Spec /\ []Short => []Converged
<1>1. Init => Agreement
  BY InitAgrees
<1>2. TypeOK /\ Agreement /\ [Next]_vars /\ Short' => Agreement'
  BY StepAgrees
<1>3. TypeOK /\ Agreement => Converged
  BY AgreementConverges
<1> QED
  BY <1>1, <1>2, <1>3, TypeCorrect, PTL DEF Spec

\* While every row fits its packet, an edit that the peer made where the cursor it is
\* followed at is finds that position in the text, although the text changed since.
THEOREM FollowedEditLands == Spec /\ []Short => FollowedEditInText
<1>1. Init => Agreement
  BY InitAgrees
<1>2. TypeOK /\ Agreement /\ [Next]_vars /\ Short' => Agreement'
  BY StepAgrees
<1>3. TypeOK /\ Agreement /\ [Next]_vars =>
        [crashed' # crashed => misplaced' \/ unsent' \/ crossed']_vars
  <2> SUFFICES ASSUME TypeOK, Agreement, Next, crashed' # crashed,
                      ~misplaced', ~unsent', ~crossed'
               PROVE  FALSE
    OBVIOUS
  <2>1. PICK p \in Peers : Keys(p) \/ Others(p) \/ Receive(p)
    BY DEF Next
  <2>2. Receive(p)
    <3>1. Keys(p) \/ Others(p) => Command(p) \/ Sync(p)
      BY CommandTells, PeerFields
    <3> QED BY <2>1, <3>1 DEF Command, Does, Sync
  <2> DEFINE k == Packet(p)
             q == Other(p)
             s == Replica(p)
  <2>3. Taken(p)
    BY <2>2, ReceiveIs
  <2>4. /\ wire[p] # << >> /\ wire[p] \in Seq(Packets) /\ ~misplaced /\ ~unsent /\ ~crossed
        /\ k.cmd \in {"INSERT_CHAR", "DELETE_CHAR"} /\ k = Head(wire[p])
    BY <2>3, PeerFields DEF Taken, TypeOK, Packet
  <2>5. ~Fits(k, s)
    BY <2>3 DEF Taken
  <2>6. q \in Peers /\ Other(q) = p /\ \A x \in Peers : x = p \/ x = q
    BY OtherPeer, OtherTwice
  <2>7. PICK x \in Peers : Leads(x)
    BY <2>4 DEF Agreement, Idle, OneLeads
  <2>8. CASE x = p
    <3>1. Follows(wire[p], wire[q], misplaced, Replica(q), ed[p].lines)
      BY <2>7, <2>8 DEF Leads
    <3>2. Head(wire[p]).cmd = "MOVE_CURSOR"
      BY <2>4, <3>1, LeaderTakes
    <3> QED BY <2>4, <3>2
  <2>9. CASE x = q
    <3>1. Follows(wire[q], wire[p], misplaced, s, ed[q].lines)
      BY <2>6, <2>7, <2>9 DEF Leads
    <3>2. PICK u \in Replicas : Chain(wire[p], s, u)
      BY <2>4, <3>1 DEF Follows
    <3>3. Fits(k, s)
      BY <2>4, <3>2, ChainTail
    <3> QED BY <2>5, <3>3
  <2> QED BY <2>6, <2>7, <2>8, <2>9
<1> QED
  BY <1>1, <1>2, <1>3, TypeCorrect, PTL DEF Spec, FollowedEditInText
=============================================================================
