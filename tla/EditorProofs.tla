----------------------------- MODULE EditorProofs -----------------------------
(***************************************************************************)
(* Editor keeps the cursor, the selection anchor and the scroll offset     *)
(* inside the text, and implements the string, point, mark and clipboard   *)
(* of TextBuffer, for every alphabet, every set of files and viewports and *)
(* texts of any size.                                                      *)
(***************************************************************************)
EXTENDS EditorRefinement, SequenceTheorems, WellFoundedInduction, TLAPS

\* The anchor is a position of the text whenever it is in use.
Anchor(e) == e.sel => Position(e, e.arow, e.acol)

\* What every function of editor.c may assume and must leave behind.
Sound(e) ==
  /\ e \in EditorState
  /\ Position(e, e.crow, e.ccol)
  /\ Anchor(e)
  /\ e.srow \in 0 .. RowCount(e) - 1
  /\ e.scol >= 0

-----------------------------------------------------------------------------
(* Rows                                                                    *)

\* Cutting a row at a column and joining two pieces give rows.
LEMMA RowPieces ==
  ASSUME NEW row \in Row, NEW i \in 0 .. Len(row), NEW j \in 0 .. Len(row)
  PROVE  /\ SubSeq(row, i + 1, j) \in Row
         /\ Len(SubSeq(row, i + 1, j)) = IF i < j THEN j - i ELSE 0
<1>1. Len(row) \in Nat /\ \A k \in 1 .. Len(row) : row[k] \in Char
  BY LenProperties, ElementOfSeq DEF Row
<1>2. \A k \in i + 1 .. j : row[k] \in Char
  BY <1>1
<1>3. /\ SubSeq(row, i + 1, j) \in Seq(Char)
      /\ Len(SubSeq(row, i + 1, j)) = IF i + 1 <= j THEN j - (i + 1) + 1 ELSE 0
  BY <1>1, <1>2, SubSeqProperties
<1> QED
  BY <1>1, <1>3 DEF Row

\* DeleteRange on ordered positions of the text gives a text that still has
\* the first of them: the row sr keeps its first sc characters.
LEMMA DeleteRangeText ==
  ASSUME NEW lines \in Seq(Row),
         NEW sr \in 0 .. Len(lines) - 1, NEW er \in sr .. Len(lines) - 1,
         NEW sc \in 0 .. Len(lines[sr + 1]), NEW ec \in 0 .. Len(lines[er + 1])
  PROVE  LET new == DeleteRange(lines, sr, sc, er, ec)
         IN  /\ new \in Seq(Row)
             /\ sr \in 0 .. Len(new) - 1
             /\ sc \in 0 .. Len(new[sr + 1])
<1> DEFINE merged == SubSeq(lines[sr + 1], 1, sc)
                       \o SubSeq(lines[er + 1], ec + 1, Len(lines[er + 1]))
           n == Len(lines) - (er - sr)
           at(i) == IF i <= sr THEN lines[i]
                    ELSE IF i = sr + 1 THEN merged
                    ELSE lines[i + (er - sr)]
<1>1. Len(lines) \in Nat /\ \A k \in 1 .. Len(lines) : lines[k] \in Row
  BY LenProperties, ElementOfSeq
<1>2. /\ lines[sr + 1] \in Row /\ lines[er + 1] \in Row
      /\ Len(lines[sr + 1]) \in Nat /\ Len(lines[er + 1]) \in Nat
  BY <1>1, LenProperties DEF Row
<1>3. /\ SubSeq(lines[sr + 1], 1, sc) \in Row
      /\ Len(SubSeq(lines[sr + 1], 1, sc)) = sc
  BY <1>2, RowPieces, 0 \in 0 .. Len(lines[sr + 1])
<1>4. /\ SubSeq(lines[er + 1], ec + 1, Len(lines[er + 1])) \in Row
      /\ Len(SubSeq(lines[er + 1], ec + 1, Len(lines[er + 1]))) \in Nat
  BY <1>2, RowPieces, Len(lines[er + 1]) \in 0 .. Len(lines[er + 1])
<1>5. merged \in Row /\ Len(merged) \in Nat /\ Len(merged) >= sc
  BY <1>3, <1>4, ConcatProperties, LenProperties, SMTT(30) DEF Row
<1>6. n \in Nat /\ \A i \in 1 .. n : at(i) \in Row
  <2> HIDE DEF merged
  <2> QED BY <1>1, <1>5
<1>7. [i \in 1 .. n |-> at(i)] \in Seq(Row)
  <2> HIDE DEF at, n
  <2> QED BY <1>6, IsASeq
<1>8. DeleteRange(lines, sr, sc, er, ec) = [i \in 1 .. n |-> at(i)]
  BY DEF DeleteRange
<1>9. Len([i \in 1 .. n |-> at(i)]) = n
  <2> HIDE DEF at, n
  <2> QED BY <1>6
<1>10. sr + 1 \in 1 .. n /\ at(sr + 1) = merged
  <2> HIDE DEF merged
  <2> QED BY <1>1
<1>11. [i \in 1 .. n |-> at(i)][sr + 1] = merged
  <2> HIDE DEF merged, n
  <2> QED BY <1>10
<1> HIDE DEF merged, n, at
<1> QED
  BY <1>1, <1>5, <1>6, <1>7, <1>8, <1>9, <1>10, <1>11
\* Splice at a position of the text gives a text in which the end of what was
\* inserted is a position: where editor_paste and editor_insert_char put the
\* cursor.
LEMMA SpliceText ==
  ASSUME NEW lines \in Seq(Row), NEW segs \in Seq(Row), segs # << >>,
         NEW r \in 0 .. Len(lines) - 1, NEW c \in 0 .. Len(lines[r + 1])
  PROVE  LET new == Splice(lines, r, c, segs)
             n   == Len(segs)
         IN  /\ new \in Seq(Row)
             /\ n \in Nat \ {0}
             /\ r + n - 1 \in 0 .. Len(new) - 1
             /\ Len(segs[n]) + (IF n = 1 THEN c ELSE 0) \in 0 .. Len(new[r + n])
<1> DEFINE old  == lines[r + 1]
           n    == Len(segs)
           head == SubSeq(old, 1, c)
           tail == SubSeq(old, c + 1, Len(old))
           pre(k) == IF k = 1 THEN head ELSE << >>
           post(k) == IF k = n THEN tail ELSE << >>
           seg(k) == pre(k) \o segs[k] \o post(k)
           m    == Len(lines) + n - 1
           at(i) == IF i <= r THEN lines[i]
                    ELSE IF i <= r + n THEN seg(i - r)
                    ELSE lines[i - n + 1]
<1>1. /\ Len(lines) \in Nat /\ \A k \in 1 .. Len(lines) : lines[k] \in Row
      /\ n \in Nat \ {0} /\ \A k \in 1 .. n : segs[k] \in Row
  BY LenProperties, ElementOfSeq, EmptySeq
<1>2. old \in Row /\ Len(old) \in Nat
  BY <1>1, LenProperties DEF Row
<1>3. /\ head \in Row /\ Len(head) = c
      /\ tail \in Row /\ Len(tail) \in Nat
  BY <1>2, RowPieces, 0 \in 0 .. Len(old), Len(old) \in 0 .. Len(old)
<1>4. << >> \in Row /\ Len(<< >>) = 0
  BY EmptySeq DEF Row
<1>5. ASSUME NEW k \in 1 .. n
      PROVE  /\ seg(k) \in Row
             /\ Len(seg(k)) = Len(pre(k)) + Len(segs[k]) + Len(post(k))
             /\ Len(pre(k)) = IF k = 1 THEN c ELSE 0
             /\ Len(segs[k]) \in Nat /\ Len(post(k)) \in Nat
  <2> HIDE DEF head, tail
  <2>1. /\ pre(k) \in Row /\ post(k) \in Row /\ segs[k] \in Row
        /\ Len(pre(k)) = IF k = 1 THEN c ELSE 0
        /\ Len(segs[k]) \in Nat /\ Len(post(k)) \in Nat
    BY <1>1, <1>3, <1>4, LenProperties DEF Row
  <2> HIDE DEF pre, post
  <2>2. /\ pre(k) \o segs[k] \in Row
        /\ Len(pre(k) \o segs[k]) = Len(pre(k)) + Len(segs[k])
    BY <2>1, ConcatProperties DEF Row
  <2>3. /\ (pre(k) \o segs[k]) \o post(k) \in Row
        /\ Len((pre(k) \o segs[k]) \o post(k))
             = Len(pre(k) \o segs[k]) + Len(post(k))
    BY <2>1, <2>2, ConcatProperties DEF Row
  <2> QED BY <2>1, <2>2, <2>3
<1>6. m \in Nat /\ \A i \in 1 .. m : at(i) \in Row
  <2> HIDE DEF seg, n
  <2>1. m \in Nat
    BY <1>1
  <2>2. ASSUME NEW i \in 1 .. m
        PROVE  at(i) \in Row
    <3>1. CASE i <= r
      BY <1>1, <3>1
    <3>2. CASE i > r /\ i <= r + n
      <4>1. i - r \in 1 .. n
        BY <1>1, <3>2
      <4>2. seg(i - r) \in Row
        BY <1>5, <4>1
      <4>3. at(i) = seg(i - r)
        BY <1>1, <3>2
      <4> QED BY <4>2, <4>3
    <3>3. CASE i > r + n
      <4>1. i - n + 1 \in 1 .. Len(lines) /\ ~(i <= r)
        BY <1>1, <3>3
      <4> QED BY <1>1, <3>3, <4>1
    <3> QED BY <1>1, <3>1, <3>2, <3>3
  <2> QED BY <2>1, <2>2
<1>7. /\ [i \in 1 .. m |-> at(i)] \in Seq(Row)
      /\ Len([i \in 1 .. m |-> at(i)]) = m
  <2> HIDE DEF at, m
  <2> QED BY <1>6, IsASeq
<1>8. Splice(lines, r, c, segs) = [i \in 1 .. m |-> at(i)]
  BY DEF Splice
<1>9. r + n \in 1 .. m /\ at(r + n) = seg(n)
  <2> HIDE DEF seg, n
  <2> QED BY <1>1
<1>10. [i \in 1 .. m |-> at(i)][r + n] = seg(n)
  <2> HIDE DEF seg, n, m
  <2> QED BY <1>9
<1>11. /\ Len(seg(n)) \in Nat
       /\ Len(segs[n]) + (IF n = 1 THEN c ELSE 0) \in 0 .. Len(seg(n))
  <2> HIDE DEF seg, pre, post, n
  <2>1. n \in 1 .. n /\ n \in Nat
    BY <1>1
  <2>2. /\ Len(seg(n)) = Len(pre(n)) + Len(segs[n]) + Len(post(n))
        /\ Len(pre(n)) = IF n = 1 THEN c ELSE 0
        /\ Len(segs[n]) \in Nat /\ Len(post(n)) \in Nat
    BY <1>5, <2>1
  <2>3. Len(pre(n)) \in Nat
    BY <1>2, <2>2
  <2>4. \A x, y, z \in Nat : y + x \in 0 .. x + y + z /\ x + y + z \in Nat
    OBVIOUS
  <2>5. /\ Len(segs[n]) + Len(pre(n)) \in 0 .. Len(pre(n)) + Len(segs[n]) + Len(post(n))
        /\ Len(pre(n)) + Len(segs[n]) + Len(post(n)) \in Nat
    BY <2>2, <2>3, <2>4
  <2>6. Len(segs[n]) + Len(pre(n)) = Len(segs[n]) + (IF n = 1 THEN c ELSE 0)
    BY <2>2
  <2> QED BY <2>2, <2>5, <2>6
<1>12. r + n - 1 \in 0 .. m - 1
  <2> HIDE DEF n
  <2> QED BY <1>1
<1> HIDE DEF seg, at, n, m
<1>13. LET new == Splice(lines, r, c, segs)
       IN  /\ new \in Seq(Row)
           /\ r + n - 1 \in 0 .. Len(new) - 1
           /\ Len(segs[n]) + (IF n = 1 THEN c ELSE 0) \in 0 .. Len(new[r + n])
  BY <1>7, <1>8, <1>10, <1>11, <1>12
<1> QED
  BY <1>1, <1>13 DEF n

\* What is copied from ordered positions of the text is a non-empty sequence
\* of rows, hence not NoClip.
LEMMA SliceText ==
  ASSUME NEW lines \in Seq(Row),
         NEW sr \in 0 .. Len(lines) - 1, NEW er \in sr .. Len(lines) - 1,
         NEW sc \in 0 .. Len(lines[sr + 1]), NEW ec \in 0 .. Len(lines[er + 1])
  PROVE  Slice(lines, sr, sc, er, ec) \in Seq(Row)
<1> DEFINE n == er - sr + 1
           piece(i) == SubSeq(lines[sr + i], IF i = 1 THEN sc + 1 ELSE 1,
                              IF i = n THEN ec ELSE Len(lines[sr + i]))
<1>1. Len(lines) \in Nat /\ \A k \in 1 .. Len(lines) : lines[k] \in Row
  BY LenProperties, ElementOfSeq
<1>2. ASSUME NEW i \in 1 .. n
      PROVE  piece(i) \in Row
  <2> DEFINE row  == lines[sr + i]
             from == IF i = 1 THEN sc ELSE 0
             to   == IF i = n THEN ec ELSE Len(row)
  <2>1. row \in Row /\ Len(row) \in Nat
    BY <1>1, LenProperties DEF Row
  <2>2. from \in 0 .. Len(row) /\ to \in 0 .. Len(row)
    BY <2>1
  <2>3. SubSeq(row, from + 1, to) \in Row
    <3> HIDE DEF row, from, to
    <3> QED BY <2>1, <2>2, RowPieces
  <2>4. piece(i) = SubSeq(row, from + 1, to)
    OBVIOUS
  <2> QED BY <2>3, <2>4
<1>3. n \in Nat
  OBVIOUS
<1>4. [i \in 1 .. n |-> piece(i)] \in Seq(Row)
  <2> HIDE DEF piece, n
  <2> QED BY <1>2, <1>3, IsASeq
<1> QED
  BY <1>4 DEF Slice

-----------------------------------------------------------------------------
(* Words                                                                   *)

\* A non-empty set of natural numbers has a least element.
LEMMA MinInSet ==
  ASSUME NEW S \in SUBSET Nat, S # {}
  PROVE  Min(S) \in S
<1>1. PICK x \in S : \A y \in S : ~(<<y, x>> \in OpToRel(<, Nat))
  BY NatLessThanWellFounded, WFMin
<1>2. \A y \in S : ~(y < x)
  BY <1>1, Zenon DEF OpToRel
<1>3. \A y \in S : x =< y
  BY <1>2
<1> QED
  BY <1>3 DEF Min

\* A bounded set of naturals holds its maximum.
LEMMA MaxInSet ==
  ASSUME NEW n \in Nat, NEW S \in SUBSET (0 .. n), S # {}
  PROVE  Max(S) \in S
<1> DEFINE T == {n - x : x \in S}
<1>1. T \in SUBSET Nat /\ T # {}
  <2>1. \A x \in S : n - x \in Nat
    OBVIOUS
  <2> QED BY <2>1
<1>2. PICK x \in T : \A y \in T : ~(<<y, x>> \in OpToRel(<, Nat))
  BY <1>1, NatLessThanWellFounded, WFMin
<1>3. PICK z \in S : x = n - z
  BY <1>2
<1>4. \A y \in S : z >= y
  <2> TAKE y \in S
  <2>1. n - y \in T /\ x \in Nat /\ n - y \in Nat
    BY <1>1, <1>2
  <2>2. ~(n - y < x)
    BY <1>2, <2>1 DEF OpToRel
  <2> QED BY <1>3, <2>2
<1> QED
  BY <1>4 DEF Max

\* A word motion stops between the start of the row and the column it left,
\* or between that column and the end of the row.
LEMMA WordBounds ==
  ASSUME NEW row \in Row, NEW col \in 0 .. Len(row)
  PROVE  WordStart(row, col) \in 0 .. col /\ WordEnd(row, col) \in col .. Len(row)
<1>1. Len(row) \in Nat
  BY LenProperties DEF Row
<1>2. WordStart(row, col) \in 0 .. col
  <2> DEFINE words == {0} \cup {i \in 1 .. col : row[i] # Space}
             end == Max(words)
             gaps == {0} \cup {i \in 1 .. end : row[i] = Space}
  <2>1. words \in SUBSET (0 .. col) /\ words # {} /\ col \in Nat
    BY <1>1
  <2>2. end \in 0 .. col
    <3> HIDE DEF words
    <3> QED BY <2>1, MaxInSet
  <2> HIDE DEF end
  <2>3. gaps \in SUBSET (0 .. col) /\ gaps # {}
    BY <1>1, <2>2
  <2>4. Max(gaps) \in 0 .. col
    <3> HIDE DEF gaps
    <3> QED BY <2>1, <2>3, MaxInSet
  <2> QED BY <2>4 DEF WordStart, end
<1>3. WordEnd(row, col) \in col .. Len(row)
  <2> DEFINE gaps == {Len(row)} \cup {i \in col .. Len(row) - 1 : row[i + 1] = Space}
             gap == Min(gaps)
             next == {Len(row)} \cup {i \in gap .. Len(row) - 1 : row[i + 1] # Space}
  <2>1. gaps \in SUBSET (col .. Len(row)) /\ gaps \in SUBSET Nat /\ gaps # {}
    BY <1>1
  <2>2. gap \in col .. Len(row)
    <3> HIDE DEF gaps
    <3> QED BY <2>1, MinInSet
  <2> HIDE DEF gap
  <2>3. next \in SUBSET (col .. Len(row)) /\ next \in SUBSET Nat /\ next # {}
    BY <1>1, <2>2
  <2>4. Min(next) \in col .. Len(row)
    <3> HIDE DEF next
    <3> QED BY <2>3, MinInSet
  <2> QED BY <2>4 DEF WordEnd, gap
<1> QED
  BY <1>2, <1>3
-----------------------------------------------------------------------------
(* The functions of editor.c                                               *)

\* The clamped offset never lies past the position it must show.
LEMMA ClampAxisBounds ==
  ASSUME NEW pos \in Nat, NEW offset \in Nat, NEW size \in Nat \ {0}
  PROVE  ClampAxis(pos, offset, size) \in 0 .. pos
BY DEF ClampAxis

\* Assigning the cursor a position of the text and clamping the scroll offset
\* is sound whatever the cursor was before and wherever the view stood.
LEMMA CursorToSound ==
  ASSUME NEW e \in EditorState, NEW r, NEW c, Position(e, r, c),
         Anchor(e), e.srow >= 0, e.scol >= 0
  PROVE  /\ Sound(CursorTo(e, r, c))
         /\ CursorTo(e, r, c).sel = e.sel
<1> DEFINE f == CursorTo(e, r, c)
           srow == ClampAxis(r, e.srow, e.vrows)
           scol == ClampAxis(c, e.scol, e.vcols)
<1>1. /\ e.lines \in Seq(Row) /\ e.lines # << >>
      /\ e.vrows \in Nat \ {0} /\ e.vcols \in Nat \ {0}
      /\ e.srow \in Nat /\ e.scol \in Nat
  BY DEF EditorState
<1>2. Len(e.lines) \in Nat /\ r \in 0 .. Len(e.lines) - 1
  BY <1>1, LenProperties DEF Position, RowCount
<1>3. e.lines[r + 1] \in Row /\ Len(e.lines[r + 1]) \in Nat
  BY <1>1, <1>2, ElementOfSeq, LenProperties DEF Row
<1>4. c \in 0 .. Len(e.lines[r + 1])
  BY DEF Position, RowLen
<1>5. srow \in 0 .. r /\ scol \in Nat
  <2>1. r \in Nat /\ c \in Nat
    BY <1>2, <1>3, <1>4
  <2>2. srow \in 0 .. r /\ scol \in 0 .. c
    BY <1>1, <2>1, ClampAxisBounds
  <2> QED BY <2>1, <2>2
<1>6. f = [e EXCEPT !.crow = r, !.ccol = c, !.srow = srow, !.scol = scol]
  BY DEF CursorTo, clamp_scroll, EditorState
<1>7. r \in Int /\ c \in Int /\ srow \in Int /\ scol \in Int
  BY <1>2, <1>3, <1>4, <1>5
<1> HIDE DEF srow, scol
<1>8. /\ f \in EditorState
      /\ f.lines = e.lines /\ f.crow = r /\ f.ccol = c
      /\ f.srow = srow /\ f.scol = scol
      /\ f.sel = e.sel /\ f.arow = e.arow /\ f.acol = e.acol
  BY <1>6, <1>7 DEF EditorState
<1> HIDE DEF f
<1>9. Sound(f)
  BY <1>2, <1>5, <1>8 DEF Sound, Anchor, Position, RowCount, RowLen
<1> QED
  BY <1>8, <1>9 DEF f

\* An edit that leaves the rows ls and puts the cursor on a position of them.
LEMMA EditSound ==
  ASSUME NEW e, Sound(e), ~e.sel, NEW ls \in Seq(Row), NEW r, NEW c,
         r \in 0 .. Len(ls) - 1, c \in 0 .. Len(ls[r + 1])
  PROVE  /\ Sound(CursorTo([e EXCEPT !.lines = ls], r, c))
         /\ ~CursorTo([e EXCEPT !.lines = ls], r, c).sel
<1> DEFINE f == [e EXCEPT !.lines = ls]
<1>1. Len(ls) \in Nat /\ ls # << >>
  BY LenProperties, EmptySeq
<1>2. e \in EditorState /\ e.srow >= 0 /\ e.scol >= 0
  BY DEF Sound
<1>3. /\ f \in EditorState /\ f.lines = ls
      /\ f.sel = e.sel /\ f.srow = e.srow /\ f.scol = e.scol
  BY <1>1, <1>2 DEF EditorState
<1> HIDE DEF f
<1>4. Position(f, r, c) /\ Anchor(f) /\ f.srow >= 0 /\ f.scol >= 0
  BY <1>2, <1>3 DEF Position, Anchor, RowCount, RowLen
<1>5. Sound(CursorTo(f, r, c)) /\ CursorTo(f, r, c).sel = f.sel
  BY <1>3, <1>4, CursorToSound
<1> QED
  BY <1>3, <1>5 DEF f

\* The facts about a sound editor that the lemmas below start from.
LEMMA SoundFacts ==
  ASSUME NEW e, Sound(e)
  PROVE  /\ e \in EditorState
         /\ e.lines \in Seq(Row) /\ Len(e.lines) \in Nat
         /\ e.srow \in Nat /\ e.scol \in Nat
         /\ e.crow \in 0 .. Len(e.lines) - 1
         /\ e.ccol \in 0 .. Len(e.lines[e.crow + 1])
         /\ \A k \in 0 .. Len(e.lines) - 1 :
               e.lines[k + 1] \in Row /\ Len(e.lines[k + 1]) \in Nat
<1>1. e \in EditorState /\ e.lines \in Seq(Row)
  BY DEF Sound, EditorState
<1>2. Len(e.lines) \in Nat
  BY <1>1, LenProperties
<1>3. \A k \in 0 .. Len(e.lines) - 1 :
        e.lines[k + 1] \in Row /\ Len(e.lines[k + 1]) \in Nat
  BY <1>1, <1>2, ElementOfSeq, LenProperties DEF Row
<1>4. e.srow \in Nat /\ e.scol \in Nat
  BY <1>1, <1>2 DEF Sound, EditorState, RowCount
<1> QED
  BY <1>1, <1>2, <1>3, <1>4 DEF Sound, Position, RowCount, RowLen

\* A motion to a position of the text.
LEMMA MotionSound ==
  ASSUME NEW e, Sound(e), NEW r, NEW c,
         r \in 0 .. Len(e.lines) - 1, c \in 0 .. Len(e.lines[r + 1])
  PROVE  Sound(CursorTo(e, r, c))
<1>1. /\ e \in EditorState /\ Anchor(e)
      /\ e.srow >= 0 /\ e.scol >= 0
  BY SoundFacts DEF Sound
<1> QED
  BY <1>1, CursorToSound DEF Position, RowCount, RowLen
\* clamp_scroll leaves a sound editor sound.
LEMMA ClampSound ==
  ASSUME NEW e, Sound(e)
  PROVE  Sound(clamp_scroll(e))
<1>1. [e EXCEPT !.crow = e.crow, !.ccol = e.ccol] = e
  <2>1. e \in EditorState
    BY SoundFacts
  <2> QED BY <2>1 DEF EditorState
<1>2. clamp_scroll(e) = CursorTo(e, e.crow, e.ccol)
  BY <1>1, Zenon DEF CursorTo
<1> QED
  BY <1>2, SoundFacts, MotionSound

\* The column cut to the length of the row it enters is a column of that row.
LEMMA ToRowSound ==
  ASSUME NEW e, Sound(e), NEW r \in 0 .. Len(e.lines) - 1
  PROVE  Sound(ToRow(e, r))
<1> DEFINE c == IF e.ccol > RowLen(e, r) THEN RowLen(e, r) ELSE e.ccol
<1>1. /\ e.ccol \in Nat
      /\ RowLen(e, r) \in Nat /\ RowLen(e, r) = Len(e.lines[r + 1])
  BY SoundFacts DEF RowLen
<1>2. c \in 0 .. Len(e.lines[r + 1])
  BY <1>1
<1> HIDE DEF c
<1>3. Sound(CursorTo(e, r, c))
  BY <1>2, MotionSound
<1> QED
  BY <1>3 DEF ToRow, c

\* So does a step to the left, over a row's start too.
LEMMA MoveLeftSound ==
  ASSUME NEW e, Sound(e)
  PROVE  Sound(editor_move_left(e))
<1>1. CASE e.ccol > 0
  <2>1. e.ccol - 1 \in 0 .. Len(e.lines[e.crow + 1])
    BY <1>1, SoundFacts
  <2>2. Sound(CursorTo(e, e.crow, e.ccol - 1))
    BY <2>1, SoundFacts, MotionSound
  <2> QED BY <1>1, <2>2 DEF editor_move_left
<1>2. CASE ~(e.ccol > 0) /\ e.crow > 0
  <2>1. /\ e.crow - 1 \in 0 .. Len(e.lines) - 1
        /\ RowLen(e, e.crow - 1) \in 0 .. Len(e.lines[(e.crow - 1) + 1])
    BY <1>2, SoundFacts DEF RowLen
  <2>2. Sound(CursorTo(e, e.crow - 1, RowLen(e, e.crow - 1)))
    BY <2>1, MotionSound
  <2> QED BY <1>2, <2>2 DEF editor_move_left
<1>3. CASE ~(e.ccol > 0) /\ ~(e.crow > 0)
  BY <1>3, ClampSound DEF editor_move_left
<1> QED
  BY <1>1, <1>2, <1>3

\* So does a step to the right, over a row's end too.
LEMMA MoveRightSound ==
  ASSUME NEW e, Sound(e)
  PROVE  Sound(editor_move_right(e))
<1>1. CASE e.ccol < RowLen(e, e.crow)
  <2>1. e.ccol + 1 \in 0 .. Len(e.lines[e.crow + 1])
    BY <1>1, SoundFacts DEF RowLen
  <2>2. Sound(CursorTo(e, e.crow, e.ccol + 1))
    BY <2>1, SoundFacts, MotionSound
  <2> QED BY <1>1, <2>2 DEF editor_move_right
<1>2. CASE ~(e.ccol < RowLen(e, e.crow)) /\ e.crow < RowCount(e) - 1
  <2>1. /\ e.crow + 1 \in 0 .. Len(e.lines) - 1
        /\ 0 \in 0 .. Len(e.lines[(e.crow + 1) + 1])
    BY <1>2, SoundFacts DEF RowCount
  <2>2. Sound(CursorTo(e, e.crow + 1, 0))
    BY <2>1, MotionSound
  <2> QED BY <1>2, <2>2 DEF editor_move_right
<1>3. CASE ~(e.ccol < RowLen(e, e.crow)) /\ ~(e.crow < RowCount(e) - 1)
  BY <1>3, ClampSound DEF editor_move_right
<1> QED
  BY <1>1, <1>2, <1>3

\* Up and down cut the column to the length of the row reached.
LEMMA MoveVerticalSound ==
  ASSUME NEW e, Sound(e)
  PROVE  Sound(editor_move_up(e)) /\ Sound(editor_move_down(e))
<1>1. e.crow \in 0 .. Len(e.lines) - 1 /\ Len(e.lines) \in Nat
  BY SoundFacts
<1>2. Sound(editor_move_up(e))
  <2>1. e.crow # 0 => e.crow - 1 \in 0 .. Len(e.lines) - 1
    BY <1>1
  <2>2. e.crow # 0 => Sound(ToRow(e, e.crow - 1))
    BY <2>1, ToRowSound
  <2> QED BY <2>2, ClampSound DEF editor_move_up
<1>3. Sound(editor_move_down(e))
  <2>1. e.crow # RowCount(e) - 1 => e.crow + 1 \in 0 .. Len(e.lines) - 1
    BY <1>1 DEF RowCount
  <2>2. e.crow # RowCount(e) - 1 => Sound(ToRow(e, e.crow + 1))
    BY <2>1, ToRowSound
  <2> QED BY <2>2, ClampSound DEF editor_move_down
<1> QED
  BY <1>2, <1>3

\* The motions within a row end at a column of it.
LEMMA MoveInRowSound ==
  ASSUME NEW e, Sound(e)
  PROVE  /\ Sound(editor_move_word_left(e)) /\ Sound(editor_move_word_right(e))
         /\ Sound(editor_move_home(e)) /\ Sound(editor_move_end(e))
<1> DEFINE row == e.lines[e.crow + 1]
<1>1. row \in Row /\ Len(row) \in Nat /\ e.ccol \in 0 .. Len(row)
  BY SoundFacts
<1>2. WordStart(row, e.ccol) \in 0 .. e.ccol /\ WordEnd(row, e.ccol) \in e.ccol .. Len(row)
  <2> HIDE DEF row
  <2> QED BY <1>1, WordBounds
<1>3. /\ WordStart(row, e.ccol) \in 0 .. Len(row)
      /\ WordEnd(row, e.ccol) \in 0 .. Len(row)
      /\ 0 \in 0 .. Len(row) /\ Len(row) \in 0 .. Len(row)
  <2> HIDE DEF row
  <2> QED BY <1>1, <1>2
<1>4. \A c \in 0 .. Len(row) : Sound(CursorTo(e, e.crow, c))
  BY SoundFacts, MotionSound
<1>5. Sound(CursorTo(e, e.crow, WordStart(row, e.ccol)))
  BY <1>3, <1>4
<1>6. Sound(CursorTo(e, e.crow, WordEnd(row, e.ccol)))
  BY <1>3, <1>4
<1>7. Sound(CursorTo(e, e.crow, 0)) /\ Sound(CursorTo(e, e.crow, Len(row)))
  BY <1>3, <1>4
<1> QED
  BY <1>5, <1>6, <1>7
  DEF editor_move_word_left, editor_move_word_right, editor_move_home, editor_move_end,
      RowLen

\* A clamped row and column are a position of the text.
LEMMA SetCursorSound ==
  ASSUME NEW e, Sound(e), NEW row \in Int, NEW col \in Int
  PROVE  Sound(editor_set_cursor(e, row, col))
<1> DEFINE r == Clamp(row, 0, RowCount(e) - 1)
           c == Clamp(col, 0, RowLen(e, r))
<1>1. Len(e.lines) \in Nat \ {0}
  BY SoundFacts
<1>2. r \in 0 .. Len(e.lines) - 1
  BY <1>1 DEF Clamp, RowCount
<1> HIDE DEF r
<1>3. Len(e.lines[r + 1]) \in Nat
  BY <1>2, SoundFacts
<1>4. c \in 0 .. Len(e.lines[r + 1])
  BY <1>3 DEF Clamp, RowLen
<1> HIDE DEF c
<1>5. Sound(CursorTo(e, r, c))
  BY <1>2, <1>4, MotionSound
<1> QED
  BY <1>5 DEF editor_set_cursor, r, c
\* A new line leaves the cursor at the start of the row it opened, a character
\* leaves it one column further.
LEMMA InsertCharSound ==
  ASSUME NEW e, Sound(e), ~e.sel, NEW c \in Char \cup {Newline}
  PROVE  Sound(editor_insert_char(e, c))
<1> DEFINE ls(segs) == Splice(e.lines, e.crow, e.ccol, segs)
<1>1. CASE c = Newline
  <2> DEFINE segs == << << >>, << >> >>
  <2>1. segs \in Seq(Row) /\ segs # << >> /\ Len(segs) = 2 /\ Len(segs[2]) = 0
    BY EmptySeq DEF Row
  <2>2. /\ ls(segs) \in Seq(Row)
        /\ e.crow + 1 \in 0 .. Len(ls(segs)) - 1
        /\ 0 \in 0 .. Len(ls(segs)[(e.crow + 1) + 1])
    <3> HIDE DEF segs
    <3>1. /\ ls(segs) \in Seq(Row)
          /\ e.crow + 2 - 1 \in 0 .. Len(ls(segs)) - 1
          /\ 0 + (IF 2 = 1 THEN e.ccol ELSE 0) \in 0 .. Len(ls(segs)[e.crow + 2])
      BY <2>1, SoundFacts, SpliceText
    <3> QED BY <3>1, SoundFacts
  <2>3. Sound(CursorTo([e EXCEPT !.lines = ls(segs)], e.crow + 1, 0))
    <3> HIDE DEF ls
    <3> QED BY <2>2, EditSound
  <2> QED BY <1>1, <2>3 DEF editor_insert_char
<1>2. CASE c # Newline
  <2> DEFINE segs == << <<c>> >>
  <2>1. segs \in Seq(Row) /\ segs # << >> /\ Len(segs) = 1 /\ Len(segs[1]) = 1
    BY <1>2 DEF Row
  <2>2. /\ ls(segs) \in Seq(Row)
        /\ e.crow \in 0 .. Len(ls(segs)) - 1
        /\ e.ccol + 1 \in 0 .. Len(ls(segs)[e.crow + 1])
    <3> HIDE DEF segs
    <3>1. /\ ls(segs) \in Seq(Row)
          /\ e.crow + 1 - 1 \in 0 .. Len(ls(segs)) - 1
          /\ 1 + (IF 1 = 1 THEN e.ccol ELSE 0) \in 0 .. Len(ls(segs)[e.crow + 1])
      BY <2>1, SoundFacts, SpliceText
    <3> QED BY <3>1, SoundFacts
  <2>3. Sound(CursorTo([e EXCEPT !.lines = ls(segs)], e.crow, e.ccol + 1))
    <3> HIDE DEF ls
    <3> QED BY <2>2, EditSound
  <2> QED BY <1>2, <2>3 DEF editor_insert_char
<1> QED
  BY <1>1, <1>2

\* Removing the text between two ordered positions leaves the cursor on the
\* first of them.
LEMMA RemoveSound ==
  ASSUME NEW e, Sound(e), ~e.sel,
         NEW sr \in 0 .. Len(e.lines) - 1, NEW er \in sr .. Len(e.lines) - 1,
         NEW sc \in 0 .. Len(e.lines[sr + 1]), NEW ec \in 0 .. Len(e.lines[er + 1])
  PROVE  /\ Sound(CursorTo([e EXCEPT !.lines = DeleteRange(@, sr, sc, er, ec)], sr, sc))
         /\ ~CursorTo([e EXCEPT !.lines = DeleteRange(@, sr, sc, er, ec)], sr, sc).sel
<1> DEFINE new == DeleteRange(e.lines, sr, sc, er, ec)
<1>1. e.lines \in Seq(Row)
  BY SoundFacts
<1>2. /\ new \in Seq(Row)
      /\ sr \in 0 .. Len(new) - 1
      /\ sc \in 0 .. Len(new[sr + 1])
  BY <1>1, DeleteRangeText
<1> HIDE DEF new
<1>3. /\ Sound(CursorTo([e EXCEPT !.lines = new], sr, sc))
      /\ ~CursorTo([e EXCEPT !.lines = new], sr, sc).sel
  BY <1>2, EditSound
<1> QED
  BY <1>3 DEF new

\* Backspace, which may join two rows, leaves the cursor in the text.
LEMMA DeleteCharSound ==
  ASSUME NEW e, Sound(e), ~e.sel
  PROVE  Sound(editor_delete_char(e))
<1>1. CASE e.ccol > 0
  <2>1. /\ e.ccol - 1 \in 0 .. Len(e.lines[e.crow + 1])
        /\ e.ccol \in 0 .. Len(e.lines[e.crow + 1])
        /\ e.crow \in 0 .. Len(e.lines) - 1 /\ e.crow \in e.crow .. Len(e.lines) - 1
    BY <1>1, SoundFacts
  <2>2. Sound(CursorTo([e EXCEPT !.lines =
                          DeleteRange(@, e.crow, e.ccol - 1, e.crow, e.ccol)],
                       e.crow, e.ccol - 1))
    BY <2>1, RemoveSound
  <2> QED BY <1>1, <2>2 DEF editor_delete_char
<1>2. CASE ~(e.ccol > 0) /\ e.crow > 0
  <2> DEFINE prev_len == RowLen(e, e.crow - 1)
  <2>1. /\ e.crow - 1 \in 0 .. Len(e.lines) - 1
        /\ e.crow \in e.crow - 1 .. Len(e.lines) - 1
        /\ prev_len \in 0 .. Len(e.lines[(e.crow - 1) + 1])
        /\ 0 \in 0 .. Len(e.lines[e.crow + 1])
    BY <1>2, SoundFacts, SMTT(30) DEF RowLen
  <2> HIDE DEF prev_len
  <2>2. Sound(CursorTo([e EXCEPT !.lines =
                          DeleteRange(@, e.crow - 1, prev_len, e.crow, 0)],
                       e.crow - 1, prev_len))
    BY <2>1, RemoveSound
  <2> QED BY <1>2, <2>2 DEF editor_delete_char, prev_len
<1>3. CASE ~(e.ccol > 0) /\ ~(e.crow > 0)
  BY <1>3, ClampSound DEF editor_delete_char
<1> QED
  BY <1>1, <1>2, <1>3

\* So does the deletion of a word.
LEMMA DeleteWordSound ==
  ASSUME NEW e, Sound(e), ~e.sel
  PROVE  Sound(editor_delete_word(e))
<1> DEFINE row == e.lines[e.crow + 1]
           start == WordStart(row, e.ccol)
<1>1. row \in Row /\ Len(row) \in Nat /\ e.ccol \in 0 .. Len(row)
  BY SoundFacts
<1>2. start \in 0 .. Len(row)
  <2> HIDE DEF row
  <2>1. WordStart(row, e.ccol) \in 0 .. e.ccol
    BY <1>1, WordBounds
  <2> QED BY <1>1, <2>1
<1>3. e.crow \in 0 .. Len(e.lines) - 1 /\ e.crow \in e.crow .. Len(e.lines) - 1
  BY SoundFacts
<1> HIDE DEF start
<1>4. Sound(CursorTo([e EXCEPT !.lines =
                        DeleteRange(@, e.crow, start, e.crow, e.ccol)],
                     e.crow, start))
  BY <1>1, <1>2, <1>3, RemoveSound
<1> QED
  BY <1>4 DEF editor_delete_word, start
Unselected(e, r, c) == [e EXCEPT !.sel = FALSE, !.arow = r, !.acol = c]

\* What dropping the selection leaves as it was.
LEMMA UnselectedFields ==
  ASSUME NEW e \in EditorState, NEW r \in Int, NEW c \in Int
  PROVE  LET f == Unselected(e, r, c)
         IN  /\ f \in EditorState /\ ~f.sel
             /\ f.lines = e.lines /\ f.clip = e.clip
             /\ f.crow = e.crow /\ f.ccol = e.ccol
             /\ f.srow = e.srow /\ f.scol = e.scol
BY DEF EditorState, Unselected

\* Dropping the selection keeps the editor sound, its text and clipboard.
LEMMA SelClearSound ==
  ASSUME NEW e, Sound(e)
  PROVE  /\ Sound(editor_sel_clear(e))
         /\ ~editor_sel_clear(e).sel
         /\ editor_sel_clear(e).lines = e.lines
         /\ editor_sel_clear(e).clip = e.clip
<1> DEFINE f == Unselected(e, 0, 0)
<1>1. e \in EditorState
  BY SoundFacts
<1>2. /\ f \in EditorState /\ ~f.sel
      /\ f.lines = e.lines /\ f.clip = e.clip
      /\ f.crow = e.crow /\ f.ccol = e.ccol
      /\ f.srow = e.srow /\ f.scol = e.scol
  BY <1>1, UnselectedFields
<1> HIDE DEF f
<1>3. Sound(f)
  BY <1>2 DEF Sound, Position, Anchor, RowCount, RowLen
<1> QED
  BY <1>2, <1>3 DEF f, editor_sel_clear, Unselected

\* An anchor set at the cursor lies in the text.
LEMMA SelSetAnchorSound ==
  ASSUME NEW e, Sound(e)
  PROVE  Sound(editor_sel_set_anchor(e))
<1> DEFINE f == editor_sel_set_anchor(e)
<1>1. e \in EditorState
  BY SoundFacts
<1>2. /\ f \in EditorState /\ f.lines = e.lines
      /\ f.crow = e.crow /\ f.ccol = e.ccol
      /\ f.arow = e.crow /\ f.acol = e.ccol
      /\ f.srow = e.srow /\ f.scol = e.scol
  BY <1>1 DEF editor_sel_set_anchor, EditorState
<1> HIDE DEF f
<1>3. Sound(f)
  BY <1>2 DEF Sound, Position, Anchor, RowCount, RowLen
<1> QED
  BY <1>3 DEF f

\* The range of a selection is a pair of ordered positions of the text,
\* whichever way it was dragged.
LEMMA SelRange ==
  ASSUME NEW e, Sound(e), e.sel
  PROVE  LET g == editor_sel_get_range(e)
         IN  /\ g.sr \in 0 .. Len(e.lines) - 1
             /\ g.er \in g.sr .. Len(e.lines) - 1
             /\ g.sc \in 0 .. Len(e.lines[g.sr + 1])
             /\ g.ec \in 0 .. Len(e.lines[g.er + 1])
<1>1. /\ e.crow \in 0 .. Len(e.lines) - 1
      /\ e.ccol \in 0 .. Len(e.lines[e.crow + 1])
      /\ Len(e.lines) \in Nat
  BY SoundFacts
<1>2. /\ e.arow \in 0 .. Len(e.lines) - 1
      /\ e.acol \in 0 .. Len(e.lines[e.arow + 1])
  BY DEF Sound, Anchor, Position, RowCount, RowLen
<1>3. CASE e.crow > e.arow \/ (e.crow = e.arow /\ e.ccol >= e.acol)
  <2>1. editor_sel_get_range(e)
          = [sr |-> e.arow, sc |-> e.acol, er |-> e.crow, ec |-> e.ccol]
    BY <1>3 DEF editor_sel_get_range
  <2>2. e.crow \in e.arow .. Len(e.lines) - 1
    BY <1>1, <1>2, <1>3
  <2> QED BY <1>1, <1>2, <2>1, <2>2
<1>4. CASE ~(e.crow > e.arow \/ (e.crow = e.arow /\ e.ccol >= e.acol))
  <2>1. editor_sel_get_range(e)
          = [sr |-> e.crow, sc |-> e.ccol, er |-> e.arow, ec |-> e.acol]
    BY <1>4 DEF editor_sel_get_range
  <2>2. e.arow \in e.crow .. Len(e.lines) - 1
    BY <1>1, <1>2, <1>4
  <2> QED BY <1>1, <1>2, <2>1, <2>2
<1> QED
  BY <1>3, <1>4

\* Deleting the selection leaves the cursor where it began, and no selection.
LEMMA DeleteSelectionSound ==
  ASSUME NEW e, Sound(e)
  PROVE  Sound(editor_delete_selection(e)) /\ ~editor_delete_selection(e).sel
<1>1. CASE ~e.sel
  BY <1>1 DEF editor_delete_selection
<1>2. CASE e.sel
  <2> DEFINE f == editor_sel_clear(e)
             g == editor_sel_get_range(e)
             h == CursorTo([f EXCEPT !.lines = DeleteRange(@, g.sr, g.sc, g.er, g.ec)],
                           g.sr, g.sc)
  <2>1. Sound(f) /\ ~f.sel /\ f.lines = e.lines
    BY SelClearSound
  <2>2. /\ g.sr \in 0 .. Len(e.lines) - 1
        /\ g.er \in g.sr .. Len(e.lines) - 1
        /\ g.sc \in 0 .. Len(e.lines[g.sr + 1])
        /\ g.ec \in 0 .. Len(e.lines[g.er + 1])
    BY <1>2, SelRange
  <2>3. Sound(h) /\ ~h.sel
    <3> HIDE DEF f, g
    <3> QED BY <2>1, <2>2, RemoveSound
  <2>4. editor_delete_selection(e) = h
    BY <1>2 DEF editor_delete_selection
  <2> QED BY <2>3, <2>4
<1> QED
  BY <1>1, <1>2

\* Copying fills the clipboard with rows.
LEMMA CopySelectionSound ==
  ASSUME NEW e, Sound(e)
  PROVE  Sound(editor_copy_selection(e))
<1>1. CASE ~e.sel
  BY <1>1 DEF editor_copy_selection
<1>2. CASE e.sel
  <2> DEFINE g == editor_sel_get_range(e)
             new == Slice(e.lines, g.sr, g.sc, g.er, g.ec)
             f == [e EXCEPT !.clip = new]
  <2>1. e \in EditorState /\ e.lines \in Seq(Row)
    BY SoundFacts
  <2>2. /\ g.sr \in 0 .. Len(e.lines) - 1
        /\ g.er \in g.sr .. Len(e.lines) - 1
        /\ g.sc \in 0 .. Len(e.lines[g.sr + 1])
        /\ g.ec \in 0 .. Len(e.lines[g.er + 1])
    BY <1>2, SelRange
  <2>3. new \in Seq(Row)
    <3> HIDE DEF g
    <3> QED BY <2>1, <2>2, SliceText
  <2>4. editor_copy_selection(e) = f
    BY <1>2 DEF editor_copy_selection
  <2> HIDE DEF new
  <2>5. /\ f \in EditorState /\ f.lines = e.lines
        /\ f.crow = e.crow /\ f.ccol = e.ccol
        /\ f.sel = e.sel /\ f.arow = e.arow /\ f.acol = e.acol
        /\ f.srow = e.srow /\ f.scol = e.scol
    BY <2>1, <2>3 DEF EditorState
  <2> HIDE DEF f
  <2>6. Sound(f)
    BY <2>5 DEF Sound, Position, Anchor, RowCount, RowLen
  <2> QED BY <2>4, <2>6
<1> QED
  BY <1>1, <1>2

\* Pasting leaves the cursor at the end of what was pasted.
LEMMA PasteSound ==
  ASSUME NEW e, Sound(e), ~e.sel
  PROVE  Sound(editor_paste(e))
<1>1. CASE e.clip = NoClip
  BY <1>1 DEF editor_paste
<1>2. CASE e.clip # NoClip
  <2> DEFINE n == Len(e.clip)
             col == Len(e.clip[n]) + (IF n = 1 THEN e.ccol ELSE 0)
             new == Splice(e.lines, e.crow, e.ccol, e.clip)
  <2>1. e.clip \in Seq(Row) /\ e.clip # << >>
    BY <1>2, SoundFacts DEF EditorState, NoClip
  <2>2. /\ new \in Seq(Row) /\ n \in Nat \ {0}
        /\ e.crow + n - 1 \in 0 .. Len(new) - 1
        /\ col \in 0 .. Len(new[e.crow + n])
    BY <2>1, SoundFacts, SpliceText
  <2> HIDE DEF new, n, col
  <2>3. (e.crow + n - 1) + 1 = e.crow + n
    BY <2>2, SoundFacts
  <2>4. Sound(CursorTo([e EXCEPT !.lines = new], e.crow + n - 1, col))
    BY <2>2, <2>3, EditSound
  <2> QED BY <1>2, <2>4 DEF editor_paste, new, n, col
<1> QED
  BY <1>1, <1>2

\* Any amount of scrolling leaves the view on a row of the text.
LEMMA ScrollSound ==
  ASSUME NEW e, Sound(e), NEW drow \in Int
  PROVE  Sound(editor_scroll_by(e, drow))
<1> DEFINE new == IF e.srow + drow < 0 THEN 0 ELSE e.srow + drow
           srow == IF new > RowCount(e) - 1 THEN RowCount(e) - 1 ELSE new
           f == [e EXCEPT !.srow = srow]
<1>1. e \in EditorState /\ e.srow \in Nat /\ Len(e.lines) \in Nat \ {0}
  BY SoundFacts
<1>2. srow \in 0 .. RowCount(e) - 1 /\ srow \in Int
  BY <1>1 DEF RowCount
<1>3. editor_scroll_by(e, drow) = f
  BY DEF editor_scroll_by
<1> HIDE DEF srow
<1>4. /\ f \in EditorState /\ f.lines = e.lines
      /\ f.crow = e.crow /\ f.ccol = e.ccol
      /\ f.sel = e.sel /\ f.arow = e.arow /\ f.acol = e.acol
      /\ f.srow = srow /\ f.scol = e.scol
  BY <1>1, <1>2 DEF EditorState
<1> HIDE DEF f
<1>5. Sound(f)
  BY <1>2, <1>4 DEF Sound, Position, Anchor, RowCount, RowLen
<1> QED
  BY <1>3, <1>5

\* Another size of the window leaves all positions as they are.
LEMMA ViewportSound ==
  ASSUME NEW e, Sound(e), NEW rows \in Nat \ {0}, NEW cols \in Nat \ {0}
  PROVE  Sound(editor_set_viewport(e, rows, cols))
<1> DEFINE f == editor_set_viewport(e, rows, cols)
<1>1. e \in EditorState
  BY SoundFacts
<1>2. /\ f \in EditorState /\ f.lines = e.lines
      /\ f.crow = e.crow /\ f.ccol = e.ccol
      /\ f.sel = e.sel /\ f.arow = e.arow /\ f.acol = e.acol
      /\ f.srow = e.srow /\ f.scol = e.scol
  BY <1>1 DEF EditorState, editor_set_viewport
<1> HIDE DEF f
<1>3. Sound(f)
  BY <1>2 DEF Sound, Position, Anchor, RowCount, RowLen
<1> QED
  BY <1>3 DEF f
Started(e, ls, z, k) ==
  [e EXCEPT !.lines = ls, !.crow = z, !.ccol = z, !.srow = z, !.scol = z, !.clip = k]

\* The fields of an editor set to the start of other rows.
LEMMA StartedFields ==
  ASSUME NEW e \in EditorState, NEW ls \in Seq(Row) \ {<< >>}, NEW z \in Int,
         NEW k \in Seq(Row)
  PROVE  LET f == Started(e, ls, z, k)
         IN  /\ f \in EditorState /\ f.lines = ls /\ f.sel = e.sel
             /\ f.crow = z /\ f.ccol = z /\ f.srow = z /\ f.scol = z
BY DEF EditorState, Started

\* The fields of an editor given other rows.
LEMMA RelinedFields ==
  ASSUME NEW e \in EditorState, NEW ls \in Seq(Row) \ {<< >>}
  PROVE  LET f == [e EXCEPT !.lines = ls]
         IN  /\ f \in EditorState /\ f.lines = ls /\ f.sel = e.sel
             /\ f.crow = e.crow /\ f.ccol = e.ccol
             /\ f.srow = e.srow /\ f.scol = e.scol
BY DEF EditorState

\* An editor without selection whose cursor and view are at the start.
LEMMA AtStartSound ==
  ASSUME NEW e \in EditorState, ~e.sel,
         e.crow = 0, e.ccol = 0, e.srow = 0, e.scol = 0
  PROVE  Sound(e)
<1>1. e.lines \in Seq(Row) /\ e.lines # << >>
  BY DEF EditorState
<1>2. Len(e.lines) \in Nat \ {0}
  BY <1>1, EmptySeq
<1>3. 1 \in 1 .. Len(e.lines)
  BY <1>2
<1>4. e.lines[1] \in Row
  BY <1>1, <1>3, ElementOfSeq
<1>5. Len(e.lines[1]) \in Nat
  BY <1>4, LenProperties DEF Row
<1> QED
  BY <1>2, <1>5 DEF Sound, Position, Anchor, RowCount, RowLen

\* Opening a file never leaves the text without rows: the empty row that
\* editor_load_finalize removes is not the only one.
LEMMA LoadedSound ==
  ASSUME NEW e, Sound(e), NEW file \in Seq(Row)
  PROVE  Sound(Loaded(e, file))
<1> DEFINE c == editor_sel_clear(e)
           empty == << << >> >>
           i == Started(c, empty, 0, NoClip)
           ls == file \o empty
           g == [i EXCEPT !.lines = ls]
           f == editor_load_finalize(g)
<1>1. c \in EditorState /\ ~c.sel
  BY SelClearSound DEF Sound
<1>2. empty \in Seq(Row) \ {<< >>} /\ Len(empty) = 1 /\ NoClip \in Seq(Row)
  BY EmptySeq DEF Row, NoClip
<1> HIDE DEF c
<1>3. i = editor_init(e)
  BY DEF editor_init, Started, c
<1>4. /\ i \in EditorState /\ ~i.sel
      /\ i.crow = 0 /\ i.ccol = 0 /\ i.srow = 0 /\ i.scol = 0
  <2> HIDE DEF empty
  <2> QED BY <1>1, <1>2, StartedFields
<1> HIDE DEF i
<1>5. ls \in Seq(Row) \ {<< >>} /\ Len(ls) \in Nat
  <2> HIDE DEF empty
  <2>1. ls \in Seq(Row) /\ Len(ls) = Len(file) + 1 /\ Len(file) \in Nat
    BY <1>2, ConcatProperties, LenProperties
  <2> HIDE DEF ls
  <2> QED BY <2>1, EmptySeq
<1> HIDE DEF ls
<1>6. /\ g \in EditorState /\ ~g.sel /\ g.lines = ls
      /\ g.crow = 0 /\ g.ccol = 0 /\ g.srow = 0 /\ g.scol = 0
  BY <1>4, <1>5, RelinedFields
<1> HIDE DEF g
<1>7. Sound(f)
  <2>1. CASE RowCount(g) > 1 /\ RowLen(g, RowCount(g) - 1) = 0
    <3> DEFINE short == SubSeq(ls, 1, Len(ls) - 1)
    <3>1. Len(ls) > 1
      BY <1>6, <2>1 DEF RowCount
    <3>2. \A k \in 1 .. Len(ls) - 1 : ls[k] \in Row
      BY <1>5, <3>1, ElementOfSeq
    <3>3. short \in Seq(Row) /\ Len(short) = Len(ls) - 1
      BY <1>5, <3>1, <3>2, SubSeqProperties
    <3> HIDE DEF short
    <3>4. short # << >>
      <4>1. Len(short) # 0
        BY <1>5, <3>1, <3>3
      <4> QED BY <4>1, EmptySeq
    <3>5. f = [g EXCEPT !.lines = short]
      BY <1>6, <2>1 DEF editor_load_finalize, short
    <3>6. /\ f \in EditorState /\ ~f.sel
          /\ f.crow = 0 /\ f.ccol = 0 /\ f.srow = 0 /\ f.scol = 0
      <4> HIDE DEF f
      <4> QED BY <1>6, <3>3, <3>4, <3>5, RelinedFields
    <3> QED BY <3>6, AtStartSound
  <2>2. CASE ~(RowCount(g) > 1 /\ RowLen(g, RowCount(g) - 1) = 0)
    <3>1. f = g
      BY <2>2 DEF editor_load_finalize
    <3> QED BY <1>6, <3>1, AtStartSound
  <2> QED BY <2>1, <2>2
<1> QED
  BY <1>3, <1>7 DEF Loaded, f, g, ls

-----------------------------------------------------------------------------
(* The commands                                                            *)

\* What shift, or its absence, does before a motion keeps the editor sound.
LEMMA AnchoredSound ==
  ASSUME Sound(ed), NEW shift \in BOOLEAN
  PROVE  Sound(Anchored(shift))
BY SelClearSound, SelSetAnchorSound DEF Anchored

\* So does what an event that is not a hold does first.
LEMMA ReleasedSound ==
  ASSUME Sound(ed), NEW holding \in BOOLEAN
  PROVE  Sound(Released(holding))
BY SelClearSound DEF Released

\* A cell of the text area maps to a pair of integers; editor_set_cursor clamps
\* them again.
LEMMA CellPosition ==
  ASSUME Sound(ed), NEW dy \in Int, NEW dx \in Int
  PROVE  /\ scene_px_to_text(dy, dx).row \in Int
         /\ scene_px_to_text(dy, dx).col \in Int
<1> DEFINE row == Clamp(ed.srow + dy, 0, RowCount(ed) - 1)
<1>1. /\ ed.srow \in Int /\ ed.scol \in Int
      /\ Len(ed.lines) \in Nat \ {0}
  BY SoundFacts
<1>2. row \in 0 .. Len(ed.lines) - 1
  BY <1>1 DEF Clamp, RowCount
<1> HIDE DEF row
<1>3. RowLen(ed, row) \in Int
  BY <1>2, SoundFacts DEF RowLen
<1>4. Clamp(ed.scol + dx, 0, RowLen(ed, row)) \in Int /\ row \in Int
  BY <1>1, <1>2, <1>3 DEF Clamp
<1> QED
  BY <1>4 DEF scene_px_to_text, row

\* The cell under the pointer maps to a pair of integers.
LEMMA CellTarget ==
  ASSUME Sound(ed), NEW cell \in Cells
  PROVE  /\ scene_px_to_text(cell[1], cell[2]).row \in Int
         /\ scene_px_to_text(cell[1], cell[2]).col \in Int
<1>1. ed \in EditorState
  BY DEF Sound
<1>2. ed.vrows \in Nat /\ ed.vcols \in Nat
  BY <1>1 DEF EditorState
<1>3. cell[1] \in 0 .. ed.vrows /\ cell[2] \in 0 .. ed.vcols
  BY DEF Cells
<1>4. cell[1] \in Int /\ cell[2] \in Int
  BY <1>2, <1>3
<1> QED
  BY <1>4, CellPosition

\* editor_init and the first layout.
LEMMA InitSound ==
  ASSUME Init
  PROVE  Sound(ed)
<1>1. PICK v \in Viewports :
        ed = [lines |-> << << >> >>, crow |-> 0, ccol |-> 0, srow |-> 0, scol |-> 0,
              vrows |-> v[1], vcols |-> v[2], sel |-> FALSE, arow |-> 0, acol |-> 0,
              rrow |-> -1, rcol |-> -1, clip |-> NoClip]
  BY DEF Init
<1>2. v[1] \in Nat \ {0} /\ v[2] \in Nat \ {0}
  BY ViewportAssumption
<1>3. << << >> >> \in Seq(Row) \ {<< >>} /\ NoClip \in Seq(Row)
  BY EmptySeq DEF Row, NoClip
<1>4. /\ ed \in EditorState /\ ~ed.sel
      /\ ed.crow = 0 /\ ed.ccol = 0 /\ ed.srow = 0 /\ ed.scol = 0
  BY <1>1, <1>2, <1>3 DEF EditorState
<1> QED
  BY <1>4, AtStartSound

\* One step per action: each is a composition of functions shown sound above.
LEMMA NextSound ==
  ASSUME Sound(ed), [Next]_vars
  PROVE  Sound(ed')
<1> DEFINE d == editor_delete_selection(ed)
<1>0. Sound(d) /\ ~d.sel
  BY DeleteSelectionSound
<1>1. ASSUME NEW c \in Char, TypeChar(c)
      PROVE  Sound(ed')
  BY <1>0, <1>1, InsertCharSound DEF TypeChar, Becomes
<1>2. CASE Enter
  BY <1>0, <1>2, InsertCharSound DEF Enter, Becomes
<1>3. CASE Backspace
  BY <1>0, <1>3, DeleteCharSound DEF Backspace, Becomes
<1>4. CASE CtrlBackspace
  BY <1>0, <1>4, DeleteCharSound, DeleteWordSound DEF CtrlBackspace, Becomes
<1>5. ASSUME NEW shift \in BOOLEAN, Arrows(shift)
      PROVE  Sound(ed')
  <2> DEFINE e == Anchored(shift)
  <2>1. Sound(e)
    BY AnchoredSound
  <2> HIDE DEF e
  <2>2. /\ Sound(editor_move_left(e)) /\ Sound(editor_move_right(e))
        /\ Sound(editor_move_up(e)) /\ Sound(editor_move_down(e))
        /\ Sound(editor_move_home(e)) /\ Sound(editor_move_end(e))
        /\ Sound(editor_move_word_left(e)) /\ Sound(editor_move_word_right(e))
    BY <2>1, MoveLeftSound, MoveRightSound, MoveVerticalSound, MoveInRowSound
  <2> QED
    BY <1>5, <2>2
    DEF Arrows, ArrowLeft, ArrowRight, ArrowUp, ArrowDown, Home, End, WordLeft,
        WordRight, Becomes, e
<1>6. CASE Copy
  BY <1>6, CopySelectionSound DEF Copy, Becomes
<1>7. CASE Cut
  BY <1>7, CopySelectionSound, DeleteSelectionSound DEF Cut, Becomes
<1>8. CASE Paste
  BY <1>0, <1>8, PasteSound DEF Paste, Becomes
<1>9. ASSUME NEW file \in Files, Open(file)
      PROVE  Sound(ed')
  BY <1>9, FilesAssumption, LoadedSound DEF Open, Becomes
<1>10. ASSUME NEW cell \in Cells, Click(cell[1], cell[2])
       PROVE  Sound(ed')
  <2> DEFINE p == scene_px_to_text(cell[1], cell[2])
             e == editor_set_cursor(editor_sel_clear(ed), p.row, p.col)
  <2>1. p.row \in Int /\ p.col \in Int
    BY CellTarget DEF p
  <2> HIDE DEF p
  <2>2. Sound(e)
    BY <2>1, SelClearSound, SetCursorSound
  <2> HIDE DEF e
  <2>3. Sound(editor_sel_set_anchor(e))
    BY <2>2, SelSetAnchorSound
  <2> QED BY <1>10, <2>3 DEF Click, Becomes, e, p
<1>11. ASSUME NEW cell \in Cells, Drag(cell[1], cell[2])
       PROVE  Sound(ed')
  <2> DEFINE p == scene_px_to_text(cell[1], cell[2])
  <2>1. p.row \in Int /\ p.col \in Int
    BY CellTarget DEF p
  <2> HIDE DEF p
  <2>2. Sound(editor_set_cursor(ed, p.row, p.col))
    BY <2>1, SetCursorSound
  <2> QED BY <1>11, <2>2 DEF Drag, Becomes, p
<1>12. ASSUME NEW z \in WheelSteps, NEW holding \in BOOLEAN, Wheel(z, holding)
       PROVE  Sound(ed')
  <2>1. z * SCROLL_SPEED_MULTIPLIER \in Int
    BY WheelAssumption DEF SCROLL_SPEED_MULTIPLIER
  <2>2. Sound(editor_scroll_by(Released(holding), z * SCROLL_SPEED_MULTIPLIER))
    BY <2>1, ReleasedSound, ScrollSound
  <2> QED BY <1>12, <2>2 DEF Wheel, Becomes
<1>13. ASSUME NEW target \in 0 .. MaxScroll, NEW holding \in BOOLEAN,
              ScrollbarClick(target, holding)
       PROVE  Sound(ed')
  <2>1. target - ed.srow \in Int
    BY SoundFacts
  <2>2. Sound(editor_scroll_by(Released(holding), target - ed.srow))
    BY <2>1, ReleasedSound, ScrollSound
  <2> QED BY <1>13, <2>2 DEF ScrollbarClick, Becomes
<1>14. CASE ClickElsewhere
  BY <1>14, SelClearSound DEF ClickElsewhere, Becomes
<1>15. ASSUME NEW v \in Viewports, Relayout(v)
       PROVE  Sound(ed')
  <2>1. v[1] \in Nat \ {0} /\ v[2] \in Nat \ {0}
    BY ViewportAssumption
  <2> QED BY <1>15, <2>1, ViewportSound DEF Relayout, Becomes
<1>16. CASE UNCHANGED vars
  BY <1>16 DEF vars
<1> QED
  BY <1>1, <1>2, <1>3, <1>4, <1>5, <1>6, <1>7, <1>8, <1>9, <1>10, <1>11, <1>12,
     <1>13, <1>14, <1>15, <1>16
  DEF Next

\* Whatever the user does, the editor stays sound.
THEOREM SoundAlways == Spec => []Sound(ed)
<1>1. Init => Sound(ed)
  BY InitSound
<1>2. Sound(ed) /\ [Next]_vars => Sound(ed)'
  <2>1. ASSUME Sound(ed), [Next]_vars
        PROVE  Sound(ed')
    BY <2>1, NextSound
  <2>2. Sound(ed)' <=> Sound(ed')
    BY DEF Sound, Position, Anchor, RowCount, RowLen
  <2> QED BY <2>1, <2>2
<1> QED
  BY <1>1, <1>2, PTL DEF Spec

\* The buffers of editor.c are indexed inside their bounds: rows are never
\* exhausted, the cursor and an active anchor are positions of the text, the
\* view starts on a row.
THEOREM EditorSafety ==
  Spec => [](TypeOK /\ CursorInText /\ AnchorInText /\ ScrollInText)
<1>1. Sound(ed) => TypeOK /\ CursorInText /\ AnchorInText /\ ScrollInText
  BY DEF Sound, Anchor, TypeOK, CursorInText, AnchorInText, ScrollInText
<1> QED
  BY <1>1, SoundAlways, PTL

-----------------------------------------------------------------------------
(* What a step may do.  Both theorems of this part follow from where a     *)
(* function of editor.c ends: in clamp_scroll, or where it began.          *)

\* f keeps the text and the cursor of e.
SameText(e, f) == f.lines = e.lines /\ f.crow = e.crow /\ f.ccol = e.ccol

\* f shows its cursor, or left it and the text where they were in e.
Shows(e, f) == SameText(e, f) \/ CursorVisible(f)

\* f keeps the text of e, or has no selection.
Ends(e, f) == f.lines = e.lines \/ ~f.sel

\* The two ways a function of editor.c ends when it does more than return: the
\* cursor assigned and clamped, in the text it had or in another one.
Moved(e, f)  == \E r, c : f = CursorTo(e, r, c)
Edited(e, f) == \E ls, r, c : f = CursorTo([e EXCEPT !.lines = ls], r, c)

-----------------------------------------------------------------------------
(* The window follows the cursor                                           *)

\* The window around a position that was clamped into it.
LEMMA ClampAxisShows ==
  ASSUME NEW pos \in Int, NEW offset \in Int, NEW size \in Nat \ {0}
  PROVE  LET o == ClampAxis(pos, offset, size)
         IN  o \in Int /\ pos \in o .. o + size - 1
BY DEF ClampAxis

\* Whatever the text became, the assigned cursor is in the clamped window.
LEMMA CursorToShows ==
  ASSUME NEW e \in EditorState, NEW ls, NEW r, NEW c,
         CursorTo([e EXCEPT !.lines = ls], r, c) \in EditorState
  PROVE  LET f == CursorTo([e EXCEPT !.lines = ls], r, c)
         IN  CursorVisible(f) /\ f.lines = ls /\ f.sel = e.sel
<1> DEFINE f == CursorTo([e EXCEPT !.lines = ls], r, c)
           srow == ClampAxis(r, e.srow, e.vrows)
           scol == ClampAxis(c, e.scol, e.vcols)
<1> HIDE DEF srow, scol
<1>1. f = [e EXCEPT !.lines = ls, !.crow = r, !.ccol = c, !.srow = srow, !.scol = scol]
  BY DEF CursorTo, clamp_scroll, EditorState, srow, scol
<1>2. /\ f.lines = ls /\ f.sel = e.sel
      /\ f.crow = r /\ f.ccol = c /\ f.srow = srow /\ f.scol = scol
      /\ f.vrows = e.vrows /\ f.vcols = e.vcols
  BY <1>1 DEF EditorState
<1>3. f \in EditorState
  OBVIOUS
<1> HIDE DEF f
<1>4. r \in Int /\ c \in Int
  BY <1>2, <1>3 DEF EditorState
<1>5. /\ e.srow \in Int /\ e.scol \in Int
      /\ e.vrows \in Nat \ {0} /\ e.vcols \in Nat \ {0}
  BY DEF EditorState
<1>6. r \in srow .. srow + e.vrows - 1 /\ c \in scol .. scol + e.vcols - 1
  BY <1>4, <1>5, ClampAxisShows DEF srow, scol
<1>7. CursorVisible(f)
  BY <1>2, <1>6 DEF CursorVisible
<1> QED
  BY <1>2, <1>7 DEF f

\* A function that ends with an edit ends with the cursor in the window.
LEMMA EditedShows ==
  ASSUME NEW e, Sound(e), NEW f, Sound(f), Edited(e, f)
  PROVE  CursorVisible(f) /\ f.sel = e.sel
<1>1. PICK ls, r, c : f = CursorTo([e EXCEPT !.lines = ls], r, c)
  BY DEF Edited
<1>2. e \in EditorState /\ f \in EditorState
  BY SoundFacts
<1> QED
  BY <1>1, <1>2, CursorToShows

\* So does one that ends with a motion, in the same text.
LEMMA MovedShows ==
  ASSUME NEW e, Sound(e), NEW f, Sound(f), Moved(e, f)
  PROVE  CursorVisible(f) /\ f.lines = e.lines /\ f.sel = e.sel
<1>1. PICK r, c : f = CursorTo(e, r, c)
  BY DEF Moved
<1>2. e \in EditorState /\ f \in EditorState
  BY SoundFacts
<1>3. [e EXCEPT !.lines = e.lines] = e
  BY <1>2 DEF EditorState
<1>4. f = CursorTo([e EXCEPT !.lines = e.lines], r, c)
  BY <1>1, <1>3
<1> QED
  BY <1>2, <1>4, CursorToShows

\* A function that ends in clamp_scroll alone moves the cursor to itself.
LEMMA ClampMoved ==
  ASSUME NEW e, Sound(e)
  PROVE  Moved(e, clamp_scroll(e))
<1>1. e \in EditorState
  BY SoundFacts
<1>2. [e EXCEPT !.crow = e.crow, !.ccol = e.ccol] = e
  BY <1>1 DEF EditorState
<1>3. clamp_scroll(e) = CursorTo(e, e.crow, e.ccol)
  BY <1>2, Zenon DEF CursorTo
<1> QED
  BY <1>3, Zenon DEF Moved

-----------------------------------------------------------------------------
(* The functions of editor.c                                               *)

\* A motion either moves the cursor or, where the peer is in the way, does
\* nothing; the text is never touched.
LEMMA MotionEnds ==
  ASSUME NEW e, Sound(e)
  PROVE  /\ Moved(e, editor_move_left(e)) /\ Moved(e, editor_move_right(e))
         /\ editor_move_up(e) = e \/ Moved(e, editor_move_up(e))
         /\ editor_move_down(e) = e \/ Moved(e, editor_move_down(e))
         /\ Moved(e, editor_move_word_left(e)) /\ Moved(e, editor_move_word_right(e))
         /\ Moved(e, editor_move_home(e)) /\ Moved(e, editor_move_end(e))
<1>1. \A r, c : Moved(e, CursorTo(e, r, c))
  BY Zenon DEF Moved
<1>2. Moved(e, clamp_scroll(e))
  BY ClampMoved
<1>3. \A r : Moved(e, ToRow(e, r))
  BY <1>1, Zenon DEF ToRow
<1>4. Moved(e, editor_move_left(e)) /\ Moved(e, editor_move_right(e))
  BY <1>1, <1>2, Zenon DEF editor_move_left, editor_move_right
<1>5. editor_move_up(e) = e \/ Moved(e, editor_move_up(e))
  BY <1>2, <1>3, Zenon DEF editor_move_up
<1>6. editor_move_down(e) = e \/ Moved(e, editor_move_down(e))
  BY <1>2, <1>3, Zenon DEF editor_move_down
<1> QED
  BY <1>1, <1>4, <1>5, <1>6, Zenon
  DEF editor_move_word_left, editor_move_word_right, editor_move_home, editor_move_end

\* editor_set_cursor returns at once or ends with a motion.
LEMMA SetCursorEnds ==
  ASSUME NEW e, NEW row, NEW col
  PROVE  \/ editor_set_cursor(e, row, col) = e
         \/ Moved(e, editor_set_cursor(e, row, col))
BY Zenon DEF editor_set_cursor, Moved

\* editor_insert_char ends with an edit.
LEMMA InsertCharEnds ==
  ASSUME NEW e, NEW c
  PROVE  Edited(e, editor_insert_char(e, c))
BY Zenon DEF editor_insert_char, Edited

\* editor_delete_char ends with an edit, or at the start of the text with none.
LEMMA DeleteCharEnds ==
  ASSUME NEW e, Sound(e)
  PROVE  Moved(e, editor_delete_char(e)) \/ Edited(e, editor_delete_char(e))
<1>1. Moved(e, clamp_scroll(e))
  BY ClampMoved
<1> QED
  BY <1>1, Zenon DEF editor_delete_char, Edited

\* editor_delete_word returns at once or ends with an edit.
LEMMA DeleteWordEnds ==
  ASSUME NEW e
  PROVE  editor_delete_word(e) = e \/ Edited(e, editor_delete_word(e))
BY Zenon DEF editor_delete_word, Edited

\* editor_paste returns at once or ends with an edit.
LEMMA PasteEnds ==
  ASSUME NEW e
  PROVE  editor_paste(e) = e \/ Edited(e, editor_paste(e))
BY Zenon DEF editor_paste, Edited

\* A deleted selection is cleared before the text changes.
LEMMA DeleteSelectionEnds ==
  ASSUME NEW e
  PROVE  IF e.sel THEN Edited(editor_sel_clear(e), editor_delete_selection(e))
         ELSE editor_delete_selection(e) = e
BY Zenon DEF editor_delete_selection, Edited

\* Neither the selection nor the clipboard, the window nor its size is text.
LEMMA SelectionKeepsText ==
  ASSUME NEW e \in EditorState
  PROVE  /\ SameText(e, editor_sel_clear(e))
         /\ SameText(e, editor_copy_selection(e))
         /\ LET f == editor_sel_set_anchor(e)
            IN  SameText(e, f) /\ (CursorVisible(e) => CursorVisible(f))
<1>1. SameText(e, editor_sel_clear(e))
  BY DEF SameText, editor_sel_clear, EditorState
<1>2. SameText(e, editor_copy_selection(e))
  <2>1. \A k : SameText(e, [e EXCEPT !.clip = k])
    BY DEF SameText, EditorState
  <2>2. SameText(e, e)
    BY DEF SameText
  <2> QED BY <2>1, <2>2, Zenon DEF editor_copy_selection
<1>3. LET f == editor_sel_set_anchor(e)
      IN  SameText(e, f) /\ (CursorVisible(e) => CursorVisible(f))
  BY DEF SameText, CursorVisible, editor_sel_set_anchor, EditorState
<1> QED
  BY <1>1, <1>2, <1>3

\* Scrolling and resizing keep the text and the cursor.
LEMMA ViewKeepsText ==
  ASSUME NEW e \in EditorState, NEW drow, NEW rows, NEW cols
  PROVE  /\ SameText(e, editor_scroll_by(e, drow))
         /\ SameText(e, editor_set_viewport(e, rows, cols))
<1>1. \A s : SameText(e, [e EXCEPT !.srow = s])
  BY DEF SameText, EditorState
<1>2. SameText(e, editor_scroll_by(e, drow))
  BY <1>1, Zenon DEF editor_scroll_by
<1>3. SameText(e, editor_set_viewport(e, rows, cols))
  BY DEF SameText, editor_set_viewport, EditorState
<1> QED
  BY <1>2, <1>3

\* A file is opened at its start, with nothing selected.
LEMMA LoadedShows ==
  ASSUME NEW e \in EditorState, NEW file
  PROVE  CursorVisible(Loaded(e, file)) /\ ~Loaded(e, file).sel
<1> DEFINE At(f) == /\ f.crow = 0 /\ f.ccol = 0 /\ f.srow = 0 /\ f.scol = 0
                    /\ f.vrows = e.vrows /\ f.vcols = e.vcols /\ ~f.sel
           Other(ls) == [e EXCEPT !.sel = FALSE, !.arow = 0, !.acol = 0, !.lines = ls,
                                  !.crow = 0, !.ccol = 0, !.srow = 0, !.scol = 0,
                                  !.clip = NoClip]
           g == [editor_init(e) EXCEPT !.lines = file \o << << >> >>]
<1>1. \A ls : At(Other(ls))
  BY DEF EditorState
<1>2. \A ls : [editor_init(e) EXCEPT !.lines = ls] = Other(ls)
  BY DEF editor_init, editor_sel_clear, EditorState
<1>3. \A ls, ms : [Other(ls) EXCEPT !.lines = ms] = Other(ms)
  BY DEF EditorState
<1> HIDE DEF Other
<1>4. \E ls : Loaded(e, file) = Other(ls)
  <2>1. g = Other(file \o << << >> >>)
    BY <1>2
  <2>2. Loaded(e, file) = editor_load_finalize(g)
    BY Zenon DEF Loaded
  <2> HIDE DEF g
  <2>3. \/ Loaded(e, file) = g
        \/ Loaded(e, file) = [g EXCEPT !.lines = SubSeq(@, 1, Len(@) - 1)]
    BY <2>2, Zenon DEF editor_load_finalize
  <2> QED BY <1>3, <2>1, <2>3
<1>5. At(Loaded(e, file))
  BY <1>1, <1>4
<1>6. e.vrows \in Nat \ {0} /\ e.vcols \in Nat \ {0}
  BY DEF EditorState
<1> QED
  BY <1>5, <1>6 DEF CursorVisible

-----------------------------------------------------------------------------
(* The commands                                                            *)

\* What a command may do to the editor: both of the above.
Kept(e, f) == Shows(e, f) /\ Ends(e, f)

\* The cursor shown and nothing selected.
Fresh(f) == CursorVisible(f) /\ ~f.sel

\* A fresh result is allowed whatever the editor was before.
LEMMA FreshKept ==
  ASSUME NEW e, NEW f, Fresh(f) \/ SameText(e, f)
  PROVE  Kept(e, f)
BY DEF Kept, Shows, Ends, Fresh, SameText

\* An edit of an editor without a selection changes nothing or ends fresh.
LEMMA EditFresh ==
  ASSUME NEW e, Sound(e), ~e.sel, NEW f, Sound(f),
         f = e \/ Moved(e, f) \/ Edited(e, f)
  PROVE  f = e \/ Fresh(f)
BY EditedShows, MovedShows DEF Fresh

\* Deleting the selection leaves nothing selected.
LEMMA SelectionDeleted ==
  ASSUME NEW e, Sound(e)
  PROVE  LET d == editor_delete_selection(e)
         IN  Sound(d) /\ ~d.sel /\ ((d = e /\ ~e.sel) \/ Fresh(d))
<1> DEFINE d == editor_delete_selection(e)
           s == editor_sel_clear(e)
<1>1. Sound(d) /\ ~d.sel /\ Sound(s)
  BY DeleteSelectionSound, SelClearSound
<1>2. IF e.sel THEN Edited(s, d) ELSE d = e
  BY DeleteSelectionEnds
<1> HIDE DEF d, s
<1>3. e.sel => Fresh(d)
  BY <1>1, <1>2, EditedShows DEF Fresh
<1>4. ~e.sel => d = e
  BY <1>2
<1> QED
  BY <1>1, <1>3, <1>4 DEF d

\* A motion after the selection was started, kept or dropped.
LEMMA ArrowKept ==
  ASSUME Sound(ed), NEW shift \in BOOLEAN, NEW f, Sound(f),
         f = Anchored(shift) \/ Moved(Anchored(shift), f)
  PROVE  Kept(ed, f)
<1> DEFINE e == Anchored(shift)
<1>1. Sound(e)
  BY AnchoredSound
<1>2. SameText(ed, e)
  <2>1. ed \in EditorState
    BY SoundFacts
  <2>2. SameText(ed, ed)
    BY DEF SameText
  <2> QED BY <2>1, <2>2, SelectionKeepsText DEF Anchored
<1> HIDE DEF e
<1>3. CASE f = e
  BY <1>2, <1>3, FreshKept
<1>4. CASE Moved(e, f)
  BY <1>1, <1>2, <1>4, MovedShows DEF Kept, Shows, Ends, SameText
<1> QED
  BY <1>3, <1>4 DEF e

\* Scrolling, after an event that may drop the selection.
LEMMA ScrollKept ==
  ASSUME Sound(ed), NEW holding \in BOOLEAN, NEW drow
  PROVE  Kept(ed, editor_scroll_by(Released(holding), drow))
<1> DEFINE e == Released(holding)
<1>1. e \in EditorState
  BY ReleasedSound, SoundFacts
<1>2. SameText(ed, e)
  <2>1. ed \in EditorState
    BY SoundFacts
  <2>2. SameText(ed, ed)
    BY DEF SameText
  <2> QED BY <2>1, <2>2, SelectionKeepsText DEF Released
<1> HIDE DEF e
<1>3. SameText(e, editor_scroll_by(e, drow))
  BY <1>1, ViewKeepsText
<1>4. SameText(ed, editor_scroll_by(e, drow))
  BY <1>2, <1>3 DEF SameText
<1> QED
  BY <1>4, FreshKept DEF e

\* One case for each command.
LEMMA NextKept ==
  ASSUME Sound(ed), [Next]_vars
  PROVE  Kept(ed, ed')
<1> DEFINE d == editor_delete_selection(ed)
<1>0. /\ Sound(d) /\ ~d.sel /\ ((d = ed /\ ~ed.sel) \/ Fresh(d))
      /\ ed \in EditorState
  BY SelectionDeleted, SoundFacts
<1> HIDE DEF d
<1>a. SameText(ed, ed)
  BY DEF SameText
<1>b. ASSUME NEW f, Sound(f), f = d \/ Moved(d, f) \/ Edited(d, f)
      PROVE  Kept(ed, f)
  <2>1. f = d \/ Fresh(f)
    BY <1>0, <1>b, EditFresh
  <2> QED BY <1>0, <1>a, <2>1, FreshKept
<1>1. ASSUME NEW c \in Char, TypeChar(c)
      PROVE  Kept(ed, ed')
  BY <1>0, <1>1, <1>b, InsertCharSound, InsertCharEnds DEF TypeChar, Becomes, d
<1>2. CASE Enter
  BY <1>0, <1>2, <1>b, InsertCharSound, InsertCharEnds DEF Enter, Becomes, d
<1>3. CASE Backspace
  <2>1. CASE ed.sel
    <3>1. ed' = d
      BY <1>3, <2>1 DEF Backspace, Becomes, d
    <3> QED BY <1>0, <1>b, <3>1
  <2>2. CASE ~ed.sel
    <3>1. d = ed
      BY <2>2 DEF editor_delete_selection, d
    <3>2. ed' = editor_delete_char(ed)
      BY <1>3, <2>2 DEF Backspace, Becomes
    <3>3. Sound(ed') /\ (Moved(ed, ed') \/ Edited(ed, ed'))
      BY <2>2, <3>2, DeleteCharSound, DeleteCharEnds
    <3> QED BY <1>b, <3>1, <3>3
  <2> QED BY <2>1, <2>2
<1>4. CASE CtrlBackspace
  <2>1. CASE ed.sel
    <3>1. ed' = d
      BY <1>4, <2>1 DEF CtrlBackspace, Becomes, d
    <3> QED BY <1>0, <1>b, <3>1
  <2>2. CASE ~ed.sel
    <3>1. d = ed
      BY <2>2 DEF editor_delete_selection, d
    <3>2. ed' = editor_delete_char(ed) \/ ed' = editor_delete_word(ed)
      BY <1>4, <2>2 DEF CtrlBackspace, Becomes
    <3>3. Sound(ed') /\ (ed' = ed \/ Moved(ed, ed') \/ Edited(ed, ed'))
      BY <2>2, <3>2, DeleteCharSound, DeleteCharEnds, DeleteWordSound, DeleteWordEnds
    <3> QED BY <1>b, <3>1, <3>3
  <2> QED BY <2>1, <2>2
<1>5. ASSUME NEW shift \in BOOLEAN, Arrows(shift)
      PROVE  Kept(ed, ed')
  <2> DEFINE e == Anchored(shift)
  <2>1. Sound(e)
    BY AnchoredSound
  <2>2. Sound(ed')
    BY <1>5, NextSound
  <2>3. ed' = e \/ Moved(e, ed')
    <3> HIDE DEF e
    <3>1. \/ ed' = editor_move_left(e) \/ ed' = editor_move_right(e)
          \/ ed' = editor_move_up(e) \/ ed' = editor_move_down(e)
          \/ ed' = editor_move_home(e) \/ ed' = editor_move_end(e)
          \/ ed' = editor_move_word_left(e) \/ ed' = editor_move_word_right(e)
      BY <1>5
      DEF Arrows, ArrowLeft, ArrowRight, ArrowUp, ArrowDown, Home, End, WordLeft,
          WordRight, Becomes, e
    <3> QED BY <2>1, <3>1, MotionEnds
  <2> QED BY <2>2, <2>3, ArrowKept
<1>6. CASE Copy
  BY <1>0, <1>6, SelectionKeepsText, FreshKept DEF Copy, Becomes
<1>7. CASE Cut
  <2> DEFINE k == editor_copy_selection(ed)
  <2>1. Sound(k) /\ SameText(ed, k)
    BY <1>0, CopySelectionSound, SelectionKeepsText
  <2>2. ed' = editor_delete_selection(k)
    BY <1>7 DEF Cut, Becomes
  <2> HIDE DEF k
  <2>3. ed' = k \/ Fresh(ed')
    BY <2>1, <2>2, SelectionDeleted
  <2> QED BY <2>1, <2>3, FreshKept
<1>8. CASE Paste
  BY <1>0, <1>8, <1>b, PasteSound, PasteEnds DEF Paste, Becomes, d
<1>9. ASSUME NEW file \in Files, Open(file)
      PROVE  Kept(ed, ed')
  BY <1>0, <1>9, LoadedShows, FreshKept DEF Open, Becomes, Fresh
<1>10. ASSUME NEW cell \in Cells, Click(cell[1], cell[2])
       PROVE  Kept(ed, ed')
  <2> DEFINE p == scene_px_to_text(cell[1], cell[2])
             s == editor_sel_clear(ed)
             e == editor_set_cursor(s, p.row, p.col)
  <2>1. p.row \in Int /\ p.col \in Int
    BY CellTarget DEF p
  <2>2. Sound(s) /\ SameText(ed, s)
    BY <1>0, SelClearSound, SelectionKeepsText
  <2> HIDE DEF p, s
  <2>3. Sound(e) /\ (e = s \/ Moved(s, e))
    BY <2>1, <2>2, SetCursorSound, SetCursorEnds
  <2>4. ed' = editor_sel_set_anchor(e)
    BY <1>10 DEF Click, Becomes, p, s
  <2> HIDE DEF e
  <2>5. SameText(e, ed') /\ (CursorVisible(e) => CursorVisible(ed'))
    BY <2>3, <2>4, SelectionKeepsText, SoundFacts
  <2>6. e = s \/ (CursorVisible(e) /\ e.lines = s.lines)
    BY <2>2, <2>3, MovedShows
  <2> QED BY <2>2, <2>5, <2>6 DEF Kept, Shows, Ends, SameText
<1>11. ASSUME NEW cell \in Cells, Drag(cell[1], cell[2])
       PROVE  Kept(ed, ed')
  <2> DEFINE p == scene_px_to_text(cell[1], cell[2])
  <2>1. p.row \in Int /\ p.col \in Int
    BY CellTarget DEF p
  <2>2. ed' = editor_set_cursor(ed, p.row, p.col)
    BY <1>11 DEF Drag, Becomes
  <2> HIDE DEF p
  <2>3. Sound(ed') /\ (ed' = ed \/ Moved(ed, ed'))
    BY <2>1, <2>2, SetCursorSound, SetCursorEnds
  <2>4. ed' = ed \/ (CursorVisible(ed') /\ ed'.lines = ed.lines)
    BY <2>3, MovedShows
  <2> QED BY <1>a, <2>4, FreshKept DEF Kept, Shows, Ends
<1>12. ASSUME NEW z \in WheelSteps, NEW holding \in BOOLEAN, Wheel(z, holding)
       PROVE  Kept(ed, ed')
  BY <1>12, ScrollKept DEF Wheel, Becomes
<1>13. ASSUME NEW target \in 0 .. MaxScroll, NEW holding \in BOOLEAN,
              ScrollbarClick(target, holding)
       PROVE  Kept(ed, ed')
  BY <1>13, ScrollKept DEF ScrollbarClick, Becomes
<1>14. CASE ClickElsewhere
  BY <1>0, <1>14, SelectionKeepsText, FreshKept DEF ClickElsewhere, Becomes
<1>15. ASSUME NEW v \in Viewports, Relayout(v)
       PROVE  Kept(ed, ed')
  BY <1>0, <1>15, ViewKeepsText, FreshKept DEF Relayout, Becomes
<1>16. CASE UNCHANGED vars
  BY <1>16, FreshKept DEF vars, SameText
<1> QED
  BY <1>1, <1>2, <1>3, <1>4, <1>5, <1>6, <1>7, <1>8, <1>9, <1>10, <1>11, <1>12,
     <1>13, <1>14, <1>15, <1>16
  DEF Next

-----------------------------------------------------------------------------
\* A command that moves the cursor or changes the text ends with the cursor in
\* the window (clamp_scroll), for every text, file and window.
THEOREM EditsShowTheCursor == Spec => EditShowsCursor
<1>1. ASSUME Sound(ed), [Next]_vars
      PROVE  [ed'.lines # ed.lines \/ ed'.crow # ed.crow \/ ed'.ccol # ed.ccol
                => CursorVisible(ed')]_vars
  BY <1>1, NextKept DEF Kept, Shows, SameText
<1> QED
  BY <1>1, SoundAlways, PTL DEF Spec, EditShowsCursor

\* A command that changes the text leaves no selection behind, whose anchor
\* would have been taken in the old text.
THEOREM EditsEndTheSelection == Spec => TextChangeEndsSelection
<1>1. ASSUME Sound(ed), [Next]_vars
      PROVE  [ed'.lines # ed.lines => ~ed'.sel]_vars
  BY <1>1, NextKept DEF Kept, Ends
<1> QED
  BY <1>1, SoundAlways, PTL DEF Spec, TextChangeEndsSelection

-----------------------------------------------------------------------------
(* Cutting a sequence in two                                               *)

Take(s, n) == SubSeq(s, 1, n)
Drop(s, n) == SubSeq(s, n + 1, Len(s))

\* The two parts of a sequence, their lengths and their elements.
LEMMA TakeDrop ==
  ASSUME NEW S, NEW s \in Seq(S), NEW c \in 0 .. Len(s)
  PROVE  /\ Take(s, c) \in Seq(S) /\ Len(Take(s, c)) = c
         /\ Drop(s, c) \in Seq(S) /\ Len(Drop(s, c)) = Len(s) - c
         /\ Take(s, c) \o Drop(s, c) = s
         /\ \A i \in 1 .. c : Take(s, c)[i] = s[i]
         /\ \A i \in 1 .. Len(s) - c : Drop(s, c)[i] = s[c + i]
<1>1. s \in Seq(S) /\ Len(s) \in Nat /\ \A i \in 1 .. Len(s) : s[i] \in S
  BY LenProperties, ElementOfSeq
<1> DEFINE n == Len(s)
<1> HIDE DEF n
<1>2. /\ n \in Nat /\ c \in Int /\ c + 1 \in Int /\ n \in Int /\ 1 \in Int
      /\ c \in Nat /\ c <= n /\ (1 <= c => c - 1 + 1 = c) /\ (~(1 <= c) => c = 0)
      /\ \A i \in 1 .. c : s[i] \in S
      /\ \A i \in c + 1 .. n : s[i] \in S
  BY <1>1 DEF n
<1>3. /\ SubSeq(s, 1, c) \in Seq(S)
      /\ Len(SubSeq(s, 1, c)) = IF 1 <= c THEN c - 1 + 1 ELSE 0
      /\ \A i \in 1 .. c - 1 + 1 : SubSeq(s, 1, c)[i] = s[1 + i - 1]
  BY <1>2, SubSeqProperties
<1>4. /\ SubSeq(s, c + 1, n) \in Seq(S)
      /\ Len(SubSeq(s, c + 1, n)) = IF c + 1 <= n THEN n - (c + 1) + 1 ELSE 0
      /\ \A i \in 1 .. n - (c + 1) + 1 : SubSeq(s, c + 1, n)[i] = s[(c + 1) + i - 1]
  BY <1>2, SubSeqProperties
<1> DEFINE h == SubSeq(s, 1, c)
           t == SubSeq(s, c + 1, n)
<1> HIDE DEF h, t
<1>5. /\ Len(h) = c /\ Len(t) = n - c /\ h \in Seq(S) /\ t \in Seq(S)
      /\ \A i \in 1 .. c : h[i] = s[i]
      /\ \A i \in 1 .. n - c : t[i] = s[c + i]
  <2>1. Len(h) = c
    BY <1>2, <1>3 DEF h
  <2>2. Len(t) = n - c
    BY <1>2, <1>4 DEF t
  <2>3. ASSUME NEW i \in 1 .. c PROVE h[i] = s[i]
    <3>1. i \in 1 .. c - 1 + 1 /\ 1 + i - 1 = i
      BY <1>2
    <3> QED BY <1>3, <3>1 DEF h
  <2>4. ASSUME NEW i \in 1 .. n - c PROVE t[i] = s[c + i]
    <3>1. i \in 1 .. n - (c + 1) + 1 /\ (c + 1) + i - 1 = c + i
      BY <1>2
    <3> QED BY <1>4, <3>1 DEF t
  <2> QED BY <1>3, <1>4, <2>1, <2>2, <2>3, <2>4 DEF h, t
<1>6. s = h \o t
  <2>1. h \o t \in Seq(S) /\ Len(h \o t) = Len(h) + Len(t)
    BY <1>5, ConcatProperties
  <2>2. \A i \in 1 .. Len(h) + Len(t) : (h \o t)[i] =
               IF i <= Len(h) THEN h[i] ELSE t[i - Len(h)]
    BY <1>5, ConcatProperties
  <2>3. ASSUME NEW i \in 1 .. n PROVE s[i] = (h \o t)[i]
    <3>1. CASE i <= c
      BY <1>2, <1>5, <2>2, <3>1
    <3>2. CASE ~(i <= c)
      <4>1. i - c \in 1 .. n - c /\ c + (i - c) = i /\ i \in 1 .. Len(h) + Len(t)
        BY <1>2, <1>5, <3>2
      <4>2. t[i - c] = s[i]
        BY <1>5, <4>1
      <4> QED BY <1>5, <2>2, <3>2, <4>1, <4>2
    <3> QED BY <3>1, <3>2
  <2>4. Len(s) = Len(h \o t)
    BY <1>2, <1>5, <2>1 DEF n
  <2> QED BY <1>1, <2>1, <2>3, <2>4, SeqEqual DEF n
<1> QED BY <1>5, <1>6, Zenon DEF h, t, n, Take, Drop

\* Cutting where two sequences were joined gives them back.
LEMMA ConcatSeam ==
  ASSUME NEW S, NEW a \in Seq(S), NEW b \in Seq(S)
  PROVE  /\ Take(a \o b, Len(a)) = a
         /\ Drop(a \o b, Len(a)) = b
<1> DEFINE s == a \o b
           m == Len(a)
           n == Len(b)
           h == Take(s, m)
           t == Drop(s, m)
<1>1. /\ a \in Seq(S) /\ b \in Seq(S) /\ m \in Nat /\ n \in Nat
      /\ s \in Seq(S) /\ Len(s) = m + n
      /\ \A i \in 1 .. m + n : s[i] = IF i <= m THEN a[i] ELSE b[i - m]
  BY LenProperties, ConcatProperties
<1> HIDE DEF s, m, n
<1>2. m \in 0 .. Len(s)
  BY <1>1
<1>3. /\ h \in Seq(S) /\ Len(h) = m /\ t \in Seq(S) /\ Len(t) = Len(s) - m
      /\ \A i \in 1 .. m : h[i] = s[i]
      /\ \A i \in 1 .. Len(s) - m : t[i] = s[m + i]
  BY <1>1, <1>2, TakeDrop
<1> HIDE DEF h, t
<1>4. h = a
  <2>1. \A i \in 1 .. m : h[i] = a[i]
    BY <1>1, <1>3
  <2>2. h \in Seq(S) /\ Len(h) = Len(a)
    BY <1>3 DEF m
  <2>3. \A i \in 1 .. Len(h) : h[i] = a[i]
    BY <1>3, <2>1, Zenon
  <2> QED BY <1>1, <2>2, <2>3, SeqEqual
<1>5. t = b
  <2>1. Len(t) = n
    BY <1>1, <1>3
  <2>2. ASSUME NEW i \in 1 .. n PROVE t[i] = b[i]
    <3>1. /\ i \in 1 .. Len(s) - m /\ m + i \in 1 .. m + n
          /\ ~(m + i <= m) /\ (m + i) - m = i
      BY <1>1
    <3>2. s[m + i] = b[i]
      BY <1>1, <3>1
    <3> QED BY <1>3, <3>1, <3>2, Zenon
  <2>3. t \in Seq(S) /\ Len(t) = Len(b)
    BY <1>3, <2>1 DEF n
  <2>4. \A i \in 1 .. Len(t) : t[i] = b[i]
    BY <2>1, <2>2, Zenon
  <2> QED BY <1>1, <2>3, <2>4, SeqEqual
<1> QED BY <1>4, <1>5 DEF h, t, m, s

-----------------------------------------------------------------------------
(* FlattenSeq                                                              *)

\* The recursive function that FlattenSeq evaluates.
Flattening(seqs) ==
  LET flatten[i \in 1 .. Len(seqs)] ==
        IF i = 1 THEN seqs[i] ELSE flatten[i - 1] \o seqs[i]
  IN  flatten

\* The natural numbers are the least set with 0 and successors.
LEMMA Counting ==
  ASSUME NEW S, 0 \in S, \A n \in Nat : n \in S => n + 1 \in S
  PROVE  Nat \subseteq S
<1> SUFFICES ASSUME Nat \ S # {} PROVE FALSE
  OBVIOUS
<1>1. PICK m \in Nat \ S : \A y \in Nat \ S : ~(<<y, m>> \in OpToRel(<, Nat))
  BY NatLessThanWellFounded, WFMin
<1>2. m \in Nat \ S /\ \A y \in Nat \ S : ~(y < m)
  BY <1>1, Zenon DEF OpToRel
<1>3. m # 0 /\ m - 1 \in Nat /\ m - 1 < m /\ (m - 1) + 1 = m
  BY <1>2
<1>4. m - 1 \in S
  BY <1>2, <1>3
<1> QED BY <1>2, <1>3, <1>4

\* The partial results of FlattenSeq, one per sequence taken.
LEMMA FlatteningIs ==
  ASSUME NEW S, NEW seqs \in Seq(Seq(S)), seqs # << >>
  PROVE  /\ Flattening(seqs)[1] = seqs[1]
         /\ \A i \in 2 .. Len(seqs) :
              Flattening(seqs)[i] = Flattening(seqs)[i - 1] \o seqs[i]
         /\ \A i \in 1 .. Len(seqs) : Flattening(seqs)[i] \in Seq(S)
<1> DEFINE n == Len(seqs)
           Upto(m) == \E g \in [1 .. m -> Seq(S)] :
                         /\ g[1] = seqs[1]
                         /\ \A i \in 2 .. m : g[i] = g[i - 1] \o seqs[i]
           T == {m \in Nat : m + 1 <= n => Upto(m + 1)}
<1>1. n \in Nat /\ 1 <= n /\ \A i \in 1 .. n : seqs[i] \in Seq(S)
  OBVIOUS
<1> HIDE DEF n
<1>3. Upto(1)
  <2> DEFINE g == [i \in 1 .. 1 |-> seqs[1]]
  <2>1. g \in [1 .. 1 -> Seq(S)] /\ g[1] = seqs[1]
    BY <1>1
  <2>2. \A i \in 2 .. 1 : g[i] = g[i - 1] \o seqs[i]
    OBVIOUS
  <2> HIDE DEF g
  <2> QED BY <2>1, <2>2
<1>4. ASSUME NEW m \in Nat, 1 <= m, Upto(m), m + 1 <= n PROVE Upto(m + 1)
  <2>1. PICK g \in [1 .. m -> Seq(S)] :
               /\ g[1] = seqs[1]
               /\ \A i \in 2 .. m : g[i] = g[i - 1] \o seqs[i]
    BY <1>4
  <2> DEFINE k == m + 1
             next == g[m] \o seqs[k]
             x == [i \in 1 .. k |-> IF i = k THEN next ELSE g[i]]
  <2>2. /\ k \in 2 .. n /\ k # 1 /\ k - 1 = m /\ m \in 1 .. m
        /\ \A i \in 1 .. k : i = k \/ i \in 1 .. m
        /\ \A i \in 2 .. k : i - 1 # k /\ i - 1 \in 1 .. k /\ (i = k \/ i \in 2 .. m)
    BY <1>1, <1>4
  <2> HIDE DEF k
  <2>3. next \in Seq(S)
    <3>1. g[m] \in Seq(S) /\ seqs[k] \in Seq(S)
      BY <1>1, <2>1, <2>2
    <3> HIDE DEF k
    <3> QED BY <3>1, ConcatProperties
  <2> HIDE DEF next
  <2>4. x \in [1 .. k -> Seq(S)]
    BY <2>1, <2>2, <2>3
  <2>5. x[1] = seqs[1]
    BY <1>4, <2>1, <2>2
  <2>6. ASSUME NEW i \in 2 .. k PROVE x[i] = x[i - 1] \o seqs[i]
    <3>1. i \in 1 .. k /\ i - 1 \in 1 .. k /\ i - 1 # k
      BY <1>4, <2>2 DEF k
    <3>2. x[i - 1] = g[i - 1]
      BY <3>1
    <3>3. CASE i = k
      <4>1. x[i] = next /\ i - 1 = m
        BY <2>2, <3>1, <3>3
      <4> QED BY <3>2, <3>3, <4>1, Zenon DEF next
    <3>4. CASE i # k
      <4>1. x[i] = g[i] /\ i \in 2 .. m
        BY <2>2, <3>1, <3>4
      <4> QED BY <2>1, <3>2, <4>1
    <3> QED BY <3>3, <3>4
  <2> HIDE DEF x
  <2> QED BY <2>4, <2>5, <2>6 DEF k
<1>5. Upto(n)
  <2> HIDE DEF Upto
  <2>1. 0 \in T
    BY <1>3
  <2>2. \A m \in Nat : m \in T => m + 1 \in T
    BY <1>1, <1>4
  <2>3. Nat \subseteq T
    <3> HIDE DEF T
    <3> QED BY <2>1, <2>2, Counting
  <2>4. n - 1 \in Nat /\ (n - 1) + 1 = n /\ n <= n
    BY <1>1
  <2>5. n - 1 \in T
    BY <2>3, <2>4, Zenon
  <2>6. (n - 1) + 1 <= n => Upto((n - 1) + 1)
    BY <2>5
  <2> QED BY <2>4, <2>6
<1>6. PICK g \in [1 .. n -> Seq(S)] :
             /\ g[1] = seqs[1]
             /\ \A i \in 2 .. n : g[i] = g[i - 1] \o seqs[i]
  BY <1>5
<1> DEFINE flatten[i \in 1 .. Len(seqs)] ==
             IF i = 1 THEN seqs[i] ELSE flatten[i - 1] \o seqs[i]
<1>7. g = [i \in 1 .. Len(seqs) |-> IF i = 1 THEN seqs[i] ELSE g[i - 1] \o seqs[i]]
  <2>1. \A i \in 1 .. n : i = 1 \/ i \in 2 .. n
    BY <1>1
  <2>2. \A i \in 1 .. n : g[i] = IF i = 1 THEN seqs[i] ELSE g[i - 1] \o seqs[i]
    BY <1>6, <2>1, Zenon
  <2>3. g = [i \in 1 .. n |-> IF i = 1 THEN seqs[i] ELSE g[i - 1] \o seqs[i]]
    BY <1>6, <2>2
  <2> QED BY <2>3, Zenon DEF n
<1>8. flatten = [i \in 1 .. Len(seqs) |->
                   IF i = 1 THEN seqs[i] ELSE flatten[i - 1] \o seqs[i]]
  BY <1>7
<1>9. Flattening(seqs) = flatten
  BY Zenon DEF Flattening
<1> HIDE DEF flatten
<1>10. /\ flatten[1] = seqs[1]
       /\ \A i \in 2 .. n : flatten[i] = flatten[i - 1] \o seqs[i]
  <2>1. \A i \in 1 .. n : flatten[i] =
               IF i = 1 THEN seqs[i] ELSE flatten[i - 1] \o seqs[i]
    BY <1>8, Zenon DEF n
  <2>2. 1 \in 1 .. n /\ \A i \in 2 .. n : i \in 1 .. n /\ i # 1
    BY <1>1
  <2> QED BY <2>1, <2>2, Zenon
<1> DEFINE B == {m \in Nat : m + 1 <= n => flatten[m + 1] \in Seq(S)}
<1>11. Nat \subseteq B
  <2>1. 0 \in B
    BY <1>1, <1>10
  <2>2. ASSUME NEW m \in Nat, m \in B PROVE m + 1 \in B
    <3> SUFFICES ASSUME m + 2 <= n PROVE flatten[m + 2] \in Seq(S)
      OBVIOUS
    <3> DEFINE k == m + 2
               a == flatten[m + 1]
    <3>1. k \in 2 .. n /\ k \in 1 .. n /\ k - 1 = m + 1 /\ a \in Seq(S)
      BY <1>1, <2>2
    <3> HIDE DEF k, a
    <3>2. flatten[k] = a \o seqs[k]
      BY <1>10, <3>1, Zenon DEF a
    <3>3. seqs[k] \in Seq(S)
      BY <1>1, <3>1
    <3>4. a \o seqs[k] \in Seq(S)
      BY <3>1, <3>3, ConcatProperties
    <3> QED BY <3>2, <3>4, Zenon DEF k
  <2> HIDE DEF B
  <2> QED BY <2>1, <2>2, Counting
<1>12. ASSUME NEW i \in 1 .. n PROVE flatten[i] \in Seq(S)
  <2>1. i - 1 \in Nat /\ (i - 1) + 1 = i /\ i <= n
    BY <1>1
  <2>2. i - 1 \in B
    BY <1>11, <2>1, Zenon
  <2> QED BY <2>1, <2>2
<1> QED
  BY <1>9, <1>10, <1>12, Zenon DEF n

\* What FlattenSeq makes of one sequence, and of one sequence more.
LEMMA FlattenOne ==
  ASSUME NEW S, NEW s \in Seq(S)
  PROVE  FlattenSeq(<<s>>) = s
<1> DEFINE q == <<s>>
<1>1. q \in Seq(Seq(S)) /\ q # << >> /\ Len(q) = 1 /\ q[1] = s
  OBVIOUS
<1> HIDE DEF q
<1>2. FlattenSeq(q) = Flattening(q)[Len(q)]
  <2>1. Len(q) # 0
    BY <1>1
  <2> QED BY <2>1, Zenon DEF FlattenSeq, Flattening
<1>3. Flattening(q)[1] = q[1]
  BY <1>1, FlatteningIs
<1> QED BY <1>1, <1>2, <1>3 DEF q

\* Flattening one sequence more appends it.
LEMMA FlattenNext ==
  ASSUME NEW S, NEW q \in Seq(Seq(S)), q # << >>, NEW s \in Seq(S)
  PROVE  /\ FlattenSeq(q) \in Seq(S)
         /\ FlattenSeq(Append(q, s)) = FlattenSeq(q) \o s
<1> DEFINE t == Append(q, s)
           n == Len(q)
<1>1. /\ n \in Nat /\ 1 <= n /\ n # 0
      /\ t \in Seq(Seq(S)) /\ t # << >> /\ Len(t) = n + 1
      /\ t[n + 1] = s /\ \A i \in 1 .. n : t[i] = q[i]
  <2>1. n \in Nat /\ 1 <= n /\ n # 0
    BY EmptySeq
  <2>2. t \in Seq(Seq(S)) /\ Len(t) = n + 1 /\ t[n + 1] = s
    BY <2>1
  <2>3. \A i \in 1 .. n : t[i] = q[i]
    BY <2>1
  <2>4. t # << >>
    BY <2>1, <2>2, EmptySeq
  <2> QED BY <2>1, <2>2, <2>3, <2>4
<1> HIDE DEF t
<1>2. /\ FlattenSeq(q) = Flattening(q)[n]
      /\ FlattenSeq(t) = Flattening(t)[n + 1]
  <2>1. Len(q) # 0 /\ Len(t) # 0
    BY <1>1
  <2>2. FlattenSeq(t) = Flattening(t)[Len(t)]
    BY <2>1, Zenon DEF FlattenSeq, Flattening
  <2>3. FlattenSeq(q) = Flattening(q)[Len(q)]
    BY <2>1, Zenon DEF FlattenSeq, Flattening
  <2> QED BY <1>1, <2>2, <2>3
<1> HIDE DEF n
<1> DEFINE f == Flattening(q)
           g == Flattening(t)
<1>3. /\ f[1] = q[1]
      /\ \A i \in 2 .. n : f[i] = f[i - 1] \o q[i]
      /\ \A i \in 1 .. n : f[i] \in Seq(S)
  BY FlatteningIs DEF n
<1>4. /\ g[1] = t[1]
      /\ \A i \in 2 .. n + 1 : g[i] = g[i - 1] \o t[i]
  <2>1. /\ g[1] = t[1]
        /\ \A i \in 2 .. Len(t) : g[i] = g[i - 1] \o t[i]
    BY <1>1, FlatteningIs
  <2> QED BY <1>1, <2>1
<1> HIDE DEF f, g
<1> DEFINE B == {m \in Nat : m + 1 <= n => g[m + 1] = f[m + 1]}
<1>5. Nat \subseteq B
  <2>1. 0 \in B
    BY <1>1, <1>3, <1>4
  <2>2. ASSUME NEW m \in Nat, m \in B PROVE m + 1 \in B
    <3> SUFFICES ASSUME m + 2 <= n PROVE g[m + 2] = f[m + 2]
      OBVIOUS
    <3> DEFINE k == m + 2
    <3>1. /\ k \in 2 .. n /\ k \in 1 .. n /\ k \in 2 .. n + 1 /\ k - 1 = m + 1
          /\ g[m + 1] = f[m + 1]
      BY <1>1, <2>2
    <3> HIDE DEF k
    <3>2. g[k] = g[k - 1] \o t[k] /\ f[k] = f[k - 1] \o q[k] /\ t[k] = q[k]
      BY <1>1, <1>3, <1>4, <3>1, Zenon
    <3> QED BY <3>1, <3>2, Zenon DEF k
  <2> HIDE DEF B
  <2> QED BY <2>1, <2>2, Counting
<1>6. g[n] = f[n]
  <2>1. n - 1 \in Nat /\ (n - 1) + 1 = n /\ n <= n
    BY <1>1
  <2>2. n - 1 \in B
    BY <1>5, <2>1, Zenon
  <2> QED BY <2>1, <2>2
<1>7. g[n + 1] = g[n] \o s
  <2>1. n + 1 \in 2 .. n + 1 /\ (n + 1) - 1 = n
    BY <1>1
  <2> QED BY <1>1, <1>4, <2>1
<1>8. f[n] \in Seq(S)
  BY <1>1, <1>3
<1> QED BY <1>2, <1>6, <1>7, <1>8, Zenon DEF f, g, t

-----------------------------------------------------------------------------
(* The text of a sequence of rows                                          *)

Symbol == Char \cup {Newline}

\* The texts an editor may hold.
Rows == Seq(Row) \ {<< >>}

\* What a sequence of rows is, and when it is another one.
LEMMA RowsFacts ==
  ASSUME NEW A \in Rows
  PROVE  /\ A \in Seq(Row) /\ Len(A) \in Nat /\ 1 <= Len(A)
         /\ \A i \in 1 .. Len(A) : A[i] \in Row /\ Len(A[i]) \in Nat
<1>1. A \in Seq(Row) /\ Len(A) \in Nat \ {0}
  BY EmptySeq DEF Rows
<1>2. \A i \in 1 .. Len(A) : A[i] \in Row
  BY <1>1, ElementOfSeq
<1>3. \A i \in 1 .. Len(A) : Len(A[i]) \in Nat
  BY <1>2, LenProperties DEF Row
<1> QED BY <1>1, <1>2, <1>3

\* Rows are equal when they agree row by row.
LEMMA RowsEqual ==
  ASSUME NEW A \in Rows, NEW B \in Rows, Len(A) = Len(B),
         \A i \in 1 .. Len(A) : A[i] = B[i]
  PROVE  A = B
BY SeqEqual DEF Rows

\* Rows given one by one.
LEMMA RowsBuilt ==
  ASSUME NEW n \in Nat, 1 <= n, NEW f,
         f = [i \in 1 .. n |-> f[i]], \A i \in 1 .. n : f[i] \in Row
  PROVE  f \in Rows /\ Len(f) = n
<1>1. f \in [1 .. n -> Row]
  BY Zenon
<1>2. f \in Seq(Row)
  BY <1>1
<1>3. Len(f) = n
  BY <1>1, <1>2, LenProperties
<1> QED BY <1>2, <1>3, EmptySeq DEF Rows

\* A row, and a row after a line break, are texts.
LEMMA RowIsText ==
  ASSUME NEW row \in Row
  PROVE  /\ row \in Seq(Symbol) /\ <<Newline>> \in Seq(Symbol)
         /\ <<Newline>> \o row \in Seq(Symbol)
<1>1. row \in Seq(Symbol)
  BY SeqMonotonic DEF Row, Symbol
<1>2. <<Newline>> \in Seq(Symbol)
  BY DEF Symbol
<1> QED BY <1>1, <1>2, ConcatProperties

\* The pieces of Flat(rows).
Pieces(rows) ==
  [i \in DOMAIN rows |-> IF i = 1 THEN rows[1] ELSE <<Newline>> \o rows[i]]

\* What Flat flattens: the first row, then each row after a line break.
LEMMA PiecesAre ==
  ASSUME NEW A \in Rows
  PROVE  /\ Pieces(A) \in Seq(Seq(Symbol)) /\ Pieces(A) # << >>
         /\ Len(Pieces(A)) = Len(A)
         /\ \A i \in 1 .. Len(A) :
              Pieces(A)[i] = IF i = 1 THEN A[1] ELSE <<Newline>> \o A[i]
<1> DEFINE n == Len(A)
           f == [i \in 1 .. n |-> IF i = 1 THEN A[1] ELSE <<Newline>> \o A[i]]
<1>1. n \in Nat /\ 1 <= n /\ \A i \in 1 .. n : A[i] \in Row
  BY RowsFacts
<1>2. Pieces(A) = f
  <2>1. DOMAIN A = 1 .. n
    BY LenProperties DEF Rows
  <2> QED BY <2>1, Zenon DEF Pieces
<1> HIDE DEF n
<1>3. \A i \in 1 .. n : A[i] \in Seq(Symbol) /\ <<Newline>> \o A[i] \in Seq(Symbol)
  BY <1>1, RowIsText
<1>4. f \in [1 .. n -> Seq(Symbol)]
  BY <1>1, <1>3
<1>5. f \in Seq(Seq(Symbol)) /\ Len(f) = n
  <2> HIDE DEF f
  <2> QED BY <1>1, <1>4, LenProperties
<1>6. f # << >>
  BY <1>1, <1>5, EmptySeq
<1>7. \A i \in 1 .. n : f[i] = IF i = 1 THEN A[1] ELSE <<Newline>> \o A[i]
  BY Zenon
<1> HIDE DEF f
<1> QED BY <1>2, <1>5, <1>6, <1>7, Zenon DEF n

\* One row is its own text, and each further row comes after a line break.
LEMMA FlatOne ==
  ASSUME NEW row \in Row
  PROVE  /\ <<row>> \in Rows /\ Len(<<row>>) = 1 /\ <<row>>[1] = row
         /\ Flat(<<row>>) = row
<1> DEFINE A == <<row>>
<1>1. A \in Rows /\ Len(A) = 1 /\ A[1] = row
  BY EmptySeq DEF Rows
<1> HIDE DEF A
<1>2. Pieces(A) = <<row>>
  <2>1. Pieces(A) \in Seq(Seq(Symbol)) /\ Len(Pieces(A)) = 1 /\ Pieces(A)[1] = row
    BY <1>1, PiecesAre
  <2> QED BY <2>1
<1>3. Flat(A) = FlattenSeq(<<row>>)
  BY <1>2, Zenon DEF Flat, Pieces
<1> QED BY <1>1, <1>3, RowIsText, FlattenOne DEF A

\* A row more is a line break and its symbols more.
LEMMA FlatNext ==
  ASSUME NEW A \in Rows, NEW row \in Row
  PROVE  /\ Append(A, row) \in Rows
         /\ Flat(A) \in Seq(Symbol)
         /\ Flat(Append(A, row)) = Flat(A) \o (<<Newline>> \o row)
<1> DEFINE B == Append(A, row)
           s == <<Newline>> \o row
<1>1. /\ B \in Rows /\ Len(B) = Len(A) + 1 /\ B[Len(A) + 1] = row
      /\ \A i \in 1 .. Len(A) : B[i] = A[i]
  BY AppendProperties DEF Rows
<1>2. Len(A) \in Nat /\ 1 <= Len(A)
  BY RowsFacts
<1>3. s \in Seq(Symbol)
  BY RowIsText
<1> HIDE DEF B, s
<1>4. Pieces(B) = Append(Pieces(A), s)
  <2> DEFINE p == Pieces(A)
             q == Pieces(B)
  <2>1. p \in Seq(Seq(Symbol)) /\ Len(p) = Len(A)
    BY PiecesAre
  <2>2. q \in Seq(Seq(Symbol)) /\ Len(q) = Len(A) + 1
    BY <1>1, PiecesAre
  <2>3. \A i \in 1 .. Len(A) : q[i] = p[i]
    <3>1. \A i \in 1 .. Len(A) : q[i] = IF i = 1 THEN B[1] ELSE <<Newline>> \o B[i]
      <4>1. \A i \in 1 .. Len(B) : q[i] = IF i = 1 THEN B[1] ELSE <<Newline>> \o B[i]
        BY <1>1, PiecesAre
      <4>2. \A i \in 1 .. Len(A) : i \in 1 .. Len(B)
        BY <1>1, <1>2
      <4> QED BY <4>1, <4>2, Zenon
    <3>2. \A i \in 1 .. Len(A) : p[i] = IF i = 1 THEN A[1] ELSE <<Newline>> \o A[i]
      BY PiecesAre
    <3>3. 1 \in 1 .. Len(A)
      BY <1>2
    <3> HIDE DEF p, q
    <3> QED BY <1>1, <3>1, <3>2, <3>3, Zenon
  <2>4. q[Len(A) + 1] = s
    <3> DEFINE n == Len(A) + 1
    <3>1. n \in 1 .. Len(B) /\ n # 1
      BY <1>1, <1>2
    <3> HIDE DEF n
    <3>2. q[n] = <<Newline>> \o B[n]
      BY <1>1, <3>1, PiecesAre
    <3> QED BY <1>1, <3>2, Zenon DEF n, s
  <2> HIDE DEF p, q
  <2>5. /\ Append(p, s) \in Seq(Seq(Symbol)) /\ Len(Append(p, s)) = Len(A) + 1
        /\ \A i \in 1 .. Len(A) : Append(p, s)[i] = p[i]
        /\ Append(p, s)[Len(A) + 1] = s
    BY <1>3, <2>1, AppendProperties
  <2>6. \A i \in 1 .. Len(q) : i \in 1 .. Len(A) \/ i = Len(A) + 1
    BY <1>2, <2>2
  <2>7. \A i \in 1 .. Len(q) : q[i] = Append(p, s)[i]
    BY <2>3, <2>4, <2>5, <2>6, Zenon
  <2>8. q = Append(p, s)
    BY <2>2, <2>5, <2>7, SeqEqual
  <2> QED BY <2>8 DEF p, q
<1>5. Flat(A) = FlattenSeq(Pieces(A)) /\ Flat(B) = FlattenSeq(Pieces(B))
  BY Zenon DEF Flat, Pieces
<1>6. /\ FlattenSeq(Pieces(A)) \in Seq(Symbol)
      /\ FlattenSeq(Append(Pieces(A), s)) = FlattenSeq(Pieces(A)) \o s
  <2>1. Pieces(A) \in Seq(Seq(Symbol)) /\ Pieces(A) # << >>
    BY PiecesAre
  <2> QED BY <1>3, <2>1, FlattenNext
<1> QED BY <1>1, <1>4, <1>5, <1>6, Zenon DEF B, s

\* Two rows put together are a row.
LEMMA RowConcat ==
  ASSUME NEW a \in Row, NEW b \in Row
  PROVE  /\ a \o b \in Row /\ Len(a \o b) = Len(a) + Len(b)
         /\ a \o << >> = a /\ << >> \o a = a
BY ConcatProperties, ConcatEmptySeq DEF Row

\* All the rows but the last.
LEMMA FrontOfRows ==
  ASSUME NEW A \in Rows, Len(A) > 1
  PROVE  /\ SubSeq(A, 1, Len(A) - 1) \in Rows
         /\ Len(SubSeq(A, 1, Len(A) - 1)) = Len(A) - 1
         /\ A = Append(SubSeq(A, 1, Len(A) - 1), A[Len(A)])
<1> DEFINE n == Len(A) - 1
           F == SubSeq(A, 1, n)
<1>1. /\ n \in Nat /\ 1 <= n /\ Len(A) = n + 1 /\ A \in Seq(Row)
      /\ \A i \in 1 .. n : A[i] \in Row
      /\ A[n + 1] \in Row
  BY RowsFacts
<1> HIDE DEF n
<1>2. /\ F \in Seq(Row) /\ Len(F) = n
      /\ \A i \in 1 .. n : F[i] = A[i]
  BY <1>1, SubSeqProperties
<1>3. F \in Rows
  BY <1>1, <1>2, EmptySeq DEF Rows
<1> HIDE DEF F
<1>4. A = Append(F, A[n + 1])
  <2> DEFINE B == Append(F, A[n + 1])
  <2>1. /\ B \in Seq(Row) /\ Len(B) = n + 1 /\ B[n + 1] = A[n + 1]
        /\ \A i \in 1 .. n : B[i] = F[i]
    BY <1>1, <1>2, AppendProperties
  <2> HIDE DEF B
  <2>2. \A i \in 1 .. n + 1 : i \in 1 .. n \/ i = n + 1
    BY <1>1
  <2>3. \A i \in 1 .. n + 1 : A[i] = B[i]
    BY <1>2, <2>1, <2>2, Zenon
  <2>4. A = B
    BY <1>1, <2>1, <2>3, SeqEqual
  <2> QED BY <2>4 DEF B
<1> QED BY <1>1, <1>2, <1>3, <1>4 DEF F, n

-----------------------------------------------------------------------------
(* Joining texts: the last row of one is continued by the first of the other *)

Joined(A, B) ==
  [i \in 1 .. Len(A) + Len(B) - 1 |->
     IF i < Len(A) THEN A[i]
     ELSE IF i = Len(A) THEN A[i] \o B[1]
     ELSE B[i - Len(A) + 1]]

\* The rows of a join: the last of A continued by the first of B.
LEMMA JoinedIs ==
  ASSUME NEW A \in Rows, NEW B \in Rows
  PROVE  /\ Joined(A, B) \in Rows
         /\ Len(Joined(A, B)) = Len(A) + Len(B) - 1
         /\ \A i \in 1 .. Len(A) - 1 : Joined(A, B)[i] = A[i]
         /\ Joined(A, B)[Len(A)] = A[Len(A)] \o B[1]
         /\ \A i \in 2 .. Len(B) : Joined(A, B)[Len(A) + i - 1] = B[i]
<1> DEFINE m == Len(A)
           n == Len(B)
           J == Joined(A, B)
           k == m + n - 1
<1>1. /\ m \in Nat /\ 1 <= m /\ \A i \in 1 .. m : A[i] \in Row
      /\ n \in Nat /\ 1 <= n /\ \A i \in 1 .. n : B[i] \in Row
  BY RowsFacts
<1> HIDE DEF m, n
<1>2. A[m] \o B[1] \in Row
  <2>1. A[m] \in Row /\ B[1] \in Row
    BY <1>1
  <2> QED BY <2>1, RowConcat
<1>3. J = [i \in 1 .. k |->
             IF i < m THEN A[i] ELSE IF i = m THEN A[i] \o B[1] ELSE B[i - m + 1]]
  BY Zenon DEF Joined, m, n
<1> HIDE DEF J
<1>4. ASSUME NEW i \in 1 .. k
      PROVE  /\ i < m => J[i] = A[i] /\ J[i] \in Row
             /\ i = m => J[i] = A[m] \o B[1] /\ J[i] \in Row
             /\ i > m => J[i] = B[i - m + 1] /\ J[i] \in Row
  <2>1. J[i] = IF i < m THEN A[i] ELSE IF i = m THEN A[i] \o B[1] ELSE B[i - m + 1]
    BY <1>3, Zenon
  <2>2. i < m => i \in 1 .. m
    BY <1>1
  <2>3. i > m => i - m + 1 \in 1 .. n /\ ~(i < m) /\ i # m
    BY <1>1
  <2>4. i = m => ~(i < m)
    BY <1>1
  <2> HIDE DEF k
  <2> QED BY <1>1, <1>2, <2>1, <2>2, <2>3, <2>4, Zenon
<1>5. /\ k \in Nat /\ 1 <= k
      /\ \A i \in 1 .. k : i < m \/ i = m \/ i > m
      /\ \A i \in 1 .. m - 1 : i \in 1 .. k /\ i < m
      /\ m \in 1 .. k
      /\ \A i \in 2 .. n : /\ m + i - 1 \in 1 .. k /\ m + i - 1 > m
                           /\ (m + i - 1) - m + 1 = i
  BY <1>1
<1>6. \A i \in 1 .. k : J[i] \in Row
  BY <1>4, <1>5, Zenon
<1>7. J = [i \in 1 .. k |-> J[i]]
  BY <1>3, Zenon
<1> HIDE DEF k
<1>8. J \in Rows /\ Len(J) = k
  BY <1>5, <1>6, <1>7, RowsBuilt, Zenon
<1>9. \A i \in 2 .. n : J[m + i - 1] = B[i]
  <2> SUFFICES ASSUME NEW i \in 2 .. n PROVE J[m + i - 1] = B[i]
    OBVIOUS
  <2>1. /\ m + i - 1 \in 1 .. k /\ m + i - 1 > m
        /\ (m + i - 1) - m + 1 = i
    BY <1>5
  <2> QED BY <1>4, <2>1
<1>10. \A i \in 1 .. m - 1 : J[i] = A[i]
  BY <1>4, <1>5, Zenon
<1>11. J[m] = A[m] \o B[1]
  BY <1>4, <1>5, Zenon
<1> QED BY <1>8, <1>9, <1>10, <1>11, Zenon DEF J, k, m, n

\* Continuing the last row appends to the text.
LEMMA FlatLast ==
  ASSUME NEW A \in Rows, NEW b \in Row
  PROVE  Flat(Joined(A, <<b>>)) = Flat(A) \o b
<1> DEFINE n == Len(A)
           a == A[n]
           one == <<b>>
           J == Joined(A, one)
<1>1. n \in Nat /\ 1 <= n /\ a \in Row
  BY RowsFacts
<1>2. one \in Rows /\ Len(one) = 1 /\ one[1] = b
  BY FlatOne
<1> HIDE DEF one
<1>3. /\ J \in Rows /\ Len(J) = n /\ J[n] = a \o b
      /\ \A i \in 1 .. n - 1 : J[i] = A[i]
  <2>1. /\ J \in Rows /\ Len(J) = n + Len(one) - 1 /\ J[n] = A[n] \o one[1]
        /\ \A i \in 1 .. n - 1 : J[i] = A[i]
    BY <1>2, JoinedIs, Zenon
  <2> HIDE DEF J, n
  <2> QED BY <1>1, <1>2, <2>1
<1>4. a \o b \in Row
  BY <1>1, RowConcat
<1>5. a \in Seq(Symbol) /\ b \in Seq(Symbol) /\ <<Newline>> \in Seq(Symbol)
  BY <1>1, RowIsText
<1> HIDE DEF J, n
<1>6. CASE n = 1
  <2>1. A = <<a>>
    <3> DEFINE B == <<a>>
    <3>1. B \in Rows /\ Len(B) = 1 /\ B[1] = a
      BY <1>1, FlatOne
    <3> HIDE DEF B
    <3>2. A = B
      BY <1>6, <3>1, RowsEqual DEF n
    <3> QED BY <3>2 DEF B
  <2>2. J = <<a \o b>>
    <3> DEFINE B == <<a \o b>>
    <3>1. B \in Rows /\ Len(B) = 1 /\ B[1] = a \o b
      BY <1>4, FlatOne
    <3> HIDE DEF B
    <3>2. \A i \in 1 .. Len(J) : J[i] = B[i]
      <4>1. \A i \in 1 .. Len(J) : i = n /\ i = 1
        BY <1>3, <1>6
      <4> QED BY <1>3, <3>1, <4>1, Zenon
    <3>3. J = B
      BY <1>3, <1>6, <3>1, <3>2, RowsEqual
    <3> QED BY <3>3 DEF B
  <2> HIDE DEF a
  <2>3. Flat(<<a>>) = a /\ Flat(<<a \o b>>) = a \o b
    BY <1>1, <1>4, FlatOne
  <2> QED BY <2>1, <2>2, <2>3, Zenon DEF J, one
<1>7. CASE n # 1
  <2> DEFINE F == SubSeq(A, 1, n - 1)
  <2>1. F \in Rows /\ Len(F) = n - 1 /\ A = Append(F, a)
    <3>1. n > 1
      BY <1>1, <1>7
    <3> QED BY <3>1, FrontOfRows DEF n
  <2>2. \A i \in 1 .. n - 1 : A[i] = F[i]
    <3> HIDE DEF F, a
    <3>1. \A i \in 1 .. Len(F) : Append(F, a)[i] = F[i]
      BY <1>1, <2>1, AppendProperties DEF Rows
    <3> QED BY <2>1, <3>1, Zenon
  <2> HIDE DEF F
  <2>3. J = Append(F, a \o b)
    <3> DEFINE c == a \o b
               B == Append(F, c)
    <3>1. /\ B \in Seq(Row) /\ B # << >> /\ Len(B) = (n - 1) + 1 /\ B[(n - 1) + 1] = c
          /\ \A i \in 1 .. n - 1 : B[i] = F[i]
      <4> HIDE DEF c
      <4>1. c \in Row /\ F \in Seq(Row)
        BY <1>4, <2>1 DEF Rows, c
      <4> QED BY <2>1, <4>1, AppendProperties
    <3>2. (n - 1) + 1 = n /\ \A i \in 1 .. n : i \in 1 .. n - 1 \/ i = n
      BY <1>1
    <3> HIDE DEF B
    <3>3. \A i \in 1 .. n : J[i] = B[i]
      BY <1>3, <2>2, <3>1, <3>2, Zenon
    <3>4. J = B
      BY <1>3, <3>1, <3>2, <3>3, SeqEqual DEF Rows
    <3> QED BY <3>4 DEF B
  <2>4. Flat(J) = Flat(F) \o (<<Newline>> \o (a \o b)) /\ Flat(F) \in Seq(Symbol)
    BY <1>4, <2>1, <2>3, FlatNext
  <2>5. Flat(A) = Flat(F) \o (<<Newline>> \o a)
    BY <1>1, <2>1, FlatNext
  <2> DEFINE t == Flat(F)
             nl == <<Newline>>
  <2> HIDE DEF a, t, nl
  <2>6. t \in Seq(Symbol) /\ nl \in Seq(Symbol) /\ nl \o a \in Seq(Symbol)
    BY <1>5, <2>4, ConcatProperties DEF t, nl
  <2>7. nl \o (a \o b) = (nl \o a) \o b
    <3>1. a \in Seq(Symbol) /\ b \in Seq(Symbol) /\ nl \in Seq(Symbol)
      BY <1>5, <2>6
    <3> QED BY <3>1, ConcatAssociative
  <2>8. t \o ((nl \o a) \o b) = (t \o (nl \o a)) \o b
    <3> DEFINE na == nl \o a
    <3> HIDE DEF na
    <3>1. t \in Seq(Symbol) /\ na \in Seq(Symbol) /\ b \in Seq(Symbol)
      BY <1>5, <2>6 DEF na
    <3>2. t \o (na \o b) = (t \o na) \o b
      BY <3>1, ConcatAssociative
    <3> QED BY <3>2 DEF na
  <2> QED BY <2>4, <2>5, <2>7, <2>8, Zenon DEF t, nl, J, one
<1> QED BY <1>6, <1>7

\* The empty row.
LEMMA EmptyRow == << >> \in Row /\ Len(<< >>) = 0
BY EmptySeq DEF Row

\* The text of rows is a sequence of symbols.
LEMMA FlatText ==
  ASSUME NEW A \in Rows
  PROVE  Flat(A) \in Seq(Symbol) /\ Len(Flat(A)) \in Nat
BY EmptyRow, FlatNext, LenProperties

\* A text given row by row is the one it was taken from.
LEMMA RowsOne ==
  ASSUME NEW A \in Rows, Len(A) = 1
  PROVE  A = <<A[1]>>
<1> DEFINE a == A[1]
           B == <<a>>
<1>1. a \in Row
  BY RowsFacts
<1> HIDE DEF a
<1>2. B \in Rows /\ Len(B) = 1 /\ B[1] = a
  BY <1>1, FlatOne
<1> HIDE DEF B
<1>3. \A i \in 1 .. Len(A) : i = 1
  OBVIOUS
<1>4. A = B
  BY <1>2, <1>3, RowsEqual, Zenon DEF a
<1> QED BY <1>4 DEF B, a

\* One more row of the second text is one more row of the joined one.
LEMMA JoinedNext ==
  ASSUME NEW A \in Rows, NEW B \in Rows, NEW b \in Row
  PROVE  Joined(A, Append(B, b)) = Append(Joined(A, B), b)
<1> DEFINE m == Len(A)
           n == Len(B)
           C == Append(B, b)
           J == Joined(A, B)
           K == Joined(A, C)
           L == Append(J, b)
<1>1. m \in Nat /\ 1 <= m /\ n \in Nat /\ 1 <= n
  BY RowsFacts
<1>2. C \in Rows /\ Len(C) = n + 1 /\ C[n + 1] = b /\ \A i \in 1 .. n : C[i] = B[i]
  BY AppendProperties DEF Rows
<1> HIDE DEF C
<1>3. /\ J \in Rows /\ Len(J) = m + n - 1 /\ J[m] = A[m] \o B[1]
      /\ \A i \in 1 .. m - 1 : J[i] = A[i]
      /\ \A i \in 2 .. n : J[m + i - 1] = B[i]
  BY JoinedIs, Zenon
<1>4. /\ K \in Rows /\ Len(K) = m + Len(C) - 1 /\ K[m] = A[m] \o C[1]
      /\ \A i \in 1 .. m - 1 : K[i] = A[i]
      /\ \A i \in 2 .. Len(C) : K[m + i - 1] = C[i]
  BY <1>2, JoinedIs, Zenon
<1> HIDE DEF J, K
<1>5. /\ L \in Rows /\ Len(L) = Len(J) + 1 /\ L[Len(J) + 1] = b
      /\ \A i \in 1 .. Len(J) : L[i] = J[i]
  BY <1>3, AppendProperties DEF Rows
<1> HIDE DEF L, m, n
<1>6. Len(K) = m + n /\ Len(L) = m + n
  BY <1>1, <1>2, <1>3, <1>4, <1>5
<1>7. ASSUME NEW i \in 1 .. m + n PROVE K[i] = L[i]
  <2>1. CASE i \in 1 .. m - 1
    <3>1. i \in 1 .. Len(J)
      BY <1>1, <1>3, <2>1
    <3> QED BY <1>3, <1>4, <1>5, <2>1, <3>1, Zenon
  <2>2. CASE i = m
    <3>1. i \in 1 .. Len(J) /\ 1 \in 1 .. n
      BY <1>1, <1>3, <2>2
    <3> QED BY <1>2, <1>3, <1>4, <1>5, <2>2, <3>1, Zenon
  <2>3. CASE i \in m + 1 .. m + n - 1
    <3> DEFINE j == i - m + 1
    <3>1. /\ i \in 1 .. Len(J) /\ j \in 2 .. n /\ j \in 2 .. Len(C) /\ j \in 1 .. n
          /\ m + j - 1 = i
      BY <1>1, <1>2, <1>3, <2>3
    <3> HIDE DEF j
    <3> QED BY <1>2, <1>3, <1>4, <1>5, <3>1, Zenon
  <2>4. CASE i = m + n
    <3> DEFINE j == n + 1
    <3>1. /\ i = Len(J) + 1 /\ j \in 2 .. Len(C) /\ m + j - 1 = i
      BY <1>1, <1>2, <1>3, <2>4
    <3> HIDE DEF j
    <3>2. K[i] = C[j]
      BY <1>4, <3>1, Zenon
    <3> QED BY <1>2, <1>5, <3>1, <3>2, Zenon DEF j
  <2>5. i \in 1 .. m - 1 \/ i = m \/ i \in m + 1 .. m + n - 1 \/ i = m + n
    BY <1>1
  <2> QED BY <2>1, <2>2, <2>3, <2>4, <2>5
<1>8. K = L
  BY <1>4, <1>5, <1>6, <1>7, RowsEqual
<1> QED BY <1>8, Zenon DEF K, L, J, C

\* Joining texts appends the one to the other.
LEMMA FlatJoined ==
  ASSUME NEW A \in Rows, NEW B \in Rows
  PROVE  Flat(Joined(A, B)) = Flat(A) \o Flat(B)
<1> DEFINE T == {m \in Nat : \A C \in Rows : Len(C) = m + 1 =>
                               Flat(Joined(A, C)) = Flat(A) \o Flat(C)}
<1>1. 0 \in T
  <2> SUFFICES ASSUME NEW C \in Rows, Len(C) = 1
               PROVE  Flat(Joined(A, C)) = Flat(A) \o Flat(C)
    OBVIOUS
  <2> DEFINE c == C[1]
  <2>1. c \in Row /\ C = <<c>>
    BY RowsFacts, RowsOne
  <2> HIDE DEF c
  <2> QED BY <2>1, FlatLast, FlatOne
<1>2. ASSUME NEW m \in Nat, m \in T PROVE m + 1 \in T
  <2> SUFFICES ASSUME NEW C \in Rows, Len(C) = m + 2
               PROVE  Flat(Joined(A, C)) = Flat(A) \o Flat(C)
    OBVIOUS
  <2> DEFINE c == C[Len(C)]
             F == SubSeq(C, 1, Len(C) - 1)
             x == <<Newline>> \o c
  <2>1. c \in Row /\ Len(C) > 1
    BY RowsFacts
  <2>2. F \in Rows /\ Len(F) = Len(C) - 1 /\ C = Append(F, c)
    BY <2>1, FrontOfRows
  <2> HIDE DEF c, F
  <2>3. Flat(Joined(A, F)) = Flat(A) \o Flat(F)
    BY <1>2, <2>2
  <2>4. Joined(A, C) = Append(Joined(A, F), c)
    BY <2>1, <2>2, JoinedNext
  <2>5. Joined(A, F) \in Rows
    BY <2>2, JoinedIs
  <2>6. Flat(Joined(A, C)) = Flat(Joined(A, F)) \o x
    BY <2>1, <2>4, <2>5, FlatNext
  <2>7. Flat(C) = Flat(F) \o x
    BY <2>1, <2>2, FlatNext
  <2>8. x \in Seq(Symbol)
    BY <2>1, RowIsText
  <2> HIDE DEF x
  <2>9. Flat(A) \in Seq(Symbol) /\ Flat(F) \in Seq(Symbol)
    BY <2>2, FlatText
  <2>10. (Flat(A) \o Flat(F)) \o x = Flat(A) \o (Flat(F) \o x)
    BY <2>8, <2>9, ConcatAssociative
  <2> QED BY <2>3, <2>6, <2>7, <2>10, Zenon
<1>3. Nat \subseteq T
  <2> HIDE DEF T
  <2> QED BY <1>1, <1>2, Counting
<1>4. Len(B) - 1 \in Nat /\ (Len(B) - 1) + 1 = Len(B)
  BY RowsFacts
<1>5. Len(B) - 1 \in T
  BY <1>3, <1>4, Zenon
<1> QED BY <1>4, <1>5

-----------------------------------------------------------------------------
(* The two texts a position cuts a text into                               *)

Place(L, r, c) == r \in 0 .. Len(L) - 1 /\ c \in 0 .. Len(L[r + 1])

Upto(L, r, c) == Append(SubSeq(L, 1, r), Take(L[r + 1], c))

Beyond(L, r, c) ==
  [i \in 1 .. Len(L) - r |->
     IF i = 1 THEN Drop(L[r + 1], c) ELSE L[r + i]]

\* A row cut in two gives two rows.
LEMMA RowCut ==
  ASSUME NEW row \in Row, NEW c \in 0 .. Len(row)
  PROVE  /\ Take(row, c) \in Row /\ Len(Take(row, c)) = c
         /\ Drop(row, c) \in Row /\ Len(Drop(row, c)) = Len(row) - c
         /\ Take(row, c) \o Drop(row, c) = row
BY TakeDrop DEF Row

\* A place names a row and a column of it, or the end of the row.
LEMMA PlaceFacts ==
  ASSUME NEW L \in Rows, NEW r, NEW c, Place(L, r, c)
  PROVE  /\ r \in Nat /\ c \in Nat /\ r + 1 \in 1 .. Len(L) /\ Len(L) \in Nat
         /\ L[r + 1] \in Row /\ Len(L[r + 1]) \in Nat
         /\ c \in 0 .. Len(L[r + 1])
BY RowsFacts DEF Place

\* The rows before a place, the last of them cut there.
LEMMA UptoIs ==
  ASSUME NEW L \in Rows, NEW r, NEW c, Place(L, r, c)
  PROVE  /\ Upto(L, r, c) \in Rows /\ Len(Upto(L, r, c)) = r + 1
         /\ \A i \in 1 .. r : Upto(L, r, c)[i] = L[i]
         /\ Upto(L, r, c)[r + 1] = Take(L[r + 1], c)
         /\ Len(Upto(L, r, c)[r + 1]) = c
<1> DEFINE F == SubSeq(L, 1, r)
           x == Take(L[r + 1], c)
<1>1. /\ r \in Nat /\ c \in Nat /\ r + 1 \in 1 .. Len(L) /\ Len(L) \in Nat
      /\ L[r + 1] \in Row /\ c \in 0 .. Len(L[r + 1])
      /\ \A i \in 1 .. r : L[i] \in Row
  BY PlaceFacts, RowsFacts
<1>2. x \in Row /\ Len(x) = c
  BY <1>1, RowCut
<1>3. F \in Seq(Row) /\ Len(F) = r /\ \A i \in 1 .. r : F[i] = L[i]
  BY <1>1, SubSeqProperties
<1> HIDE DEF F, x
<1>4. Upto(L, r, c) = Append(F, x)
  BY Zenon DEF Upto, F, x
<1>5. /\ Append(F, x) \in Rows /\ Len(Append(F, x)) = r + 1 /\ Append(F, x)[r + 1] = x
      /\ \A i \in 1 .. r : Append(F, x)[i] = F[i]
  <2> DEFINE A == Append(F, x)
  <2>1. /\ A \in Seq(Row) /\ A # << >> /\ Len(A) = Len(F) + 1 /\ A[Len(F) + 1] = x
        /\ \A i \in 1 .. Len(F) : A[i] = F[i]
    BY <1>2, <1>3, AppendProperties
  <2> HIDE DEF A
  <2>2. A \in Rows
    BY <2>1 DEF Rows
  <2>3. Len(A) = r + 1 /\ A[r + 1] = x /\ \A i \in 1 .. r : A[i] = F[i]
    BY <1>3, <2>1, Zenon
  <2> QED BY <2>2, <2>3 DEF A
<1> QED BY <1>2, <1>3, <1>4, <1>5, Zenon DEF x

\* The rows after a place, the first of them cut there.
LEMMA BeyondIs ==
  ASSUME NEW L \in Rows, NEW r, NEW c, Place(L, r, c)
  PROVE  /\ Beyond(L, r, c) \in Rows /\ Len(Beyond(L, r, c)) = Len(L) - r
         /\ Beyond(L, r, c)[1] = Drop(L[r + 1], c)
         /\ \A i \in 2 .. Len(L) - r : Beyond(L, r, c)[i] = L[r + i]
<1> DEFINE n == Len(L) - r
           x == Drop(L[r + 1], c)
           B == Beyond(L, r, c)
<1>1. /\ r \in Nat /\ c \in Nat /\ n \in Nat /\ 1 <= n
      /\ L[r + 1] \in Row /\ c \in 0 .. Len(L[r + 1])
      /\ \A i \in 2 .. n : L[r + i] \in Row
  BY PlaceFacts, RowsFacts
<1>2. x \in Row
  BY <1>1, RowCut
<1> HIDE DEF x, n
<1>3. B = [i \in 1 .. n |-> IF i = 1 THEN x ELSE L[r + i]]
  BY Zenon DEF Beyond, n, x
<1> HIDE DEF B
<1>4. \A i \in 1 .. n : B[i] = IF i = 1 THEN x ELSE L[r + i]
  BY <1>3, Zenon
<1>5. /\ \A i \in 1 .. n : i = 1 \/ i \in 2 .. n
      /\ \A i \in 2 .. n : i # 1 /\ i \in 1 .. n
      /\ 1 \in 1 .. n
  BY <1>1
<1>6. \A i \in 1 .. n : B[i] \in Row
  BY <1>1, <1>2, <1>4, <1>5, Zenon
<1>7. B = [i \in 1 .. n |-> B[i]]
  BY <1>3, Zenon
<1>8. B \in Rows /\ Len(B) = n
  BY <1>1, <1>6, <1>7, RowsBuilt, Zenon
<1> QED BY <1>4, <1>5, <1>8, Zenon DEF n, x, B

\* Two rows put together and cut at the seam are the two rows again.
LEMMA RowSeam ==
  ASSUME NEW a \in Row, NEW b \in Row
  PROVE  Take(a \o b, Len(a)) = a /\ Drop(a \o b, Len(a)) = b
BY ConcatSeam DEF Row

\* Cutting where two texts were joined gives them back.
LEMMA Seam ==
  ASSUME NEW A \in Rows, NEW B \in Rows, NEW r, NEW c,
         r = Len(A) - 1, c = Len(A[Len(A)])
  PROVE  /\ Place(Joined(A, B), r, c)
         /\ Upto(Joined(A, B), r, c) = A
         /\ Beyond(Joined(A, B), r, c) = B
<1> DEFINE J == Joined(A, B)
           m == Len(A)
           n == Len(B)
           a == A[m]
           p == r
           q == c
           b == B[1]
           U == Upto(J, p, q)
           V == Beyond(J, p, q)
<1>1. /\ m \in Nat /\ 1 <= m /\ n \in Nat /\ 1 <= n /\ a \in Row /\ b \in Row
      /\ Len(a) \in Nat /\ Len(b) \in Nat
  BY RowsFacts
<1>2. /\ J \in Rows /\ Len(J) = m + n - 1 /\ J[m] = a \o b
      /\ \A i \in 1 .. m - 1 : J[i] = A[i]
      /\ \A i \in 2 .. n : J[m + i - 1] = B[i]
  BY JoinedIs, Zenon
<1> HIDE DEF J, m, n, a, b, p, q
<1>3. a \o b \in Row /\ Len(a \o b) = Len(a) + Len(b)
  BY <1>1, RowConcat
<1>4. p = m - 1 /\ p + 1 = m /\ q = Len(a)
  <2>1. p = m - 1 /\ q = Len(a)
    BY DEF m, a, p, q
  <2> QED BY <1>1, <2>1
<1>5. Place(J, p, q)
  <2>1. p \in 0 .. Len(J) - 1
    BY <1>1, <1>2, <1>4
  <2>2. q \in 0 .. Len(J[p + 1])
    BY <1>1, <1>2, <1>3, <1>4
  <2> QED BY <2>1, <2>2 DEF Place
<1>6. /\ U \in Rows /\ Len(U) = p + 1
      /\ \A i \in 1 .. p : U[i] = J[i]
      /\ U[p + 1] = Take(J[p + 1], q)
  BY <1>2, <1>5, UptoIs
<1>7. /\ V \in Rows /\ Len(V) = Len(J) - p
      /\ V[1] = Drop(J[p + 1], q)
      /\ \A i \in 2 .. Len(J) - p : V[i] = J[p + i]
  BY <1>2, <1>5, BeyondIs
<1> HIDE DEF U, V
<1>8. Take(a \o b, Len(a)) = a /\ Drop(a \o b, Len(a)) = b
  BY <1>1, RowSeam
<1>9. U = A
  <2>1. Len(U) = m /\ \A i \in 1 .. m : i \in 1 .. p \/ i = m
    BY <1>1, <1>4, <1>6
  <2>2. \A i \in 1 .. p : U[i] = A[i]
    BY <1>2, <1>4, <1>6, Zenon
  <2>3. U[m] = A[m]
    BY <1>2, <1>4, <1>6, <1>8, Zenon DEF a
  <2>4. \A i \in 1 .. Len(U) : U[i] = A[i]
    BY <2>1, <2>2, <2>3, Zenon
  <2> QED BY <1>6, <2>1, <2>4, RowsEqual DEF m
<1>10. V = B
  <2>1. /\ Len(V) = n /\ Len(J) - p = n
        /\ \A i \in 1 .. n : i = 1 \/ i \in 2 .. n
        /\ \A i \in 2 .. n : p + i = m + i - 1
    <3>1. Len(J) - p = n
      BY <1>1, <1>2, <1>4
    <3>2. \A i \in 1 .. n : i = 1 \/ i \in 2 .. n
      BY <1>1
    <3>3. \A i \in 2 .. n : p + i = m + i - 1
      BY <1>1, <1>4
    <3> QED BY <1>7, <3>1, <3>2, <3>3, Zenon
  <2>2. V[1] = B[1]
    BY <1>2, <1>4, <1>7, <1>8, Zenon DEF b
  <2>3. \A i \in 2 .. n : V[i] = B[i]
    BY <1>2, <1>7, <2>1, Zenon
  <2>4. \A i \in 1 .. Len(V) : V[i] = B[i]
    BY <2>1, <2>2, <2>3, Zenon
  <2> QED BY <1>7, <2>1, <2>4, RowsEqual DEF n
<1> QED BY <1>5, <1>9, <1>10 DEF U, V, J, p, q

\* A position cuts the text into two texts that join to it.
LEMMA CutIs ==
  ASSUME NEW L \in Rows, NEW r, NEW c, Place(L, r, c)
  PROVE  L = Joined(Upto(L, r, c), Beyond(L, r, c))
<1> DEFINE U == Upto(L, r, c)
           V == Beyond(L, r, c)
           J == Joined(U, V)
           row == L[r + 1]
<1>1. /\ r \in Nat /\ c \in Nat /\ r + 1 \in 1 .. Len(L) /\ Len(L) \in Nat
      /\ row \in Row /\ c \in 0 .. Len(row)
  BY PlaceFacts
<1>2. row = Take(row, c) \o Drop(row, c)
  BY <1>1, RowCut
<1>3. /\ U \in Rows /\ Len(U) = r + 1
      /\ \A i \in 1 .. r : U[i] = L[i]
      /\ U[r + 1] = Take(row, c)
  BY UptoIs
<1>4. /\ V \in Rows /\ Len(V) = Len(L) - r
      /\ V[1] = Drop(row, c)
      /\ \A i \in 2 .. Len(L) - r : V[i] = L[r + i]
  <2>1. /\ V \in Rows /\ Len(V) = Len(L) - r
        /\ V[1] = Drop(L[r + 1], c)
    BY BeyondIs
  <2>2. \A i \in 2 .. Len(L) - r : V[i] = L[r + i]
    <3> HIDE DEF V
    <3> QED BY BeyondIs, ZenonT(30) DEF V
  <2> QED BY <2>1, <2>2
<1> HIDE DEF U, V
<1>5. /\ J \in Rows /\ Len(J) = Len(U) + Len(V) - 1 /\ J[Len(U)] = U[Len(U)] \o V[1]
      /\ \A i \in 1 .. Len(U) - 1 : J[i] = U[i]
      /\ \A i \in 2 .. Len(V) : J[Len(U) + i - 1] = V[i]
  BY <1>3, <1>4, JoinedIs, Zenon
<1> HIDE DEF J
<1>6. Len(J) = Len(L)
  BY <1>1, <1>3, <1>4, <1>5
<1>7. ASSUME NEW i \in 1 .. Len(L) PROVE L[i] = J[i]
  <2>1. CASE i \in 1 .. r
    <3>1. i \in 1 .. Len(U) - 1
      BY <1>1, <1>3, <2>1
    <3> QED BY <1>3, <1>5, <2>1, <3>1, Zenon
  <2>2. CASE i = r + 1
    BY <1>2, <1>3, <1>4, <1>5, <2>2, Zenon
  <2>3. CASE i \in r + 2 .. Len(L)
    <3> DEFINE j == i - r
    <3>1. j \in 2 .. Len(L) - r /\ j \in 2 .. Len(V) /\ r + j = i /\ Len(U) + j - 1 = i
      BY <1>1, <1>3, <1>4, <2>3
    <3> HIDE DEF j
    <3> QED BY <1>4, <1>5, <3>1, Zenon
  <2>4. i \in 1 .. r \/ i = r + 1 \/ i \in r + 2 .. Len(L)
    BY <1>1
  <2> QED BY <2>1, <2>2, <2>3, <2>4
<1>8. L = J
  BY <1>5, <1>6, <1>7, RowsEqual
<1> QED BY <1>8 DEF J, U, V

-----------------------------------------------------------------------------
(* What the edits of editor.c do to the texts around them                  *)

\* Splice puts rows between the two texts around a position.
LEMMA SpliceIs ==
  ASSUME NEW L \in Rows, NEW r, NEW c, Place(L, r, c), NEW segs \in Rows
  PROVE  Splice(L, r, c, segs) = Joined(Joined(Upto(L, r, c), segs), Beyond(L, r, c))
<1> DEFINE U == Upto(L, r, c)
           V == Beyond(L, r, c)
           P == Joined(U, segs)
           Q == Joined(P, V)
           S == Splice(L, r, c, segs)
           n == Len(segs)
           k == Len(L) + n - 1
           head == Take(L[r + 1], c)
           tail == Drop(L[r + 1], c)
           seg(i) == (IF i = 1 THEN head ELSE << >>) \o segs[i]
                       \o (IF i = n THEN tail ELSE << >>)
<1>1. /\ r \in Nat /\ Len(L) \in Nat /\ r + 1 <= Len(L)
      /\ n \in Nat /\ 1 <= n
      /\ \A i \in 1 .. n : segs[i] \in Row
  BY PlaceFacts, RowsFacts
<1>2. /\ U \in Rows /\ Len(U) = r + 1
      /\ \A i \in 1 .. r : U[i] = L[i]
      /\ U[r + 1] = head
  BY UptoIs
<1>3. /\ V \in Rows /\ Len(V) = Len(L) - r /\ V[1] = tail
      /\ \A i \in 2 .. Len(L) - r : V[i] = L[r + i]
  BY BeyondIs
<1>4. head \in Row /\ tail \in Row
  BY PlaceFacts, RowCut
<1>5. S = [i \in 1 .. k |-> IF i <= r THEN L[i]
                            ELSE IF i <= r + n THEN seg(i - r) ELSE L[i - n + 1]]
  BY Zenon DEF Splice, Take, Drop
<1> HIDE DEF U, V, head, tail, S, n
<1>6. /\ P \in Rows /\ Len(P) = Len(U) + n - 1 /\ P[Len(U)] = U[Len(U)] \o segs[1]
      /\ \A i \in 1 .. Len(U) - 1 : P[i] = U[i]
      /\ \A i \in 2 .. n : P[Len(U) + i - 1] = segs[i]
  BY <1>2, JoinedIs, Zenon DEF n
<1> HIDE DEF P
<1>7. /\ Len(P) = r + n /\ P[r + 1] = head \o segs[1]
      /\ \A i \in 1 .. r : P[i] = L[i]
      /\ \A i \in 2 .. n : P[r + i] = segs[i]
      /\ \A i \in 1 .. n : P[r + i] \in Row
  <2>1. Len(P) = r + n
    BY <1>1, <1>2, <1>6
  <2>2. ASSUME NEW i \in 2 .. n PROVE P[r + i] = segs[i]
    <3>1. Len(U) + i - 1 = r + i
      BY <1>1, <1>2
    <3> QED BY <1>6, <3>1
  <2>3. ASSUME NEW i \in 1 .. r PROVE P[i] = L[i]
    <3>1. i \in 1 .. Len(U) - 1
      BY <1>1, <1>2
    <3> QED BY <1>2, <1>6, <3>1, Zenon
  <2>4. \A i \in 1 .. n : r + i \in 1 .. Len(P)
    BY <1>1, <2>1
  <2>5. \A i \in 1 .. n : P[r + i] \in Row
    BY <1>6, <2>4, RowsFacts, Zenon
  <2> QED BY <1>2, <1>6, <2>1, <2>2, <2>3, <2>5, Zenon
<1>8. /\ Q \in Rows /\ Len(Q) = Len(P) + Len(V) - 1 /\ Q[Len(P)] = P[Len(P)] \o V[1]
      /\ \A i \in 1 .. Len(P) - 1 : Q[i] = P[i]
      /\ \A i \in 2 .. Len(V) : Q[Len(P) + i - 1] = V[i]
  BY <1>3, <1>6, JoinedIs, Zenon
<1> HIDE DEF Q
<1>9. /\ Len(Q) = k /\ Q[r + n] = P[r + n] \o tail
      /\ \A i \in 1 .. r + n - 1 : Q[i] = P[i]
  <2>1. Len(Q) = k
    BY <1>1, <1>3, <1>7, <1>8
  <2>2. Q[r + n] = P[r + n] \o tail
    BY <1>3, <1>7, <1>8, Zenon
  <2>3. \A i \in 1 .. r + n - 1 : Q[i] = P[i]
    <3>1. Len(P) - 1 = r + n - 1
      <4>1. Len(P) = r + n
        BY <1>7, Zenon
      <4> QED BY <1>1, <4>1
    <3>2. \A i \in 1 .. Len(P) - 1 : Q[i] = P[i]
      BY <1>8
    <3> QED BY <3>1, <3>2, Zenon
  <2> QED BY <2>1, <2>2, <2>3
<1>10. ASSUME NEW i \in 1 .. n PROVE seg(i) = Q[r + i]
  <2>1. (IF i = 1 THEN head ELSE << >>) \o segs[i] = P[r + i]
    <3>1. CASE i = 1
      BY <1>7, <3>1, Zenon
    <3>2. CASE i # 1
      <4>1. i \in 2 .. n
        BY <1>1, <3>2
      <4>2. << >> \o segs[i] = segs[i]
        BY <1>1, RowConcat
      <4> QED BY <1>7, <3>2, <4>1, <4>2, Zenon
    <3> QED BY <3>1, <3>2
  <2>2. CASE i = n
    BY <1>9, <2>1, <2>2, Zenon
  <2>3. CASE i # n
    <3>1. r + i \in 1 .. r + n - 1
      BY <1>1, <2>3
    <3>2. P[r + i] \o << >> = P[r + i]
      BY <1>7, RowConcat
    <3> QED BY <1>9, <2>1, <2>3, <3>1, <3>2, Zenon
  <2> QED BY <2>2, <2>3
<1> HIDE DEF seg
<1>11. ASSUME NEW i \in 1 .. k PROVE S[i] = Q[i]
  <2>1. S[i] = IF i <= r THEN L[i] ELSE IF i <= r + n THEN seg(i - r) ELSE L[i - n + 1]
    BY <1>5, Zenon
  <2>2. CASE i <= r
    <3>1. i \in 1 .. r /\ i \in 1 .. r + n - 1
      BY <1>1, <2>2
    <3> QED BY <1>7, <1>9, <2>1, <2>2, <3>1, Zenon
  <2>3. CASE ~(i <= r) /\ i <= r + n
    <3>1. i - r \in 1 .. n /\ r + (i - r) = i
      BY <1>1, <2>3
    <3> QED BY <1>10, <2>1, <2>3, <3>1, Zenon
  <2>4. CASE ~(i <= r) /\ ~(i <= r + n)
    <3> DEFINE j == i - (r + n) + 1
    <3>1. /\ j \in 2 .. Len(V) /\ j \in 2 .. Len(L) - r /\ Len(P) + j - 1 = i
          /\ r + j = i - n + 1
      BY <1>1, <1>3, <1>7, <2>4
    <3> HIDE DEF j
    <3>2. Q[i] = V[j]
      BY <1>8, <3>1, Zenon
    <3> QED BY <1>3, <2>1, <2>4, <3>1, <3>2, Zenon
  <2> QED BY <2>2, <2>3, <2>4
<1>12. k \in Nat /\ 1 <= k
  BY <1>1
<1>13. S \in Rows /\ Len(S) = k
  <2>1. S = [i \in 1 .. k |-> S[i]]
    BY <1>5, Zenon
  <2>2. \A i \in 1 .. k : S[i] \in Row
    <3>1. \A i \in 1 .. k : Q[i] \in Row
      BY <1>8, <1>9, RowsFacts
    <3> QED BY <1>11, <3>1, Zenon
  <2> HIDE DEF k
  <2> QED BY <1>12, <2>1, <2>2, RowsBuilt, Zenon
<1>14. S = Q
  BY <1>8, <1>9, <1>11, <1>13, RowsEqual
<1> QED BY <1>14 DEF S, Q, P, U, V

\* DeleteRange leaves the text before the one position and that after the other.
LEMMA DeleteIs ==
  ASSUME NEW L \in Rows, NEW sr, NEW sc, Place(L, sr, sc),
         NEW er, NEW ec, Place(L, er, ec), sr <= er
  PROVE  DeleteRange(L, sr, sc, er, ec) = Joined(Upto(L, sr, sc), Beyond(L, er, ec))
<1> DEFINE U == Upto(L, sr, sc)
           V == Beyond(L, er, ec)
           J == Joined(U, V)
           D == DeleteRange(L, sr, sc, er, ec)
           k == Len(L) - (er - sr)
           head == Take(L[sr + 1], sc)
           tail == Drop(L[er + 1], ec)
<1>1. sr \in Nat /\ er \in Nat /\ Len(L) \in Nat /\ sr + 1 <= Len(L) /\ er + 1 <= Len(L)
  BY PlaceFacts
<1>2. /\ U \in Rows /\ Len(U) = sr + 1
      /\ \A i \in 1 .. sr : U[i] = L[i]
      /\ U[sr + 1] = head
  BY UptoIs
<1>3. /\ V \in Rows /\ Len(V) = Len(L) - er /\ V[1] = tail
      /\ \A i \in 2 .. Len(L) - er : V[i] = L[er + i]
  BY BeyondIs
<1>4. D = [i \in 1 .. k |-> IF i <= sr THEN L[i]
                            ELSE IF i = sr + 1 THEN head \o tail ELSE L[i + (er - sr)]]
  BY Zenon DEF DeleteRange, Take, Drop
<1> HIDE DEF U, V, head, tail, D
<1>5. /\ J \in Rows /\ Len(J) = Len(U) + Len(V) - 1 /\ J[Len(U)] = U[Len(U)] \o V[1]
      /\ \A i \in 1 .. Len(U) - 1 : J[i] = U[i]
      /\ \A i \in 2 .. Len(V) : J[Len(U) + i - 1] = V[i]
  BY <1>2, <1>3, JoinedIs, Zenon
<1> HIDE DEF J
<1>6. Len(J) = k /\ k \in Nat /\ 1 <= k
  BY <1>1, <1>2, <1>3, <1>5
<1>7. ASSUME NEW i \in 1 .. k PROVE D[i] = J[i]
  <2>1. D[i] = IF i <= sr THEN L[i]
              ELSE IF i = sr + 1 THEN head \o tail ELSE L[i + (er - sr)]
    BY <1>4, Zenon
  <2>2. CASE i <= sr
    <3>1. i \in 1 .. sr /\ i \in 1 .. Len(U) - 1
      BY <1>1, <1>2, <2>2
    <3> QED BY <1>2, <1>5, <2>1, <2>2, <3>1, Zenon
  <2>3. CASE i = sr + 1
    <3>1. ~(i <= sr)
      BY <1>1, <2>3
    <3> QED BY <1>2, <1>3, <1>5, <2>1, <2>3, <3>1, Zenon
  <2>4. CASE ~(i <= sr) /\ i # sr + 1
    <3> DEFINE j == i - sr
    <3>1. /\ j \in 2 .. Len(V) /\ j \in 2 .. Len(L) - er /\ Len(U) + j - 1 = i
          /\ er + j = i + (er - sr)
      BY <1>1, <1>2, <1>3, <2>4
    <3> HIDE DEF j
    <3>2. J[i] = V[j]
      BY <1>5, <3>1, Zenon
    <3> QED BY <1>3, <2>1, <2>4, <3>1, <3>2, Zenon
  <2> QED BY <2>2, <2>3, <2>4
<1>8. D \in Rows /\ Len(D) = k
  <2>1. D = [i \in 1 .. k |-> D[i]]
    BY <1>4, Zenon
  <2>2. \A i \in 1 .. k : D[i] \in Row
    <3>1. \A i \in 1 .. k : J[i] \in Row
      BY <1>5, <1>6, RowsFacts
    <3> QED BY <1>7, <3>1, Zenon
  <2> HIDE DEF k
  <2> QED BY <1>6, <2>1, <2>2, RowsBuilt, Zenon
<1>9. D = J
  BY <1>5, <1>6, <1>7, <1>8, RowsEqual
<1> QED BY <1>9 DEF D, J, U, V

\* Two positions in the order of the text.
Ordered(L, sr, sc, er, ec) ==
  /\ Place(L, sr, sc) /\ Place(L, er, ec)
  /\ sr < er \/ (sr = er /\ sc <= ec)

\* Slice is what lies between the two positions.
LEMMA SliceIs ==
  ASSUME NEW L \in Rows, NEW sr, NEW sc, NEW er, NEW ec, Ordered(L, sr, sc, er, ec)
  PROVE  /\ Slice(L, sr, sc, er, ec) \in Rows
         /\ Upto(L, er, ec) = Joined(Upto(L, sr, sc), Slice(L, sr, sc, er, ec))
<1> DEFINE U == Upto(L, sr, sc)
           W == Upto(L, er, ec)
           S == Slice(L, sr, sc, er, ec)
           J == Joined(U, S)
           n == er - sr + 1
           piece(i) == SubSeq(L[sr + i], IF i = 1 THEN sc + 1 ELSE 1,
                              IF i = n THEN ec ELSE Len(L[sr + i]))
<1>1. Place(L, sr, sc) /\ Place(L, er, ec)
  BY DEF Ordered
<1>2. /\ sr \in Nat /\ sc \in Nat /\ er \in Nat /\ ec \in Nat /\ Len(L) \in Nat
      /\ sr + 1 <= Len(L) /\ er + 1 <= Len(L) /\ sr <= er
      /\ sc \in 0 .. Len(L[sr + 1]) /\ ec \in 0 .. Len(L[er + 1])
      /\ \A i \in 1 .. Len(L) : L[i] \in Row /\ Len(L[i]) \in Nat
  BY <1>1, PlaceFacts, RowsFacts DEF Ordered
<1>3. n \in Nat /\ 1 <= n
  BY <1>2
<1>4. S \in Rows /\ Len(S) = n
  <2>1. S \in Seq(Row)
    BY <1>2, SliceText DEF Rows
  <2>2. S = [i \in 1 .. n |-> piece(i)]
    BY Zenon DEF Slice
  <2>3. DOMAIN S = 1 .. n
    BY <2>2, Zenon
  <2> HIDE DEF S, n
  <2>4. Len(S) = n
    BY <1>3, <2>1, <2>3, LenProperties
  <2> QED BY <1>3, <2>1, <2>4, EmptySeq DEF Rows
<1>5. \A i \in 1 .. n : S[i] = piece(i)
  BY Zenon DEF Slice
<1>6. /\ U \in Rows /\ Len(U) = sr + 1
      /\ \A i \in 1 .. sr : U[i] = L[i]
      /\ U[sr + 1] = Take(L[sr + 1], sc)
  BY <1>1, UptoIs
<1>7. /\ W \in Rows /\ Len(W) = er + 1
      /\ \A i \in 1 .. er : W[i] = L[i]
      /\ W[er + 1] = Take(L[er + 1], ec)
  BY <1>1, UptoIs
<1> HIDE DEF U, W, S
<1>8. /\ J \in Rows /\ Len(J) = Len(U) + Len(S) - 1 /\ J[Len(U)] = U[Len(U)] \o S[1]
      /\ \A i \in 1 .. Len(U) - 1 : J[i] = U[i]
      /\ \A i \in 2 .. Len(S) : J[Len(U) + i - 1] = S[i]
  BY <1>4, <1>6, JoinedIs, Zenon
<1> HIDE DEF J
<1>9. Len(J) = er + 1
  BY <1>2, <1>4, <1>6, <1>8
<1>10. \A i \in 1 .. sr : W[i] = J[i]
  <2>1. \A i \in 1 .. sr : i \in 1 .. Len(U) - 1 /\ i \in 1 .. er
    BY <1>2, <1>6
  <2> QED BY <1>6, <1>7, <1>8, <2>1, Zenon
<1>11. W[sr + 1] = J[sr + 1]
  <2> DEFINE row == L[sr + 1]
  <2>1. /\ row \in Row /\ row \in Seq(Char) /\ Len(row) \in Nat /\ sc \in 0 .. Len(row)
        /\ 1 \in 1 .. n
    BY <1>2, <1>3 DEF Row
  <2>2. J[sr + 1] = Take(row, sc) \o piece(1)
    BY <1>5, <1>6, <1>8, <2>1, Zenon
  <2>3. CASE sr = er
    <3>1. piece(1) = SubSeq(row, sc + 1, ec) /\ sc <= ec /\ ec <= Len(row)
      BY <1>2, <2>3 DEF Ordered
    <3>2. W[sr + 1] = Take(row, ec)
      BY <1>7, <2>3
    <3> HIDE DEF row, piece
    <3>3. SubSeq(row, 1, sc) \o SubSeq(row, sc + 1, ec) = SubSeq(row, 1, ec)
      <4>1. /\ 1 \in 1 .. Len(row) + 1 /\ sc \in 1 - 1 .. Len(row)
            /\ ec \in sc .. Len(row)
        BY <1>2, <2>1, <3>1
      <4> QED BY <2>1, <4>1, ConcatAdjacentSubSeq
    <3> QED BY <2>2, <3>1, <3>2, <3>3, Zenon DEF Take
  <2>4. CASE sr # er
    <3>1. piece(1) = Drop(row, sc)
      <4>1. 1 # n
        BY <1>2, <2>4
      <4> HIDE DEF n
      <4> QED BY <4>1, Zenon DEF Drop
    <3>2. sr + 1 \in 1 .. er
      BY <1>2, <2>4
    <3> HIDE DEF row, piece
    <3>3. Take(row, sc) \o Drop(row, sc) = row
      BY <2>1, RowCut
    <3> QED BY <1>7, <2>2, <3>1, <3>2, <3>3, Zenon DEF row
  <2> QED BY <2>3, <2>4
<1>12. ASSUME NEW i \in 2 .. n PROVE W[sr + i] = J[sr + i]
  <2> DEFINE row == L[sr + i]
  <2>1. /\ i \in 1 .. n /\ i \in 2 .. Len(S) /\ Len(U) + i - 1 = sr + i /\ i # 1
        /\ row \in Seq(Char)
    BY <1>2, <1>4, <1>6 DEF Row
  <2>2. J[sr + i] = piece(i)
    BY <1>5, <1>8, <2>1, Zenon
  <2>3. CASE i = n
    <3>1. sr + i = er + 1
      BY <1>2, <2>3
    <3>2. piece(i) = SubSeq(row, 1, ec)
      BY <2>1, <2>3, Zenon
    <3> QED BY <1>7, <2>2, <3>1, <3>2, Zenon DEF Take
  <2>4. CASE i # n
    <3>1. sr + i \in 1 .. er
      BY <1>2, <2>4
    <3>2. piece(i) = SubSeq(row, 1, Len(row))
      BY <2>1, <2>4, Zenon
    <3> HIDE DEF row, piece
    <3>3. SubSeq(row, 1, Len(row)) = row
      BY <2>1, SubSeqFull
    <3> QED BY <1>7, <2>2, <3>1, <3>2, <3>3, Zenon DEF row
  <2> QED BY <2>3, <2>4
<1>13. ASSUME NEW i \in 1 .. er + 1 PROVE W[i] = J[i]
  <2>1. CASE i \in 1 .. sr
    BY <1>10, <2>1
  <2>2. CASE i = sr + 1
    BY <1>11, <2>2
  <2>3. CASE i \in sr + 2 .. er + 1
    <3> DEFINE j == i - sr
    <3>1. j \in 2 .. n /\ sr + j = i
      BY <1>2, <2>3
    <3> HIDE DEF j
    <3> QED BY <1>12, <3>1
  <2>4. i \in 1 .. sr \/ i = sr + 1 \/ i \in sr + 2 .. er + 1
    BY <1>2
  <2> QED BY <2>1, <2>2, <2>3, <2>4
<1>14. W = J
  BY <1>7, <1>8, <1>9, <1>13, RowsEqual
<1> QED BY <1>4, <1>14 DEF S, W, J, U

-----------------------------------------------------------------------------
(* The same on the flat text                                               *)

\* The offset of a place counts the symbols before it.
LEMMA OffsetIs ==
  ASSUME NEW L \in Rows, NEW r, NEW c, Place(L, r, c)
  PROVE  Offset(L, r, c) = Len(Flat(Upto(L, r, c))) /\ Offset(L, r, c) \in Nat
<1>1. Offset(L, r, c) = Len(Flat(Upto(L, r, c)))
  BY Zenon DEF Offset, Upto, Take
<1>2. Upto(L, r, c) \in Rows
  BY UptoIs
<1> QED BY <1>1, <1>2, FlatText

\* A position cuts the text where its offset does.
LEMMA TextCut ==
  ASSUME NEW L \in Rows, NEW r, NEW c, Place(L, r, c)
  PROVE  /\ Offset(L, r, c) \in 0 .. Len(Flat(L))
         /\ Take(Flat(L), Offset(L, r, c)) = Flat(Upto(L, r, c))
         /\ Drop(Flat(L), Offset(L, r, c)) = Flat(Beyond(L, r, c))
<1> DEFINE U == Upto(L, r, c)
           V == Beyond(L, r, c)
           u == Flat(U)
           v == Flat(V)
<1>1. U \in Rows /\ V \in Rows
  BY UptoIs, BeyondIs
<1>2. L = Joined(U, V)
  BY CutIs
<1>3. Offset(L, r, c) = Len(u)
  BY OffsetIs
<1> HIDE DEF U, V
<1>4. Flat(L) = u \o v
  BY <1>1, <1>2, FlatJoined
<1>5. u \in Seq(Symbol) /\ v \in Seq(Symbol)
  BY <1>1, FlatText
<1> HIDE DEF u, v
<1>6. Take(u \o v, Len(u)) = u /\ Drop(u \o v, Len(u)) = v
  BY <1>5, ConcatSeam
<1>7. Len(u) \in 0 .. Len(u \o v)
  BY <1>5, ConcatProperties, LenProperties
<1> QED BY <1>3, <1>4, <1>6, <1>7, Zenon DEF u, v, U, V

\* A text built of two, with a position where they meet.
Meets(L, r, c, A, B) ==
  /\ L \in Rows /\ Place(L, r, c)
  /\ Flat(L) = Flat(A) \o Flat(B)
  /\ Offset(L, r, c) = Len(Flat(A))
  /\ Take(Flat(L), Offset(L, r, c)) = Flat(A)
  /\ Drop(Flat(L), Offset(L, r, c)) = Flat(B)

\* Where two blocks of rows were joined, they meet.
LEMMA Built ==
  ASSUME NEW A \in Rows, NEW B \in Rows,
         NEW r, NEW c, r = Len(A) - 1, c = Len(A[Len(A)])
  PROVE  Meets(Joined(A, B), r, c, A, B)
<1> DEFINE L == Joined(A, B)
<1>1. L \in Rows
  BY JoinedIs
<1>2. Place(L, r, c) /\ Upto(L, r, c) = A /\ Beyond(L, r, c) = B
  BY Seam
<1>3. Flat(L) = Flat(A) \o Flat(B)
  BY FlatJoined
<1> HIDE DEF L
<1>4. /\ Offset(L, r, c) = Len(Flat(Upto(L, r, c)))
      /\ Take(Flat(L), Offset(L, r, c)) = Flat(Upto(L, r, c))
      /\ Drop(Flat(L), Offset(L, r, c)) = Flat(Beyond(L, r, c))
  BY <1>1, <1>2, OffsetIs, TextCut
<1> QED BY <1>1, <1>2, <1>3, <1>4, Zenon DEF L, Meets

\* Rows put at a position, with the cursor after them.
Spliced(L, r, c, segs, c2) ==
  LET t == Flat(L)
      p == Offset(L, r, c)
      M == Splice(L, r, c, segs)
      r2 == r + Len(segs) - 1
  IN  /\ M \in Rows /\ Place(M, r2, c2)
      /\ Flat(M) = Take(t, p) \o Flat(segs) \o Drop(t, p)
      /\ Offset(M, r2, c2) = p + Len(Flat(segs))

\* Splicing rows in at a place puts their text in at its offset.
LEMMA SpliceFlat ==
  ASSUME NEW L \in Rows, NEW r, NEW c, Place(L, r, c), NEW segs \in Rows,
         NEW c2, c2 = Len(segs[Len(segs)]) + (IF Len(segs) = 1 THEN c ELSE 0)
  PROVE  Spliced(L, r, c, segs, c2)
<1> DEFINE t == Flat(L)
           p == Offset(L, r, c)
           M == Splice(L, r, c, segs)
           n == Len(segs)
           r2 == r + n - 1
           U == Upto(L, r, c)
           V == Beyond(L, r, c)
           A == Joined(U, segs)
<1>1. U \in Rows /\ V \in Rows /\ Len(U) = r + 1 /\ Len(U[r + 1]) = c
  BY UptoIs, BeyondIs
<1>2. M = Joined(A, V)
  BY SpliceIs
<1>3. Take(t, p) = Flat(U) /\ Drop(t, p) = Flat(V) /\ p = Len(Flat(U))
  BY TextCut, OffsetIs
<1>4. /\ n \in Nat /\ 1 <= n /\ r \in Nat /\ c \in Nat
      /\ \A i \in 1 .. n : segs[i] \in Row /\ Len(segs[i]) \in Nat
      /\ U[Len(U)] \in Row
  BY <1>1, PlaceFacts, RowsFacts
<1> HIDE DEF U, V, t, p, M, n
<1>5. /\ A \in Rows /\ Len(A) = Len(U) + n - 1 /\ A[Len(U)] = U[Len(U)] \o segs[1]
      /\ \A i \in 2 .. n : A[Len(U) + i - 1] = segs[i]
  BY <1>1, JoinedIs DEF n
<1>6. Flat(A) = Flat(U) \o Flat(segs)
  BY <1>1, FlatJoined
<1>7. Len(Flat(A)) = p + Len(Flat(segs))
  <2>1. Flat(U) \in Seq(Symbol) /\ Flat(segs) \in Seq(Symbol)
    BY <1>1, FlatText
  <2> QED BY <1>3, <1>6, <2>1, ConcatProperties
<1> HIDE DEF A
<1>8. r2 = Len(A) - 1
  BY <1>1, <1>4, <1>5
<1>9. c2 = Len(A[Len(A)])
  <2>1. CASE n = 1
    <3>1. Len(A) = Len(U) /\ A[Len(A)] = U[Len(U)] \o segs[1] /\ 1 \in 1 .. n
      <4>1. Len(A) = Len(U) /\ 1 \in 1 .. n
        BY <1>1, <1>4, <1>5, <2>1
      <4> QED BY <1>5, <4>1, Zenon
    <3>2. Len(U[Len(U)] \o segs[1]) = c + Len(segs[1])
      <4>1. Len(U[Len(U)]) = c
        BY <1>1
      <4>2. segs[1] \in Row
        BY <1>4, <3>1
      <4> QED BY <1>4, <4>1, <4>2, RowConcat
    <3>3. c2 = Len(segs[1]) + c
      BY <2>1 DEF n
    <3>4. Len(segs[1]) \in Nat
      BY <1>4, <3>1
    <3>5. Len(A[Len(A)]) = c + Len(segs[1])
      BY <3>1, <3>2, Zenon
    <3> DEFINE l == Len(segs[1])
    <3> HIDE DEF l
    <3>6. c2 = l + c /\ Len(A[Len(A)]) = c + l /\ l \in Nat
      BY <3>3, <3>4, <3>5 DEF l
    <3>7. c \in Nat /\ l \in Nat
      BY <1>4, <3>6
    <3>8. c + l = l + c
      BY <3>7
    <3> QED BY <3>6, <3>8, Zenon
  <2>2. CASE n # 1
    <3>1. n \in 2 .. n /\ n \in 1 .. n /\ Len(A) = Len(U) + n - 1
      BY <1>1, <1>4, <1>5, <2>2
    <3>2. A[Len(A)] = segs[n]
      BY <1>5, <3>1, Zenon
    <3>3. c2 = Len(segs[n]) + 0
      BY <2>2 DEF n
    <3>4. Len(segs[n]) \in Nat
      BY <1>4, <3>1
    <3> QED BY <3>2, <3>3, <3>4
  <2> QED BY <2>1, <2>2
<1> HIDE DEF r2
<1>10. /\ M \in Rows /\ Place(M, r2, c2)
       /\ Flat(M) = Flat(A) \o Flat(V)
       /\ Offset(M, r2, c2) = Len(Flat(A))
  <2>1. Meets(Joined(A, V), r2, c2, A, V)
    BY <1>1, <1>5, <1>8, <1>9, Built
  <2> QED BY <1>2, <2>1, Zenon DEF Meets
<1>11. Flat(M) = Take(t, p) \o Flat(segs) \o Drop(t, p)
  BY <1>3, <1>6, <1>10, Zenon
<1>12. Offset(M, r2, c2) = p + Len(Flat(segs))
  BY <1>7, <1>10, Zenon
<1> QED BY <1>10, <1>11, <1>12, Zenon DEF Spliced, M, r2, t, p, n

\* A range removed, with the cursor where it began.
LEMMA DeleteFlat ==
  ASSUME NEW L \in Rows, NEW sr, NEW sc, NEW er, NEW ec, Ordered(L, sr, sc, er, ec)
  PROVE  LET t == Flat(L)
             i == Offset(L, sr, sc)
             j == Offset(L, er, ec)
             M == DeleteRange(L, sr, sc, er, ec)
         IN  /\ M \in Rows /\ Place(M, sr, sc)
             /\ Flat(M) = Take(t, i) \o Drop(t, j)
             /\ Offset(M, sr, sc) = i
             /\ Take(Flat(M), i) = Take(t, i)
             /\ Drop(Flat(M), i) = Drop(t, j)
<1> DEFINE t == Flat(L)
           i == Offset(L, sr, sc)
           j == Offset(L, er, ec)
           M == DeleteRange(L, sr, sc, er, ec)
           U == Upto(L, sr, sc)
           V == Beyond(L, er, ec)
<1>1. /\ Place(L, sr, sc) /\ Place(L, er, ec) /\ sr <= er /\ sr \in Nat
  BY PlaceFacts DEF Ordered, Place
<1>2. U \in Rows /\ V \in Rows /\ Len(U) = sr + 1 /\ Len(U[sr + 1]) = sc
  BY <1>1, UptoIs, BeyondIs
<1>3. M = Joined(U, V)
  BY <1>1, DeleteIs
<1>4. Take(t, i) = Flat(U) /\ Drop(t, j) = Flat(V) /\ i = Len(Flat(U))
  BY <1>1, TextCut, OffsetIs
<1> HIDE DEF U, V, t, i, j, M
<1>5. sr = Len(U) - 1 /\ sc = Len(U[Len(U)])
  BY <1>1, <1>2
<1>6. /\ M \in Rows /\ Place(M, sr, sc)
      /\ Flat(M) = Flat(U) \o Flat(V)
      /\ Offset(M, sr, sc) = Len(Flat(U))
      /\ Take(Flat(M), Offset(M, sr, sc)) = Flat(U)
      /\ Drop(Flat(M), Offset(M, sr, sc)) = Flat(V)
  <2>1. Meets(Joined(U, V), sr, sc, U, V)
    BY <1>2, <1>5, Built
  <2> QED BY <1>3, <2>1, Zenon DEF Meets
<1> QED BY <1>4, <1>6, Zenon DEF t, i, j, M

\* The offsets of ordered positions are ordered, and what lies between them is
\* the text of the slice.
LEMMA SliceFlat ==
  ASSUME NEW L \in Rows, NEW sr, NEW sc, NEW er, NEW ec, Ordered(L, sr, sc, er, ec)
  PROVE  /\ Slice(L, sr, sc, er, ec) \in Rows
         /\ Offset(L, sr, sc) <= Offset(L, er, ec)
         /\ SubSeq(Flat(L), Offset(L, sr, sc) + 1, Offset(L, er, ec))
              = Flat(Slice(L, sr, sc, er, ec))
<1> DEFINE t == Flat(L)
           i == Offset(L, sr, sc)
           j == Offset(L, er, ec)
           S == Slice(L, sr, sc, er, ec)
           u == Flat(Upto(L, sr, sc))
           w == Flat(Upto(L, er, ec))
           s == Flat(S)
<1>1. Place(L, sr, sc) /\ Place(L, er, ec)
  BY DEF Ordered
<1>2. S \in Rows /\ Upto(L, er, ec) = Joined(Upto(L, sr, sc), S)
  BY SliceIs
<1>3. Upto(L, sr, sc) \in Rows
  BY <1>1, UptoIs
<1>4. w = u \o s /\ u \in Seq(Symbol) /\ s \in Seq(Symbol)
  BY <1>2, <1>3, FlatJoined, FlatText
<1>5. /\ i = Len(u) /\ j = Len(w) /\ Take(t, j) = w
      /\ j \in 0 .. Len(t) /\ t \in Seq(Symbol)
  BY <1>1, OffsetIs, TextCut, FlatText
<1> HIDE DEF t, i, j, S, u, w, s
<1>6. i \in Nat /\ j \in Nat /\ j = i + Len(s) /\ Len(s) \in Nat /\ Len(t) \in Nat
  <2>1. Len(u) \in Nat /\ Len(s) \in Nat /\ Len(u \o s) = Len(u) + Len(s)
    BY <1>4, ConcatProperties, LenProperties
  <2> QED BY <1>4, <1>5, <2>1, LenProperties
<1>7. SubSeq(t, i + 1, j) = s
  <2> DEFINE x == SubSeq(t, i + 1, j)
  <2>1. \A k \in i + 1 .. j : t[k] \in Symbol
    BY <1>5, <1>6
  <2>2. x \in Seq(Symbol) /\ Len(x) = Len(s) /\ \A k \in 1 .. Len(s) : x[k] = t[i + k]
    <3>1. /\ x \in Seq(Symbol)
          /\ Len(x) = IF i + 1 <= j THEN j - (i + 1) + 1 ELSE 0
          /\ \A k \in 1 .. j - (i + 1) + 1 : x[k] = t[(i + 1) + k - 1]
      BY <1>6, <2>1, SubSeqProperties
    <3> HIDE DEF x
    <3>2. Len(x) = Len(s)
      BY <1>6, <3>1
    <3>3. ASSUME NEW k \in 1 .. Len(s) PROVE x[k] = t[i + k]
      <4>1. k \in 1 .. j - (i + 1) + 1 /\ (i + 1) + k - 1 = i + k
        BY <1>6
      <4> QED BY <3>1, <4>1
    <3> QED BY <3>1, <3>2, <3>3
  <2> HIDE DEF x
  <2>3. ASSUME NEW k \in 1 .. Len(s) PROVE x[k] = s[k]
    <3>1. i + k \in 1 .. j /\ ~(i + k <= Len(u)) /\ (i + k) - Len(u) = k
          /\ i + k \in 1 .. Len(u) + Len(s)
      BY <1>5, <1>6
    <3>2. w[i + k] = t[i + k]
      BY <1>5, <3>1, TakeDrop
    <3>3. w[i + k] = s[k]
      BY <1>4, <3>1, ConcatProperties
    <3> QED BY <2>2, <3>2, <3>3
  <2>4. x = s
    BY <1>4, <2>2, <2>3, SeqEqual
  <2> QED BY <2>4 DEF x
<1> QED BY <1>2, <1>6, <1>7 DEF t, i, j, S, s

\* Symbol by symbol, what lies between two positions.
LEMMA SliceSpan ==
  ASSUME NEW L \in Rows, NEW sr, NEW sc, NEW er, NEW ec, Ordered(L, sr, sc, er, ec),
         NEW q, q = Flat(Slice(L, sr, sc, er, ec))
  PROVE  /\ q \in Seq(Symbol)
         /\ Offset(L, er, ec) = Offset(L, sr, sc) + Len(q)
         /\ \A k \in 1 .. Len(q) : Flat(L)[Offset(L, sr, sc) + k] = q[k]
<1> DEFINE t == Flat(L)
           i == Offset(L, sr, sc)
           j == Offset(L, er, ec)
<1>1. Place(L, sr, sc) /\ Place(L, er, ec)
  BY DEF Ordered
<1>2. i \in 0 .. Len(t) /\ j \in 0 .. Len(t)
  BY <1>1, TextCut
<1>3. t \in Seq(Symbol) /\ Len(t) \in Nat
  BY FlatText
<1>4. i <= j /\ SubSeq(t, i + 1, j) = q /\ q \in Seq(Symbol)
  BY SliceFlat, FlatText
<1> HIDE DEF t, i, j
<1>5. \A k \in i + 1 .. j : t[k] \in Symbol
  BY <1>2, <1>3
<1>6. /\ Len(SubSeq(t, i + 1, j)) = IF i + 1 <= j THEN j - (i + 1) + 1 ELSE 0
      /\ \A k \in 1 .. j - (i + 1) + 1 : SubSeq(t, i + 1, j)[k] = t[(i + 1) + k - 1]
  BY <1>2, <1>3, <1>5, SubSeqProperties
<1>7. j = i + Len(q) /\ Len(q) \in Nat
  <2>1. Len(q) = IF i + 1 <= j THEN j - (i + 1) + 1 ELSE 0
    BY <1>4, <1>6
  <2> QED BY <1>2, <1>3, <1>4, <2>1
<1>8. ASSUME NEW k \in 1 .. Len(q) PROVE t[i + k] = q[k]
  <2>1. k \in 1 .. j - (i + 1) + 1 /\ (i + 1) + k - 1 = i + k
    BY <1>2, <1>3, <1>7
  <2> QED BY <1>4, <1>6, <2>1
<1> QED BY <1>4, <1>7, <1>8 DEF t, i, j

-----------------------------------------------------------------------------
(* The rows in the flat text                                               *)

\* row is the line of t that starts at s: its symbols lie between two line
\* breaks, or the ends of the text.
Line(t, s, row) ==
  /\ t \in Seq(Symbol) /\ row \in Row /\ s \in Nat /\ s + Len(row) <= Len(t)
  /\ \A k \in 1 .. Len(row) : t[s + k] = row[k]
  /\ s = 0 \/ t[s] = Newline
  /\ s + Len(row) = Len(t) \/ t[s + Len(row) + 1] = Newline

\* A column of a row is as many symbols past the start of the row.
LEMMA ColumnOffset ==
  ASSUME NEW L \in Rows, NEW r, NEW c, Place(L, r, c)
  PROVE  /\ Offset(L, r, 0) \in Nat
         /\ Offset(L, r, c) = Offset(L, r, 0) + c
         /\ \A k \in 1 .. c : Flat(L)[Offset(L, r, 0) + k] = L[r + 1][k]
<1> DEFINE row == L[r + 1]
           S == Slice(L, r, 0, r, c)
           h == Take(row, c)
<1>1. /\ r \in Nat /\ c \in Nat /\ r + 1 \in 1 .. Len(L)
      /\ row \in Row /\ row \in Seq(Char) /\ Len(row) \in Nat /\ c \in 0 .. Len(row)
  BY PlaceFacts DEF Row
<1>2. Ordered(L, r, 0, r, c) /\ Place(L, r, 0)
  BY <1>1 DEF Ordered, Place
<1>3. h \in Row /\ Len(h) = c /\ \A k \in 1 .. c : h[k] = row[k]
  <2>1. h \in Row /\ Len(h) = c
    BY <1>1, RowCut
  <2> HIDE DEF h
  <2>2. \A k \in 1 .. c : h[k] = row[k]
    <3> HIDE DEF row
    <3> QED BY <1>1, TakeDrop DEF h
  <2> QED BY <2>1, <2>2
<1>4. S \in Rows
  BY <1>2, SliceIs
<1>5. Len(S) = 1 /\ S[1] = h
  <2>1. r - r + 1 = 1 /\ 0 + 1 = 1
    BY <1>1
  <2>2. S = [i \in 1 .. 1 |-> SubSeq(L[r + i], IF i = 1 THEN 1 ELSE 1,
                                       IF i = 1 THEN c ELSE Len(L[r + i]))]
    BY <2>1, Zenon DEF Slice
  <2>3. S[1] = SubSeq(L[r + 1], 1, c)
    <3>1. 1 \in 1 .. 1
      OBVIOUS
    <3> HIDE DEF S
    <3> QED BY <2>2, <3>1, Zenon
  <2>4. DOMAIN S = 1 .. 1
    BY <2>2, Zenon
  <2> HIDE DEF S
  <2>5. Len(S) = 1
    BY <1>4, <2>4, RowsFacts, LenProperties DEF Rows
  <2> QED BY <2>3, <2>5, Zenon DEF Take
<1> HIDE DEF S, h, row
<1>6. Flat(S) = h
  <2>1. S = <<S[1]>>
    BY <1>4, <1>5, RowsOne
  <2> QED BY <1>3, <1>5, <2>1, FlatOne
<1>7. /\ Offset(L, r, c) = Offset(L, r, 0) + Len(h)
      /\ \A k \in 1 .. Len(h) : Flat(L)[Offset(L, r, 0) + k] = h[k]
  <2>1. h = Flat(Slice(L, r, 0, r, c))
    BY <1>6, Zenon DEF S
  <2> QED BY <1>2, <2>1, SliceSpan
<1>8. Offset(L, r, 0) \in Nat
  BY <1>2, OffsetIs
<1> QED BY <1>3, <1>7, <1>8, Zenon DEF row

\* A line break is two empty rows.
LEMMA BreakText ==
  /\ << << >>, << >> >> \in Rows /\ Len(<< << >>, << >> >>) = 2
  /\ Flat(<< << >>, << >> >>) = <<Newline>>
<1> DEFINE none == << >>
           one == <<none>>
           two == <<none, none>>
<1>1. none \in Row /\ Len(none) = 0
  BY EmptyRow
<1>2. one \in Rows /\ Flat(one) = none
  BY <1>1, FlatOne
<1>3. two = Append(one, none)
  OBVIOUS
<1>4. Append(one, none) \in Rows
      /\ Flat(Append(one, none)) = Flat(one) \o (<<Newline>> \o none)
  <2> HIDE DEF one, none
  <2> QED BY <1>1, <1>2, FlatNext
<1>5. none \o (<<Newline>> \o none) = <<Newline>>
  OBVIOUS
<1>6. Len(two) = 2
  OBVIOUS
<1> QED BY <1>2, <1>3, <1>4, <1>5, <1>6, Zenon

\* The text starts with its first row and ends with its last.
LEMMA TextEnds ==
  ASSUME NEW L \in Rows, NEW r, NEW c, Place(L, r, c)
  PROVE  /\ r = 0 /\ c = 0 => Offset(L, r, c) = 0
         /\ r = Len(L) - 1 /\ c = Len(L[r + 1]) => Offset(L, r, c) = Len(Flat(L))
<1> DEFINE U == Upto(L, r, c)
           V == Beyond(L, r, c)
<1>1. /\ U \in Rows /\ Len(U) = r + 1 /\ Len(U[r + 1]) = c
      /\ V \in Rows /\ Len(V) = Len(L) - r /\ V[1] = Drop(L[r + 1], c)
      /\ Offset(L, r, c) = Len(Flat(U))
  BY UptoIs, BeyondIs, OffsetIs
<1>2. /\ r \in Nat /\ Len(L) \in Nat /\ L[r + 1] \in Row /\ c \in 0 .. Len(L[r + 1])
  BY PlaceFacts
<1>3. Flat(L) = Flat(U) \o Flat(V)
  <2>1. L = Joined(U, V)
    BY CutIs
  <2> HIDE DEF U, V
  <2>2. Flat(Joined(U, V)) = Flat(U) \o Flat(V)
    BY <1>1, FlatJoined
  <2> QED BY <2>1, <2>2, Zenon
<1>4. Len(V[1]) = Len(L[r + 1]) - c
  BY <1>1, <1>2, RowCut
<1> HIDE DEF U, V
<1>5. ASSUME r = 0, c = 0 PROVE Offset(L, r, c) = 0
  <2>1. Len(U) = 1 /\ Len(U[1]) = 0
    BY <1>1, <1>5
  <2>2. U = <<U[1]>> /\ U[1] \in Row
    BY <1>1, <2>1, RowsOne, RowsFacts
  <2>3. Flat(U) = U[1]
    BY <2>2, FlatOne
  <2> QED BY <1>1, <2>1, <2>3
<1>6. ASSUME r = Len(L) - 1, c = Len(L[r + 1]) PROVE Offset(L, r, c) = Len(Flat(L))
  <2>1. Len(V) = 1 /\ Len(V[1]) = 0
    BY <1>1, <1>2, <1>4, <1>6
  <2>2. V = <<V[1]>> /\ V[1] \in Row
    BY <1>1, <2>1, RowsOne, RowsFacts
  <2>3. Flat(V) = V[1]
    BY <2>2, FlatOne
  <2>4. Flat(U) \in Seq(Symbol) /\ Len(Flat(U)) \in Nat /\ Flat(V) \in Seq(Symbol)
    BY <1>1, FlatText
  <2>5. Len(Flat(U) \o Flat(V)) = Len(Flat(U)) + Len(Flat(V))
    BY <2>4, ConcatProperties
  <2> QED BY <1>1, <1>3, <2>1, <2>3, <2>4, <2>5
<1> QED BY <1>5, <1>6

\* Between two rows there is one line break.
LEMMA RowBreak ==
  ASSUME NEW L \in Rows, NEW r \in 1 .. Len(L) - 1
  PROVE  /\ Place(L, r - 1, Len(L[r])) /\ Place(L, r, 0)
         /\ Offset(L, r, 0) = Offset(L, r - 1, Len(L[r])) + 1
         /\ Flat(L)[Offset(L, r, 0)] = Newline
<1> DEFINE q == r - 1
           a == L[r]
           b == L[r + 1]
           n == Len(a)
           S == Slice(L, q, n, r, 0)
<1>1. /\ r \in Nat /\ q \in Nat /\ q + 1 = r /\ q < r /\ r - q + 1 = 2
      /\ r \in 1 .. Len(L) /\ r + 1 \in 1 .. Len(L) /\ Len(L) \in Nat
  BY RowsFacts
<1>2. a \in Row /\ n \in Nat /\ b \in Row /\ Len(b) \in Nat
  BY <1>1, RowsFacts
<1>3. Place(L, q, n) /\ Place(L, r, 0)
  BY <1>1, <1>2 DEF Place
<1>4. Ordered(L, q, n, r, 0)
  BY <1>1, <1>3 DEF Ordered
<1>5. S \in Rows
  BY <1>4, SliceIs
<1>6. /\ Len(S) = 2 /\ S[1] = SubSeq(a, n + 1, n) /\ S[2] = SubSeq(b, 1, 0)
  <2>1. S = [i \in 1 .. 2 |-> SubSeq(L[q + i], IF i = 1 THEN n + 1 ELSE 1,
                                       IF i = 2 THEN 0 ELSE Len(L[q + i]))]
    BY <1>1, Zenon DEF Slice
  <2>2. DOMAIN S = 1 .. 2
    BY <2>1, Zenon
  <2> DEFINE from(i) == IF i = 1 THEN n + 1 ELSE 1
             to(i) == IF i = 2 THEN 0 ELSE Len(L[q + i])
  <2>3. from(1) = n + 1 /\ from(2) = 1 /\ to(1) = n /\ to(2) = 0 /\ q + 2 = r + 1
    BY <1>1
  <2>4. \A i \in 1 .. 2 : S[i] = SubSeq(L[q + i], from(i), to(i))
    BY <2>1, Zenon
  <2> HIDE DEF S, from, to, n
  <2>5. Len(S) = 2
    BY <1>5, <2>2, RowsFacts, LenProperties DEF Rows
  <2>6. 1 \in 1 .. 2 /\ 2 \in 1 .. 2
    OBVIOUS
  <2>7. S[1] = SubSeq(L[q + 1], n + 1, n) /\ S[2] = SubSeq(L[q + 2], 1, 0)
    BY <2>3, <2>4, <2>6, Zenon
  <2> HIDE DEF q
  <2> QED BY <1>1, <2>3, <2>5, <2>7, Zenon
<1>7. SubSeq(a, n + 1, n) = << >> /\ SubSeq(b, 1, 0) = << >>
  <2>1. a \in Seq(Char) /\ b \in Seq(Char)
    BY <1>2 DEF Row
  <2> QED BY <1>2, <2>1
<1> HIDE DEF S
<1>8. S = << << >>, << >> >>
  <2> DEFINE two == << << >>, << >> >>
  <2>1. two[1] = << >> /\ two[2] = << >> /\ two \in Rows /\ Len(two) = 2
    BY BreakText
  <2> HIDE DEF two
  <2>2. S[1] = two[1] /\ S[2] = two[2] /\ Len(S) = Len(two) /\ Len(S) = 2
    BY <1>6, <1>7, <2>1, Zenon
  <2>3. \A i \in 1 .. Len(S) : S[i] = two[i]
    <3>1. \A i \in 1 .. 2 : i = 1 \/ i = 2
      OBVIOUS
    <3> QED BY <2>2, <3>1, Zenon
  <2>4. S = two
    BY <1>5, <2>1, <2>2, <2>3, RowsEqual
  <2> QED BY <2>4 DEF two
<1>9. /\ Offset(L, r, 0) = Offset(L, q, n) + Len(<<Newline>>)
      /\ \A k \in 1 .. Len(<<Newline>>) : Flat(L)[Offset(L, q, n) + k] = <<Newline>>[k]
  <2> DEFINE nl == <<Newline>>
  <2>1. nl = Flat(Slice(L, q, n, r, 0))
    BY <1>8, BreakText, Zenon DEF S
  <2> HIDE DEF nl, q, n
  <2>2. /\ Offset(L, r, 0) = Offset(L, q, n) + Len(nl)
        /\ \A k \in 1 .. Len(nl) : Flat(L)[Offset(L, q, n) + k] = nl[k]
    BY <1>4, <2>1, SliceSpan
  <2> QED BY <2>2 DEF nl
<1>10. Len(<<Newline>>) = 1 /\ <<Newline>>[1] = Newline /\ 1 \in 1 .. 1
  OBVIOUS
<1> HIDE DEF q, n
<1>11. Offset(L, r, 0) = Offset(L, q, n) + 1 /\ Flat(L)[Offset(L, q, n) + 1] = Newline
  BY <1>9, <1>10, Zenon
<1> QED BY <1>3, <1>11, Zenon DEF q, n

\* Each row is a line of the flat text.
LEMMA RowInText ==
  ASSUME NEW L \in Rows, NEW r \in 0 .. Len(L) - 1
  PROVE  Line(Flat(L), Offset(L, r, 0), L[r + 1])
<1> DEFINE t == Flat(L)
           s == Offset(L, r, 0)
           row == L[r + 1]
           n == Len(row)
<1>1. /\ Len(L) \in Nat /\ r + 1 \in 1 .. Len(L) /\ row \in Row /\ n \in Nat
  BY RowsFacts
<1>2. Place(L, r, n) /\ Place(L, r, 0)
  BY <1>1 DEF Place
<1>3. /\ s \in Nat /\ Offset(L, r, n) = s + n
      /\ \A k \in 1 .. n : t[s + k] = row[k]
  BY <1>2, ColumnOffset
<1>4. t \in Seq(Symbol) /\ Offset(L, r, n) \in 0 .. Len(t)
  BY <1>2, FlatText, TextCut
<1>5. s = 0 \/ t[s] = Newline
  <2>1. CASE r = 0
    BY <1>2, <2>1, TextEnds
  <2>2. CASE r # 0
    <3>1. r \in 1 .. Len(L) - 1
      BY <1>1, <2>2
    <3> QED BY <3>1, RowBreak
  <2> QED BY <2>1, <2>2
<1>6. s + n = Len(t) \/ t[s + n + 1] = Newline
  <2>1. CASE r = Len(L) - 1
    BY <1>2, <1>3, <2>1, TextEnds
  <2>2. CASE r # Len(L) - 1
    <3>1. r + 1 \in 1 .. Len(L) - 1 /\ (r + 1) - 1 = r
      BY <1>1, <2>2
    <3>2. Offset(L, r + 1, 0) = Offset(L, r, n) + 1 /\ t[Offset(L, r + 1, 0)] = Newline
      BY <3>1, RowBreak
    <3> QED BY <1>3, <3>2
  <2> QED BY <2>1, <2>2
<1>7. s + n <= Len(t)
  BY <1>3, <1>4
<1> QED BY <1>1, <1>3, <1>4, <1>5, <1>6, <1>7, Zenon DEF Line

-----------------------------------------------------------------------------
(* Motions on the flat text                                                *)

\* An element that no other exceeds is the maximum.
LEMMA MaxIs ==
  ASSUME NEW S \in SUBSET Int, NEW x \in S, \A y \in S : x >= y
  PROVE  Max(S) = x
<1> DEFINE m == Max(S)
<1>1. m \in S /\ \A y \in S : m >= y
  BY Zenon DEF Max
<1> HIDE DEF m
<1>2. m \in Int /\ x \in Int /\ m >= x /\ x >= m
  BY <1>1
<1>3. m = x
  BY <1>2
<1> QED BY <1>3 DEF m

\* An element that exceeds no other is the minimum.
LEMMA MinIs ==
  ASSUME NEW S \in SUBSET Int, NEW x \in S, \A y \in S : x =< y
  PROVE  Min(S) = x
<1> DEFINE m == Min(S)
<1>1. m \in S /\ \A y \in S : m =< y
  BY Zenon DEF Min
<1> HIDE DEF m
<1>2. m \in Int /\ x \in Int /\ m =< x /\ x =< m
  BY <1>1
<1>3. m = x
  BY <1>2
<1> QED BY <1>3 DEF m

\* A least element is least, a greatest is greatest.
LEMMA MinBound ==
  ASSUME NEW S \in SUBSET Nat, S # {}
  PROVE  Min(S) \in S /\ \A y \in S : Min(S) =< y
<1>1. PICK x \in S : \A y \in S : ~(<<y, x>> \in OpToRel(<, Nat))
  BY NatLessThanWellFounded, WFMin
<1>2. \A y \in S : ~(y < x)
  BY <1>1, Zenon DEF OpToRel
<1>3. \A y \in S : x =< y
  BY <1>2
<1>4. S \in SUBSET Int
  OBVIOUS
<1>5. Min(S) = x
  BY <1>3, <1>4, MinIs
<1> QED BY <1>3, <1>5

\* A bounded set of naturals has its maximum among its elements.
LEMMA MaxBound ==
  ASSUME NEW n \in Nat, NEW S \in SUBSET (0 .. n), S # {}
  PROVE  Max(S) \in S /\ \A y \in S : Max(S) >= y
<1> DEFINE T == {n - x : x \in S}
<1>1. T \in SUBSET Nat /\ T # {}
  <2>1. \A x \in S : n - x \in Nat
    OBVIOUS
  <2> QED BY <2>1
<1>2. Min(T) \in T /\ \A y \in T : Min(T) =< y
  <2> HIDE DEF T
  <2> QED BY <1>1, MinBound
<1>3. PICK z \in S : Min(T) = n - z
  BY <1>2
<1>4. \A y \in S : z >= y
  <2> TAKE y \in S
  <2>1. n - y \in T
    OBVIOUS
  <2>2. n - z =< n - y
    BY <1>2, <1>3, <2>1
  <2> QED BY <2>2
<1>5. S \in SUBSET Int
  OBVIOUS
<1>6. Max(S) = z
  BY <1>4, <1>5, MaxIs
<1> QED BY <1>4, <1>6

\* The same set further on in the text.
LEMMA MaxShifted ==
  ASSUME NEW s \in Nat, NEW n \in Nat, NEW A \in SUBSET (0 .. n), A # {},
         NEW B \in SUBSET Int, \A x \in A : s + x \in B, \A y \in B : y - s \in A
  PROVE  Max(B) = s + Max(A)
<1> DEFINE m == Max(A)
<1>1. m \in A /\ \A y \in A : m >= y
  BY MaxBound
<1> HIDE DEF m
<1>2. s + m \in B /\ \A y \in B : s + m >= y
  BY <1>1
<1>3. Max(B) = s + m
  BY <1>2, MaxIs
<1> QED BY <1>3 DEF m

\* The minimum moves along with its set.
LEMMA MinShifted ==
  ASSUME NEW s \in Nat, NEW A \in SUBSET Nat, A # {},
         NEW B \in SUBSET Int, \A x \in A : s + x \in B, \A y \in B : y - s \in A
  PROVE  Min(B) = s + Min(A)
<1> DEFINE m == Min(A)
<1>1. m \in A /\ \A y \in A : m =< y
  BY MinBound
<1> HIDE DEF m
<1>2. s + m \in B /\ \A y \in B : s + m =< y
  BY <1>1
<1>3. Min(B) = s + m
  BY <1>2, MinIs
<1> QED BY <1>3 DEF m

\* The maximum of two integers.
LEMMA MaxOfTwo ==
  ASSUME NEW a \in Int, NEW b \in Int
  PROVE  Max({a, b}) = IF a >= b THEN a ELSE b
<1> DEFINE S == {a, b}
           x == IF a >= b THEN a ELSE b
<1>1. S \in SUBSET Int /\ x \in S /\ \A y \in S : x >= y
  OBVIOUS
<1> HIDE DEF S, x
<1>2. Max(S) = x
  BY <1>1, MaxIs
<1> QED BY <1>2 DEF S, x

\* The minimum of two integers.
LEMMA MinOfTwo ==
  ASSUME NEW a \in Int, NEW b \in Int
  PROVE  Min({a, b}) = IF a =< b THEN a ELSE b
<1> DEFINE S == {a, b}
           x == IF a =< b THEN a ELSE b
<1>1. S \in SUBSET Int /\ x \in S /\ \A y \in S : x =< y
  OBVIOUS
<1> HIDE DEF S, x
<1>2. Min(S) = x
  BY <1>1, MinIs
<1> QED BY <1>2 DEF S, x

\* The motions of TextBuffer on a given text.
StartOf(t, p) == Max({0} \cup {i \in 1 .. p : t[i] = Newline})
EndOf(t, p) == Min({Len(t)} \cup {i \in p .. Len(t) - 1 : t[i + 1] = Newline})

WordFrom(t, p) ==
  LET last == Max({StartOf(t, p)} \cup {i \in StartOf(t, p) + 1 .. p : t[i] # Space})
  IN  Max({StartOf(t, p)} \cup {i \in StartOf(t, p) + 1 .. last : t[i] = Space})

WordTo(t, p) ==
  Min({EndOf(t, p)} \cup
      {i \in p .. EndOf(t, p) - 1 :
         /\ t[i + 1] # Space
         /\ \E k \in p + 1 .. i : t[k] = Space})

\* A position of a line finds the ends of the line.
LEMMA LineEnds ==
  ASSUME NEW t, NEW s, NEW row, Line(t, s, row), NEW p \in s .. s + Len(row)
  PROVE  StartOf(t, p) = s /\ EndOf(t, p) = s + Len(row)
<1> DEFINE n == Len(row)
           l == Len(t)
           A == {0} \cup {i \in 1 .. p : t[i] = Newline}
           B == {l} \cup {i \in p .. l - 1 : t[i + 1] = Newline}
<1>1. /\ n \in Nat /\ l \in Nat /\ s \in Nat /\ s + n <= l /\ p \in Nat
      /\ \A k \in 1 .. n : t[s + k] # Newline
      /\ s = 0 \/ t[s] = Newline
      /\ s + n = l \/ t[s + n + 1] = Newline
  <2>1. n \in Nat /\ l \in Nat /\ \A k \in 1 .. n : row[k] \in Char
    BY LenProperties, ElementOfSeq DEF Line, Row
  <2>2. \A k \in 1 .. n : t[s + k] # Newline
    BY <2>1, CharAssumption DEF Line
  <2> QED BY <2>1, <2>2 DEF Line
<1> HIDE DEF n, l
<1>2. p \in s .. s + n
  BY DEF n
<1>3. StartOf(t, p) = s
  <2>1. A \in SUBSET Int /\ s \in A
    BY <1>1, <1>2
  <2>2. ASSUME NEW y \in A PROVE s >= y
    <3> SUFFICES ASSUME y > s PROVE FALSE
      BY <1>1
    <3>1. y \in 1 .. p /\ t[y] = Newline
      BY <1>1
    <3>2. y - s \in 1 .. n /\ s + (y - s) = y
      BY <1>1, <1>2, <3>1
    <3> QED BY <1>1, <3>1, <3>2
  <2> HIDE DEF A
  <2>3. Max(A) = s
    BY <2>1, <2>2, MaxIs
  <2> QED BY <2>3 DEF A, StartOf
<1>4. EndOf(t, p) = s + n
  <2>1. B \in SUBSET Int /\ s + n \in B
    BY <1>1, <1>2
  <2>2. ASSUME NEW y \in B PROVE s + n =< y
    <3> SUFFICES ASSUME y < s + n PROVE FALSE
      BY <1>1
    <3>1. y \in p .. l - 1 /\ t[y + 1] = Newline
      BY <1>1
    <3>2. y + 1 - s \in 1 .. n /\ s + (y + 1 - s) = y + 1
      BY <1>1, <1>2, <3>1
    <3> QED BY <1>1, <3>1, <3>2
  <2> HIDE DEF B
  <2>3. Min(B) = s + n
    BY <2>1, <2>2, MinIs
  <2> QED BY <2>3 DEF B, EndOf, l
<1> QED BY <1>3, <1>4 DEF n

\* The word motions of the text are those of the row, from the row's start.
LEMMA WordBack ==
  ASSUME NEW t, NEW s, NEW row, Line(t, s, row), NEW c \in 0 .. Len(row)
  PROVE  WordFrom(t, s + c) = s + WordStart(row, c)
<1> DEFINE n == Len(row)
           p == s + c
           words == {0} \cup {i \in 1 .. c : row[i] # Space}
           last == Max(words)
           gaps == {0} \cup {i \in 1 .. last : row[i] = Space}
           words2 == {s} \cup {i \in s + 1 .. p : t[i] # Space}
           gaps2 == {s} \cup {i \in s + 1 .. s + last : t[i] = Space}
<1>1. /\ n \in Nat /\ s \in Nat /\ c \in 0 .. n /\ c \in Nat
      /\ \A k \in 1 .. n : t[s + k] = row[k]
  BY LenProperties DEF Line, Row
<1>2. StartOf(t, p) = s
  <2>1. p \in s .. s + n
    BY <1>1
  <2> HIDE DEF p
  <2> QED BY <2>1, LineEnds
<1> HIDE DEF n
<1>3. Max(words2) = s + last /\ last \in 0 .. c
  <2>1. words \in SUBSET (0 .. c) /\ words # {}
    BY <1>1
  <2>2. words2 \in SUBSET Int
    BY <1>1
  <2>3. ASSUME NEW x \in words PROVE s + x \in words2
    <3>1. CASE x = 0
      BY <1>1, <3>1
    <3>2. CASE x # 0
      <4>1. x \in 1 .. c /\ row[x] # Space /\ x \in 1 .. n
        BY <1>1, <3>2
      <4>2. t[s + x] # Space /\ s + x \in s + 1 .. p
        BY <1>1, <4>1
      <4> HIDE DEF p
      <4> QED BY <4>2
    <3> QED BY <3>1, <3>2
  <2>4. ASSUME NEW y \in words2 PROVE y - s \in words
    <3>1. CASE y = s
      BY <1>1, <3>1
    <3>2. CASE y # s
      <4>1. y \in s + 1 .. p /\ t[y] # Space
        BY <3>2
      <4>2. y - s \in 1 .. c /\ y - s \in 1 .. n /\ s + (y - s) = y
        BY <1>1, <4>1
      <4>3. row[y - s] # Space
        BY <1>1, <4>1, <4>2
      <4> QED BY <4>2, <4>3
    <3> QED BY <3>1, <3>2
  <2> HIDE DEF words, words2
  <2>5. Max(words2) = s + Max(words)
    BY <1>1, <2>1, <2>2, <2>3, <2>4, MaxShifted
  <2>6. Max(words) \in 0 .. c
    BY <1>1, <2>1, MaxBound
  <2> QED BY <2>5, <2>6
<1> HIDE DEF last, words2
<1>4. Max(gaps2) = s + Max(gaps)
  <2>1. gaps \in SUBSET (0 .. c) /\ gaps # {}
    BY <1>1, <1>3
  <2>2. gaps2 \in SUBSET Int
    BY <1>1, <1>3
  <2>3. ASSUME NEW x \in gaps PROVE s + x \in gaps2
    <3>1. CASE x = 0
      BY <1>1, <3>1
    <3>2. CASE x # 0
      <4>1. x \in 1 .. last /\ row[x] = Space /\ x \in 1 .. n
        BY <1>1, <1>3, <3>2
      <4>2. t[s + x] = Space /\ s + x \in s + 1 .. s + last
        BY <1>1, <1>3, <4>1
      <4> QED BY <4>2
    <3> QED BY <3>1, <3>2
  <2>4. ASSUME NEW y \in gaps2 PROVE y - s \in gaps
    <3>1. CASE y = s
      BY <1>1, <3>1
    <3>2. CASE y # s
      <4>1. y \in s + 1 .. s + last /\ t[y] = Space
        BY <3>2
      <4>2. y - s \in 1 .. last /\ y - s \in 1 .. n /\ s + (y - s) = y
        BY <1>1, <1>3, <4>1
      <4>3. row[y - s] = Space
        BY <1>1, <4>1, <4>2
      <4> QED BY <4>2, <4>3
    <3> QED BY <3>1, <3>2
  <2> HIDE DEF gaps, gaps2
  <2> QED BY <1>1, <2>1, <2>2, <2>3, <2>4, MaxShifted
<1>5. WordFrom(t, p) = Max({s} \cup {i \in s + 1 .. Max(words2) : t[i] = Space})
  <2> HIDE DEF p
  <2> QED BY <1>2, Zenon DEF WordFrom, words2
<1>6. WordStart(row, c) = Max(gaps)
  BY Zenon DEF WordStart, last
<1> HIDE DEF gaps
<1> QED BY <1>3, <1>4, <1>5, <1>6, Zenon

\* The word after a position of a line, in the text and in the row.
LEMMA WordOn ==
  ASSUME NEW t, NEW s, NEW row, Line(t, s, row), NEW c \in 0 .. Len(row)
  PROVE  WordTo(t, s + c) = s + WordEnd(row, c)
<1> DEFINE n == Len(row)
           p == s + c
           gaps == {n} \cup {i \in c .. n - 1 : row[i + 1] = Space}
           gap == Min(gaps)
           words == {n} \cup {i \in gap .. n - 1 : row[i + 1] # Space}
           starts(q) == {q} \cup {i \in p .. q - 1 :
                                    /\ t[i + 1] # Space
                                    /\ \E k \in p + 1 .. i : t[k] = Space}
           words2 == starts(s + n)
<1>1. /\ n \in Nat /\ s \in Nat /\ c \in 0 .. n /\ c \in Nat /\ p \in Nat
      /\ \A k \in 1 .. n : t[s + k] = row[k]
  BY LenProperties DEF Line, Row
<1>2. EndOf(t, p) = s + n
  <2>1. p \in s .. s + n
    BY <1>1
  <2> HIDE DEF p
  <2> QED BY <2>1, LineEnds
<1> HIDE DEF n
<1>3. /\ gap \in c .. n /\ gap \in gaps /\ \A y \in gaps : gap =< y
  <2>1. gaps \in SUBSET Nat /\ gaps # {} /\ gaps \in SUBSET (c .. n)
    BY <1>1
  <2> HIDE DEF gaps
  <2>2. gap \in gaps /\ \A y \in gaps : gap =< y
    BY <2>1, MinBound
  <2> QED BY <2>1, <2>2
<1>4. gap \in Nat /\ (gap = n \/ row[gap + 1] = Space)
  BY <1>1, <1>3
<1>8. \A q, y : y \in starts(q) <=> \/ y = q
                                     \/ /\ y \in p .. q - 1 /\ t[y + 1] # Space
                                        /\ \E k \in p + 1 .. y : t[k] = Space
  OBVIOUS
<1> HIDE DEF gap
<1>5. Min(words2) = s + Min(words)
  <2>1. words \in SUBSET Nat /\ words # {}
    BY <1>1, <1>3
  <2>2. words2 \in SUBSET Int
    BY <1>1
  <2> DEFINE m == s + n
  <2>0. m \in Nat /\ m = s + n
    BY <1>1
  <2>5. words2 = starts(m)
    <3> HIDE DEF starts
    <3> QED BY Zenon
  <2> HIDE DEF m, starts, words2
  <2>3. ASSUME NEW x \in words PROVE s + x \in words2
    <3>1. CASE x = n
      BY <1>8, <2>0, <2>5, <3>1
    <3>2. CASE x # n
      <4>1. x \in gap .. n - 1 /\ row[x + 1] # Space /\ x + 1 \in 1 .. n
        BY <1>1, <1>3, <3>2
      <4>2. gap # n /\ gap # x
        BY <1>1, <1>3, <1>4, <4>1
      <4>3. gap + 1 \in 1 .. n /\ row[gap + 1] = Space
        BY <1>1, <1>3, <1>4, <4>2
      <4>4. /\ t[s + (x + 1)] # Space /\ s + (x + 1) = (s + x) + 1
            /\ t[s + (gap + 1)] = Space
        BY <1>1, <4>1, <4>3
      <4>5. s + x \in p .. s + n - 1 /\ s + (gap + 1) \in p + 1 .. s + x
        BY <1>1, <1>3, <4>1, <4>2
      <4> HIDE DEF p
      <4>6. t[(s + x) + 1] # Space
        BY <4>4
      <4>7. s + x \in p .. m - 1
        BY <1>1, <2>0, <4>5
      <4> QED BY <1>8, <2>5, <4>4, <4>5, <4>6, <4>7
    <3> QED BY <3>1, <3>2
  <2>4. ASSUME NEW y \in words2 PROVE y - s \in words
    <3>1. CASE y = s + n
      BY <1>1, <3>1
    <3>2. CASE y # s + n
      <4>0. /\ y \in p .. m - 1 /\ t[y + 1] # Space
            /\ \E k \in p + 1 .. y : t[k] = Space
        <5> HIDE DEF p
        <5> QED BY <1>8, <2>0, <2>5, <3>2
      <4>1. y \in p .. s + n - 1 /\ t[y + 1] # Space
        BY <1>1, <2>0, <4>0
      <4>2. PICK k \in p + 1 .. y : t[k] = Space
        BY <4>0
      <4>3. /\ k - s \in 1 .. n /\ s + (k - s) = k
            /\ (k - s) - 1 \in c .. n - 1 /\ ((k - s) - 1) + 1 = k - s
            /\ y + 1 - s \in 1 .. n /\ s + (y + 1 - s) = y + 1
            /\ (y - s) + 1 = y + 1 - s
        BY <1>1, <4>1, <4>2
      <4>4. row[k - s] = Space /\ row[y + 1 - s] # Space
        BY <1>1, <4>1, <4>2, <4>3
      <4>5. (k - s) - 1 \in gaps
        BY <4>3, <4>4
      <4>6. gap =< (k - s) - 1
        BY <1>3, <4>5
      <4>7. y - s \in gap .. n - 1
        BY <1>1, <1>3, <4>1, <4>2, <4>6
      <4> QED BY <4>3, <4>4, <4>7
    <3> QED BY <3>1, <3>2
  <2> HIDE DEF words, words2
  <2> QED BY <1>1, <2>1, <2>2, <2>3, <2>4, MinShifted
<1>6. WordTo(t, p) = Min(words2)
  <2>1. WordTo(t, p) = Min(starts(EndOf(t, p)))
    BY Zenon DEF WordTo
  <2> HIDE DEF starts, p
  <2> QED BY <1>2, <2>1, Zenon
<1>7. WordEnd(row, c) = Min(words)
  BY Zenon DEF WordEnd, gap, n
<1> HIDE DEF words, words2
<1> QED BY <1>5, <1>6, <1>7, Zenon

\* Where a row starts, and how it lies between its neighbours.
Start(L, r) == Offset(L, r, 0)

\* The text of a row lies on a line of its own, where the rows before it end.
LEMMA RowStart ==
  ASSUME NEW L \in Rows, NEW r, NEW c, Place(L, r, c)
  PROVE  /\ Offset(L, r, c) = Start(L, r) + c /\ Start(L, r) \in Nat
         /\ Line(Flat(L), Start(L, r), L[r + 1])
         /\ Len(Flat(L)) \in Nat /\ Start(L, r) + Len(L[r + 1]) <= Len(Flat(L))
         /\ r = 0 => Start(L, r) = 0
         /\ r # 0 => /\ Place(L, r - 1, Len(L[r])) /\ Start(L, r - 1) \in Nat
                     /\ Start(L, r) = Start(L, r - 1) + Len(L[r]) + 1
         /\ r = Len(L) - 1 => Start(L, r) + Len(L[r + 1]) = Len(Flat(L))
         /\ r # Len(L) - 1 => /\ Place(L, r + 1, 0)
                              /\ Start(L, r + 1) = Start(L, r) + Len(L[r + 1]) + 1
<1> DEFINE n == Len(L[r + 1])
           t == Flat(L)
<1>1. /\ r \in Nat /\ Len(L) \in Nat /\ r \in 0 .. Len(L) - 1 /\ n \in Nat
      /\ c \in 0 .. n
  BY PlaceFacts
<1>2. Place(L, r, 0) /\ Place(L, r, n)
  BY <1>1 DEF Place
<1>3. Offset(L, r, 0) \in Nat /\ Offset(L, r, c) = Offset(L, r, 0) + c
  BY ColumnOffset
<1>4. Offset(L, r, n) = Offset(L, r, 0) + n
  BY <1>2, ColumnOffset
<1>5. Line(t, Offset(L, r, 0), L[r + 1])
  BY <1>1, RowInText
<1>6. Len(t) \in Nat /\ Offset(L, r, 0) + n <= Len(t)
  BY <1>5, FlatText DEF Line
<1>7. r = 0 => Offset(L, r, 0) = 0
  BY <1>2, TextEnds
<1>8. r = Len(L) - 1 => Offset(L, r, 0) + n = Len(t)
  BY <1>2, <1>4, TextEnds
<1>9. ASSUME r # 0
      PROVE  /\ Place(L, r - 1, Len(L[r])) /\ Offset(L, r - 1, 0) \in Nat
             /\ Offset(L, r, 0) = Offset(L, r - 1, 0) + Len(L[r]) + 1
  <2>1. r \in 1 .. Len(L) - 1
    BY <1>1, <1>9
  <2>2. /\ Place(L, r - 1, Len(L[r]))
        /\ Offset(L, r, 0) = Offset(L, r - 1, Len(L[r])) + 1
    BY <2>1, RowBreak
  <2>3. /\ Offset(L, r - 1, 0) \in Nat
        /\ Offset(L, r - 1, Len(L[r])) = Offset(L, r - 1, 0) + Len(L[r])
    BY <2>2, ColumnOffset
  <2> QED BY <2>2, <2>3
<1>10. ASSUME r # Len(L) - 1
       PROVE  /\ Place(L, r + 1, 0)
              /\ Offset(L, r + 1, 0) = Offset(L, r, 0) + n + 1
  <2> DEFINE q == r + 1
  <2>1. q \in 1 .. Len(L) - 1 /\ q - 1 = r
    BY <1>1, <1>10
  <2> HIDE DEF q
  <2>2. Place(L, q, 0) /\ Offset(L, q, 0) = Offset(L, q - 1, Len(L[q])) + 1
    BY <2>1, RowBreak
  <2>3. Place(L, q, 0) /\ Offset(L, q, 0) = Offset(L, r, Len(L[q])) + 1
    BY <2>1, <2>2
  <2> QED BY <1>4, <2>3 DEF q
<1> QED
  BY <1>3, <1>5, <1>6, <1>7, <1>8, <1>9, <1>10, Zenon DEF Start

LeftOf(p) == Max({0, p - 1})
RightOf(t, p) == Min({Len(t), p + 1})

UpOf(t, p) ==
  IF StartOf(t, p) = 0 THEN p
  ELSE LET above == StartOf(t, p) - 1
       IN  Min({above, StartOf(t, above) + p - StartOf(t, p)})

DownOf(t, p) ==
  IF EndOf(t, p) = Len(t) THEN p
  ELSE LET below == EndOf(t, p) + 1
       IN  Min({EndOf(t, below), below + p - StartOf(t, p)})

\* One place to the left, over a row end too, is one symbol to the left.
LEMMA GoLeft ==
  ASSUME NEW L \in Rows, NEW r, NEW c, Place(L, r, c)
  PROVE  /\ c > 0 => Place(L, r, c - 1) /\ Offset(L, r, c - 1) = LeftOf(Offset(L, r, c))
         /\ c = 0 /\ r > 0 => /\ Place(L, r - 1, Len(L[r]))
                              /\ Offset(L, r - 1, Len(L[r])) = LeftOf(Offset(L, r, c))
         /\ c = 0 /\ r = 0 => Offset(L, r, c) = LeftOf(Offset(L, r, c))
<1> DEFINE p == Offset(L, r, c)
           s == Start(L, r)
<1>1. /\ r \in Nat /\ Len(L) \in Nat /\ r \in 0 .. Len(L) - 1 /\ Len(L[r + 1]) \in Nat
      /\ c \in 0 .. Len(L[r + 1])
  BY PlaceFacts
<1>2. p = s + c /\ s \in Nat /\ p \in Int /\ p - 1 \in Int /\ 0 \in Int
  BY <1>1, RowStart
<1>3. LeftOf(p) = IF 0 >= p - 1 THEN 0 ELSE p - 1
  <2> HIDE DEF p
  <2> QED BY <1>2, MaxOfTwo DEF LeftOf
<1>4. ASSUME c > 0 PROVE Place(L, r, c - 1) /\ Offset(L, r, c - 1) = LeftOf(p)
  <2>1. Place(L, r, c - 1)
    BY <1>1, <1>4 DEF Place
  <2>2. Offset(L, r, c - 1) = s + (c - 1)
    BY <2>1, RowStart
  <2> HIDE DEF p, s
  <2> QED BY <1>1, <1>2, <1>3, <1>4, <2>1, <2>2
<1>5. ASSUME c = 0, r > 0
      PROVE  /\ Place(L, r - 1, Len(L[r]))
             /\ Offset(L, r - 1, Len(L[r])) = LeftOf(p)
  <2> DEFINE k == Len(L[r])
             q == Start(L, r - 1)
  <2>1. Place(L, r - 1, k) /\ q \in Nat /\ s = q + k + 1
    BY <1>1, <1>5, RowStart
  <2>2. Offset(L, r - 1, k) = q + k
    BY <2>1, RowStart
  <2>3. k \in Nat
    BY <1>1, <1>5, RowsFacts
  <2> HIDE DEF p, s, k, q
  <2>4. LeftOf(p) = q + k
    BY <1>2, <1>3, <1>5, <2>1, <2>3
  <2> QED BY <2>1, <2>2, <2>4 DEF k
<1>6. ASSUME c = 0, r = 0 PROVE p = LeftOf(p)
  <2>1. s = 0
    BY <1>6, RowStart
  <2> HIDE DEF p, s
  <2> QED BY <1>2, <1>3, <1>6, <2>1
<1> QED BY <1>4, <1>5, <1>6

\* One place to the right, over a row end too, is one symbol to the right.
LEMMA GoRight ==
  ASSUME NEW L \in Rows, NEW r, NEW c, Place(L, r, c)
  PROVE  /\ c < Len(L[r + 1]) =>
              /\ Place(L, r, c + 1)
              /\ Offset(L, r, c + 1) = RightOf(Flat(L), Offset(L, r, c))
         /\ c = Len(L[r + 1]) /\ r < Len(L) - 1 =>
              /\ Place(L, r + 1, 0)
              /\ Offset(L, r + 1, 0) = RightOf(Flat(L), Offset(L, r, c))
         /\ c = Len(L[r + 1]) /\ r = Len(L) - 1 =>
              Offset(L, r, c) = RightOf(Flat(L), Offset(L, r, c))
<1> DEFINE p == Offset(L, r, c)
           s == Start(L, r)
           n == Len(L[r + 1])
           l == Len(Flat(L))
<1>1. /\ r \in Nat /\ Len(L) \in Nat /\ r \in 0 .. Len(L) - 1 /\ n \in Nat
      /\ c \in 0 .. n
  BY PlaceFacts
<1>2. p = s + c /\ s \in Nat /\ l \in Nat /\ s + n <= l
  BY RowStart
<1>3. RightOf(Flat(L), p) = IF l =< p + 1 THEN l ELSE p + 1
  <2>1. l \in Int /\ p + 1 \in Int
    BY <1>1, <1>2
  <2> HIDE DEF p, l
  <2>2. Min({l, p + 1}) = IF l =< p + 1 THEN l ELSE p + 1
    BY <2>1, MinOfTwo
  <2> QED BY <2>2, Zenon DEF RightOf, l
<1>4. ASSUME c < n PROVE Place(L, r, c + 1) /\ Offset(L, r, c + 1) = RightOf(Flat(L), p)
  <2>1. Place(L, r, c + 1)
    BY <1>1, <1>4 DEF Place
  <2>2. Offset(L, r, c + 1) = s + (c + 1)
    BY <2>1, RowStart
  <2> HIDE DEF p, s, n, l
  <2> QED BY <1>1, <1>2, <1>3, <1>4, <2>1, <2>2
<1>5. ASSUME c = n, r < Len(L) - 1
      PROVE  Place(L, r + 1, 0) /\ Offset(L, r + 1, 0) = RightOf(Flat(L), p)
  <2> DEFINE x == Offset(L, r + 1, 0)
  <2>1. Place(L, r + 1, 0) /\ x = s + n + 1
    BY <1>1, <1>5, RowStart DEF Start
  <2>2. x \in 0 .. l
    BY <2>1, TextCut
  <2> HIDE DEF p, s, n, l, x
  <2>3. RightOf(Flat(L), p) = s + n + 1
    BY <1>1, <1>2, <1>3, <1>5, <2>1, <2>2
  <2> QED BY <2>1, <2>3 DEF x
<1>6. ASSUME c = n, r = Len(L) - 1 PROVE p = RightOf(Flat(L), p)
  <2>1. s + n = l
    BY <1>6, RowStart
  <2> HIDE DEF p, s, n, l
  <2> QED BY <1>1, <1>2, <1>3, <1>6, <2>1
<1> QED BY <1>4, <1>5, <1>6

\* The column cut to the length of the row it enters.
Cutoff(L, r, c) == IF c > Len(L[r + 1]) THEN Len(L[r + 1]) ELSE c

\* Column c, or the last, of row r, from its start and its end.
LEMMA RowColumn ==
  ASSUME NEW L \in Rows, NEW r \in 0 .. Len(L) - 1, NEW c \in Nat
  PROVE  /\ Place(L, r, Cutoff(L, r, c))
         /\ Offset(L, r, Cutoff(L, r, c))
              = Min({Start(L, r) + Len(L[r + 1]), Start(L, r) + c})
<1> DEFINE n == Len(L[r + 1])
           k == Cutoff(L, r, c)
           s == Start(L, r)
<1>1. n \in Nat /\ Len(L) \in Nat
  BY RowsFacts
<1>2. k = IF c > n THEN n ELSE c
  BY Zenon DEF Cutoff
<1> HIDE DEF k
<1>3. Place(L, r, k)
  BY <1>1, <1>2 DEF Place
<1>4. Offset(L, r, k) = s + k /\ s \in Nat
  BY <1>3, RowStart
<1> HIDE DEF n, s
<1>5. s + n \in Int /\ s + c \in Int
  BY <1>1, <1>4
<1>6. Min({s + n, s + c}) = IF s + n =< s + c THEN s + n ELSE s + c
  BY <1>5, MinOfTwo
<1>7. s + k = IF s + n =< s + c THEN s + n ELSE s + c
  BY <1>1, <1>2, <1>4
<1> QED BY <1>3, <1>4, <1>6, <1>7, Zenon DEF n, s, k

\* The row above at the same column or its end is what Up reaches.
LEMMA GoUp ==
  ASSUME NEW L \in Rows, NEW r, NEW c, Place(L, r, c)
  PROVE  /\ r = 0 => UpOf(Flat(L), Offset(L, r, c)) = Offset(L, r, c)
         /\ r # 0 => /\ Place(L, r - 1, Cutoff(L, r - 1, c))
                     /\ Offset(L, r - 1, Cutoff(L, r - 1, c))
                          = UpOf(Flat(L), Offset(L, r, c))
<1> DEFINE p == Offset(L, r, c)
           s == Start(L, r)
           t == Flat(L)
<1>1. /\ r \in Nat /\ Len(L) \in Nat /\ r \in 0 .. Len(L) - 1 /\ Len(L[r + 1]) \in Nat
      /\ c \in 0 .. Len(L[r + 1]) /\ c \in Nat
  BY PlaceFacts
<1>2. p = s + c /\ s \in Nat /\ Line(t, s, L[r + 1])
  BY RowStart
<1>3. StartOf(t, p) = s
  <2>1. p \in s .. s + Len(L[r + 1])
    BY <1>1, <1>2
  <2> HIDE DEF p, s, t
  <2> QED BY <1>2, <2>1, LineEnds
<1>4. ASSUME r = 0 PROVE UpOf(t, p) = p
  <2>1. s = 0
    BY <1>4, RowStart
  <2> HIDE DEF p, s, t
  <2> QED BY <1>3, <2>1, Zenon DEF UpOf
<1>5. ASSUME r # 0
      PROVE  /\ Place(L, r - 1, Cutoff(L, r - 1, c))
             /\ Offset(L, r - 1, Cutoff(L, r - 1, c)) = UpOf(t, p)
  <2> DEFINE q == r - 1
             u == Start(L, q)
             k == Len(L[q + 1])
             a == s - 1
  <2>1. q \in 0 .. Len(L) - 1 /\ q + 1 = r /\ k \in Nat
    <3>1. q \in 0 .. Len(L) - 1 /\ q + 1 = r /\ q + 1 \in 1 .. Len(L)
      BY <1>1, <1>5
    <3> HIDE DEF q
    <3> QED BY <3>1, RowsFacts
  <2>2. u \in Nat /\ s = u + k + 1
    <3>1. /\ Start(L, r - 1) \in Nat /\ s = Start(L, r - 1) + Len(L[r]) + 1
      BY <1>5, RowStart
    <3> QED BY <2>1, <3>1
  <2> HIDE DEF q
  <2>3. Place(L, q, k)
    BY <2>1 DEF Place
  <2>4. Line(t, u, L[q + 1])
    BY <2>3, RowStart
  <2>5. s # 0 /\ a = u + k /\ a \in u .. u + k
    <3> HIDE DEF s, u, k
    <3> QED BY <2>1, <2>2
  <2>6. StartOf(t, a) = u
    <3> HIDE DEF t, u, a
    <3> QED BY <2>4, <2>5, LineEnds DEF k
  <2>7. UpOf(t, p) = Min({a, u + p - s})
    <3> HIDE DEF t, u, p, s
    <3> QED BY <1>3, <2>5, <2>6, Zenon DEF UpOf
  <2>8. u + p - s = u + c
    <3> HIDE DEF u, p, s
    <3> QED BY <1>1, <1>2, <2>2
  <2>9. UpOf(t, p) = Min({u + k, u + c})
    <3> HIDE DEF u, p, s, a, k
    <3> QED BY <2>5, <2>7, <2>8, Zenon
  <2>10. /\ Place(L, q, Cutoff(L, q, c))
         /\ Offset(L, q, Cutoff(L, q, c)) = Min({u + k, u + c})
    BY <1>1, <2>1, RowColumn
  <2> HIDE DEF u, k, p, t
  <2> QED BY <2>9, <2>10, Zenon DEF q
<1> QED BY <1>4, <1>5

\* The row below at the same column or its end is what Down reaches.
LEMMA GoDown ==
  ASSUME NEW L \in Rows, NEW r, NEW c, Place(L, r, c)
  PROVE  /\ r = Len(L) - 1 => DownOf(Flat(L), Offset(L, r, c)) = Offset(L, r, c)
         /\ r # Len(L) - 1 => /\ Place(L, r + 1, Cutoff(L, r + 1, c))
                              /\ Offset(L, r + 1, Cutoff(L, r + 1, c))
                                   = DownOf(Flat(L), Offset(L, r, c))
<1> DEFINE p == Offset(L, r, c)
           s == Start(L, r)
           t == Flat(L)
           n == Len(L[r + 1])
<1>1. /\ r \in Nat /\ Len(L) \in Nat /\ r \in 0 .. Len(L) - 1 /\ n \in Nat
      /\ c \in 0 .. n /\ c \in Nat
  BY PlaceFacts
<1>2. /\ p = s + c /\ s \in Nat /\ Line(t, s, L[r + 1]) /\ Len(t) \in Nat
  BY RowStart
<1>3. StartOf(t, p) = s /\ EndOf(t, p) = s + n
  <2>1. p \in s .. s + Len(L[r + 1])
    BY <1>1, <1>2
  <2> HIDE DEF p, s, t
  <2> QED BY <1>2, <2>1, LineEnds
<1>4. ASSUME r = Len(L) - 1 PROVE DownOf(t, p) = p
  <2>1. s + n = Len(t)
    BY <1>4, RowStart
  <2> HIDE DEF p, s, t, n
  <2> QED BY <1>3, <2>1, Zenon DEF DownOf
<1>5. ASSUME r # Len(L) - 1
      PROVE  /\ Place(L, r + 1, Cutoff(L, r + 1, c))
             /\ Offset(L, r + 1, Cutoff(L, r + 1, c)) = DownOf(t, p)
  <2> DEFINE q == r + 1
             u == Start(L, q)
             k == Len(L[q + 1])
             b == s + n + 1
  <2>1. q \in 0 .. Len(L) - 1 /\ k \in Nat
    <3>1. q \in 0 .. Len(L) - 1 /\ q + 1 \in 1 .. Len(L)
      BY <1>1, <1>5
    <3> HIDE DEF q
    <3> QED BY <3>1, RowsFacts
  <2>2. u = b
    BY <1>5, RowStart
  <2> HIDE DEF q
  <2>3. Place(L, q, k)
    BY <2>1 DEF Place
  <2>4. u \in Nat /\ Line(t, u, L[q + 1]) /\ u + k <= Len(t)
    BY <2>3, RowStart
  <2>5. s + n # Len(t) /\ b \in u .. u + k
    <3> HIDE DEF s, u, k, t, n
    <3> QED BY <1>1, <1>2, <2>1, <2>2, <2>4
  <2>6. EndOf(t, b) = u + k
    <3> HIDE DEF t, u, b
    <3> QED BY <2>4, <2>5, LineEnds DEF k
  <2>7. DownOf(t, p) = Min({u + k, b + p - s})
    <3> HIDE DEF t, u, p, s, n, k
    <3> QED BY <1>3, <2>5, <2>6, Zenon DEF DownOf
  <2>8. b + p - s = u + c
    <3> HIDE DEF u, p, s, b
    <3> QED BY <1>1, <1>2, <2>2, <2>4
  <2>9. DownOf(t, p) = Min({u + k, u + c})
    <3> HIDE DEF u, p, s, b, k
    <3> QED BY <2>7, <2>8, Zenon
  <2>10. /\ Place(L, q, Cutoff(L, q, c))
         /\ Offset(L, q, Cutoff(L, q, c)) = Min({u + k, u + c})
    BY <1>1, <2>1, RowColumn
  <2> HIDE DEF u, k, p, t
  <2> QED BY <2>9, <2>10, Zenon DEF q
<1> QED BY <1>4, <1>5

\* The ends of the row and of its words are those of the line.
LEMMA GoInRow ==
  ASSUME NEW L \in Rows, NEW r, NEW c, Place(L, r, c)
  PROVE  /\ Place(L, r, 0)
         /\ Offset(L, r, 0) = StartOf(Flat(L), Offset(L, r, c))
         /\ Place(L, r, Len(L[r + 1]))
         /\ Offset(L, r, Len(L[r + 1])) = EndOf(Flat(L), Offset(L, r, c))
         /\ Place(L, r, WordStart(L[r + 1], c)) /\ WordStart(L[r + 1], c) \in 0 .. c
         /\ Offset(L, r, WordStart(L[r + 1], c)) = WordFrom(Flat(L), Offset(L, r, c))
         /\ Place(L, r, WordEnd(L[r + 1], c))
         /\ Offset(L, r, WordEnd(L[r + 1], c)) = WordTo(Flat(L), Offset(L, r, c))
         /\ Offset(L, r, c) = StartOf(Flat(L), Offset(L, r, c)) <=> c = 0
<1> DEFINE p == Offset(L, r, c)
           s == Start(L, r)
           t == Flat(L)
           row == L[r + 1]
           n == Len(row)
           a == WordStart(row, c)
           b == WordEnd(row, c)
<1>1. /\ r \in Nat /\ Len(L) \in Nat /\ r \in 0 .. Len(L) - 1 /\ n \in Nat
      /\ row \in Row /\ c \in 0 .. n /\ c \in Nat
  BY PlaceFacts
<1>2. /\ p = s + c /\ s \in Nat /\ Line(t, s, row)
  BY RowStart
<1>3. a \in 0 .. c /\ b \in c .. n
  <2> HIDE DEF row
  <2> QED BY <1>1, WordBounds
<1>4. WordFrom(t, p) = s + a /\ WordTo(t, p) = s + b
  <2> HIDE DEF row, s, t
  <2> QED BY <1>1, <1>2, WordBack, WordOn
<1>5. StartOf(t, p) = s /\ EndOf(t, p) = s + n
  <2>1. p \in s .. s + Len(row)
    BY <1>1, <1>2
  <2> HIDE DEF p, s, t, row
  <2> QED BY <1>2, <2>1, LineEnds
<1> HIDE DEF a, b
<1>6. ASSUME NEW k \in 0 .. n PROVE Place(L, r, k) /\ Offset(L, r, k) = s + k
  <2>1. Place(L, r, k)
    BY <1>1, <1>6 DEF Place
  <2> QED BY <2>1, RowStart
<1>7. 0 \in 0 .. n /\ n \in 0 .. n /\ a \in 0 .. n /\ b \in 0 .. n
  <2> HIDE DEF n
  <2> QED BY <1>1, <1>3
<1>8. /\ Place(L, r, 0) /\ Place(L, r, n) /\ Place(L, r, a) /\ Place(L, r, b)
      /\ Offset(L, r, n) = s + n /\ Offset(L, r, a) = s + a /\ Offset(L, r, b) = s + b
  <2> HIDE DEF n, s
  <2> QED BY <1>6, <1>7
<1>9. p = StartOf(t, p) <=> c = 0
  <2>1. p = s <=> c = 0
    <3> HIDE DEF p, s
    <3> QED BY <1>1, <1>2
  <2> HIDE DEF p, s, t
  <2> QED BY <1>5, <2>1, Zenon
<1>10. Offset(L, r, 0) = StartOf(t, p)
  BY <1>5, Zenon DEF Start
<1> HIDE DEF s
<1>11. /\ Offset(L, r, n) = EndOf(t, p)
       /\ Offset(L, r, a) = WordFrom(t, p) /\ Offset(L, r, b) = WordTo(t, p)
  BY <1>4, <1>5, <1>8, Zenon
<1> HIDE DEF t, p
<1> QED BY <1>3, <1>8, <1>9, <1>10, <1>11, Zenon DEF a, b, n, row, t, p

-----------------------------------------------------------------------------
(* What the user sees of an editor                                         *)

TextOf(e)  == Flat(e.lines)
PointOf(e) == Offset(e.lines, e.crow, e.ccol)
MarkOf(e)  == IF e.sel THEN Offset(e.lines, e.arow, e.acol) ELSE Nothing
ClipOf(e)  == IF e.clip = NoClip THEN Nothing ELSE Flat(e.clip)

\* An editor of this module: no peer holds a row.
Alone(e) == Sound(e) /\ e.rrow = -1

\* What the proofs below use of a sound editor without a peer.
LEMMA AloneFacts ==
  ASSUME NEW e, Alone(e)
  PROVE  /\ Sound(e) /\ e \in EditorState /\ e.rrow = -1 /\ e.sel \in BOOLEAN
         /\ e.lines \in Rows /\ Place(e.lines, e.crow, e.ccol)
         /\ e.sel => Place(e.lines, e.arow, e.acol)
         /\ e.clip \in Seq(Row)
         /\ TextOf(e) \in Seq(Symbol) /\ PointOf(e) \in 0 .. Len(TextOf(e))
<1>1. /\ Sound(e) /\ e \in EditorState /\ e.rrow = -1
      /\ Position(e, e.crow, e.ccol) /\ (e.sel => Position(e, e.arow, e.acol))
  BY DEF Alone, Sound, Anchor
<1>2. e.lines \in Seq(Row) \ {<< >>} /\ e.clip \in Seq(Row) /\ e.sel \in BOOLEAN
  BY <1>1 DEF EditorState
<1>3. /\ e.lines \in Rows /\ Place(e.lines, e.crow, e.ccol)
      /\ e.sel => Place(e.lines, e.arow, e.acol)
  BY <1>1, <1>2 DEF Rows, Place, Position, RowCount, RowLen
<1>4. Flat(e.lines) \in Seq(Symbol)
      /\ Offset(e.lines, e.crow, e.ccol) \in 0 .. Len(Flat(e.lines))
  BY <1>3, FlatText, TextCut
<1> QED BY <1>1, <1>2, <1>3, <1>4, Zenon DEF TextOf, PointOf

\* f differs from e in its rows, its cursor and the scroll offset at most.
Altered(e, f, ls, r, c) ==
  /\ f.lines = ls /\ f.crow = r /\ f.ccol = c
  /\ f.sel = e.sel /\ f.arow = e.arow /\ f.acol = e.acol
  /\ f.clip = e.clip /\ f.rrow = e.rrow

\* Assigning and clamping the cursor moves it and nothing else.
LEMMA CursorToEdits ==
  ASSUME NEW e \in EditorState, NEW r \in Int, NEW c \in Int
  PROVE  Altered(e, CursorTo(e, r, c), e.lines, r, c)
<1> DEFINE f == CursorTo(e, r, c)
           srow == ClampAxis(r, e.srow, e.vrows)
           scol == ClampAxis(c, e.scol, e.vcols)
<1>1. f = [e EXCEPT !.crow = r, !.ccol = c, !.srow = srow, !.scol = scol]
  BY DEF CursorTo, clamp_scroll, EditorState
<1> HIDE DEF srow, scol, f
<1>2. Altered(e, f, e.lines, r, c)
  BY <1>1 DEF Altered, EditorState
<1> QED BY <1>2 DEF f

\* Assigning the rows changes nothing else.
LEMMA RelinedEdits ==
  ASSUME NEW e \in EditorState, NEW ls \in Rows
  PROVE  /\ [e EXCEPT !.lines = ls] \in EditorState
         /\ Altered(e, [e EXCEPT !.lines = ls], ls, e.crow, e.ccol)
<1> DEFINE f == [e EXCEPT !.lines = ls]
<1>1. f \in EditorState
  BY DEF EditorState, Rows
<1>2. Altered(e, f, ls, e.crow, e.ccol)
  BY DEF Altered, EditorState
<1> QED BY <1>1, <1>2

\* Both in turn: the rows and the cursor, and nothing else.
LEMMA EditEdits ==
  ASSUME NEW e \in EditorState, NEW ls \in Rows, NEW r \in Int, NEW c \in Int
  PROVE  Altered(e, CursorTo([e EXCEPT !.lines = ls], r, c), ls, r, c)
<1> DEFINE f == [e EXCEPT !.lines = ls]
           g == CursorTo(f, r, c)
<1>1. f \in EditorState /\ Altered(e, f, ls, e.crow, e.ccol)
  BY RelinedEdits
<1> HIDE DEF f
<1>2. Altered(f, g, f.lines, r, c)
  BY <1>1, CursorToEdits
<1> HIDE DEF g
<1>3. Altered(e, g, ls, r, c)
  BY <1>1, <1>2, Zenon DEF Altered
<1> QED BY <1>3 DEF f, g

\* A motion keeps text, mark and clipboard.
LEMMA MotionSeen ==
  ASSUME NEW e, Alone(e), NEW f, Sound(f), NEW r, NEW c, Altered(e, f, e.lines, r, c)
  PROVE  /\ Alone(f) /\ TextOf(f) = TextOf(e)
         /\ MarkOf(f) = MarkOf(e) /\ ClipOf(f) = ClipOf(e)
         /\ PointOf(f) = Offset(e.lines, r, c)
<1>1. Alone(f)
  BY Zenon DEF Alone, Altered
<1> QED BY <1>1, Zenon DEF Altered, TextOf, PointOf, MarkOf, ClipOf

\* An edit puts its text between what was before and what was behind it.
Replaced(e, f, i, j, s) ==
  /\ TextOf(f) = Take(TextOf(e), i) \o s \o Drop(TextOf(e), j)
  /\ PointOf(f) = i + Len(s)
  /\ MarkOf(f) = Nothing
  /\ ClipOf(f) = ClipOf(e)

\* Removing a range of rows removes its text and leaves the point there.
LEMMA RangeRemoved ==
  ASSUME NEW e, Alone(e), NEW sr, NEW sc, NEW er, NEW ec,
         Ordered(e.lines, sr, sc, er, ec),
         NEW f, Altered(e, f, DeleteRange(e.lines, sr, sc, er, ec), sr, sc), Sound(f),
         ~e.sel
  PROVE  /\ Alone(f)
         /\ Replaced(e, f, Offset(e.lines, sr, sc), Offset(e.lines, er, ec), << >>)
<1> DEFINE L == e.lines
           t == Flat(L)
           i == Offset(L, sr, sc)
           j == Offset(L, er, ec)
           M == DeleteRange(L, sr, sc, er, ec)
<1>1. L \in Rows
  BY AloneFacts
<1>2. Ordered(L, sr, sc, er, ec)
  OBVIOUS
<1>3. i \in 0 .. Len(t) /\ j \in 0 .. Len(t) /\ t \in Seq(Symbol)
  BY <1>1, <1>2, TextCut, FlatText DEF Ordered
<1> HIDE DEF L
<1>4. Flat(M) = Take(t, i) \o Drop(t, j) /\ Offset(M, sr, sc) = i
  BY <1>1, <1>2, DeleteFlat
<1> HIDE DEF t, i, j, M
<1>5. Take(t, i) \o Drop(t, j) = Take(t, i) \o << >> \o Drop(t, j)
  <2>1. Take(t, i) \in Seq(Symbol)
    BY <1>3, TakeDrop
  <2>2. Take(t, i) \o << >> = Take(t, i)
    <3> DEFINE h == Take(t, i)
    <3> HIDE DEF h
    <3>1. h \in Seq(Symbol)
      BY <2>1 DEF h
    <3>2. h \o << >> = h
      BY <3>1, ConcatEmptySeq
    <3> QED BY <3>2 DEF h
  <2> QED BY <2>2, Zenon
<1>6. i = i + Len(<< >>)
  BY <1>3
<1>7. f.lines = M /\ f.crow = sr /\ f.ccol = sc /\ ~f.sel /\ f.clip = e.clip
      /\ f.rrow = e.rrow
  BY Zenon DEF Altered, M, L
<1>8. TextOf(f) = Take(t, i) \o << >> \o Drop(t, j) /\ PointOf(f) = i
  BY <1>4, <1>5, <1>7, Zenon DEF TextOf, PointOf
<1>9. MarkOf(f) = Nothing /\ ClipOf(f) = ClipOf(e)
  BY <1>7, Zenon DEF MarkOf, ClipOf
<1>10. Replaced(e, f, i, j, << >>)
  <2>1. TextOf(e) = t
    BY Zenon DEF TextOf, t, L
  <2>2. PointOf(f) = i + Len(<< >>)
    BY <1>6, <1>8, Zenon
  <2> QED BY <1>8, <1>9, <2>1, <2>2, Zenon DEF Replaced
<1>11. Alone(f)
  BY <1>7, Zenon DEF Alone
<1> QED BY <1>10, <1>11, Zenon DEF i, j, L

\* Splicing rows in at the cursor inserts their text at the point.
LEMMA TextInserted ==
  ASSUME NEW e, Alone(e), ~e.sel, NEW segs \in Rows,
         NEW c2, c2 = Len(segs[Len(segs)]) + (IF Len(segs) = 1 THEN e.ccol ELSE 0),
         NEW f, Sound(f),
         Altered(e, f, Splice(e.lines, e.crow, e.ccol, segs), e.crow + Len(segs) - 1, c2)
  PROVE  /\ Alone(f)
         /\ Replaced(e, f, PointOf(e), PointOf(e), Flat(segs))
<1> DEFINE L == e.lines
           r == e.crow
           c == e.ccol
           t == Flat(L)
           p == Offset(L, r, c)
           M == Splice(L, r, c, segs)
           r2 == r + Len(segs) - 1
           s == Flat(segs)
<1>1. L \in Rows /\ Place(L, r, c)
  BY AloneFacts
<1>2. /\ f.lines = M /\ f.crow = r2 /\ f.ccol = c2 /\ ~f.sel /\ f.clip = e.clip
      /\ f.rrow = e.rrow
  BY Zenon DEF Altered
<1>3. Flat(M) = Take(t, p) \o s \o Drop(t, p) /\ Offset(M, r2, c2) = p + Len(s)
  <2>1. c2 = Len(segs[Len(segs)]) + (IF Len(segs) = 1 THEN c ELSE 0)
    OBVIOUS
  <2> HIDE DEF L, r, c
  <2>2. Spliced(L, r, c, segs, c2)
    BY <1>1, <2>1, SpliceFlat
  <2> QED BY <2>2, Zenon DEF Spliced
<1>4. TextOf(e) = t /\ PointOf(e) = p
  BY Zenon DEF TextOf, PointOf
<1> HIDE DEF L, r, c, t, p, M, r2, s
<1>5. TextOf(f) = Take(t, p) \o s \o Drop(t, p) /\ PointOf(f) = p + Len(s)
  BY <1>2, <1>3, Zenon DEF TextOf, PointOf
<1>6. MarkOf(f) = Nothing /\ ClipOf(f) = ClipOf(e)
  BY <1>2, Zenon DEF MarkOf, ClipOf
<1>7. Replaced(e, f, p, p, s)
  BY <1>4, <1>5, <1>6, Zenon DEF Replaced
<1>8. Alone(f)
  BY <1>2, Zenon DEF Alone
<1> QED BY <1>4, <1>7, <1>8, Zenon DEF s

\* Replacing nothing by nothing.
LEMMA NothingReplaced ==
  ASSUME NEW e, Alone(e), NEW f, TextOf(f) = TextOf(e), PointOf(f) = PointOf(e),
         MarkOf(f) = Nothing, ClipOf(f) = ClipOf(e)
  PROVE  Replaced(e, f, PointOf(e), PointOf(e), << >>)
<1> DEFINE t == TextOf(e)
           p == PointOf(e)
           h == Take(t, p)
           k == Drop(t, p)
<1>1. t \in Seq(Symbol) /\ p \in 0 .. Len(t) /\ p \in Int
  BY AloneFacts
<1>2. h \in Seq(Symbol) /\ h \o k = t
  <2> HIDE DEF t, p
  <2> QED BY <1>1, TakeDrop
<1> HIDE DEF h, k
<1>3. h \o << >> = h
  BY <1>2, ConcatEmptySeq
<1>4. t = h \o << >> \o k
  BY <1>2, <1>3, Zenon
<1>5. p = p + Len(<< >>)
  <2> HIDE DEF p
  <2> QED BY <1>1
<1> QED BY <1>4, <1>5, Zenon DEF Replaced, h, k

\* Scrolling the cursor into view moves only the view.
LEMMA ClampEdits ==
  ASSUME NEW e \in EditorState
  PROVE  Altered(e, clamp_scroll(e), e.lines, e.crow, e.ccol)
<1>1. [e EXCEPT !.crow = e.crow, !.ccol = e.ccol] = e
  BY DEF EditorState
<1>2. clamp_scroll(e) = CursorTo(e, e.crow, e.ccol)
  BY <1>1, Zenon DEF CursorTo
<1>3. e.crow \in Int /\ e.ccol \in Int
  BY DEF EditorState
<1> QED BY <1>2, <1>3, CursorToEdits

\* Scrolling the cursor into view is not seen in the text.
LEMMA ClampSeen ==
  ASSUME NEW e, Alone(e)
  PROVE  /\ Alone(clamp_scroll(e)) /\ TextOf(clamp_scroll(e)) = TextOf(e)
         /\ MarkOf(clamp_scroll(e)) = MarkOf(e) /\ ClipOf(clamp_scroll(e)) = ClipOf(e)
         /\ PointOf(clamp_scroll(e)) = PointOf(e)
<1> DEFINE f == clamp_scroll(e)
<1>1. Altered(e, f, e.lines, e.crow, e.ccol) /\ Sound(f)
  BY AloneFacts, ClampEdits, ClampSound
<1> HIDE DEF f
<1>2. /\ Alone(f) /\ TextOf(f) = TextOf(e)
      /\ MarkOf(f) = MarkOf(e) /\ ClipOf(f) = ClipOf(e)
      /\ PointOf(f) = Offset(e.lines, e.crow, e.ccol)
  BY <1>1, MotionSeen
<1> QED BY <1>2, Zenon DEF f, PointOf

\* A character replaces nothing at the point.
LEMMA CharSeen ==
  ASSUME NEW e, Alone(e), ~e.sel, NEW c \in Symbol
  PROVE  /\ Alone(editor_insert_char(e, c))
         /\ Replaced(e, editor_insert_char(e, c), PointOf(e), PointOf(e), <<c>>)
<1> DEFINE f == editor_insert_char(e, c)
           r == e.crow
           k == e.ccol
<1>1. /\ e \in EditorState /\ e.lines \in Rows /\ Place(e.lines, r, k)
      /\ Sound(e)
  BY AloneFacts
<1>2. r \in Nat /\ k \in Nat
  BY <1>1, PlaceFacts
<1>3. Sound(f)
  BY <1>1, InsertCharSound DEF Symbol
<1>4. ASSUME NEW segs \in Rows, NEW r2 \in Int, NEW c2 \in Int,
             f = CursorTo([e EXCEPT !.lines = Splice(@, r, k, segs)], r2, c2),
             r2 = r + Len(segs) - 1,
             c2 = Len(segs[Len(segs)]) + (IF Len(segs) = 1 THEN k ELSE 0)
      PROVE  Alone(f) /\ Replaced(e, f, PointOf(e), PointOf(e), Flat(segs))
  <2> DEFINE M == Splice(e.lines, r, k, segs)
  <2>1. M \in Rows
    <3> HIDE DEF r, k
    <3>1. Spliced(e.lines, r, k, segs, c2)
      BY <1>1, <1>4, SpliceFlat
    <3> QED BY <3>1, Zenon DEF Spliced
  <2> HIDE DEF f, M
  <2>2. f = CursorTo([e EXCEPT !.lines = M], r2, c2)
    BY <1>4 DEF M
  <2>3. Altered(e, f, M, r2, c2)
    BY <1>1, <2>1, <2>2, EditEdits
  <2>4. Altered(e, f, Splice(e.lines, e.crow, e.ccol, segs), e.crow + Len(segs) - 1, c2)
    BY <1>4, <2>3, Zenon DEF M
  <2>5. c2 = Len(segs[Len(segs)]) + (IF Len(segs) = 1 THEN e.ccol ELSE 0)
    BY <1>4, Zenon
  <2> QED BY <1>3, <2>4, <2>5, TextInserted
<1>5. CASE c = Newline
  <2> DEFINE none == << >>
             segs == <<none, none>>
  <2>1. segs \in Rows /\ Len(segs) = 2 /\ Flat(segs) = <<c>> /\ segs[2] = none
        /\ Len(none) = 0
    BY <1>5, BreakText
  <2>2. f = CursorTo([e EXCEPT !.lines = Splice(@, r, k, segs)], r + 1, 0)
    BY <1>5 DEF editor_insert_char
  <2> HIDE DEF segs, f, r, k, none
  <2>3. /\ r + 1 \in Int /\ 0 \in Int /\ r + 1 = r + Len(segs) - 1
        /\ 0 = Len(segs[Len(segs)]) + (IF Len(segs) = 1 THEN k ELSE 0)
    BY <1>2, <2>1
  <2>4. Alone(f) /\ Replaced(e, f, PointOf(e), PointOf(e), Flat(segs))
    BY <1>4, <2>1, <2>2, <2>3
  <2> QED BY <2>1, <2>4, Zenon DEF f
<1>6. CASE c # Newline
  <2> DEFINE row == <<c>>
             segs == <<row>>
  <2>1. row \in Row /\ Len(row) = 1
    BY <1>6 DEF Row, Symbol
  <2>2. f = CursorTo([e EXCEPT !.lines = Splice(@, r, k, segs)], r, k + 1)
    BY <1>6 DEF editor_insert_char
  <2> HIDE DEF row
  <2>3. segs \in Rows /\ Len(segs) = 1 /\ Flat(segs) = row /\ segs[1] = row
    BY <2>1, FlatOne
  <2> HIDE DEF segs, f, r, k
  <2>6. Len(segs[Len(segs)]) = 1
    BY <2>1, <2>3, Zenon
  <2>4. /\ r \in Int /\ k + 1 \in Int /\ r = r + Len(segs) - 1
        /\ k + 1 = Len(segs[Len(segs)]) + (IF Len(segs) = 1 THEN k ELSE 0)
    <3> DEFINE m == Len(segs)
               x == Len(segs[m])
    <3>1. m = 1 /\ x = 1
      BY <2>3, <2>6, Zenon
    <3> HIDE DEF m, x
    <3>2. /\ r \in Int /\ k + 1 \in Int /\ r = r + m - 1
          /\ k + 1 = x + (IF m = 1 THEN k ELSE 0)
      BY <1>2, <3>1
    <3> QED BY <3>2 DEF m, x
  <2>5. Alone(f) /\ Replaced(e, f, PointOf(e), PointOf(e), Flat(segs))
    BY <1>4, <2>2, <2>3, <2>4
  <2> QED BY <2>3, <2>5, Zenon DEF f, row
<1> QED BY <1>5, <1>6

\* A range replaced by nothing, the cursor where it began.
LEMMA RangeSeen ==
  ASSUME NEW e, Alone(e), ~e.sel, NEW sr, NEW sc, NEW er, NEW ec,
         Ordered(e.lines, sr, sc, er, ec), NEW f, Sound(f),
         f = CursorTo([e EXCEPT !.lines = DeleteRange(@, sr, sc, er, ec)], sr, sc)
  PROVE  /\ Alone(f)
         /\ Replaced(e, f, Offset(e.lines, sr, sc), Offset(e.lines, er, ec), << >>)
<1> DEFINE M == DeleteRange(e.lines, sr, sc, er, ec)
<1>1. e \in EditorState /\ e.lines \in Rows
  BY AloneFacts
<1>2. M \in Rows
  BY <1>1, DeleteFlat
<1>3. sr \in Int /\ sc \in Int
  BY <1>1, PlaceFacts DEF Ordered
<1> HIDE DEF M
<1>4. f = CursorTo([e EXCEPT !.lines = M], sr, sc)
  BY DEF M
<1>5. Altered(e, f, M, sr, sc)
  BY <1>1, <1>2, <1>3, <1>4, EditEdits
<1>6. Altered(e, f, DeleteRange(e.lines, sr, sc, er, ec), sr, sc)
  BY <1>5, Zenon DEF M
<1> QED BY <1>6, RangeRemoved

\* editor_delete_char removes the symbol before the point, if any.
LEMMA DeleteCharSeen ==
  ASSUME NEW e, Alone(e), ~e.sel
  PROVE  /\ Alone(editor_delete_char(e))
         /\ Replaced(e, editor_delete_char(e), LeftOf(PointOf(e)), PointOf(e), << >>)
<1> DEFINE f == editor_delete_char(e)
           L == e.lines
           r == e.crow
           c == e.ccol
           p == Offset(L, r, c)
<1>1. /\ L \in Rows /\ Place(L, r, c) /\ Sound(e) /\ PointOf(e) = p
  BY AloneFacts, Zenon DEF PointOf
<1>2. Sound(f)
  BY <1>1, DeleteCharSound
<1>3. r \in Nat /\ c \in Nat
  BY <1>1, PlaceFacts
<1>4. CASE c > 0
  <2>1. f = CursorTo([e EXCEPT !.lines = DeleteRange(@, r, c - 1, r, c)], r, c - 1)
    BY <1>4 DEF editor_delete_char
  <2> HIDE DEF f
  <2>2. Place(L, r, c - 1) /\ Offset(L, r, c - 1) = LeftOf(p)
    <3> HIDE DEF L, r, c
    <3> QED BY <1>1, <1>4, GoLeft
  <2>3. Ordered(L, r, c - 1, r, c)
    <3>1. c - 1 <= c
      BY <1>3
    <3> HIDE DEF L, r, c
    <3> QED BY <1>1, <2>2, <3>1 DEF Ordered
  <2>4. Alone(f) /\ Replaced(e, f, Offset(L, r, c - 1), Offset(L, r, c), << >>)
    BY <1>2, <2>1, <2>3, RangeSeen
  <2> HIDE DEF L, r, c
  <2> QED BY <1>1, <2>2, <2>4, Zenon DEF f
<1>5. CASE ~(c > 0) /\ r > 0
  <2> DEFINE q == r - 1
             k == RowLen(e, q)
  <2>1. f = CursorTo([e EXCEPT !.lines = DeleteRange(@, q, k, r, 0)], q, k)
    BY <1>5 DEF editor_delete_char
  <2>2. c = 0 /\ q + 1 = r /\ q < r
    BY <1>3, <1>5
  <2>3. k = Len(L[r])
    BY <2>2, Zenon DEF RowLen
  <2> HIDE DEF f, k
  <2>4. Place(L, q, k) /\ Offset(L, q, k) = LeftOf(p)
    <3> HIDE DEF L, r, c
    <3> QED BY <1>1, <1>5, <2>2, <2>3, GoLeft
  <2>5. Ordered(L, q, k, r, 0)
    <3>1. Place(L, r, 0)
      BY <1>1, <2>2
    <3> HIDE DEF L, r, q
    <3> QED BY <2>2, <2>4, <3>1 DEF Ordered
  <2>6. Alone(f) /\ Replaced(e, f, Offset(L, q, k), Offset(L, r, 0), << >>)
    <3> HIDE DEF q
    <3> QED BY <1>2, <2>1, <2>5, RangeSeen
  <2>7. Offset(L, r, 0) = p
    BY <2>2, Zenon
  <2> HIDE DEF L, r, c, q, p
  <2> QED BY <1>1, <2>4, <2>6, <2>7, Zenon DEF f
<1>6. CASE ~(c > 0) /\ ~(r > 0)
  <2>1. f = clamp_scroll(e)
    BY <1>6 DEF editor_delete_char
  <2>2. p = LeftOf(p)
    <3>1. c = 0 /\ r = 0
      BY <1>3, <1>6
    <3> HIDE DEF L, r, c
    <3> QED BY <1>1, <3>1, GoLeft
  <2> HIDE DEF f, p
  <2>3. /\ Alone(f) /\ TextOf(f) = TextOf(e) /\ PointOf(f) = PointOf(e)
        /\ MarkOf(f) = MarkOf(e) /\ ClipOf(f) = ClipOf(e)
    BY <2>1, ClampSeen
  <2>4. MarkOf(f) = Nothing
    BY <2>3, Zenon DEF MarkOf
  <2>5. Replaced(e, f, PointOf(e), PointOf(e), << >>)
    BY <2>3, <2>4, NothingReplaced
  <2> QED BY <1>1, <2>2, <2>3, <2>5, Zenon DEF f
<1> QED BY <1>4, <1>5, <1>6

\* The word removed starts where the motion over a word would go.
LEMMA DeleteWordSeen ==
  ASSUME NEW e, Alone(e), ~e.sel, e.ccol # 0
  PROVE  /\ Alone(editor_delete_word(e))
         /\ Replaced(e, editor_delete_word(e), WordFrom(TextOf(e), PointOf(e)),
                     PointOf(e), << >>)
<1> DEFINE f == editor_delete_word(e)
           L == e.lines
           r == e.crow
           c == e.ccol
           p == Offset(L, r, c)
           a == WordStart(L[r + 1], c)
<1>1. /\ L \in Rows /\ Place(L, r, c) /\ Sound(e)
      /\ PointOf(e) = p /\ TextOf(e) = Flat(L)
  BY AloneFacts, Zenon DEF PointOf, TextOf
<1>2. Sound(f)
  BY <1>1, DeleteWordSound
<1>3. r \in Nat /\ c \in Nat
  BY <1>1, PlaceFacts
<1>4. f = CursorTo([e EXCEPT !.lines = DeleteRange(@, r, a, r, c)], r, a)
  BY DEF editor_delete_word
<1> HIDE DEF f
<1>5. Place(L, r, a) /\ a \in 0 .. c /\ Offset(L, r, a) = WordFrom(Flat(L), p)
  <2> HIDE DEF L, r, c
  <2> QED BY <1>1, GoInRow
<1> HIDE DEF a
<1>6. Ordered(L, r, a, r, c)
  <2>1. a <= c
    BY <1>3, <1>5
  <2> HIDE DEF L, r, c
  <2> QED BY <1>1, <1>5, <2>1 DEF Ordered
<1>7. Alone(f) /\ Replaced(e, f, Offset(L, r, a), Offset(L, r, c), << >>)
  BY <1>2, <1>4, <1>6, RangeSeen
<1> HIDE DEF L, r, c
<1> QED BY <1>1, <1>5, <1>7, Zenon DEF f

-----------------------------------------------------------------------------
(* The selection on the flat text                                          *)

FromOf(e) == IF MarkOf(e) = Nothing THEN PointOf(e) ELSE Min({PointOf(e), MarkOf(e)})
ToOf(e)   == IF MarkOf(e) = Nothing THEN PointOf(e) ELSE Max({PointOf(e), MarkOf(e)})

\* There is a mark exactly while the selection is active.
LEMMA Marked ==
  ASSUME NEW e, Alone(e)
  PROVE  /\ MarkOf(e) = Nothing <=> ~e.sel
         /\ ~e.sel => FromOf(e) = PointOf(e) /\ ToOf(e) = PointOf(e)
<1>1. /\ e.lines \in Rows /\ (e.sel => Place(e.lines, e.arow, e.acol))
      /\ e.sel \in BOOLEAN
  BY AloneFacts
<1>2. ASSUME e.sel PROVE MarkOf(e) # Nothing
  <2>1. Offset(e.lines, e.arow, e.acol) \in Nat
    BY <1>1, <1>2, OffsetIs
  <2>2. MarkOf(e) \in Nat
    BY <1>2, <2>1, Zenon DEF MarkOf
  <2> QED BY <2>2, NothingAssumption, Zenon
<1>3. ASSUME ~e.sel PROVE MarkOf(e) = Nothing
  BY <1>3, Zenon DEF MarkOf
<1> QED BY <1>1, <1>2, <1>3, Zenon DEF FromOf, ToOf

\* The range of the selection is its two ends in the order of the text.
Spans(e, g) ==
  /\ Ordered(e.lines, g.sr, g.sc, g.er, g.ec)
  /\ Offset(e.lines, g.sr, g.sc) = FromOf(e)
  /\ Offset(e.lines, g.er, g.ec) = ToOf(e)

\* editor_sel_get_range returns the ends of the selection in the text's order.
LEMMA RangeIs ==
  ASSUME NEW e, Alone(e), e.sel
  PROVE  Spans(e, editor_sel_get_range(e))
<1> DEFINE g == editor_sel_get_range(e)
           L == e.lines
           p == Offset(L, e.crow, e.ccol)
           m == Offset(L, e.arow, e.acol)
<1>1. /\ L \in Rows /\ Place(L, e.crow, e.ccol) /\ Place(L, e.arow, e.acol)
  BY AloneFacts
<1>2. /\ e.crow \in Nat /\ e.ccol \in Nat /\ e.arow \in Nat /\ e.acol \in Nat
      /\ p \in Nat /\ m \in Nat
  BY <1>1, PlaceFacts, OffsetIs
<1>3. FromOf(e) = Min({p, m}) /\ ToOf(e) = Max({p, m})
  <2>1. MarkOf(e) # Nothing /\ MarkOf(e) = m /\ PointOf(e) = p
    BY Marked, Zenon DEF MarkOf, PointOf
  <2> HIDE DEF p, m
  <2> QED BY <2>1, Zenon DEF FromOf, ToOf
<1>4. /\ Min({p, m}) = IF p =< m THEN p ELSE m
      /\ Max({p, m}) = IF p >= m THEN p ELSE m
  <2> HIDE DEF p, m
  <2>1. p \in Int /\ m \in Int
    BY <1>2
  <2> QED BY <2>1, MinOfTwo, MaxOfTwo
<1>5. CASE e.crow > e.arow \/ (e.crow = e.arow /\ e.ccol >= e.acol)
  <2>1. /\ g = [sr |-> e.arow, sc |-> e.acol, er |-> e.crow, ec |-> e.ccol]
    BY <1>5 DEF editor_sel_get_range
  <2>2. g.sr = e.arow /\ g.sc = e.acol /\ g.er = e.crow /\ g.ec = e.ccol
    BY <2>1
  <2> HIDE DEF g
  <2>3. Ordered(L, e.arow, e.acol, e.crow, e.ccol)
    BY <1>1, <1>2, <1>5 DEF Ordered
  <2>4. m <= p
    BY <1>1, <2>3, SliceFlat
  <2>5. FromOf(e) = m /\ ToOf(e) = p
    <3> HIDE DEF p, m
    <3> QED BY <1>2, <1>3, <1>4, <2>4
  <2> QED BY <2>2, <2>3, <2>5, Zenon DEF Spans, g
<1>6. CASE ~(e.crow > e.arow \/ (e.crow = e.arow /\ e.ccol >= e.acol))
  <2>1. /\ g = [sr |-> e.crow, sc |-> e.ccol, er |-> e.arow, ec |-> e.acol]
    BY <1>6 DEF editor_sel_get_range
  <2>2. g.sr = e.crow /\ g.sc = e.ccol /\ g.er = e.arow /\ g.ec = e.acol
    BY <2>1
  <2> HIDE DEF g
  <2>3. Ordered(L, e.crow, e.ccol, e.arow, e.acol)
    BY <1>1, <1>2, <1>6 DEF Ordered
  <2>4. p <= m
    BY <1>1, <2>3, SliceFlat
  <2>5. FromOf(e) = p /\ ToOf(e) = m
    <3> HIDE DEF p, m
    <3> QED BY <1>2, <1>3, <1>4, <2>4
  <2> QED BY <2>2, <2>3, <2>5, Zenon DEF Spans, g
<1> QED BY <1>5, <1>6

\* What deleting the selection, if there is one, leaves.
SelectionGone(e, d) ==
  /\ Alone(d) /\ ~d.sel
  /\ Replaced(e, d, FromOf(e), ToOf(e), << >>)
  /\ Take(TextOf(d), PointOf(d)) = Take(TextOf(e), FromOf(e))
  /\ Drop(TextOf(d), PointOf(d)) = Drop(TextOf(e), ToOf(e))
  /\ PointOf(d) = FromOf(e)

\* Dropping the selection leaves the peer's cursor.
LEMMA UnselectedAlone ==
  ASSUME NEW e \in EditorState, NEW r \in Int, NEW c \in Int
  PROVE  Unselected(e, r, c).rrow = e.rrow
BY DEF EditorState, Unselected

\* Dropping the selection changes nothing but the mark.
LEMMA UnselectSeen ==
  ASSUME NEW e, Alone(e), NEW f, f = editor_sel_clear(e)
  PROVE  /\ Alone(f) /\ ~f.sel /\ f.lines = e.lines /\ f.clip = e.clip
         /\ f.crow = e.crow /\ f.ccol = e.ccol
         /\ TextOf(f) = TextOf(e) /\ PointOf(f) = PointOf(e)
         /\ MarkOf(f) = Nothing /\ ClipOf(f) = ClipOf(e)
<1>1. e \in EditorState /\ Sound(e)
  BY AloneFacts
<1>2. f = Unselected(e, 0, 0)
  BY DEF editor_sel_clear, Unselected
<1>3. /\ ~f.sel /\ f.lines = e.lines /\ f.clip = e.clip
      /\ f.crow = e.crow /\ f.ccol = e.ccol /\ f.rrow = e.rrow
  BY <1>1, <1>2, UnselectedFields, UnselectedAlone
<1>4. Sound(f)
  BY <1>1, SelClearSound
<1>5. Alone(f)
  BY <1>3, <1>4, Zenon DEF Alone
<1> QED BY <1>3, <1>5, Zenon DEF TextOf, PointOf, MarkOf, ClipOf

\* editor_delete_selection removes what lies between point and mark.
LEMMA SelectionGoneIs ==
  ASSUME NEW e, Alone(e), NEW d, d = editor_delete_selection(e)
  PROVE  SelectionGone(e, d)
<1> DEFINE t == TextOf(e)
           p == PointOf(e)
<1>1. /\ Sound(e) /\ t \in Seq(Symbol) /\ p \in 0 .. Len(t)
  BY AloneFacts
<1>2. Sound(d) /\ ~d.sel
  BY <1>1, DeleteSelectionSound
<1>3. CASE ~e.sel
  <2>1. d = e
    BY <1>3 DEF editor_delete_selection
  <2>2. MarkOf(e) = Nothing /\ FromOf(e) = p /\ ToOf(e) = p
    BY <1>3, Marked
  <2> HIDE DEF p
  <2>3. Replaced(e, e, PointOf(e), PointOf(e), << >>)
    BY <2>2, NothingReplaced
  <2> QED BY <1>3, <2>1, <2>2, <2>3, Zenon DEF SelectionGone, p
<1>4. CASE e.sel
  <2> DEFINE f == editor_sel_clear(e)
             g == editor_sel_get_range(e)
  <2>1. d = CursorTo([f EXCEPT !.lines = DeleteRange(@, g.sr, g.sc, g.er, g.ec)],
                     g.sr, g.sc)
    BY <1>4 DEF editor_delete_selection
  <2>2. Spans(e, g)
    BY <1>4, RangeIs
  <2>3. /\ Alone(f) /\ ~f.sel /\ f.lines = e.lines
        /\ TextOf(f) = TextOf(e) /\ ClipOf(f) = ClipOf(e)
    BY UnselectSeen
  <2> HIDE DEF f, g
  <2>4. Ordered(f.lines, g.sr, g.sc, g.er, g.ec)
    BY <2>2, <2>3, Zenon DEF Spans
  <2>5. /\ Alone(d)
        /\ Replaced(f, d, Offset(f.lines, g.sr, g.sc),
                          Offset(f.lines, g.er, g.ec), << >>)
    BY <1>2, <2>1, <2>3, <2>4, RangeSeen
  <2>6. Replaced(e, d, FromOf(e), ToOf(e), << >>)
    BY <2>2, <2>3, <2>5, Zenon DEF Spans, Replaced
  <2>7. /\ Take(TextOf(d), PointOf(d)) = Take(TextOf(e), FromOf(e))
        /\ Drop(TextOf(d), PointOf(d)) = Drop(TextOf(e), ToOf(e))
        /\ PointOf(d) = FromOf(e)
    <3> DEFINE L == e.lines
               i == Offset(L, g.sr, g.sc)
               j == Offset(L, g.er, g.ec)
               M == DeleteRange(L, g.sr, g.sc, g.er, g.ec)
    <3>1. L \in Rows
      BY AloneFacts
    <3>2. Ordered(L, g.sr, g.sc, g.er, g.ec)
      BY <2>2, Zenon DEF Spans
    <3>3. /\ Offset(M, g.sr, g.sc) = i /\ M \in Rows
          /\ Take(Flat(M), i) = Take(Flat(L), i)
          /\ Drop(Flat(M), i) = Drop(Flat(L), j)
      <4> HIDE DEF L
      <4> QED BY <3>1, <3>2, DeleteFlat
    <3>4. d.lines = M /\ d.crow = g.sr /\ d.ccol = g.sc
      <4>1. f \in EditorState
        BY <2>3, AloneFacts
      <4>2. g.sr \in Int /\ g.sc \in Int
        BY <3>1, <3>2, PlaceFacts DEF Ordered
      <4>3. d = CursorTo([f EXCEPT !.lines = M], g.sr, g.sc)
        BY <2>1, <2>3
      <4> HIDE DEF M
      <4>4. Altered(f, d, M, g.sr, g.sc)
        BY <3>3, <4>1, <4>2, <4>3, EditEdits
      <4> QED BY <4>4, Zenon DEF Altered
    <3>5. TextOf(d) = Flat(M) /\ PointOf(d) = i
      BY <3>3, <3>4, Zenon DEF TextOf, PointOf
    <3>6. FromOf(e) = i /\ ToOf(e) = j /\ TextOf(e) = Flat(L)
      BY <2>2, Zenon DEF Spans, TextOf
    <3> HIDE DEF i, j, M, L
    <3> QED BY <3>3, <3>5, <3>6, Zenon
  <2> QED BY <1>2, <2>5, <2>6, <2>7, Zenon DEF SelectionGone
<1> QED BY <1>3, <1>4

\* An insertion after the selection was deleted replaces the selection.
LEMMA SelectionReplaced ==
  ASSUME NEW e, NEW d, SelectionGone(e, d), NEW f, NEW s,
         Replaced(d, f, PointOf(d), PointOf(d), s)
  PROVE  Replaced(e, f, FromOf(e), ToOf(e), s)
BY Zenon DEF SelectionGone, Replaced

\* The selection is copied as it reads in the text.
LEMMA CopySeen ==
  ASSUME NEW e, Alone(e), e.sel, NEW f, f = editor_copy_selection(e)
  PROVE  /\ Alone(f) /\ TextOf(f) = TextOf(e) /\ PointOf(f) = PointOf(e)
         /\ MarkOf(f) = MarkOf(e)
         /\ ClipOf(f) = SubSeq(TextOf(e), FromOf(e) + 1, ToOf(e))
<1> DEFINE g == editor_sel_get_range(e)
           L == e.lines
           S == Slice(L, g.sr, g.sc, g.er, g.ec)
<1>1. e \in EditorState /\ Sound(e) /\ L \in Rows
  BY AloneFacts
<1>2. Spans(e, g)
  BY RangeIs
<1>3. f = [e EXCEPT !.clip = S]
  BY DEF editor_copy_selection
<1> HIDE DEF g
<1>4. Ordered(L, g.sr, g.sc, g.er, g.ec)
  BY <1>2, Zenon DEF Spans
<1>5. S \in Rows /\ SubSeq(Flat(L), FromOf(e) + 1, ToOf(e)) = Flat(S)
  <2>1. /\ S \in Rows
        /\ SubSeq(Flat(L), Offset(L, g.sr, g.sc) + 1, Offset(L, g.er, g.ec)) = Flat(S)
    <3> HIDE DEF L
    <3> QED BY <1>1, <1>4, SliceFlat
  <2> QED BY <1>2, <2>1, Zenon DEF Spans
<1> HIDE DEF S
<1>6. /\ f.lines = e.lines /\ f.crow = e.crow /\ f.ccol = e.ccol
      /\ f.sel = e.sel /\ f.arow = e.arow /\ f.acol = e.acol
      /\ f.rrow = e.rrow /\ f.clip = S
  BY <1>1, <1>3 DEF EditorState
<1>7. Sound(f)
  BY <1>1, CopySelectionSound
<1>8. Alone(f)
  BY <1>6, <1>7, Zenon DEF Alone
<1>9. TextOf(f) = TextOf(e) /\ PointOf(f) = PointOf(e) /\ MarkOf(f) = MarkOf(e)
  BY <1>6, Zenon DEF TextOf, PointOf, MarkOf
<1>10. ClipOf(f) = Flat(S)
  <2>1. S # NoClip
    BY <1>5, RowsFacts DEF Rows, NoClip
  <2> QED BY <1>6, <2>1, Zenon DEF ClipOf
<1> QED BY <1>5, <1>8, <1>9, <1>10, Zenon DEF TextOf

InsertionOf(e) == IF ClipOf(e) = Nothing THEN << >> ELSE ClipOf(e)

\* What is pasted is the clipboard.
LEMMA PasteSeen ==
  ASSUME NEW d, Alone(d), ~d.sel, NEW f, f = editor_paste(d)
  PROVE  /\ Alone(f)
         /\ Replaced(d, f, PointOf(d), PointOf(d), InsertionOf(d))
<1> DEFINE L == d.lines
           segs == d.clip
           n == Len(segs)
           r == d.crow + n - 1
           c == Len(segs[n]) + (IF n = 1 THEN d.ccol ELSE 0)
           M == Splice(L, d.crow, d.ccol, segs)
<1>1. /\ d \in EditorState /\ Sound(d) /\ L \in Rows /\ Place(L, d.crow, d.ccol)
      /\ segs \in Seq(Row)
  BY AloneFacts
<1>2. Sound(f)
  BY <1>1, PasteSound
<1>3. CASE segs = NoClip
  <2>1. f = d
    BY <1>3 DEF editor_paste
  <2>2. ClipOf(d) = Nothing /\ MarkOf(d) = Nothing
    BY <1>3, Zenon DEF ClipOf, MarkOf
  <2>3. InsertionOf(d) = << >>
    BY <2>2, Zenon DEF InsertionOf
  <2>4. Replaced(d, d, PointOf(d), PointOf(d), << >>)
    BY <2>2, NothingReplaced
  <2> QED BY <2>1, <2>3, <2>4, Zenon
<1>4. CASE segs # NoClip
  <2>1. segs \in Rows
    BY <1>1, <1>4 DEF Rows, NoClip
  <2>2. f = CursorTo([d EXCEPT !.lines = M], r, c)
    BY <1>4 DEF editor_paste
  <2>3. M \in Rows
    <3> DEFINE a == d.crow
               b == d.ccol
    <3>1. Place(L, a, b) /\ c = Len(segs[Len(segs)]) + (IF Len(segs) = 1 THEN b ELSE 0)
      BY <1>1
    <3> HIDE DEF L, segs, c, a, b
    <3>2. Spliced(L, a, b, segs, c)
      BY <1>1, <2>1, <3>1, SpliceFlat
    <3> QED BY <3>2, Zenon DEF Spliced, a, b
  <2>4. r \in Int /\ c \in Int
    <3>1. d.crow \in Nat /\ d.ccol \in Nat
      BY <1>1, PlaceFacts
    <3>2. n \in Nat /\ Len(segs[n]) \in Nat
      <4> HIDE DEF segs
      <4> QED BY <2>1, RowsFacts
    <3> HIDE DEF segs, n
    <3> QED BY <3>1, <3>2
  <2> HIDE DEF M, r, c
  <2>5. Altered(d, f, M, r, c)
    BY <1>1, <2>2, <2>3, <2>4, EditEdits
  <2>6. Altered(d, f, Splice(d.lines, d.crow, d.ccol, segs), d.crow + Len(segs) - 1, c)
    BY <2>5, Zenon DEF M, r
  <2>7. c = Len(segs[Len(segs)]) + (IF Len(segs) = 1 THEN d.ccol ELSE 0)
    BY Zenon DEF c
  <2>8. Alone(f) /\ Replaced(d, f, PointOf(d), PointOf(d), Flat(segs))
    BY <1>2, <2>1, <2>6, <2>7, TextInserted
  <2>9. InsertionOf(d) = Flat(segs)
    <3>1. ClipOf(d) = Flat(segs)
      BY <1>4, Zenon DEF ClipOf
    <3>2. Flat(segs) \in Seq(Char \cup {Newline})
      BY <2>1, FlatText DEF Symbol
    <3> QED BY <3>1, <3>2, NothingAssumption, Zenon DEF InsertionOf
  <2> QED BY <2>8, <2>9, Zenon
<1> QED BY <1>3, <1>4

\* f differs from e in the view at most.
LEMMA ViewSeen ==
  ASSUME NEW e, Alone(e), NEW f, Sound(f), Altered(e, f, e.lines, e.crow, e.ccol)
  PROVE  /\ Alone(f) /\ TextOf(f) = TextOf(e) /\ PointOf(f) = PointOf(e)
         /\ MarkOf(f) = MarkOf(e) /\ ClipOf(f) = ClipOf(e)
<1>1. Alone(f)
  BY Zenon DEF Alone, Altered
<1> QED BY <1>1, Zenon DEF Altered, TextOf, PointOf, MarkOf, ClipOf

\* Scrolling is not seen in the text.
LEMMA ScrollSeen ==
  ASSUME NEW e, Alone(e), NEW n \in Int, NEW f, f = editor_scroll_by(e, n)
  PROVE  /\ Alone(f) /\ TextOf(f) = TextOf(e) /\ PointOf(f) = PointOf(e)
         /\ MarkOf(f) = MarkOf(e) /\ ClipOf(f) = ClipOf(e)
<1> DEFINE new == IF e.srow + n < 0 THEN 0 ELSE e.srow + n
           srow == IF new > RowCount(e) - 1 THEN RowCount(e) - 1 ELSE new
<1>1. e \in EditorState /\ Sound(e)
  BY AloneFacts
<1>2. f = [e EXCEPT !.srow = srow]
  BY DEF editor_scroll_by
<1> HIDE DEF srow
<1>3. Altered(e, f, e.lines, e.crow, e.ccol)
  BY <1>1, <1>2 DEF Altered, EditorState
<1>4. Sound(f)
  BY <1>1, ScrollSound
<1> QED BY <1>3, <1>4, ViewSeen

\* Neither is another viewport.
LEMMA ViewportSeen ==
  ASSUME NEW e, Alone(e), NEW rows \in Nat \ {0}, NEW cols \in Nat \ {0},
         NEW f, f = editor_set_viewport(e, rows, cols)
  PROVE  /\ Alone(f) /\ TextOf(f) = TextOf(e) /\ PointOf(f) = PointOf(e)
         /\ MarkOf(f) = MarkOf(e) /\ ClipOf(f) = ClipOf(e)
<1>1. e \in EditorState /\ Sound(e)
  BY AloneFacts
<1>2. f = [e EXCEPT !.vrows = rows, !.vcols = cols]
  BY DEF editor_set_viewport
<1>3. Altered(e, f, e.lines, e.crow, e.ccol)
  BY <1>1, <1>2 DEF Altered, EditorState
<1>4. Sound(f)
  BY <1>1, ViewportSound
<1> QED BY <1>3, <1>4, ViewSeen

\* An anchor at the cursor is a mark at the point.
LEMMA AnchorSeen ==
  ASSUME NEW e, Alone(e), NEW f, f = editor_sel_set_anchor(e)
  PROVE  /\ Alone(f) /\ TextOf(f) = TextOf(e) /\ PointOf(f) = PointOf(e)
         /\ MarkOf(f) = PointOf(e) /\ ClipOf(f) = ClipOf(e)
<1>1. e \in EditorState /\ Sound(e)
  BY AloneFacts
<1>2. /\ f.lines = e.lines /\ f.crow = e.crow /\ f.ccol = e.ccol
      /\ f.sel = TRUE /\ f.arow = e.crow /\ f.acol = e.ccol
      /\ f.clip = e.clip /\ f.rrow = e.rrow
  BY <1>1 DEF editor_sel_set_anchor, EditorState
<1>3. Sound(f)
  BY <1>1, SelSetAnchorSound
<1>4. Alone(f)
  BY <1>2, <1>3, Zenon DEF Alone
<1> QED BY <1>2, <1>4, Zenon DEF TextOf, PointOf, MarkOf, ClipOf

-----------------------------------------------------------------------------
(* Motions of the editor                                                   *)

\* A cursor assigned to a place puts the point at its offset.
LEMMA Arrived ==
  ASSUME NEW e, Alone(e), NEW r, NEW c, Place(e.lines, r, c),
         NEW f, f = CursorTo(e, r, c)
  PROVE  /\ Alone(f) /\ TextOf(f) = TextOf(e)
         /\ MarkOf(f) = MarkOf(e) /\ ClipOf(f) = ClipOf(e)
         /\ PointOf(f) = Offset(e.lines, r, c)
<1>1. Sound(e) /\ e \in EditorState /\ e.lines \in Rows
  BY AloneFacts
<1>2. r \in Int /\ c \in Int
  BY <1>1, PlaceFacts
<1>3. Altered(e, f, e.lines, r, c)
  BY <1>1, <1>2, CursorToEdits
<1>4. Sound(f)
  BY <1>1, MotionSound DEF Place
<1> QED BY <1>3, <1>4, MotionSeen

\* One motion: nothing but the point changes, and it goes where TextBuffer says.
Walked(e, f, p) ==
  /\ Alone(f) /\ TextOf(f) = TextOf(e)
  /\ MarkOf(f) = MarkOf(e) /\ ClipOf(f) = ClipOf(e)
  /\ PointOf(f) = p

\* editor_move_left: one symbol back, over a row end too, or nowhere.
LEMMA LeftSeen ==
  ASSUME NEW e, Alone(e)
  PROVE  Walked(e, editor_move_left(e), LeftOf(PointOf(e)))
<1> DEFINE f == editor_move_left(e)
           L == e.lines
           r == e.crow
           c == e.ccol
           q == r - 1
           k == RowLen(e, q)
<1>1. L \in Rows /\ Place(L, r, c) /\ PointOf(e) = Offset(L, r, c)
  BY AloneFacts, Zenon DEF PointOf
<1>2. r \in Nat /\ c \in Nat
  BY <1>1, PlaceFacts
<1>3. q + 1 = r /\ k = Len(L[r])
  <2>1. q + 1 = r
    BY <1>2
  <2> HIDE DEF q
  <2> QED BY <2>1, Zenon DEF RowLen
<1> HIDE DEF k
<1>4. /\ c > 0 => Place(L, r, c - 1) /\ Offset(L, r, c - 1) = LeftOf(Offset(L, r, c))
      /\ c = 0 /\ r > 0 => Place(L, q, k) /\ Offset(L, q, k) = LeftOf(Offset(L, r, c))
      /\ c = 0 /\ r = 0 => Offset(L, r, c) = LeftOf(Offset(L, r, c))
  <2> HIDE DEF L, r, c
  <2> QED BY <1>1, <1>3, GoLeft
<1>5. CASE c > 0
  <2>1. f = CursorTo(e, r, c - 1)
    BY <1>5 DEF editor_move_left
  <2> HIDE DEF f
  <2>2. /\ Alone(f) /\ TextOf(f) = TextOf(e)
        /\ MarkOf(f) = MarkOf(e) /\ ClipOf(f) = ClipOf(e)
        /\ PointOf(f) = Offset(L, r, c - 1)
    BY <1>4, <1>5, <2>1, Arrived
  <2> HIDE DEF L, r, c
  <2> QED BY <1>1, <1>4, <1>5, <2>2, Zenon DEF Walked, f
<1>6. CASE ~(c > 0) /\ r > 0
  <2>0. c = 0
    BY <1>2, <1>6
  <2>1. f = CursorTo(e, q, k)
    BY <1>6 DEF editor_move_left, k
  <2> HIDE DEF f
  <2>2. /\ Alone(f) /\ TextOf(f) = TextOf(e)
        /\ MarkOf(f) = MarkOf(e) /\ ClipOf(f) = ClipOf(e)
        /\ PointOf(f) = Offset(L, q, k)
    <3>1. Place(e.lines, q, k)
      BY <1>4, <1>6, <2>0
    <3> HIDE DEF q
    <3> QED BY <2>1, <3>1, Arrived
  <2> HIDE DEF L, r, c, q
  <2> QED BY <1>1, <1>4, <1>6, <2>0, <2>2, Zenon DEF Walked, f
<1>7. CASE ~(c > 0) /\ ~(r > 0)
  <2>0. c = 0 /\ r = 0
    BY <1>2, <1>7
  <2>1. f = clamp_scroll(e)
    BY <1>7 DEF editor_move_left
  <2> HIDE DEF f
  <2>2. /\ Alone(f) /\ TextOf(f) = TextOf(e) /\ PointOf(f) = PointOf(e)
        /\ MarkOf(f) = MarkOf(e) /\ ClipOf(f) = ClipOf(e)
    BY <2>1, ClampSeen
  <2> HIDE DEF L, r, c
  <2> QED BY <1>1, <1>4, <2>0, <2>2, Zenon DEF Walked, f
<1> QED BY <1>5, <1>6, <1>7

\* editor_move_right: one symbol on, over a row end too, or nowhere.
LEMMA RightSeen ==
  ASSUME NEW e, Alone(e)
  PROVE  Walked(e, editor_move_right(e), RightOf(TextOf(e), PointOf(e)))
<1> DEFINE f == editor_move_right(e)
           L == e.lines
           r == e.crow
           c == e.ccol
           n == Len(L[r + 1])
           m == Len(L) - 1
           p == RightOf(Flat(L), Offset(L, r, c))
<1>1. /\ L \in Rows /\ Place(L, r, c)
      /\ PointOf(e) = Offset(L, r, c) /\ TextOf(e) = Flat(L)
  BY AloneFacts, Zenon DEF PointOf, TextOf
<1>2. /\ r \in Nat /\ c \in Nat /\ n \in Nat /\ c \in 0 .. n
      /\ m \in Int /\ r \in 0 .. m
  BY <1>1, PlaceFacts
<1>3. RowLen(e, r) = n /\ RowCount(e) - 1 = m
  BY DEF RowLen, RowCount
<1>4. /\ c < n => Place(L, r, c + 1) /\ Offset(L, r, c + 1) = p
      /\ c = n /\ r < m => Place(L, r + 1, 0) /\ Offset(L, r + 1, 0) = p
      /\ c = n /\ r = m => Offset(L, r, c) = p
  <2> HIDE DEF L, r, c
  <2> QED BY <1>1, GoRight
<1> HIDE DEF n, m, p
<1>5. CASE c < n
  <2>1. f = CursorTo(e, r, c + 1)
    BY <1>3, <1>5 DEF editor_move_right
  <2> HIDE DEF f
  <2>2. /\ Alone(f) /\ TextOf(f) = TextOf(e)
        /\ MarkOf(f) = MarkOf(e) /\ ClipOf(f) = ClipOf(e)
        /\ PointOf(f) = Offset(L, r, c + 1)
    BY <1>4, <1>5, <2>1, Arrived
  <2> HIDE DEF L, r, c
  <2> QED BY <1>1, <1>4, <1>5, <2>2, Zenon DEF Walked, f, p
<1>6. CASE ~(c < n) /\ r < m
  <2>0. c = n
    BY <1>2, <1>6
  <2>1. f = CursorTo(e, r + 1, 0)
    BY <1>3, <1>6 DEF editor_move_right
  <2> HIDE DEF f
  <2>2. /\ Alone(f) /\ TextOf(f) = TextOf(e)
        /\ MarkOf(f) = MarkOf(e) /\ ClipOf(f) = ClipOf(e)
        /\ PointOf(f) = Offset(L, r + 1, 0)
    BY <1>4, <1>6, <2>0, <2>1, Arrived
  <2> HIDE DEF L, r, c
  <2> QED BY <1>1, <1>4, <1>6, <2>0, <2>2, Zenon DEF Walked, f, p
<1>7. CASE ~(c < n) /\ ~(r < m)
  <2>0. c = n /\ r = m
    BY <1>2, <1>7
  <2>1. f = clamp_scroll(e)
    BY <1>3, <1>7 DEF editor_move_right
  <2> HIDE DEF f
  <2>2. /\ Alone(f) /\ TextOf(f) = TextOf(e) /\ PointOf(f) = PointOf(e)
        /\ MarkOf(f) = MarkOf(e) /\ ClipOf(f) = ClipOf(e)
    BY <2>1, ClampSeen
  <2> HIDE DEF L, r, c
  <2> QED BY <1>1, <1>4, <2>0, <2>2, Zenon DEF Walked, f, p
<1> QED BY <1>5, <1>6, <1>7

\* editor_move_up: the line above, no further than its end.
LEMMA UpSeen ==
  ASSUME NEW e, Alone(e)
  PROVE  Walked(e, editor_move_up(e), UpOf(TextOf(e), PointOf(e)))
<1> DEFINE f == editor_move_up(e)
           L == e.lines
           r == e.crow
           c == e.ccol
           q == r - 1
           p == UpOf(Flat(L), Offset(L, r, c))
           k == Cutoff(L, q, c)
<1>1. /\ L \in Rows /\ Place(L, r, c) /\ e.rrow = -1
      /\ PointOf(e) = Offset(L, r, c) /\ TextOf(e) = Flat(L)
  BY AloneFacts, Zenon DEF PointOf, TextOf
<1>2. r \in Nat
  BY <1>1, PlaceFacts
<1>3. /\ r = 0 => Offset(L, r, c) = p
      /\ r # 0 => Place(L, q, k) /\ Offset(L, q, k) = p
  <2> HIDE DEF L, r, c
  <2> QED BY <1>1, GoUp
<1>4. ToRow(e, q) = CursorTo(e, q, k)
  BY Zenon DEF ToRow, Cutoff, RowLen
<1> HIDE DEF k, p
<1>5. CASE r = 0
  <2>1. f = clamp_scroll(e)
    BY <1>5 DEF editor_move_up
  <2> HIDE DEF f
  <2>2. /\ Alone(f) /\ TextOf(f) = TextOf(e) /\ PointOf(f) = PointOf(e)
        /\ MarkOf(f) = MarkOf(e) /\ ClipOf(f) = ClipOf(e)
    BY <2>1, ClampSeen
  <2> HIDE DEF L, r, c
  <2> QED BY <1>1, <1>3, <1>5, <2>2, Zenon DEF Walked, f, p
<1>6. CASE r # 0
  <2>1. q # e.rrow
    BY <1>1, <1>2, <1>6
  <2>2. f = ToRow(e, q)
    BY <1>6, <2>1 DEF editor_move_up
  <2> HIDE DEF f
  <2>3. /\ Alone(f) /\ TextOf(f) = TextOf(e)
        /\ MarkOf(f) = MarkOf(e) /\ ClipOf(f) = ClipOf(e)
        /\ PointOf(f) = Offset(L, q, k)
    <3>1. Place(e.lines, q, k) /\ f = CursorTo(e, q, k)
      BY <1>3, <1>4, <1>6, <2>2, Zenon
    <3> HIDE DEF q
    <3> QED BY <3>1, Arrived
  <2> HIDE DEF L, r, c, q
  <2> QED BY <1>1, <1>3, <1>6, <2>3, Zenon DEF Walked, f, p
<1> QED BY <1>5, <1>6

\* editor_move_down: the line below, no further than its end.
LEMMA DownSeen ==
  ASSUME NEW e, Alone(e)
  PROVE  Walked(e, editor_move_down(e), DownOf(TextOf(e), PointOf(e)))
<1> DEFINE f == editor_move_down(e)
           L == e.lines
           r == e.crow
           c == e.ccol
           q == r + 1
           p == DownOf(Flat(L), Offset(L, r, c))
           k == Cutoff(L, q, c)
<1>1. /\ L \in Rows /\ Place(L, r, c) /\ e.rrow = -1
      /\ PointOf(e) = Offset(L, r, c) /\ TextOf(e) = Flat(L)
  BY AloneFacts, Zenon DEF PointOf, TextOf
<1>2. r \in Nat
  BY <1>1, PlaceFacts
<1>3. /\ r = Len(L) - 1 => Offset(L, r, c) = p
      /\ r # Len(L) - 1 => Place(L, q, k) /\ Offset(L, q, k) = p
  <2> HIDE DEF L, r, c
  <2> QED BY <1>1, GoDown
<1>4. ToRow(e, q) = CursorTo(e, q, k)
  BY Zenon DEF ToRow, Cutoff, RowLen
<1> HIDE DEF k, p
<1>5. CASE r = Len(L) - 1
  <2>1. f = clamp_scroll(e)
    BY <1>5 DEF editor_move_down, RowCount
  <2> HIDE DEF f
  <2>2. /\ Alone(f) /\ TextOf(f) = TextOf(e) /\ PointOf(f) = PointOf(e)
        /\ MarkOf(f) = MarkOf(e) /\ ClipOf(f) = ClipOf(e)
    BY <2>1, ClampSeen
  <2> HIDE DEF L, r, c
  <2> QED BY <1>1, <1>3, <1>5, <2>2, Zenon DEF Walked, f, p
<1>6. CASE r # Len(L) - 1
  <2>1. q # e.rrow
    BY <1>1, <1>2
  <2>2. f = ToRow(e, q)
    BY <1>6, <2>1 DEF editor_move_down, RowCount
  <2> HIDE DEF f
  <2>3. /\ Alone(f) /\ TextOf(f) = TextOf(e)
        /\ MarkOf(f) = MarkOf(e) /\ ClipOf(f) = ClipOf(e)
        /\ PointOf(f) = Offset(L, q, k)
    <3>1. Place(e.lines, q, k) /\ f = CursorTo(e, q, k)
      BY <1>3, <1>4, <1>6, <2>2, Zenon
    <3> HIDE DEF q
    <3> QED BY <3>1, Arrived
  <2> HIDE DEF L, r, c, q
  <2> QED BY <1>1, <1>3, <1>6, <2>3, Zenon DEF Walked, f, p
<1> QED BY <1>5, <1>6

\* Home, End and the two word motions stay on the point's line.
LEMMA InRowSeen ==
  ASSUME NEW e, Alone(e)
  PROVE  /\ Walked(e, editor_move_home(e), StartOf(TextOf(e), PointOf(e)))
         /\ Walked(e, editor_move_end(e), EndOf(TextOf(e), PointOf(e)))
         /\ Walked(e, editor_move_word_left(e), WordFrom(TextOf(e), PointOf(e)))
         /\ Walked(e, editor_move_word_right(e), WordTo(TextOf(e), PointOf(e)))
<1> DEFINE L == e.lines
           r == e.crow
           c == e.ccol
           t == Flat(L)
           p == Offset(L, r, c)
           n == Len(L[r + 1])
           a == WordStart(L[r + 1], c)
           b == WordEnd(L[r + 1], c)
<1>1. L \in Rows /\ Place(L, r, c) /\ PointOf(e) = p /\ TextOf(e) = t
  BY AloneFacts, Zenon DEF PointOf, TextOf
<1>2. /\ Place(L, r, 0) /\ Offset(L, r, 0) = StartOf(t, p)
      /\ Place(L, r, n) /\ Offset(L, r, n) = EndOf(t, p)
      /\ Place(L, r, a) /\ Offset(L, r, a) = WordFrom(t, p)
      /\ Place(L, r, b) /\ Offset(L, r, b) = WordTo(t, p)
  <2> HIDE DEF L, r, c
  <2> QED BY <1>1, GoInRow
<1>3. /\ editor_move_home(e) = CursorTo(e, r, 0)
      /\ editor_move_end(e) = CursorTo(e, r, n)
      /\ editor_move_word_left(e) = CursorTo(e, r, a)
      /\ editor_move_word_right(e) = CursorTo(e, r, b)
  BY Zenon DEF editor_move_home, editor_move_end, editor_move_word_left,
               editor_move_word_right, RowLen
<1>4. ASSUME NEW k, Place(L, r, k), NEW q, Offset(L, r, k) = q
      PROVE  Walked(e, CursorTo(e, r, k), q)
  <2> DEFINE f == CursorTo(e, r, k)
  <2>1. f = CursorTo(e, r, k)
    OBVIOUS
  <2> HIDE DEF f
  <2>2. /\ Alone(f) /\ TextOf(f) = TextOf(e)
        /\ MarkOf(f) = MarkOf(e) /\ ClipOf(f) = ClipOf(e)
        /\ PointOf(f) = Offset(L, r, k)
    BY <1>4, <2>1, Arrived
  <2> QED BY <1>4, <2>1, <2>2, Zenon DEF Walked
<1> HIDE DEF L, r, t, p, n, a, b
<1>5. /\ Walked(e, CursorTo(e, r, 0), StartOf(t, p))
      /\ Walked(e, CursorTo(e, r, n), EndOf(t, p))
      /\ Walked(e, CursorTo(e, r, a), WordFrom(t, p))
      /\ Walked(e, CursorTo(e, r, b), WordTo(t, p))
  BY <1>2, <1>4, Zenon
<1> QED BY <1>1, <1>3, <1>5, Zenon

\* A click or a drag goes to some position of the text, or nowhere.
LEMMA SetCursorSeen ==
  ASSUME NEW e, Alone(e), NEW row \in Int, NEW col \in Int,
         NEW f, f = editor_set_cursor(e, row, col)
  PROVE  /\ Alone(f) /\ TextOf(f) = TextOf(e)
         /\ MarkOf(f) = MarkOf(e) /\ ClipOf(f) = ClipOf(e)
         /\ PointOf(f) \in 0 .. Len(TextOf(e))
<1> DEFINE r == Clamp(row, 0, RowCount(e) - 1)
           c == Clamp(col, 0, RowLen(e, r))
<1>1. e.lines \in Rows /\ PointOf(e) \in 0 .. Len(TextOf(e))
  BY AloneFacts
<1>2. r \in 0 .. Len(e.lines) - 1
  BY <1>1, RowsFacts DEF Clamp, RowCount
<1> HIDE DEF r
<1>3. Len(e.lines[r + 1]) \in Nat
  <2>1. r + 1 \in 1 .. Len(e.lines)
    BY <1>1, <1>2, RowsFacts
  <2> QED BY <1>1, <2>1, RowsFacts
<1>4. c \in 0 .. Len(e.lines[r + 1])
  BY <1>3 DEF Clamp, RowLen
<1> HIDE DEF c
<1>5. Place(e.lines, r, c)
  BY <1>2, <1>4, Zenon DEF Place
<1>6. CASE e.rrow = row
  <2>1. f = e
    BY <1>6 DEF editor_set_cursor
  <2> QED BY <1>1, <2>1
<1>7. CASE e.rrow # row
  <2>1. f = CursorTo(e, r, c)
    BY <1>7 DEF editor_set_cursor, r, c
  <2>2. /\ Alone(f) /\ TextOf(f) = TextOf(e)
        /\ MarkOf(f) = MarkOf(e) /\ ClipOf(f) = ClipOf(e)
        /\ PointOf(f) = Offset(e.lines, r, c)
    BY <1>5, <2>1, Arrived
  <2>3. Offset(e.lines, r, c) \in 0 .. Len(Flat(e.lines))
    BY <1>1, <1>5, TextCut
  <2> QED BY <2>2, <2>3, Zenon DEF TextOf
<1> QED BY <1>6, <1>7

-----------------------------------------------------------------------------
(* Opening a file                                                          *)

\* A started editor has the clipboard it is given and its peer's cursor.
LEMMA StartedAlone ==
  ASSUME NEW e \in EditorState, NEW ls \in Seq(Row) \ {<< >>}, NEW z \in Int,
         NEW k \in Seq(Row)
  PROVE  Started(e, ls, z, k).clip = k /\ Started(e, ls, z, k).rrow = e.rrow
BY DEF EditorState, Started

\* An editor whose rows alone differ from one at the start of its text.
AtStart(e) == e.crow = 0 /\ e.ccol = 0 /\ ~e.sel /\ e.clip = NoClip /\ e.rrow = -1

\* Other rows leave an editor at the start of its text.
LEMMA RelinedStart ==
  ASSUME NEW e \in EditorState, AtStart(e), NEW ls \in Rows,
         NEW f, f = [e EXCEPT !.lines = ls]
  PROVE  f \in EditorState /\ AtStart(f) /\ f.lines = ls
<1>1. f \in EditorState /\ Altered(e, f, ls, e.crow, e.ccol)
  BY RelinedEdits
<1> QED BY <1>1, Zenon DEF Altered, AtStart

\* A file, empty or not, is loaded with the cursor at its start and nothing
\* selected.
LEMMA LoadedStarts ==
  ASSUME NEW e, Alone(e), NEW file \in Seq(Row), NEW f, f = Loaded(e, file)
  PROVE  AtStart(f)
<1> DEFINE c == editor_sel_clear(e)
           empty == << << >> >>
           i == Started(c, empty, 0, NoClip)
           ls == file \o empty
           g == [i EXCEPT !.lines = ls]
<1>1. c \in EditorState /\ ~c.sel /\ c.rrow = -1
  <2>1. Alone(c) /\ ~c.sel
    BY UnselectSeen
  <2> QED BY <2>1, AloneFacts
<1>2. empty \in Seq(Row) \ {<< >>} /\ Len(empty) = 1 /\ NoClip \in Seq(Row)
  BY EmptySeq DEF Row, NoClip
<1> HIDE DEF c
<1>3. i = editor_init(e)
  BY DEF editor_init, Started, c
<1>4. i \in EditorState /\ AtStart(i)
  <2> HIDE DEF empty
  <2>1. /\ i \in EditorState /\ ~i.sel /\ i.crow = 0 /\ i.ccol = 0
        /\ i.clip = NoClip /\ i.rrow = -1
    BY <1>1, <1>2, StartedFields, StartedAlone
  <2> QED BY <2>1, Zenon DEF AtStart
<1> HIDE DEF i
<1>5. ls \in Rows /\ Len(ls) \in Nat /\ Len(ls) = Len(file) + 1
  <2> HIDE DEF empty
  <2>1. ls \in Seq(Row) /\ Len(ls) = Len(file) + 1 /\ Len(file) \in Nat
    BY <1>2, ConcatProperties, LenProperties
  <2> HIDE DEF ls
  <2> QED BY <2>1, EmptySeq DEF Rows
<1> HIDE DEF ls
<1>6. g \in EditorState /\ AtStart(g) /\ g.lines = ls
  BY <1>4, <1>5, RelinedStart
<1> HIDE DEF g
<1>7. f = editor_load_finalize(g)
  BY <1>3, Zenon DEF Loaded, g, ls
<1>8. CASE RowCount(g) > 1 /\ RowLen(g, RowCount(g) - 1) = 0
  <2> DEFINE short == SubSeq(ls, 1, Len(ls) - 1)
  <2>1. f = [g EXCEPT !.lines = short]
    BY <1>6, <1>7, <1>8 DEF editor_load_finalize
  <2>2. Len(ls) > 1
    BY <1>6, <1>8 DEF RowCount
  <2>3. short \in Rows
    BY <1>5, <2>2, FrontOfRows
  <2> HIDE DEF short
  <2> QED BY <1>6, <2>1, <2>3, RelinedStart
<1>9. CASE ~(RowCount(g) > 1 /\ RowLen(g, RowCount(g) - 1) = 0)
  <2>1. f = g
    BY <1>7, <1>9 DEF editor_load_finalize
  <2> QED BY <1>6, <2>1
<1> QED BY <1>8, <1>9

\* A sound editor at the start of its text shows a point at 0 and nothing more.
LEMMA AtStartSeen ==
  ASSUME NEW f, Sound(f), AtStart(f)
  PROVE  /\ Alone(f) /\ TextOf(f) \in Seq(Symbol) /\ PointOf(f) = 0
         /\ MarkOf(f) = Nothing /\ ClipOf(f) = Nothing
<1>1. Alone(f)
  BY Zenon DEF Alone, AtStart
<1>2. f.lines \in Rows /\ Place(f.lines, f.crow, f.ccol) /\ TextOf(f) \in Seq(Symbol)
  BY <1>1, AloneFacts
<1>3. PointOf(f) = 0
  BY <1>2, TextEnds DEF PointOf, AtStart
<1>4. MarkOf(f) = Nothing /\ ClipOf(f) = Nothing
  BY Zenon DEF MarkOf, ClipOf, AtStart
<1> QED BY <1>1, <1>2, <1>3, <1>4

-----------------------------------------------------------------------------
(* The steps of TextBuffer                                                 *)

\* The definitions of TextBuffer, read on the rows.
LEMMA Mapped ==
  /\ Buffer!Symbol = Symbol
  /\ Buffer!From = FromOf(ed) /\ Buffer!To = ToOf(ed)
  /\ Buffer!Copied = SubSeq(TextOf(ed), FromOf(ed) + 1, ToOf(ed))
  /\ Buffer!Insertion = InsertionOf(ed)
  /\ \A p : /\ Buffer!LineStart(p) = StartOf(TextOf(ed), p)
            /\ Buffer!LineEnd(p) = EndOf(TextOf(ed), p)
            /\ Buffer!WordBefore(p) = WordFrom(TextOf(ed), p)
            /\ Buffer!WordAfter(p) = WordTo(TextOf(ed), p)
            /\ Buffer!Left(p) = LeftOf(p)
            /\ Buffer!Right(p) = RightOf(TextOf(ed), p)
            /\ Buffer!Up(p) = UpOf(TextOf(ed), p)
            /\ Buffer!Down(p) = DownOf(TextOf(ed), p)
<1>1. Buffer!Symbol = Symbol
  BY Zenon DEF Buffer!Symbol, Symbol
<1>2. Buffer!From = FromOf(ed)
  BY Zenon DEF Buffer!From, FromOf, MarkOf, PointOf, Buffer!Min, Min
<1>3. Buffer!To = ToOf(ed)
  BY Zenon DEF Buffer!To, ToOf, MarkOf, PointOf, Buffer!Max, Max
<1>4. Buffer!Copied = SubSeq(TextOf(ed), FromOf(ed) + 1, ToOf(ed))
  BY <1>2, <1>3, Zenon DEF Buffer!Copied, TextOf
<1>5. Buffer!Insertion = InsertionOf(ed)
  BY Zenon DEF Buffer!Insertion, InsertionOf, ClipOf
<1>6. ASSUME NEW p
      PROVE  /\ Buffer!LineStart(p) = StartOf(TextOf(ed), p)
             /\ Buffer!LineEnd(p) = EndOf(TextOf(ed), p)
  <2>1. Buffer!LineStart(p) = StartOf(TextOf(ed), p)
    BY Zenon DEF Buffer!LineStart, StartOf, TextOf, Buffer!Max, Max
  <2>2. Buffer!LineEnd(p) = EndOf(TextOf(ed), p)
    BY Zenon DEF Buffer!LineEnd, EndOf, TextOf, Buffer!Min, Min
  <2> QED BY <2>1, <2>2
<1>7. ASSUME NEW p
      PROVE  /\ Buffer!WordBefore(p) = WordFrom(TextOf(ed), p)
             /\ Buffer!WordAfter(p) = WordTo(TextOf(ed), p)
  <2>1. Buffer!WordBefore(p) = WordFrom(TextOf(ed), p)
    BY Zenon DEF Buffer!WordBefore, WordFrom, Buffer!LineStart, StartOf, TextOf,
                 Buffer!Max, Max
  <2>2. Buffer!WordAfter(p) = WordTo(TextOf(ed), p)
    BY Zenon DEF Buffer!WordAfter, WordTo, Buffer!LineEnd, EndOf, TextOf,
                 Buffer!Min, Min
  <2> QED BY <2>1, <2>2
<1>8. ASSUME NEW p
      PROVE  Buffer!Left(p) = LeftOf(p) /\ Buffer!Right(p) = RightOf(TextOf(ed), p)
  BY Zenon DEF Buffer!Left, Buffer!Right, LeftOf, RightOf, TextOf,
               Buffer!Max, Max, Buffer!Min, Min
<1>9. ASSUME NEW p
      PROVE  /\ Buffer!Up(p) = UpOf(TextOf(ed), p)
             /\ Buffer!Down(p) = DownOf(TextOf(ed), p)
  <2>1. Buffer!Up(p) = UpOf(TextOf(ed), p)
    BY Zenon DEF Buffer!Up, UpOf, Buffer!LineStart, StartOf, TextOf,
                 Buffer!Max, Max, Buffer!Min, Min
  <2>2. Buffer!Down(p) = DownOf(TextOf(ed), p)
    BY Zenon DEF Buffer!Down, DownOf, Buffer!LineStart, StartOf, Buffer!LineEnd, EndOf,
                 TextOf, Buffer!Max, Max, Buffer!Min, Min
  <2> QED BY <2>1, <2>2
<1> QED BY <1>1, <1>2, <1>3, <1>4, <1>5, <1>6, <1>7, <1>8, <1>9

\* A replacement on the rows is one on the text.
LEMMA ReplaceStep ==
  ASSUME NEW STATE i, NEW STATE j, NEW STATE s, Replaced(ed, ed', i, j, s)
  PROVE  Buffer!Replace(i, j, s) /\ ClipOf(ed') = ClipOf(ed)
BY Zenon DEF Replaced, Buffer!Replace, TextOf, PointOf, MarkOf, ClipOf, Take, Drop

\* A symbol typed over a selection, or at the cursor, is an Insert.
LEMMA InsertStep ==
  ASSUME Alone(ed), NEW c \in Symbol,
         ed' = editor_insert_char(editor_delete_selection(ed), c)
  PROVE  Alone(ed') /\ Buffer!Insert
<1> DEFINE d == editor_delete_selection(ed)
           f == editor_insert_char(d, c)
<1>1. SelectionGone(ed, d)
  BY SelectionGoneIs
<1> HIDE DEF d
<1>2. Alone(f) /\ Replaced(d, f, PointOf(d), PointOf(d), <<c>>)
  BY <1>1, CharSeen DEF SelectionGone
<1> HIDE DEF f
<1>3. Replaced(ed, f, FromOf(ed), ToOf(ed), <<c>>)
  BY <1>1, <1>2, SelectionReplaced
<1>4. ed' = f
  BY DEF d, f
<1>5. Replaced(ed, ed', FromOf(ed), ToOf(ed), <<c>>)
  BY <1>3, <1>4, Zenon
<1>6. Buffer!Replace(FromOf(ed), ToOf(ed), <<c>>) /\ ClipOf(ed') = ClipOf(ed)
  BY <1>5, ReplaceStep
<1>7. c \in Buffer!Symbol /\ Buffer!Replace(Buffer!From, Buffer!To, <<c>>)
  BY <1>6, Mapped, Zenon
<1>8. Buffer!Insert
  BY <1>6, <1>7, Zenon DEF Buffer!Insert, ClipOf
<1> QED BY <1>2, <1>4, <1>8, Zenon

\* Deleting the selection is an EraseSelection.
LEMMA EraseSelectionStep ==
  ASSUME Alone(ed), ed.sel, ed' = editor_delete_selection(ed)
  PROVE  Alone(ed') /\ Buffer!EraseSelection
<1> DEFINE d == editor_delete_selection(ed)
<1>1. SelectionGone(ed, d) /\ ed' = d
  BY SelectionGoneIs
<1> HIDE DEF d
<1>2. Alone(ed') /\ Replaced(ed, ed', FromOf(ed), ToOf(ed), << >>)
  BY <1>1, Zenon DEF SelectionGone
<1>3. Buffer!Replace(FromOf(ed), ToOf(ed), << >>) /\ ClipOf(ed') = ClipOf(ed)
  BY <1>2, ReplaceStep
<1>4. Buffer!Replace(Buffer!From, Buffer!To, << >>)
  BY <1>3, Mapped, Zenon
<1>5. MarkOf(ed) # Nothing
  BY Marked
<1> QED BY <1>2, <1>3, <1>4, <1>5, Zenon DEF Buffer!EraseSelection, ClipOf, MarkOf

\* Backspace without a selection is an EraseSymbol, at a row's start too.
LEMMA EraseSymbolStep ==
  ASSUME Alone(ed), ~ed.sel, ed' = editor_delete_char(ed)
  PROVE  Alone(ed') /\ Buffer!EraseSymbol
<1>1. Alone(ed') /\ Replaced(ed, ed', LeftOf(PointOf(ed)), PointOf(ed), << >>)
  BY DeleteCharSeen
<1>2. /\ Buffer!Replace(LeftOf(PointOf(ed)), PointOf(ed), << >>)
      /\ ClipOf(ed') = ClipOf(ed)
  BY <1>1, ReplaceStep
<1>3. Buffer!Replace(Buffer!Left(PointOf(ed)), PointOf(ed), << >>)
  BY <1>2, Mapped, Zenon
<1>4. MarkOf(ed) = Nothing
  BY Marked
<1> QED BY <1>1, <1>2, <1>3, <1>4, Zenon DEF Buffer!EraseSymbol, ClipOf, MarkOf, PointOf

\* Ctrl+Backspace without a selection is an EraseWord.
LEMMA EraseWordStep ==
  ASSUME Alone(ed), ~ed.sel,
         ed' = IF ed.ccol = 0 THEN editor_delete_char(ed) ELSE editor_delete_word(ed)
  PROVE  Alone(ed') /\ Buffer!EraseWord
<1> DEFINE p == PointOf(ed)
           t == TextOf(ed)
           i == IF p = StartOf(t, p) THEN LeftOf(p) ELSE WordFrom(t, p)
<1>1. p = StartOf(t, p) <=> ed.ccol = 0
  <2> DEFINE L == ed.lines
             r == ed.crow
             c == ed.ccol
  <2>1. L \in Rows /\ Place(L, r, c)
    BY AloneFacts
  <2>2. Offset(L, r, c) = StartOf(Flat(L), Offset(L, r, c)) <=> c = 0
    <3> HIDE DEF L, r, c
    <3> QED BY <2>1, GoInRow
  <2> QED BY <2>2, Zenon DEF PointOf, TextOf
<1>2. Alone(ed') /\ Replaced(ed, ed', i, p, << >>)
  <2>1. CASE ed.ccol = 0
    <3>1. ed' = editor_delete_char(ed) /\ i = LeftOf(p)
      BY <1>1, <2>1, Zenon
    <3> HIDE DEF i
    <3> QED BY <3>1, DeleteCharSeen
  <2>2. CASE ed.ccol # 0
    <3>1. ed' = editor_delete_word(ed) /\ i = WordFrom(t, p)
      BY <1>1, <2>2, Zenon
    <3> HIDE DEF i
    <3> QED BY <2>2, <3>1, DeleteWordSeen
  <2> QED BY <2>1, <2>2
<1>3. Buffer!Replace(i, p, << >>) /\ ClipOf(ed') = ClipOf(ed)
  <2> HIDE DEF i, p
  <2> QED BY <1>2, ReplaceStep
<1>4. i = IF p = Buffer!LineStart(p) THEN Buffer!Left(p) ELSE Buffer!WordBefore(p)
  <2> HIDE DEF p, t
  <2> QED BY Mapped, Zenon DEF t
<1> HIDE DEF i
<1>5. Buffer!Replace(IF p = Buffer!LineStart(p) THEN Buffer!Left(p)
                     ELSE Buffer!WordBefore(p), p, << >>)
  BY <1>3, <1>4, Zenon
<1>6. MarkOf(ed) = Nothing
  BY Marked
<1> QED BY <1>2, <1>3, <1>5, <1>6, Zenon DEF Buffer!EraseWord, ClipOf, MarkOf, PointOf

\* The positions one motion reaches.
MotionsOf(t, p) == {LeftOf(p), RightOf(t, p), UpOf(t, p), DownOf(t, p),
                    StartOf(t, p), EndOf(t, p), WordFrom(t, p), WordTo(t, p)}

\* Shift sets or keeps the mark, no shift drops it.
LEMMA AnchoredSeen ==
  ASSUME Alone(ed), NEW shift \in BOOLEAN, NEW a, a = Anchored(shift)
  PROVE  /\ Alone(a) /\ TextOf(a) = TextOf(ed) /\ PointOf(a) = PointOf(ed)
         /\ ClipOf(a) = ClipOf(ed)
         /\ MarkOf(a) \in {Nothing, IF MarkOf(ed) = Nothing THEN PointOf(ed)
                                    ELSE MarkOf(ed)}
<1>1. CASE ~shift
  <2>1. a = editor_sel_clear(ed)
    BY <1>1 DEF Anchored
  <2> QED BY <2>1, UnselectSeen
<1>2. CASE shift /\ ed.sel
  <2>1. a = ed
    BY <1>2 DEF Anchored
  <2>2. MarkOf(ed) # Nothing
    BY <1>2, Marked
  <2> QED BY <2>1, <2>2
<1>3. CASE shift /\ ~ed.sel
  <2>1. a = editor_sel_set_anchor(ed)
    BY <1>3 DEF Anchored
  <2>2. MarkOf(ed) = Nothing
    BY <1>3, Marked
  <2> QED BY <2>1, <2>2, AnchorSeen
<1> QED BY <1>1, <1>2, <1>3

\* A motion of the cursor with or without shift is a Move.
LEMMA MoveStep ==
  ASSUME Alone(ed), NEW shift \in BOOLEAN, NEW p,
         p \in MotionsOf(TextOf(ed), PointOf(ed)), Walked(Anchored(shift), ed', p)
  PROVE  Alone(ed') /\ Buffer!Move
<1> DEFINE a == Anchored(shift)
<1>1. /\ Alone(a) /\ TextOf(a) = TextOf(ed) /\ PointOf(a) = PointOf(ed)
      /\ ClipOf(a) = ClipOf(ed)
      /\ MarkOf(a) \in {Nothing, IF MarkOf(ed) = Nothing THEN PointOf(ed)
                                 ELSE MarkOf(ed)}
  BY AnchoredSeen
<1>2. Walked(a, ed', p)
  OBVIOUS
<1> HIDE DEF a
<1>3. /\ Alone(ed') /\ TextOf(ed') = TextOf(ed) /\ ClipOf(ed') = ClipOf(ed)
      /\ PointOf(ed') \in MotionsOf(TextOf(ed), PointOf(ed))
      /\ MarkOf(ed') \in {Nothing, IF MarkOf(ed) = Nothing THEN PointOf(ed)
                                   ELSE MarkOf(ed)}
  BY <1>1, <1>2, Zenon DEF Walked
<1>4. PointOf(ed') \in Buffer!Motions(PointOf(ed))
  <2>1. Buffer!Motions(PointOf(ed)) = MotionsOf(TextOf(ed), PointOf(ed))
    BY Mapped, Zenon DEF Buffer!Motions, MotionsOf
  <2> QED BY <1>3, <2>1, Zenon
<1> QED BY <1>3, <1>4, Zenon DEF Buffer!Move, TextOf, PointOf, MarkOf, ClipOf

\* Each of the eight keys is such a motion.
LEMMA ArrowsStep ==
  ASSUME Alone(ed), NEW shift \in BOOLEAN, Arrows(shift)
  PROVE  Alone(ed') /\ Buffer!Move
<1> DEFINE a == Anchored(shift)
           t == TextOf(ed)
           q == PointOf(ed)
<1>1. Alone(a) /\ TextOf(a) = t /\ PointOf(a) = q
  BY AnchoredSeen
<1>2. \E p \in MotionsOf(t, q) : Walked(a, ed', p)
  <2> HIDE DEF a, t, q
  <2>1. /\ Walked(a, editor_move_left(a), LeftOf(q))
        /\ Walked(a, editor_move_right(a), RightOf(t, q))
        /\ Walked(a, editor_move_up(a), UpOf(t, q))
        /\ Walked(a, editor_move_down(a), DownOf(t, q))
        /\ Walked(a, editor_move_home(a), StartOf(t, q))
        /\ Walked(a, editor_move_end(a), EndOf(t, q))
        /\ Walked(a, editor_move_word_left(a), WordFrom(t, q))
        /\ Walked(a, editor_move_word_right(a), WordTo(t, q))
    BY <1>1, LeftSeen, RightSeen, UpSeen, DownSeen, InRowSeen
  <2>2. \/ ed' = editor_move_left(a) \/ ed' = editor_move_right(a)
        \/ ed' = editor_move_up(a) \/ ed' = editor_move_down(a)
        \/ ed' = editor_move_home(a) \/ ed' = editor_move_end(a)
        \/ ed' = editor_move_word_left(a) \/ ed' = editor_move_word_right(a)
    BY Zenon DEF Arrows, ArrowLeft, ArrowRight, ArrowUp, ArrowDown, Home, End,
                 WordLeft, WordRight, Becomes, a
  <2> QED BY <2>1, <2>2, Zenon DEF MotionsOf
<1> QED BY <1>2, MoveStep

\* Nothing but the mark, or nothing at all, is seen of these.
LEMMA StillStep ==
  ASSUME TextOf(ed') = TextOf(ed), PointOf(ed') = PointOf(ed),
         ClipOf(ed') = ClipOf(ed), MarkOf(ed') \in {Nothing, MarkOf(ed)}
  PROVE  Buffer!Unselect \/ UNCHANGED Buffer!vars
<1>1. CASE MarkOf(ed') = Nothing
  BY <1>1, Zenon DEF Buffer!Unselect, TextOf, PointOf, MarkOf, ClipOf
<1>2. CASE MarkOf(ed') = MarkOf(ed)
  BY <1>2, Zenon DEF Buffer!vars, TextOf, PointOf, MarkOf, ClipOf
<1> QED BY <1>1, <1>2

\* A point put somewhere in the text, the mark there or untouched, is a Point.
LEMMA PointStep ==
  ASSUME TextOf(ed') = TextOf(ed), PointOf(ed') \in 0 .. Len(TextOf(ed)),
         ClipOf(ed') = ClipOf(ed), MarkOf(ed') \in {PointOf(ed'), MarkOf(ed)}
  PROVE  Buffer!Point
BY Zenon DEF Buffer!Point, TextOf, PointOf, MarkOf, ClipOf

\* Copying the selection is a CopySelection, without one it is nothing.
LEMMA CopyStep ==
  ASSUME Alone(ed), ed' = editor_copy_selection(ed)
  PROVE  Alone(ed') /\ (Buffer!CopySelection \/ UNCHANGED Buffer!vars)
<1>1. CASE ~ed.sel
  <2>1. ed' = ed
    BY <1>1 DEF editor_copy_selection
  <2> QED BY <2>1, Zenon DEF Buffer!vars
<1>2. CASE ed.sel
  <2>1. /\ Alone(ed') /\ TextOf(ed') = TextOf(ed) /\ PointOf(ed') = PointOf(ed)
        /\ MarkOf(ed') = MarkOf(ed)
        /\ ClipOf(ed') = SubSeq(TextOf(ed), FromOf(ed) + 1, ToOf(ed))
    BY <1>2, CopySeen
  <2>2. ClipOf(ed') = Buffer!Copied /\ MarkOf(ed) # Nothing
    BY <1>2, <2>1, Mapped, Marked, Zenon
  <2> QED BY <2>1, <2>2, Zenon DEF Buffer!CopySelection, TextOf, PointOf, MarkOf, ClipOf
<1> QED BY <1>1, <1>2

\* Cutting the selection is a CutSelection, without one it is nothing.
LEMMA CutStep ==
  ASSUME Alone(ed), ed' = editor_delete_selection(editor_copy_selection(ed))
  PROVE  Alone(ed') /\ (Buffer!CutSelection \/ UNCHANGED Buffer!vars)
<1>1. CASE ~ed.sel
  <2>1. ed' = ed
    BY <1>1 DEF editor_copy_selection, editor_delete_selection
  <2> QED BY <2>1, Zenon DEF Buffer!vars
<1>2. CASE ed.sel
  <2> DEFINE k == editor_copy_selection(ed)
  <2>1. /\ Alone(k) /\ TextOf(k) = TextOf(ed) /\ PointOf(k) = PointOf(ed)
        /\ MarkOf(k) = MarkOf(ed)
        /\ ClipOf(k) = SubSeq(TextOf(ed), FromOf(ed) + 1, ToOf(ed))
    BY <1>2, CopySeen
  <2> HIDE DEF k
  <2>2. ed' = editor_delete_selection(k)
    BY DEF k
  <2>3. SelectionGone(k, ed')
    BY <2>1, <2>2, SelectionGoneIs
  <2>4. FromOf(k) = FromOf(ed) /\ ToOf(k) = ToOf(ed)
    BY <2>1, Zenon DEF FromOf, ToOf
  <2> DEFINE i == FromOf(ed)
             j == ToOf(ed)
  <2>5. /\ Alone(ed')
        /\ TextOf(ed') = Take(TextOf(ed), i) \o << >> \o Drop(TextOf(ed), j)
        /\ PointOf(ed') = i + Len(<< >>) /\ MarkOf(ed') = Nothing
        /\ ClipOf(ed') = SubSeq(TextOf(ed), i + 1, j)
    BY <2>1, <2>3, <2>4, Zenon DEF SelectionGone, Replaced
  <2>6. Buffer!Replace(i, j, << >>)
    <3> HIDE DEF i, j
    <3> QED BY <2>5, Zenon DEF Buffer!Replace, TextOf, PointOf, MarkOf, Take, Drop
  <2>7. Buffer!Replace(Buffer!From, Buffer!To, << >>)
    BY <2>6, Mapped, Zenon
  <2>8. ClipOf(ed') = Buffer!Copied /\ MarkOf(ed) # Nothing
    BY <1>2, <2>5, Mapped, Marked, Zenon
  <2> QED BY <2>5, <2>7, <2>8, Zenon DEF Buffer!CutSelection, MarkOf, ClipOf
<1> QED BY <1>1, <1>2

\* Pasting over a selection, or at the cursor, is a PasteClip.
LEMMA PasteStep ==
  ASSUME Alone(ed), ed' = editor_paste(editor_delete_selection(ed))
  PROVE  Alone(ed') /\ Buffer!PasteClip
<1> DEFINE d == editor_delete_selection(ed)
<1>1. SelectionGone(ed, d)
  BY SelectionGoneIs
<1> HIDE DEF d
<1>2. ed' = editor_paste(d)
  BY DEF d
<1>3. Alone(ed') /\ Replaced(d, ed', PointOf(d), PointOf(d), InsertionOf(d))
  BY <1>1, <1>2, PasteSeen DEF SelectionGone
<1>4. InsertionOf(d) = InsertionOf(ed)
  BY <1>1, Zenon DEF SelectionGone, Replaced, InsertionOf
<1>5. Replaced(ed, ed', FromOf(ed), ToOf(ed), InsertionOf(ed))
  BY <1>1, <1>3, <1>4, SelectionReplaced
<1>6. /\ Buffer!Replace(FromOf(ed), ToOf(ed), InsertionOf(ed))
      /\ ClipOf(ed') = ClipOf(ed)
  BY <1>5, ReplaceStep
<1>7. Buffer!Replace(Buffer!From, Buffer!To, Buffer!Insertion)
  BY <1>6, Mapped, Zenon
<1> QED BY <1>3, <1>6, <1>7, Zenon DEF Buffer!PasteClip, ClipOf

\* Opening a file is a Load.
LEMMA LoadStep ==
  ASSUME Alone(ed), NEW file \in Seq(Row), ed' = Loaded(ed, file)
  PROVE  Alone(ed') /\ Buffer!Load
<1>1. Sound(ed')
  BY AloneFacts, LoadedSound
<1>2. AtStart(ed')
  BY LoadedStarts
<1>3. /\ Alone(ed') /\ TextOf(ed') \in Seq(Symbol) /\ PointOf(ed') = 0
      /\ MarkOf(ed') = Nothing /\ ClipOf(ed') = Nothing
  BY <1>1, <1>2, AtStartSeen
<1>4. TextOf(ed') \in Seq(Buffer!Symbol)
  BY <1>3, Mapped, Zenon
<1> QED BY <1>3, <1>4, Zenon DEF Buffer!Load, TextOf, PointOf, MarkOf, ClipOf

-----------------------------------------------------------------------------
(* The refinement                                                          *)

\* The empty text of editor_init is TextBuffer's.
LEMMA InitMapped ==
  ASSUME Init
  PROVE  Alone(ed) /\ Buffer!Init
<1>1. Sound(ed)
  BY InitSound
<1>2. PICK v \in Viewports :
        ed = [lines |-> << << >> >>, crow |-> 0, ccol |-> 0, srow |-> 0, scol |-> 0,
              vrows |-> v[1], vcols |-> v[2], sel |-> FALSE, arow |-> 0, acol |-> 0,
              rrow |-> -1, rcol |-> -1, clip |-> NoClip]
  BY DEF Init
<1>3. AtStart(ed) /\ ed.lines = << << >> >>
  BY <1>2 DEF AtStart
<1>4. /\ Alone(ed) /\ PointOf(ed) = 0
      /\ MarkOf(ed) = Nothing /\ ClipOf(ed) = Nothing
  BY <1>1, <1>3, AtStartSeen
<1>5. TextOf(ed) = << >>
  <2>1. << >> \in Row
    BY EmptySeq DEF Row
  <2>2. Flat(<< << >> >>) = << >>
    BY <2>1, FlatOne
  <2> QED BY <1>3, <2>2, Zenon DEF TextOf
<1> QED BY <1>4, <1>5, Zenon DEF Buffer!Init, TextOf, PointOf, MarkOf, ClipOf

\* A press drops the selection, moves the point and sets the mark there.
LEMMA ClickStep ==
  ASSUME Alone(ed), NEW row \in Int, NEW col \in Int,
         ed' = editor_sel_set_anchor(
                 editor_set_cursor(editor_sel_clear(ed), row, col))
  PROVE  Alone(ed') /\ Buffer!Point
<1> DEFINE d == editor_sel_clear(ed)
           e == editor_set_cursor(d, row, col)
<1>1. Alone(d) /\ TextOf(d) = TextOf(ed) /\ ClipOf(d) = ClipOf(ed)
  BY UnselectSeen
<1> HIDE DEF d
<1>2. /\ Alone(e) /\ TextOf(e) = TextOf(ed) /\ ClipOf(e) = ClipOf(ed)
      /\ PointOf(e) \in 0 .. Len(TextOf(ed))
  BY <1>1, SetCursorSeen
<1> HIDE DEF e
<1>3. ed' = editor_sel_set_anchor(e)
  BY DEF e, d
<1>4. /\ Alone(ed') /\ TextOf(ed') = TextOf(e) /\ PointOf(ed') = PointOf(e)
      /\ MarkOf(ed') = PointOf(e) /\ ClipOf(ed') = ClipOf(e)
  BY <1>2, <1>3, AnchorSeen
<1>5. /\ Alone(ed') /\ TextOf(ed') = TextOf(ed) /\ ClipOf(ed') = ClipOf(ed)
      /\ PointOf(ed') \in 0 .. Len(TextOf(ed))
      /\ MarkOf(ed') \in {PointOf(ed'), MarkOf(ed)}
  BY <1>2, <1>4, Zenon
<1> QED BY <1>5, PointStep

\* A held button takes the point along and leaves the mark.
LEMMA DragStep ==
  ASSUME Alone(ed), NEW row \in Int, NEW col \in Int,
         ed' = editor_set_cursor(ed, row, col)
  PROVE  Alone(ed') /\ Buffer!Point
<1>1. /\ Alone(ed') /\ TextOf(ed') = TextOf(ed) /\ ClipOf(ed') = ClipOf(ed)
      /\ PointOf(ed') \in 0 .. Len(TextOf(ed)) /\ MarkOf(ed') = MarkOf(ed)
  BY SetCursorSeen
<1>2. MarkOf(ed') \in {PointOf(ed'), MarkOf(ed)}
  BY <1>1, Zenon
<1> QED BY <1>1, <1>2, PointStep

\* Scrolling shows another part of the same text, perhaps without selection.
LEMMA ScrollStep ==
  ASSUME Alone(ed), NEW holding \in BOOLEAN, NEW n \in Int,
         ed' = editor_scroll_by(Released(holding), n)
  PROVE  Alone(ed') /\ (Buffer!Unselect \/ UNCHANGED Buffer!vars)
<1> DEFINE r == Released(holding)
<1>1. /\ Alone(r) /\ TextOf(r) = TextOf(ed) /\ PointOf(r) = PointOf(ed)
      /\ ClipOf(r) = ClipOf(ed) /\ MarkOf(r) \in {Nothing, MarkOf(ed)}
  <2>1. CASE holding
    <3>1. r = ed
      BY <2>1 DEF Released
    <3> QED BY <3>1
  <2>2. CASE ~holding
    <3>1. r = editor_sel_clear(ed)
      BY <2>2 DEF Released
    <3> QED BY <3>1, UnselectSeen
  <2> QED BY <2>1, <2>2
<1> HIDE DEF r
<1>2. ed' = editor_scroll_by(r, n)
  BY DEF r
<1>3. /\ Alone(ed') /\ TextOf(ed') = TextOf(r) /\ PointOf(ed') = PointOf(r)
      /\ MarkOf(ed') = MarkOf(r) /\ ClipOf(ed') = ClipOf(r)
  BY <1>1, <1>2, ScrollSeen
<1>4. /\ TextOf(ed') = TextOf(ed) /\ PointOf(ed') = PointOf(ed)
      /\ ClipOf(ed') = ClipOf(ed) /\ MarkOf(ed') \in {Nothing, MarkOf(ed)}
  BY <1>1, <1>3, Zenon
<1> QED BY <1>3, <1>4, StillStep

\* One step per action of the editor: each is a step of TextBuffer or unseen.
LEMMA NextMapped ==
  ASSUME Alone(ed), [Next]_vars
  PROVE  Alone(ed') /\ [Buffer!Next]_(Buffer!vars)
<1>0. Sound(ed) /\ ed \in EditorState
  BY AloneFacts
<1>1. ASSUME NEW c \in Char, TypeChar(c)
      PROVE  Alone(ed') /\ Buffer!Next
  <2>1. /\ c \in Symbol
        /\ ed' = editor_insert_char(editor_delete_selection(ed), c)
    BY <1>1, Zenon DEF Symbol, TypeChar, Becomes
  <2> QED BY <2>1, InsertStep, Zenon DEF Buffer!Next
<1>2. CASE Enter
  <2>1. /\ Newline \in Symbol
        /\ ed' = editor_insert_char(editor_delete_selection(ed), Newline)
    BY <1>2 DEF Symbol, Enter, Becomes
  <2>2. Alone(ed') /\ Buffer!Insert
    BY <2>1, InsertStep
  <2> QED BY <2>2, Zenon DEF Buffer!Next
<1>3. CASE Backspace
  <2>1. CASE ed.sel
    <3>1. ed' = editor_delete_selection(ed)
      BY <1>3, <2>1, Zenon DEF Backspace, Becomes
    <3>2. Alone(ed') /\ Buffer!EraseSelection
      BY <2>1, <3>1, EraseSelectionStep
    <3> QED BY <3>2, Zenon DEF Buffer!Next
  <2>2. CASE ~ed.sel
    <3>1. ed' = editor_delete_char(ed)
      BY <1>3, <2>2, Zenon DEF Backspace, Becomes
    <3>2. Alone(ed') /\ Buffer!EraseSymbol
      BY <2>2, <3>1, EraseSymbolStep
    <3> QED BY <3>2, Zenon DEF Buffer!Next
  <2> QED BY <2>1, <2>2
<1>4. CASE CtrlBackspace
  <2>1. CASE ed.sel
    <3>1. ed' = editor_delete_selection(ed)
      BY <1>4, <2>1, Zenon DEF CtrlBackspace, Becomes
    <3>2. Alone(ed') /\ Buffer!EraseSelection
      BY <2>1, <3>1, EraseSelectionStep
    <3> QED BY <3>2, Zenon DEF Buffer!Next
  <2>2. CASE ~ed.sel
    <3>1. ed' = IF ed.ccol = 0 THEN editor_delete_char(ed) ELSE editor_delete_word(ed)
      BY <1>4, <2>2, Zenon DEF CtrlBackspace, Becomes
    <3>2. Alone(ed') /\ Buffer!EraseWord
      BY <2>2, <3>1, EraseWordStep
    <3> QED BY <3>2, Zenon DEF Buffer!Next
  <2> QED BY <2>1, <2>2
<1>5. ASSUME NEW shift \in BOOLEAN, Arrows(shift)
      PROVE  Alone(ed') /\ Buffer!Next
  <2>1. Alone(ed') /\ Buffer!Move
    BY <1>5, ArrowsStep
  <2> QED BY <2>1, Zenon DEF Buffer!Next
<1>6. CASE Copy
  <2>1. ed' = editor_copy_selection(ed)
    BY <1>6 DEF Copy, Becomes
  <2>2. Alone(ed') /\ (Buffer!CopySelection \/ UNCHANGED Buffer!vars)
    BY <2>1, CopyStep
  <2> QED BY <2>2, Zenon DEF Buffer!Next
<1>7. CASE Cut
  <2>1. ed' = editor_delete_selection(editor_copy_selection(ed))
    BY <1>7 DEF Cut, Becomes
  <2>2. Alone(ed') /\ (Buffer!CutSelection \/ UNCHANGED Buffer!vars)
    BY <2>1, CutStep
  <2> QED BY <2>2, Zenon DEF Buffer!Next
<1>8. CASE Paste
  <2>1. ed' = editor_paste(editor_delete_selection(ed))
    BY <1>8 DEF Paste, Becomes
  <2>2. Alone(ed') /\ Buffer!PasteClip
    BY <2>1, PasteStep
  <2> QED BY <2>2, Zenon DEF Buffer!Next
<1>9. ASSUME NEW file \in Files, Open(file)
      PROVE  Alone(ed') /\ Buffer!Next
  <2>1. file \in Seq(Row) /\ ed' = Loaded(ed, file)
    BY <1>9, FilesAssumption DEF Open, Becomes
  <2>2. Alone(ed') /\ Buffer!Load
    BY <2>1, LoadStep
  <2> QED BY <2>2, Zenon DEF Buffer!Next
<1>10. ASSUME NEW cell \in Cells, Click(cell[1], cell[2])
       PROVE  Alone(ed') /\ Buffer!Next
  <2> DEFINE p == scene_px_to_text(cell[1], cell[2])
             row == p.row
             col == p.col
  <2>1. /\ row \in Int /\ col \in Int
        /\ ed' = editor_sel_set_anchor(
                   editor_set_cursor(editor_sel_clear(ed), row, col))
    BY <1>0, <1>10, CellTarget DEF Click, Becomes
  <2> HIDE DEF row, col
  <2>2. Alone(ed') /\ Buffer!Point
    BY <2>1, ClickStep
  <2> QED BY <2>2, Zenon DEF Buffer!Next
<1>11. ASSUME NEW cell \in Cells, Drag(cell[1], cell[2])
       PROVE  Alone(ed') /\ Buffer!Next
  <2> DEFINE p == scene_px_to_text(cell[1], cell[2])
             row == p.row
             col == p.col
  <2>1. row \in Int /\ col \in Int /\ ed' = editor_set_cursor(ed, row, col)
    BY <1>0, <1>11, CellTarget DEF Drag, Becomes
  <2> HIDE DEF row, col
  <2>2. Alone(ed') /\ Buffer!Point
    BY <2>1, DragStep
  <2> QED BY <2>2, Zenon DEF Buffer!Next
<1>12. ASSUME NEW z \in WheelSteps, NEW holding \in BOOLEAN, Wheel(z, holding)
       PROVE  Alone(ed') /\ (Buffer!Next \/ UNCHANGED Buffer!vars)
  <2> DEFINE n == z * SCROLL_SPEED_MULTIPLIER
  <2>1. n \in Int
    BY WheelAssumption DEF SCROLL_SPEED_MULTIPLIER
  <2>2. ed' = editor_scroll_by(Released(holding), n)
    BY <1>12 DEF Wheel, Becomes
  <2> HIDE DEF n
  <2>3. Alone(ed') /\ (Buffer!Unselect \/ UNCHANGED Buffer!vars)
    BY <2>1, <2>2, ScrollStep
  <2> QED BY <2>3, Zenon DEF Buffer!Next
<1>13. ASSUME NEW target \in 0 .. MaxScroll, NEW holding \in BOOLEAN,
              ScrollbarClick(target, holding)
       PROVE  Alone(ed') /\ (Buffer!Next \/ UNCHANGED Buffer!vars)
  <2> DEFINE n == target - ed.srow
  <2>1. n \in Int
    BY <1>0, SoundFacts
  <2>2. ed' = editor_scroll_by(Released(holding), n)
    BY <1>13 DEF ScrollbarClick, Becomes
  <2> HIDE DEF n
  <2>3. Alone(ed') /\ (Buffer!Unselect \/ UNCHANGED Buffer!vars)
    BY <2>1, <2>2, ScrollStep
  <2> QED BY <2>3, Zenon DEF Buffer!Next
<1>14. CASE ClickElsewhere
  <2>1. ed' = editor_sel_clear(ed)
    BY <1>14 DEF ClickElsewhere, Becomes
  <2>2. /\ Alone(ed') /\ TextOf(ed') = TextOf(ed) /\ PointOf(ed') = PointOf(ed)
        /\ ClipOf(ed') = ClipOf(ed) /\ MarkOf(ed') \in {Nothing, MarkOf(ed)}
    BY <2>1, UnselectSeen
  <2>3. Buffer!Unselect \/ UNCHANGED Buffer!vars
    BY <2>2, StillStep
  <2> QED BY <2>2, <2>3, Zenon DEF Buffer!Next
<1>15. ASSUME NEW v \in Viewports, Relayout(v)
       PROVE  Alone(ed') /\ (Buffer!Next \/ UNCHANGED Buffer!vars)
  <2> DEFINE rows == v[1]
             cols == v[2]
  <2>1. rows \in Nat \ {0} /\ cols \in Nat \ {0}
    BY ViewportAssumption
  <2>2. ed' = editor_set_viewport(ed, rows, cols)
    BY <1>15 DEF Relayout, Becomes
  <2> HIDE DEF rows, cols
  <2>3. /\ Alone(ed') /\ TextOf(ed') = TextOf(ed) /\ PointOf(ed') = PointOf(ed)
        /\ ClipOf(ed') = ClipOf(ed) /\ MarkOf(ed') \in {Nothing, MarkOf(ed)}
    BY <2>1, <2>2, ViewportSeen
  <2>4. Buffer!Unselect \/ UNCHANGED Buffer!vars
    BY <2>3, StillStep
  <2> QED BY <2>3, <2>4, Zenon DEF Buffer!Next
<1>16. CASE UNCHANGED vars
  <2>1. ed' = ed
    BY <1>16 DEF vars
  <2> QED BY <2>1, Zenon DEF Buffer!vars
<1> QED
  BY <1>1, <1>2, <1>3, <1>4, <1>5, <1>6, <1>7, <1>8, <1>9, <1>10, <1>11, <1>12,
     <1>13, <1>14, <1>15, <1>16, Zenon
  DEF Next

\* Every command of the editor has on its rows, cursor, selection and clipboard
\* the effect that TextBuffer promises on a string, a point, a mark and a
\* clipboard, for every text, file and viewport.
THEOREM EditorImplementsTextBuffer == Spec => ImplementsTextBuffer
<1>1. Init => Alone(ed) /\ Buffer!Init
  BY InitMapped
<1>2. Alone(ed) /\ [Next]_vars => Alone(ed)' /\ [Buffer!Next]_(Buffer!vars)
  <2>1. ASSUME Alone(ed), [Next]_vars
        PROVE  Alone(ed') /\ [Buffer!Next]_(Buffer!vars)
    BY <2>1, NextMapped
  <2>2. Alone(ed)' <=> Alone(ed')
    BY DEF Alone, Sound, Position, Anchor, RowCount, RowLen
  <2> QED BY <2>1, <2>2
<1> QED
  BY <1>1, <1>2, PTL DEF Spec, ImplementsTextBuffer, Buffer!Spec
=============================================================================
