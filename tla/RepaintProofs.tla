----------------------------- MODULE RepaintProofs -----------------------------
(***************************************************************************)
(* No repaint is forgotten, for texts and windows of any size.  Between    *)
(* two turns StaleIsOwed and SelectionIsOwed say that what the screen      *)
(* misses is marked in a flag; within a turn it may also be covered by the *)
(* request that is pending, which is what makes the invariant inductive.   *)
(***************************************************************************)
EXTENDS Repaint, TLAPS

StaleOwed == \/ torn \/ scroll_dirty \/ sel_dirty \/ pending = FULL
             \/ stale \subseteq PaintedBy(pending, crow - srow, rrow - srow)

SelectionOwed == lit # sel => sel_dirty \/ pending = FULL

\* The text may shrink above a cursor that the peer's packets leave behind.
Within == crow <= n + MaxRows

Inv == TypeOK /\ Within /\ StaleOwed /\ SelectionOwed /\ (~begun => pending = NONE)

USE SizeAssumption
USE DEF NONE, MOUSE, STATUS, CHAR, REMOTE_LINE, LINE, FULL

-----------------------------------------------------------------------------
(* Requests                                                                *)

\* A pending request is never lost in another, whichever line each is for.
LEMMA MergedCovers ==
  ASSUME NEW p \in Modes, NEW m \in Modes, NEW own, NEW theirs
  PROVE  /\ Merged(p, m) \in Modes
         /\ PaintedBy(p, own, theirs) \subseteq PaintedBy(Merged(p, m), own, theirs)
         /\ PaintedBy(m, own, theirs) \subseteq PaintedBy(Merged(p, m), own, theirs)
         /\ m = FULL \/ p = FULL => Merged(p, m) = FULL
         /\ p = NONE => Merged(p, m) = m
         /\ m = NONE => Merged(p, m) = p
<1>1. CASE {p, m} = {LINE, REMOTE_LINE}
  <2>1. Merged(p, m) = FULL
    BY <1>1 DEF Merged
  <2>2. p # FULL /\ m # FULL /\ p # NONE /\ m # NONE
    BY <1>1
  <2> QED
    BY <2>1, <2>2 DEF PaintedBy, Modes
<1>2. CASE {p, m} # {LINE, REMOTE_LINE}
  <2>1. Merged(p, m) = IF m > p THEN m ELSE p
    BY <1>2, Zenon DEF Merged
  <2>2. ~(p = LINE /\ m = REMOTE_LINE) /\ ~(p = REMOTE_LINE /\ m = LINE)
    BY <1>2
  <2> QED
    BY <2>1, <2>2 DEF PaintedBy, Modes
<1> QED
  BY <1>1, <1>2

\* A repaint of everything paints every line.
LEMMA FullPaints ==
  ASSUME NEW own, NEW theirs
  PROVE  PaintedBy(FULL, own, theirs) = Lines
BY DEF PaintedBy

\* set_render_ex consumes both flags, or leaves sel_dirty set behind a full
\* repaint.
LEMMA AskedEx ==
  ASSUME TypeOK, sel' \in BOOLEAN, NEW mode \in Modes,
         NEW scrolled \in BOOLEAN, NEW selDirty \in BOOLEAN,
         AsksEx(mode, scrolled, selDirty)
  PROVE  /\ pending' \in Modes /\ scroll_dirty' \in BOOLEAN /\ sel_dirty' \in BOOLEAN
         /\ \/ pending' = FULL
            \/ ~scrolled /\ ~selDirty /\ ~sel' /\ pending' = Merged(pending, mode)
<1>1. pending \in Modes /\ FULL \in Modes
  BY DEF TypeOK, Modes
<1>2. scroll_dirty' \in BOOLEAN /\ sel_dirty' \in BOOLEAN
  BY DEF AsksEx
<1>3. CASE scrolled \/ selDirty \/ sel'
  <2>1. pending' = Merged(pending, FULL)
    BY <1>3 DEF AsksEx
  <2> QED
    BY <1>1, <1>2, <2>1, MergedCovers
<1>4. CASE ~(scrolled \/ selDirty \/ sel')
  <2>1. pending' = Merged(pending, mode)
    BY <1>4 DEF AsksEx
  <2> QED
    BY <1>1, <1>2, <1>4, <2>1, MergedCovers
<1> QED
  BY <1>3, <1>4

\* set_render leaves the flags to a later request.
LEMMA Asked ==
  ASSUME TypeOK, NEW mode \in Modes, NEW scrolled \in BOOLEAN, NEW selDirty \in BOOLEAN,
         Asks(mode, scrolled, selDirty)
  PROVE  /\ pending' \in Modes /\ scroll_dirty' \in BOOLEAN /\ sel_dirty' \in BOOLEAN
         /\ pending' = Merged(pending, mode)
         /\ scroll_dirty' = scrolled /\ sel_dirty' = selDirty
         /\ mode = FULL \/ pending = FULL => pending' = FULL
         /\ mode = NONE => pending' = pending
BY MergedCovers DEF Asks, TypeOK

-----------------------------------------------------------------------------
(* The viewport                                                            *)

\* clamp_scroll keeps the offset natural.
LEMMA Viewport ==
  ASSUME TypeOK, NEW r \in 0 .. 2 * MaxRows, CursorTo(r)
  PROVE  /\ crow' = r /\ srow' \in 0 .. 2 * MaxRows
         /\ Scrolled \in BOOLEAN
         /\ ~Scrolled => srow' = srow /\ ~scroll_dirty
BY DEF TypeOK, CursorTo, ClampAxis, Scrolled

\* Rows that change go stale in the window; if it scrolls, every line does.
LEMMA RowsStale ==
  ASSUME TypeOK, NEW nn, NEW changed, Rows(nn, changed)
  PROVE  /\ n' = nn /\ stale' \subseteq Lines
         /\ srow' = srow => stale' = stale \cup {y \in Lines : srow + y \in changed}
BY DEF TypeOK, Rows

\* What a handler that ends in set_render_ex has to show: a line that goes stale
\* is painted by what it asks for, or it hands a flag to set_render_ex.
LEMMA OwedEx ==
  ASSUME Inv, sel' \in BOOLEAN, NEW mode \in Modes,
         NEW scrolled \in BOOLEAN, NEW selDirty \in BOOLEAN,
         AsksEx(mode, scrolled, selDirty),
         lit' = lit, sel' # sel => selDirty,
         scroll_dirty => scrolled, sel_dirty => selDirty,
         \/ scrolled \/ selDirty \/ pending' = FULL \/ torn'
         \/ stale' \subseteq PaintedBy(Merged(pending, mode), crow' - srow', rrow' - srow')
  PROVE  StaleOwed' /\ SelectionOwed'
<1>1. \/ pending' = FULL
      \/ ~scrolled /\ ~selDirty /\ ~sel' /\ pending' = Merged(pending, mode)
  BY AskedEx DEF Inv
<1>2. CASE pending' = FULL
  BY <1>2 DEF StaleOwed, SelectionOwed
<1>3. CASE pending' # FULL
  <2>1. ~scrolled /\ ~selDirty /\ pending' = Merged(pending, mode)
    BY <1>1, <1>3
  <2>2. pending # FULL
    BY <1>3, <2>1, MergedCovers DEF Inv, TypeOK
  <2>3. lit' = sel'
    BY <2>1, <2>2 DEF Inv, SelectionOwed
  <2> QED
    BY <1>3, <2>1, <2>3 DEF StaleOwed, SelectionOwed
<1> QED
  BY <1>2, <1>3

\* The same for set_render, which leaves the flags as they are handed over.
LEMMA Owed ==
  ASSUME Inv, NEW mode \in Modes, NEW scrolled \in BOOLEAN, NEW selDirty \in BOOLEAN,
         Asks(mode, scrolled, selDirty),
         \/ pending' = FULL
         \/ /\ lit' = lit
            /\ sel' # sel => selDirty
            /\ sel_dirty => selDirty
            /\ \/ scrolled \/ selDirty \/ torn'
               \/ stale' \subseteq PaintedBy(Merged(pending, mode), crow' - srow', rrow' - srow')
  PROVE  StaleOwed' /\ SelectionOwed'
<1>1. /\ pending' = Merged(pending, mode)
      /\ scroll_dirty' = scrolled /\ sel_dirty' = selDirty
      /\ pending = FULL => pending' = FULL
  BY Asked DEF Inv
<1>2. CASE pending' = FULL
  BY <1>2 DEF StaleOwed, SelectionOwed
<1>3. CASE pending' # FULL
  <2>1. lit' = lit /\ (sel' # sel => selDirty) /\ (sel_dirty => selDirty)
    BY <1>3
  <2>2. SelectionOwed'
    BY <1>1, <1>3, <2>1 DEF Inv, SelectionOwed
  <2> QED
    BY <1>1, <1>3, <2>2 DEF StaleOwed
<1> QED
  BY <1>2, <1>3

-----------------------------------------------------------------------------
(* Keys.  A key finds nothing pending: what is stale is marked.            *)

\* What a key's handler finds: nothing pending, and all that is stale owed.
LEMMA KeyFinds ==
  ASSUME Inv, Key
  PROVE  /\ pending = NONE /\ begun' = TRUE
         /\ loading' = loading /\ lit' = lit /\ torn' = torn
         /\ torn \/ scroll_dirty \/ sel_dirty \/ stale = {}
         /\ \A m \in Modes : Merged(pending, m) = m
BY MergedCovers DEF Inv, Key, StaleOwed, PaintedBy, Modes, TypeOK

\* An edit within a row keeps the invariant, whether one line or all are stale.
LEMMA EditRowKeeps ==
  ASSUME Inv, NEW wide \in BOOLEAN, EditRow(wide)
  PROVE  Inv'
<1>1. /\ Key /\ crow < n /\ rrow' = rrow /\ CursorTo(crow) /\ n' = n /\ sel' = sel
      /\ AsksEx(LINE, Scrolled \/ wide, sel_dirty)
      /\ stale' = IF srow' # srow \/ wide THEN Lines ELSE stale \cup ({crow - srow} \cap Lines)
  BY DEF EditRow, Edit
<1>2. TypeOK /\ Within /\ crow \in 0 .. 2 * MaxRows /\ LINE \in Modes /\ sel_dirty \in BOOLEAN
  BY DEF Inv, TypeOK, Modes
<1>3. /\ crow' = crow /\ srow' \in 0 .. 2 * MaxRows /\ Scrolled \in BOOLEAN
      /\ ~Scrolled => srow' = srow /\ ~scroll_dirty
  BY <1>1, <1>2, Viewport
<1>4. /\ pending = NONE /\ begun' = TRUE /\ Merged(pending, LINE) = LINE
      /\ loading' = loading /\ lit' = lit /\ torn' = torn
      /\ torn \/ scroll_dirty \/ sel_dirty \/ stale = {}
  BY <1>1, <1>2, KeyFinds
<1>5. pending' \in Modes /\ scroll_dirty' \in BOOLEAN /\ sel_dirty' \in BOOLEAN
  BY <1>1, <1>2, <1>3, AskedEx DEF TypeOK
<1>6. TypeOK' /\ Within'
  BY <1>1, <1>2, <1>3, <1>4, <1>5 DEF TypeOK, Within
<1>7. ~Scrolled /\ ~wide /\ ~sel_dirty /\ ~torn
      => stale' \subseteq PaintedBy(LINE, crow' - srow', rrow' - srow')
  BY <1>1, <1>2, <1>3, <1>4 DEF PaintedBy, TypeOK
<1>8. scroll_dirty => Scrolled \/ wide
  BY <1>3
<1>9. sel' \in BOOLEAN /\ (Scrolled \/ wide) \in BOOLEAN
  BY <1>1, <1>2 DEF TypeOK
<1>10. StaleOwed' /\ SelectionOwed'
  BY <1>1, <1>2, <1>4, <1>7, <1>8, <1>9, OwedEx
<1> QED
  BY <1>4, <1>6, <1>10 DEF Inv

\* A handler that asks for everything owes nothing.
LEMMA FullKeeps ==
  ASSUME TypeOK', Within', begun' = TRUE, pending' = FULL
  PROVE  Inv'
BY DEF Inv, StaleOwed, SelectionOwed

\* A request for everything is granted by either way of asking.
LEMMA AskedFull ==
  ASSUME TypeOK, sel' \in BOOLEAN, NEW s \in BOOLEAN, NEW d \in BOOLEAN,
         Asks(FULL, s, d) \/ AsksEx(FULL, s, d)
  PROVE  pending' = FULL /\ scroll_dirty' \in BOOLEAN /\ sel_dirty' \in BOOLEAN
<1>1. FULL \in Modes /\ pending \in Modes
  BY DEF Modes, TypeOK
<1>2. CASE Asks(FULL, s, d)
  BY <1>1, <1>2, Asked
<1>3. CASE AsksEx(FULL, s, d)
  BY <1>1, <1>3, AskedEx, MergedCovers
<1> QED
  BY <1>2, <1>3

\* So does a row split in two.
LEMMA EnterKeeps ==
  ASSUME Inv, Enter
  PROVE  Inv'
<1>1. /\ Key /\ crow < n /\ n < MaxRows /\ rrow' = rrow /\ sel' = sel
      /\ CursorTo(crow + 1) /\ Rows(n + 1, crow .. MaxRows)
      /\ Asks(FULL, Scrolled, sel_dirty)
  BY DEF Enter, Edit
<1>2. TypeOK /\ Within /\ crow + 1 \in 0 .. 2 * MaxRows /\ sel_dirty \in BOOLEAN /\ sel' \in BOOLEAN
  BY <1>1 DEF Inv, TypeOK
<1>3. crow' = crow + 1 /\ srow' \in 0 .. 2 * MaxRows /\ Scrolled \in BOOLEAN
  BY <1>1, <1>2, Viewport
<1>4. n' = n + 1 /\ stale' \subseteq Lines
  BY <1>1, <1>2, RowsStale
<1>5. begun' = TRUE /\ loading' = loading /\ lit' = lit /\ torn' = torn
  BY <1>1, KeyFinds
<1>6. pending' = FULL /\ scroll_dirty' \in BOOLEAN /\ sel_dirty' \in BOOLEAN
  BY <1>1, <1>2, <1>3, AskedFull
<1>7. TypeOK' /\ Within'
  BY <1>1, <1>2, <1>3, <1>4, <1>5, <1>6 DEF TypeOK, Within, Modes
<1> QED
  BY <1>5, <1>6, <1>7, FullKeeps

\* So does a row joined to the one above.
LEMMA JoinUpKeeps ==
  ASSUME Inv, JoinUp
  PROVE  Inv'
<1>1. /\ Key /\ crow < n /\ rrow' = rrow /\ sel' = sel
      /\ IF crow = 0 THEN CursorTo(0) /\ Rows(n, {})
         ELSE CursorTo(crow - 1) /\ Rows(n - 1, crow - 1 .. MaxRows)
      /\ AsksEx(FULL, Scrolled, sel_dirty)
  BY DEF JoinUp, Edit
<1>2. TypeOK /\ Within /\ sel_dirty \in BOOLEAN /\ sel' \in BOOLEAN
      /\ crow \in 0 .. 2 * MaxRows /\ n \in 1 .. MaxRows
  BY <1>1 DEF Inv, TypeOK
<1>3. \E r \in 0 .. 2 * MaxRows : CursorTo(r) /\ r <= crow /\ r < MaxRows /\ r <= n
  <2>1. crow # 0 => crow - 1 \in 0 .. 2 * MaxRows
    BY <1>2
  <2> QED
    BY <1>1, <1>2, <2>1
<1>4. crow' \in 0 .. 2 * MaxRows /\ crow' <= n /\ srow' \in 0 .. 2 * MaxRows /\ Scrolled \in BOOLEAN
  BY <1>2, <1>3, Viewport
<1>5. n' \in 1 .. MaxRows /\ n' >= n - 1 /\ stale' \subseteq Lines
  BY <1>1, <1>2, RowsStale
<1>6. begun' = TRUE /\ loading' = loading /\ lit' = lit /\ torn' = torn
  BY <1>1, KeyFinds
<1>7. pending' = FULL /\ scroll_dirty' \in BOOLEAN /\ sel_dirty' \in BOOLEAN
  BY <1>1, <1>2, <1>4, AskedFull
<1>8. Within'
  <2>1. \A c \in 0 .. 2 * MaxRows, k \in 1 .. MaxRows, nn \in 1 .. MaxRows :
          c <= k => c <= nn + MaxRows
    OBVIOUS
  <2> QED
    BY <1>2, <1>4, <1>5, <2>1 DEF Within
<1>9. rrow' = rrow /\ sel' = sel
  BY <1>1
<1>10. TypeOK'
  BY <1>2, <1>4, <1>5, <1>6, <1>7, <1>9 DEF TypeOK, Modes
<1> QED
  BY <1>6, <1>7, <1>8, <1>10, FullKeeps

\* Deleting a selection keeps the types, whatever is asked for after it.
LEMMA DeletesTypes ==
  ASSUME TypeOK, NEW sr \in AllRows, NEW gone \in AllRows, NEW added \in AllRows,
         crow < n, Deletes(sr, gone, added)
  PROVE  /\ n' \in 1 .. MaxRows /\ crow' \in 0 .. 2 * MaxRows /\ crow' <= n' + MaxRows
         /\ srow' \in 0 .. 2 * MaxRows /\ stale' \subseteq Lines /\ sel' = FALSE
         /\ Scrolled \in BOOLEAN /\ (~Scrolled => ~scroll_dirty)
<1>1. /\ sr + gone < n /\ n - gone + added <= MaxRows /\ sel' = FALSE
      /\ CursorTo(sr + added) /\ Rows(n - gone + added, sr .. MaxRows)
  BY DEF Deletes
<1>2. sr + added \in 0 .. 2 * MaxRows /\ n \in 1 .. MaxRows
  BY <1>1 DEF TypeOK, AllRows
<1>3. /\ crow' = sr + added /\ srow' \in 0 .. 2 * MaxRows
      /\ Scrolled \in BOOLEAN /\ (~Scrolled => ~scroll_dirty)
  BY <1>1, <1>2, Viewport
<1>4. n' = n - gone + added /\ stale' \subseteq Lines
  BY <1>1, RowsStale
<1> QED
  BY <1>1, <1>2, <1>3, <1>4 DEF AllRows

\* So does text that replaces a selection of several rows.
LEMMA ReplaceSelectionKeeps ==
  ASSUME Inv, NEW sr \in AllRows, NEW gone \in AllRows, NEW added \in AllRows,
         ReplaceSelection(sr, gone, added)
  PROVE  Inv'
<1>1. /\ Key /\ crow < n /\ rrow' = rrow /\ Deletes(sr, gone, added)
      /\ AsksEx(FULL, Scrolled, sel \/ sel_dirty) \/ Asks(FULL, Scrolled, TRUE)
  BY DEF ReplaceSelection, Edit
<1>2. TypeOK /\ (sel \/ sel_dirty) \in BOOLEAN
  BY DEF Inv, TypeOK
<1>3. /\ n' \in 1 .. MaxRows /\ crow' \in 0 .. 2 * MaxRows /\ crow' <= n' + MaxRows
      /\ srow' \in 0 .. 2 * MaxRows /\ stale' \subseteq Lines /\ sel' = FALSE
      /\ Scrolled \in BOOLEAN
  BY <1>1, <1>2, DeletesTypes
<1>4. begun' = TRUE /\ loading' = loading /\ lit' = lit /\ torn' = torn
  BY <1>1, KeyFinds
<1>5. pending' = FULL /\ scroll_dirty' \in BOOLEAN /\ sel_dirty' \in BOOLEAN
  <2>1. sel' \in BOOLEAN /\ TRUE \in BOOLEAN
    BY <1>3
  <2>2. CASE AsksEx(FULL, Scrolled, sel \/ sel_dirty)
    BY <1>2, <1>3, <2>1, <2>2, AskedFull
  <2>3. CASE Asks(FULL, Scrolled, TRUE)
    BY <1>2, <1>3, <2>1, <2>3, AskedFull
  <2> QED
    BY <1>1, <2>2, <2>3
<1>6. TypeOK' /\ Within'
  BY <1>1, <1>2, <1>3, <1>4, <1>5 DEF TypeOK, Within, Modes
<1> QED
  BY <1>4, <1>5, <1>6, FullKeeps

\* The deleted selection stays marked although the status is all that is shown.
LEMMA PasteNothingKeeps ==
  ASSUME Inv, NEW sr \in AllRows, NEW gone \in AllRows, PasteNothing(sr, gone)
  PROVE  Inv'
<1>1. /\ Key /\ crow < n /\ rrow' = rrow /\ Deletes(sr, gone, 0)
      /\ Asks(STATUS, Scrolled, TRUE)
  BY DEF PasteNothing, Edit
<1>2. TypeOK /\ STATUS \in Modes /\ TRUE \in BOOLEAN /\ 0 \in AllRows
  BY DEF Inv, TypeOK, Modes, AllRows
<1>3. /\ n' \in 1 .. MaxRows /\ crow' \in 0 .. 2 * MaxRows /\ crow' <= n' + MaxRows
      /\ srow' \in 0 .. 2 * MaxRows /\ stale' \subseteq Lines /\ sel' = FALSE
      /\ Scrolled \in BOOLEAN
  BY <1>1, <1>2, DeletesTypes
<1>4. begun' = TRUE /\ loading' = loading /\ lit' = lit /\ torn' = torn
  BY <1>1, KeyFinds
<1>5. pending' \in Modes /\ scroll_dirty' \in BOOLEAN /\ sel_dirty' = TRUE
  BY <1>1, <1>2, <1>3, Asked
<1>6. TypeOK' /\ Within'
  BY <1>1, <1>2, <1>3, <1>4, <1>5 DEF TypeOK, Within, Modes
<1> QED
  BY <1>4, <1>5, <1>6 DEF Inv, StaleOwed, SelectionOwed

\* So does a motion, with its request of one line or of all.
LEMMA ArrowKeeps ==
  ASSUME Inv, NEW to \in 0 .. n - 1, NEW shift \in BOOLEAN, NEW wide \in BOOLEAN,
         Arrow(to, shift, wide)
  PROVE  Inv'
<1>1. /\ Key /\ rrow' = rrow /\ CursorTo(to) /\ n' = n /\ sel' = shift
      /\ AsksEx(CHAR, Scrolled \/ wide, sel_dirty \/ shift \/ sel)
      /\ stale' = IF srow' # srow \/ wide THEN Lines ELSE stale
  BY DEF Arrow, Edit
<1>2. TypeOK /\ n \in 1 .. MaxRows /\ CHAR \in Modes /\ (sel_dirty \/ shift \/ sel) \in BOOLEAN
  BY DEF Inv, TypeOK, Modes
<1>3. to \in 0 .. 2 * MaxRows
  BY <1>2
<1>4. /\ crow' = to /\ srow' \in 0 .. 2 * MaxRows /\ Scrolled \in BOOLEAN
      /\ ~Scrolled => srow' = srow /\ ~scroll_dirty
  BY <1>1, <1>2, <1>3, Viewport
<1>5. /\ pending = NONE /\ begun' = TRUE /\ Merged(pending, CHAR) = CHAR
      /\ loading' = loading /\ lit' = lit /\ torn' = torn
      /\ torn \/ scroll_dirty \/ sel_dirty \/ stale = {}
  BY <1>1, <1>2, KeyFinds
<1>6. sel' \in BOOLEAN /\ (Scrolled \/ wide) \in BOOLEAN /\ (scroll_dirty => Scrolled \/ wide)
  BY <1>1, <1>4
<1>7. pending' \in Modes /\ scroll_dirty' \in BOOLEAN /\ sel_dirty' \in BOOLEAN
  BY <1>1, <1>2, <1>6, AskedEx
<1>8. TypeOK' /\ Within'
  BY <1>1, <1>2, <1>3, <1>4, <1>5, <1>6, <1>7 DEF TypeOK, Within
<1>9. sel' # sel => sel_dirty \/ shift \/ sel
  BY <1>1, <1>2 DEF TypeOK
<1>10. Scrolled \/ wide \/ sel_dirty \/ torn'
       \/ stale' \subseteq PaintedBy(CHAR, crow' - srow', rrow' - srow')
  BY <1>1, <1>4, <1>5
<1>11. StaleOwed' /\ SelectionOwed'
  BY <1>1, <1>2, <1>5, <1>6, <1>9, <1>10, OwedEx
<1> QED
  BY <1>5, <1>8, <1>11 DEF Inv

\* So does a key of the command bar.
LEMMA BarKeyKeeps ==
  ASSUME Inv, BarKey
  PROVE  Inv'
<1>1. PICK m \in {STATUS, FULL} : Asks(m, scroll_dirty, sel_dirty)
  BY DEF BarKey
<1>2. Key /\ UNCHANGED <<n, cursors, sel, stale>>
  BY DEF BarKey
<1>3. TypeOK /\ Within /\ m \in Modes /\ scroll_dirty \in BOOLEAN /\ sel_dirty \in BOOLEAN
  BY DEF Inv, TypeOK, Modes
<1>4. /\ begun' = TRUE /\ loading' = loading /\ lit' = lit /\ torn' = torn
      /\ torn \/ scroll_dirty \/ sel_dirty \/ stale = {}
  BY <1>2, KeyFinds
<1>5. pending' \in Modes /\ scroll_dirty' \in BOOLEAN /\ sel_dirty' \in BOOLEAN
  BY <1>1, <1>3, Asked
<1>6. TypeOK' /\ Within'
  BY <1>2, <1>3, <1>4, <1>5 DEF TypeOK, Within, cursors
<1>7. StaleOwed' /\ SelectionOwed'
  BY <1>1, <1>2, <1>3, <1>4, Owed
<1> QED
  BY <1>4, <1>6, <1>7 DEF Inv

\* So does another file in the same editor.
LEMMA OpenFileKeeps ==
  ASSUME Inv, OpenFile
  PROVE  Inv'
<1>1. Key /\ n' \in 1 .. MaxRows /\ Reset /\ Asks(FULL, FALSE, FALSE)
  BY DEF OpenFile
<1>2. TypeOK /\ FALSE \in BOOLEAN
  BY DEF Inv
<1>3. /\ crow' = 0 /\ srow' = 0 /\ sel' = FALSE /\ stale' = Lines /\ rrow' = rrow
  BY <1>1 DEF Reset
<1>4. begun' = TRUE /\ loading' = loading /\ lit' = lit /\ torn' = torn
  BY <1>1, KeyFinds
<1>5. pending' = FULL /\ scroll_dirty' \in BOOLEAN /\ sel_dirty' \in BOOLEAN
  BY <1>1, <1>2, <1>3, AskedFull
<1>6. /\ crow' \in 0 .. 2 * MaxRows /\ srow' \in 0 .. 2 * MaxRows /\ crow' <= n' + MaxRows
      /\ n' \in 1 .. MaxRows /\ sel' \in BOOLEAN /\ stale' \subseteq Lines
  <2>1. 0 \in 0 .. 2 * MaxRows /\ \A nn \in 1 .. MaxRows : 0 <= nn + MaxRows
    OBVIOUS
  <2>2. n' \in 1 .. MaxRows /\ crow' = 0 /\ srow' = 0
    BY <1>1, <1>3
  <2> QED
    BY <1>3, <2>1, <2>2, Zenon
<1>7. rrow' = rrow
  BY <1>3
<1>8. TypeOK' /\ Within'
  BY <1>2, <1>4, <1>5, <1>6, <1>7 DEF TypeOK, Within, Modes
<1> QED
  BY <1>4, <1>5, <1>8, FullKeeps

-----------------------------------------------------------------------------
(* Mouse                                                                   *)

\* So does a press or a drag on the scrollbar.
LEMMA ScrollbarKeeps ==
  ASSUME Inv, NEW s \in AllRows, NEW press \in BOOLEAN, Scrollbar(s, press)
  PROVE  Inv'
<1>1. /\ begun' = TRUE /\ UNCHANGED <<loading, rrow, lit, torn>>
      /\ Unselects(press) /\ ScrollTo(s)
      /\ Asks(IF Scrolled THEN FULL ELSE NONE, FALSE, sel_dirty \/ (press /\ sel))
  BY DEF Scrollbar, Event
<1>2. TypeOK /\ Within /\ FALSE \in BOOLEAN /\ (sel_dirty \/ (press /\ sel)) \in BOOLEAN
      /\ (IF Scrolled THEN FULL ELSE NONE) \in Modes
  BY DEF Inv, TypeOK, Modes
<1>3. /\ n' = n /\ crow' = crow /\ srow' = s
      /\ stale' = IF s # srow THEN Lines ELSE stale
  BY <1>1 DEF ScrollTo
<1>4. sel' \in BOOLEAN /\ (sel' # sel => press /\ sel)
  BY <1>1, <1>2 DEF Unselects, TypeOK
<1>5. /\ pending' \in Modes /\ scroll_dirty' \in BOOLEAN /\ sel_dirty' \in BOOLEAN
      /\ pending' = Merged(pending, IF Scrolled THEN FULL ELSE NONE)
  BY <1>1, <1>2, Asked
<1>6. TypeOK' /\ Within'
  BY <1>1, <1>2, <1>3, <1>4, <1>5 DEF TypeOK, Within, AllRows
<1>7. pending \in Modes /\ FULL \in Modes /\ NONE \in Modes
  BY <1>2 DEF TypeOK, Modes
<1>8. CASE Scrolled
  <2>1. pending' = FULL
    BY <1>5, <1>7, <1>8, MergedCovers
  <2> QED
    BY <1>1, <1>6, <2>1, FullKeeps
<1>9. CASE ~Scrolled
  <2>1. srow' = srow /\ ~scroll_dirty /\ Merged(pending, NONE) = pending
    BY <1>7, <1>9, MergedCovers DEF Scrolled
  <2>2. Asks(NONE, FALSE, sel_dirty \/ (press /\ sel))
    BY <1>1, <1>9
  <2>3. pending' = pending
    BY <1>5, <1>9, <2>1
  <2>4. \/ pending' = FULL \/ torn' \/ sel_dirty \/ (press /\ sel)
        \/ stale' \subseteq PaintedBy(Merged(pending, NONE), crow' - srow', rrow' - srow')
    BY <1>1, <1>3, <2>1, <2>3 DEF Inv, StaleOwed
  <2>5. StaleOwed' /\ SelectionOwed'
    BY <1>1, <1>2, <1>4, <1>7, <2>2, <2>4, Owed
  <2> QED
    BY <1>1, <1>6, <2>5 DEF Inv
<1> QED
  BY <1>8, <1>9

\* So does the wheel, with or without a press in the same packet.
LEMMA WheelKeeps ==
  ASSUME Inv, NEW s \in AllRows, NEW press \in BOOLEAN, Wheel(s, press)
  PROVE  Inv'
<1>1. /\ begun' = TRUE /\ UNCHANGED <<loading, rrow, lit, torn>>
      /\ Unselects(press) /\ ScrollTo(s)
      /\ Asks(FULL, Scrolled, sel_dirty \/ (press /\ sel))
  BY DEF Wheel, Event
<1>2. TypeOK /\ Within /\ Scrolled \in BOOLEAN /\ (sel_dirty \/ (press /\ sel)) \in BOOLEAN
  BY DEF Inv, TypeOK, Scrolled
<1>3. /\ n' = n /\ crow' = crow /\ srow' = s
      /\ stale' = IF s # srow THEN Lines ELSE stale
  BY <1>1 DEF ScrollTo
<1>4. sel' \in BOOLEAN
  BY <1>1, <1>2 DEF Unselects, TypeOK
<1>5. pending' = FULL /\ scroll_dirty' \in BOOLEAN /\ sel_dirty' \in BOOLEAN
  BY <1>1, <1>2, <1>4, AskedFull
<1>6. TypeOK' /\ Within'
  BY <1>1, <1>2, <1>3, <1>4, <1>5 DEF TypeOK, Within, AllRows, Modes
<1> QED
  BY <1>1, <1>5, <1>6, FullKeeps

\* Where a press or a drag on row r leaves the cursor.
LEMMA PointerTypes ==
  ASSUME TypeOK, NEW r \in 0 .. n - 1,
         IF rrow = r THEN UNCHANGED <<crow, srow>> ELSE CursorTo(r),
         Rows(n, {})
  PROVE  /\ n' = n /\ stale' \subseteq Lines
         /\ crow' \in 0 .. 2 * MaxRows /\ srow' \in 0 .. 2 * MaxRows
         /\ crow' = crow \/ crow' = r
         /\ Scrolled \in BOOLEAN
<1>1. r \in 0 .. 2 * MaxRows
  BY DEF TypeOK
<1>2. n' = n /\ stale' \subseteq Lines
  BY RowsStale
<1>3. CASE rrow = r
  BY <1>2, <1>3 DEF TypeOK, Scrolled
<1>4. CASE rrow # r
  BY <1>1, <1>2, <1>4, Viewport
<1> QED
  BY <1>3, <1>4

\* So does a click in the text.
LEMMA ClickKeeps ==
  ASSUME Inv, NEW r \in AllRows, Click(r)
  PROVE  Inv'
<1>1. /\ begun' = TRUE /\ UNCHANGED <<loading, rrow, lit, torn>>
      /\ r \in 0 .. n - 1
      /\ IF rrow = r THEN UNCHANGED <<crow, srow>> ELSE CursorTo(r)
      /\ Rows(n, {}) /\ sel' = TRUE /\ pending' = FULL
      /\ scroll_dirty' = FALSE /\ sel_dirty' = TRUE
  BY DEF Click, Event, Inv, TypeOK
<1>2. TypeOK /\ Within
  BY DEF Inv
<1>3. /\ n' = n /\ stale' \subseteq Lines /\ crow' \in 0 .. 2 * MaxRows
      /\ srow' \in 0 .. 2 * MaxRows /\ (crow' = crow \/ crow' = r)
  BY <1>1, <1>2, PointerTypes
<1>4. /\ scroll_dirty' \in BOOLEAN /\ sel_dirty' \in BOOLEAN /\ sel' \in BOOLEAN
      /\ begun' \in BOOLEAN /\ pending' \in Modes
      /\ UNCHANGED <<loading, rrow, lit, torn>> /\ r \in 0 .. n - 1
  BY <1>1 DEF Modes
<1>5. TypeOK' /\ Within'
  BY <1>2, <1>3, <1>4 DEF TypeOK, Within
<1> QED
  BY <1>1, <1>5, FullKeeps

\* So does a drag, which selects.
LEMMA DragKeeps ==
  ASSUME Inv, NEW r \in AllRows, Drag(r)
  PROVE  Inv'
<1>1. /\ begun' = TRUE /\ UNCHANGED <<loading, rrow, lit, torn>>
      /\ r \in 0 .. n - 1
      /\ IF rrow = r THEN UNCHANGED <<crow, srow>> ELSE CursorTo(r)
      /\ Rows(n, {}) /\ sel' = sel
      /\ Asks(FULL, Scrolled, sel_dirty \/ (sel /\ rrow # r))
  BY DEF Drag, Event, Inv, TypeOK
<1>2. TypeOK /\ Within /\ (sel_dirty \/ (sel /\ rrow # r)) \in BOOLEAN /\ sel' \in BOOLEAN
  BY <1>1 DEF Inv, TypeOK
<1>3. /\ n' = n /\ stale' \subseteq Lines /\ crow' \in 0 .. 2 * MaxRows
      /\ srow' \in 0 .. 2 * MaxRows /\ (crow' = crow \/ crow' = r) /\ Scrolled \in BOOLEAN
  BY <1>1, <1>2, PointerTypes
<1>4. pending' = FULL /\ scroll_dirty' \in BOOLEAN /\ sel_dirty' \in BOOLEAN
  BY <1>1, <1>2, <1>3, AskedFull
<1>5. TypeOK' /\ Within'
  BY <1>1, <1>2, <1>3, <1>4 DEF TypeOK, Within, Modes
<1> QED
  BY <1>1, <1>4, <1>5, FullKeeps

\* So does a click on something else.
LEMMA ClickBesideKeeps ==
  ASSUME Inv, ClickBeside
  PROVE  Inv'
<1>1. /\ begun' = TRUE /\ UNCHANGED <<loading, rrow, lit, torn>> /\ sel' = FALSE
      /\ UNCHANGED <<n, crow, srow, stale>>
      /\ Asks(FULL, scroll_dirty, sel_dirty \/ sel)
  BY DEF ClickBeside, Event
<1>2. TypeOK /\ Within /\ scroll_dirty \in BOOLEAN /\ (sel_dirty \/ sel) \in BOOLEAN /\ sel' \in BOOLEAN
  BY <1>1 DEF Inv, TypeOK
<1>3. pending' = FULL /\ scroll_dirty' \in BOOLEAN /\ sel_dirty' \in BOOLEAN
  BY <1>1, <1>2, AskedFull
<1>4. TypeOK' /\ Within'
  BY <1>1, <1>2, <1>3 DEF TypeOK, Within, Modes
<1> QED
  BY <1>1, <1>3, <1>4, FullKeeps

\* What the pointer or the clock asks for never hides a request for a line.
LEMMA AmbientKeeps ==
  ASSUME Inv, Ambient
  PROVE  Inv'
<1>1. PICK m \in {MOUSE, STATUS} : Asks(m, scroll_dirty, sel_dirty)
  BY DEF Ambient
<1>2. /\ begun' = TRUE /\ UNCHANGED <<loading, rrow, lit, torn>>
      /\ UNCHANGED <<n, crow, srow, sel, stale>>
  BY DEF Ambient, Event
<1>3. /\ TypeOK /\ Within /\ m \in Modes /\ pending \in Modes
      /\ scroll_dirty \in BOOLEAN /\ sel_dirty \in BOOLEAN
  BY DEF Inv, TypeOK, Modes
<1>4. pending' \in Modes /\ scroll_dirty' \in BOOLEAN /\ sel_dirty' \in BOOLEAN
      /\ (pending = FULL => pending' = FULL)
  BY <1>1, <1>3, Asked
<1>5. TypeOK' /\ Within'
  BY <1>2, <1>3, <1>4 DEF TypeOK, Within
<1>6. PaintedBy(pending, crow - srow, rrow - srow)
      \subseteq PaintedBy(Merged(pending, m), crow - srow, rrow - srow)
  BY <1>3, MergedCovers
<1>7. \/ pending' = FULL \/ scroll_dirty \/ sel_dirty \/ torn'
      \/ stale' \subseteq PaintedBy(Merged(pending, m), crow' - srow', rrow' - srow')
  BY <1>2, <1>4, <1>6 DEF Inv, StaleOwed
<1>8. StaleOwed' /\ SelectionOwed'
  BY <1>1, <1>2, <1>3, <1>7, Owed
<1> QED
  BY <1>2, <1>5, <1>8 DEF Inv

-----------------------------------------------------------------------------
(* Packets                                                                 *)

\* Where our cursor goes when d rows are added after row r.
LEMMA FollowsTypes ==
  ASSUME TypeOK, Within, NEW r \in -1 .. MaxRows, NEW d \in Int, NEW nn \in 1 .. MaxRows,
         nn >= n + d, crow <= r => crow <= nn + MaxRows, r + d >= -1,
         Follows(r, d)
  PROVE  /\ crow' \in 0 .. 2 * MaxRows /\ crow' <= nn + MaxRows
         /\ srow' \in 0 .. 2 * MaxRows /\ Scrolled \in BOOLEAN
         /\ ~Scrolled => srow' = srow /\ ~scroll_dirty
<1> DEFINE to == IF crow > r THEN crow + d ELSE crow
<1>1. to \in 0 .. 2 * MaxRows /\ to <= nn + MaxRows
  BY DEF TypeOK, Within
<1>2. CursorTo(to)
  BY DEF Follows
<1> HIDE DEF to
<1> QED
  BY <1>1, <1>2, Viewport

\* So does a symbol the peer types or erases.
LEMMA RemoteEditKeeps ==
  ASSUME Inv, RemoteEdit
  PROVE  Inv'
<1>1. /\ begun' = TRUE /\ UNCHANGED <<sel, lit, rrow, loading, torn>>
      /\ rrow \in 0 .. n - 1 /\ CursorTo(crow) /\ Rows(n, {rrow})
      /\ AsksEx(REMOTE_LINE, Scrolled, Touched)
  BY DEF RemoteEdit, Packet
<1>2. /\ TypeOK /\ Within /\ REMOTE_LINE \in Modes /\ pending \in Modes
      /\ crow \in 0 .. 2 * MaxRows /\ Touched \in BOOLEAN /\ sel' \in BOOLEAN
      /\ (sel_dirty => Touched)
  BY <1>1 DEF Inv, TypeOK, Modes, Touched
<1>3. /\ crow' = crow /\ srow' \in 0 .. 2 * MaxRows /\ Scrolled \in BOOLEAN
      /\ ~Scrolled => srow' = srow /\ ~scroll_dirty
  BY <1>1, <1>2, Viewport
<1>4. /\ n' = n /\ stale' \subseteq Lines
      /\ srow' = srow => stale' = stale \cup {y \in Lines : srow + y \in {rrow}}
  BY <1>1, <1>2, RowsStale
<1>5. pending' \in Modes /\ scroll_dirty' \in BOOLEAN /\ sel_dirty' \in BOOLEAN
  BY <1>1, <1>2, <1>3, AskedEx
<1>6. TypeOK' /\ Within'
  BY <1>1, <1>2, <1>3, <1>4, <1>5 DEF TypeOK, Within
<1>7. \/ Scrolled \/ Touched \/ pending' = FULL \/ torn'
      \/ stale' \subseteq PaintedBy(Merged(pending, REMOTE_LINE), crow' - srow', rrow' - srow')
  <2>1. SUFFICES ASSUME ~Scrolled, ~Touched, ~torn, pending' # FULL
                 PROVE  stale' \subseteq PaintedBy(Merged(pending, REMOTE_LINE),
                                                   crow - srow, rrow - srow)
    BY <1>1, <1>3
  <2>2. pending' = Merged(pending, REMOTE_LINE)
    BY <1>1, <1>2, <1>3, <2>1, AskedEx
  <2>3. stale \subseteq PaintedBy(pending, crow - srow, rrow - srow)
    BY <1>2, <1>3, <2>1, <2>2, MergedCovers DEF Inv, StaleOwed
  <2>4. {y \in Lines : srow + y \in {rrow}} \subseteq PaintedBy(REMOTE_LINE, crow - srow, rrow - srow)
    BY <1>2 DEF PaintedBy, Lines, TypeOK
  <2> QED
    BY <1>2, <1>3, <1>4, <2>1, <2>3, <2>4, MergedCovers
<1>8. StaleOwed' /\ SelectionOwed'
  BY <1>1, <1>2, <1>3, <1>7, OwedEx
<1> QED
  BY <1>1, <1>6, <1>8 DEF Inv

\* Rows below the new one are torn, unless everything is repainted.
LEMMA RemoteSplitKeeps ==
  ASSUME Inv, RemoteSplit
  PROVE  Inv'
<1>1. /\ begun' = TRUE /\ UNCHANGED <<sel, lit, loading>>
      /\ rrow \in 0 .. n - 1 /\ n < MaxRows /\ rrow' = rrow + 1
      /\ Follows(rrow, 1) /\ Rows(n + 1, rrow .. MaxRows)
      /\ AsksEx(REMOTE_LINE, Scrolled, Touched) /\ Tears
  BY DEF RemoteSplit, Packet
<1>2. /\ TypeOK /\ Within /\ REMOTE_LINE \in Modes /\ Touched \in BOOLEAN /\ sel' \in BOOLEAN
      /\ (sel_dirty => Touched) /\ n + 1 \in 1 .. MaxRows /\ rrow \in -1 .. MaxRows
  BY <1>1 DEF Inv, TypeOK, Modes, Touched
<1>3. /\ crow' \in 0 .. 2 * MaxRows /\ crow' <= n + 1 + MaxRows
      /\ srow' \in 0 .. 2 * MaxRows /\ Scrolled \in BOOLEAN
      /\ ~Scrolled => ~scroll_dirty
  <2>1. crow <= rrow => crow <= n + 1 + MaxRows
    BY <1>2 DEF Within, TypeOK
  <2>2. n + 1 >= n + 1 /\ rrow + 1 >= -1 /\ 1 \in Int
    BY <1>2
  <2> QED
    BY <1>1, <1>2, <2>1, <2>2, FollowsTypes
<1>4. n' = n + 1 /\ stale' \subseteq Lines
  BY <1>1, <1>2, RowsStale
<1>5. pending' \in Modes /\ scroll_dirty' \in BOOLEAN /\ sel_dirty' \in BOOLEAN
  BY <1>1, <1>2, <1>3, AskedEx
<1>6. torn' \in BOOLEAN /\ (pending' = FULL \/ torn')
  BY <1>1 DEF Tears
<1>7. TypeOK' /\ Within'
  BY <1>1, <1>2, <1>3, <1>4, <1>5, <1>6 DEF TypeOK, Within
<1>8. StaleOwed' /\ SelectionOwed'
  BY <1>1, <1>2, <1>3, <1>6, OwedEx
<1> QED
  BY <1>1, <1>7, <1>8 DEF Inv

\* So does a row the peer joins to the one above.
LEMMA RemoteJoinKeeps ==
  ASSUME Inv, RemoteJoin
  PROVE  Inv'
<1>1. /\ begun' = TRUE /\ UNCHANGED <<sel, lit, loading, torn>>
      /\ rrow \in 1 .. n - 1 /\ rrow' = rrow - 1
      /\ Follows(rrow, -1) /\ Rows(n - 1, rrow - 1 .. MaxRows)
      /\ AsksEx(FULL, Scrolled, Touched)
  BY DEF RemoteJoin, Packet
<1>2. /\ TypeOK /\ Within /\ Touched \in BOOLEAN /\ sel' \in BOOLEAN
      /\ n \in 1 .. MaxRows /\ n - 1 \in 1 .. MaxRows /\ rrow \in -1 .. MaxRows
  BY <1>1 DEF Inv, TypeOK, Touched
<1>3. /\ crow' \in 0 .. 2 * MaxRows /\ crow' <= n - 1 + MaxRows
      /\ srow' \in 0 .. 2 * MaxRows /\ Scrolled \in BOOLEAN
  <2>1. crow <= rrow => crow <= n - 1 + MaxRows
    BY <1>1, <1>2 DEF TypeOK
  <2>2. n - 1 >= n + -1 /\ rrow + -1 >= -1 /\ -1 \in Int
    BY <1>1, <1>2
  <2> QED
    BY <1>1, <1>2, <2>1, <2>2, FollowsTypes
<1>4. n' = n - 1 /\ stale' \subseteq Lines
  BY <1>1, <1>2, RowsStale
<1>5. pending' = FULL /\ scroll_dirty' \in BOOLEAN /\ sel_dirty' \in BOOLEAN
  BY <1>1, <1>2, <1>3, AskedFull
<1>6. TypeOK' /\ Within'
  BY <1>1, <1>2, <1>3, <1>4, <1>5 DEF TypeOK, Within, Modes
<1> QED
  BY <1>1, <1>5, <1>6, FullKeeps

\* A request for the peer's line is only taken over if the line is the same.
LEMMA RemoteMoveKeeps ==
  ASSUME Inv, NEW r \in AllRows, RemoteMove(r)
  PROVE  Inv'
<1>1. /\ begun' = TRUE /\ UNCHANGED <<sel, lit, n, crow, srow, loading, stale, torn>>
      /\ rrow' = IF r = crow THEN rrow ELSE r
      /\ AsksEx(IF r # rrow THEN FULL ELSE REMOTE_LINE, scroll_dirty, sel_dirty)
  BY DEF RemoteMove, Packet
<1>2. /\ TypeOK /\ Within /\ REMOTE_LINE \in Modes /\ pending \in Modes
      /\ scroll_dirty \in BOOLEAN /\ sel_dirty \in BOOLEAN /\ sel' \in BOOLEAN
      /\ rrow' \in -1 .. MaxRows
  BY <1>1 DEF Inv, TypeOK, Modes, AllRows
<1>3. CASE r # rrow
  <2>1. AsksEx(FULL, scroll_dirty, sel_dirty)
    BY <1>1, <1>3
  <2>2. pending' = FULL /\ scroll_dirty' \in BOOLEAN /\ sel_dirty' \in BOOLEAN
    BY <1>2, <2>1, AskedFull
  <2>3. TypeOK' /\ Within'
    BY <1>1, <1>2, <2>2 DEF TypeOK, Within, Modes
  <2> QED
    BY <1>1, <2>2, <2>3, FullKeeps
<1>4. CASE r = rrow
  <2>1. AsksEx(REMOTE_LINE, scroll_dirty, sel_dirty) /\ rrow' = rrow
    BY <1>1, <1>4
  <2>2. /\ pending' \in Modes /\ scroll_dirty' \in BOOLEAN /\ sel_dirty' \in BOOLEAN
        /\ \/ pending' = FULL
           \/ ~scroll_dirty /\ ~sel_dirty /\ pending' = Merged(pending, REMOTE_LINE)
    BY <1>2, <2>1, AskedEx
  <2>3. TypeOK' /\ Within'
    BY <1>1, <1>2, <2>2 DEF TypeOK, Within
  <2>4. \/ scroll_dirty \/ sel_dirty \/ pending' = FULL \/ torn'
        \/ stale' \subseteq PaintedBy(Merged(pending, REMOTE_LINE), crow' - srow', rrow' - srow')
    <3>1. PaintedBy(pending, crow - srow, rrow - srow)
          \subseteq PaintedBy(Merged(pending, REMOTE_LINE), crow - srow, rrow - srow)
      BY <1>2, MergedCovers
    <3>2. pending = FULL => Merged(pending, REMOTE_LINE) = FULL
      BY <1>2, MergedCovers
    <3> QED
      BY <1>1, <2>1, <2>2, <3>1, <3>2 DEF Inv, StaleOwed
  <2>5. StaleOwed' /\ SelectionOwed'
    BY <1>1, <1>2, <2>1, <2>4, OwedEx
  <2> QED
    BY <1>1, <2>3, <2>5 DEF Inv
<1> QED
  BY <1>3, <1>4

\* So do rows the peer replaces by a block.
LEMMA ReplaceBlockKeeps ==
  ASSUME Inv, NEW start \in AllRows, NEW deleted \in 1 .. MaxRows, NEW inserted \in 1 .. MaxRows,
         ReplaceBlock(start, deleted, inserted)
  PROVE  Inv'
<1> DEFINE r == start + deleted - 1
           d == inserted - deleted
           nn == n - deleted + inserted
<1>1. /\ begun' = TRUE /\ UNCHANGED <<sel, lit, rrow, loading>>
      /\ deleted \in 1 .. n - start /\ nn <= MaxRows
      /\ Follows(r, d) /\ Rows(nn, start .. MaxRows)
      /\ Asks(NONE, Scrolled, Touched) /\ Tears
  BY DEF ReplaceBlock, Packet
<1>2. /\ TypeOK /\ Within /\ Touched \in BOOLEAN /\ sel' \in BOOLEAN /\ NONE \in Modes
      /\ (sel_dirty => Touched) /\ n \in 1 .. MaxRows /\ crow \in 0 .. 2 * MaxRows
  BY <1>1 DEF Inv, TypeOK, Touched, Modes
<1>3. /\ r \in -1 .. MaxRows /\ r < n /\ d \in Int /\ nn \in 1 .. MaxRows
      /\ nn >= n + d /\ r + d >= -1
  BY <1>1, <1>2 DEF AllRows
<1>4. crow <= r => crow <= nn + MaxRows
  BY <1>2, <1>3
<1> HIDE DEF r, d, nn
<1>5. /\ crow' \in 0 .. 2 * MaxRows /\ crow' <= nn + MaxRows
      /\ srow' \in 0 .. 2 * MaxRows /\ Scrolled \in BOOLEAN
  BY <1>1, <1>2, <1>3, <1>4, FollowsTypes
<1>6. n' = nn /\ stale' \subseteq Lines
  BY <1>1, <1>2, RowsStale
<1>7. pending' \in Modes /\ scroll_dirty' \in BOOLEAN /\ sel_dirty' \in BOOLEAN
  BY <1>1, <1>2, <1>5, Asked
<1>8. torn' \in BOOLEAN /\ (pending' = FULL \/ torn')
  BY <1>1 DEF Tears
<1>9. TypeOK' /\ Within'
  BY <1>1, <1>2, <1>3, <1>5, <1>6, <1>7, <1>8 DEF TypeOK, Within
<1>10. StaleOwed' /\ SelectionOwed'
  BY <1>1, <1>2, <1>5, <1>8, Owed
<1> QED
  BY <1>1, <1>9, <1>10 DEF Inv

\* So does the text of a row the peer sends.
LEMMA UpdateLineKeeps ==
  ASSUME Inv, NEW r \in AllRows, UpdateLine(r)
  PROVE  Inv'
<1>1. /\ begun' = TRUE /\ UNCHANGED <<sel, lit, rrow, loading, torn>>
      /\ IF r < n THEN CursorTo(crow) /\ Rows(n, {r}) /\ AsksEx(FULL, Scrolled, Touched)
         ELSE AsksEx(FULL, scroll_dirty, sel_dirty) /\ UNCHANGED <<n, crow, srow, stale>>
  BY DEF UpdateLine, Packet
<1>2. /\ TypeOK /\ Within /\ Touched \in BOOLEAN /\ sel' \in BOOLEAN /\ crow \in 0 .. 2 * MaxRows
      /\ scroll_dirty \in BOOLEAN /\ sel_dirty \in BOOLEAN
  BY <1>1 DEF Inv, TypeOK, Touched
<1>3. CASE r < n
  <2>1. CursorTo(crow) /\ Rows(n, {r}) /\ AsksEx(FULL, Scrolled, Touched)
    BY <1>1, <1>3
  <2>2. crow' = crow /\ srow' \in 0 .. 2 * MaxRows /\ Scrolled \in BOOLEAN
    BY <1>2, <2>1, Viewport
  <2>3. n' = n /\ stale' \subseteq Lines
    BY <1>2, <2>1, RowsStale
  <2>4. pending' = FULL /\ scroll_dirty' \in BOOLEAN /\ sel_dirty' \in BOOLEAN
    BY <1>2, <2>1, <2>2, AskedFull
  <2>5. TypeOK' /\ Within'
    BY <1>1, <1>2, <2>2, <2>3, <2>4 DEF TypeOK, Within, Modes
  <2> QED
    BY <1>1, <2>4, <2>5, FullKeeps
<1>4. CASE ~(r < n)
  <2>1. AsksEx(FULL, scroll_dirty, sel_dirty) /\ UNCHANGED <<n, crow, srow, stale>>
    BY <1>1, <1>4
  <2>2. pending' = FULL /\ scroll_dirty' \in BOOLEAN /\ sel_dirty' \in BOOLEAN
    BY <1>2, <2>1, AskedFull
  <2>3. TypeOK' /\ Within'
    BY <1>1, <1>2, <2>1, <2>2 DEF TypeOK, Within, Modes
  <2> QED
    BY <1>1, <2>2, <2>3, FullKeeps
<1> QED
  BY <1>3, <1>4

\* So does the beginning of a transfer.
LEMMA FileStartKeeps ==
  ASSUME Inv, FileStart
  PROVE  Inv'
<1>1. /\ begun' = TRUE /\ UNCHANGED <<lit, torn>> /\ n' = 1 /\ Reset /\ loading' = TRUE
      /\ AsksEx(FULL, FALSE, FALSE)
  BY DEF FileStart
<1>2. TypeOK /\ FALSE \in BOOLEAN
  BY DEF Inv
<1>3. crow' = 0 /\ srow' = 0 /\ sel' = FALSE /\ stale' = Lines /\ rrow' = rrow
  BY <1>1 DEF Reset
<1>4. pending' = FULL /\ scroll_dirty' \in BOOLEAN /\ sel_dirty' \in BOOLEAN
  BY <1>1, <1>2, <1>3, AskedFull
<1>5. /\ crow' \in 0 .. 2 * MaxRows /\ srow' \in 0 .. 2 * MaxRows /\ crow' <= n' + MaxRows
      /\ n' \in 1 .. MaxRows /\ sel' \in BOOLEAN /\ stale' \subseteq Lines
      /\ loading' \in BOOLEAN /\ begun' \in BOOLEAN /\ UNCHANGED <<lit, torn, rrow>>
  <2>1. 0 \in 0 .. 2 * MaxRows /\ 0 <= 1 + MaxRows /\ 1 \in 1 .. MaxRows
    OBVIOUS
  <2>2. n' = 1 /\ crow' = 0 /\ srow' = 0
    BY <1>1, <1>3
  <2> QED
    BY <1>1, <1>3, <2>1, <2>2, Zenon
<1>6. TypeOK' /\ Within'
  BY <1>2, <1>4, <1>5 DEF TypeOK, Within, Modes
<1> QED
  BY <1>1, <1>4, <1>6, FullKeeps

\* So does each of its rows.
LEMMA FileLineKeeps ==
  ASSUME Inv, FileLine
  PROVE  Inv'
<1>1. /\ begun' = TRUE /\ UNCHANGED <<sel, lit>> /\ UNCHANGED cursors
      /\ stale' = stale \cup {y \in Lines : srow + y \in {n - 1, n}}
      /\ \/ /\ n < MaxRows /\ n' = n + 1
            /\ Asks(NONE, scroll_dirty, sel_dirty) /\ Tears /\ UNCHANGED loading
         \/ /\ n' = n /\ loading' = FALSE
            /\ AsksEx(FULL, scroll_dirty, sel_dirty) /\ UNCHANGED torn
  BY DEF FileLine, Packet
<1>2. /\ TypeOK /\ Within /\ NONE \in Modes /\ sel' \in BOOLEAN
      /\ scroll_dirty \in BOOLEAN /\ sel_dirty \in BOOLEAN
  BY <1>1 DEF Inv, TypeOK, Modes
<1>3. UNCHANGED <<crow, srow, rrow, sel, lit>> /\ stale' \subseteq Lines
  BY <1>1, <1>2 DEF cursors, TypeOK
<1>4. CASE /\ n < MaxRows /\ n' = n + 1
           /\ Asks(NONE, scroll_dirty, sel_dirty) /\ Tears /\ UNCHANGED loading
  <2>1. pending' \in Modes /\ scroll_dirty' \in BOOLEAN /\ sel_dirty' \in BOOLEAN
    BY <1>2, <1>4, Asked
  <2>2. torn' \in BOOLEAN /\ (pending' = FULL \/ torn')
    BY <1>4 DEF Tears
  <2>3. n' = n + 1 /\ n < MaxRows /\ loading' = loading
    BY <1>4
  <2>4. TypeOK' /\ Within'
    BY <1>1, <1>2, <1>3, <2>1, <2>2, <2>3 DEF TypeOK, Within
  <2>5. StaleOwed' /\ SelectionOwed'
    BY <1>2, <1>3, <1>4, <2>2, Owed
  <2> QED
    BY <1>1, <2>4, <2>5 DEF Inv
<1>5. CASE /\ n' = n /\ loading' = FALSE
           /\ AsksEx(FULL, scroll_dirty, sel_dirty) /\ UNCHANGED torn
  <2>1. pending' = FULL /\ scroll_dirty' \in BOOLEAN /\ sel_dirty' \in BOOLEAN
    BY <1>2, <1>5, AskedFull
  <2>2. n' = n /\ loading' \in BOOLEAN /\ torn' = torn
    BY <1>5
  <2>3. TypeOK' /\ Within'
    BY <1>1, <1>2, <1>3, <2>1, <2>2 DEF TypeOK, Within, Modes
  <2> QED
    BY <1>1, <2>1, <2>3, FullKeeps
<1> QED
  BY <1>1, <1>4, <1>5

-----------------------------------------------------------------------------
(* The frame, and the theorem                                              *)

\* A frame paints what was asked for and leaves nothing pending.
LEMMA FrameKeeps ==
  ASSUME Inv, Frame
  PROVE  Inv'
<1>1. /\ begun' = FALSE /\ pending' = NONE
      /\ UNCHANGED <<n, cursors, loading, sel, flags>>
      /\ stale' = stale \ PaintedBy(pending, crow - srow, rrow - srow)
      /\ lit' = IF pending = FULL THEN sel ELSE lit
      /\ torn' = (torn /\ pending # FULL)
  BY DEF Frame
<1>2. TypeOK /\ Within /\ NONE \in Modes
  BY DEF Inv, Modes
<1>3. UNCHANGED <<n, crow, srow, rrow, loading, sel, scroll_dirty, sel_dirty>>
  BY <1>1 DEF cursors, flags
<1>4. lit' \in BOOLEAN /\ torn' \in BOOLEAN /\ stale' \subseteq Lines
  BY <1>1, <1>2 DEF TypeOK
<1>5. TypeOK' /\ Within'
  BY <1>1, <1>2, <1>3, <1>4 DEF TypeOK, Within
<1>6. CASE pending = FULL
  <2>1. stale' = {} /\ lit' = sel'
    BY <1>1, <1>2, <1>3, <1>6, FullPaints DEF TypeOK
  <2> QED
    BY <1>1, <1>5, <2>1 DEF Inv, StaleOwed, SelectionOwed
<1>7. CASE pending # FULL
  <2>1. torn' = torn /\ lit' = lit
    BY <1>1, <1>2, <1>7 DEF TypeOK
  <2>2. \/ torn' \/ scroll_dirty' \/ sel_dirty' \/ stale' = {}
    BY <1>1, <1>3, <1>7, <2>1 DEF Inv, StaleOwed
  <2>3. lit' # sel' => sel_dirty'
    BY <1>3, <1>7, <2>1 DEF Inv, SelectionOwed
  <2> QED
    BY <1>1, <1>5, <2>2, <2>3 DEF Inv, StaleOwed, SelectionOwed
<1> QED
  BY <1>6, <1>7

\* Every step keeps the invariant: one case per action.
LEMMA NextKeeps ==
  ASSUME Inv, [Next]_vars
  PROVE  Inv'
<1>1. CASE Keys
  <2>1. \A wide \in BOOLEAN : EditRow(wide) => Inv'
    BY EditRowKeeps
  <2>2. \A sr, gone \in AllRows : PasteNothing(sr, gone) => Inv'
    BY PasteNothingKeeps
  <2>3. \A sr, gone, added \in AllRows : ReplaceSelection(sr, gone, added) => Inv'
    BY ReplaceSelectionKeeps
  <2>4. \A to \in 0 .. n - 1, shift, wide \in BOOLEAN : Arrow(to, shift, wide) => Inv'
    BY ArrowKeeps
  <2> QED
    BY <1>1, <2>1, <2>2, <2>3, <2>4, EnterKeeps, JoinUpKeeps, BarKeyKeeps, OpenFileKeeps
       DEF Keys
<1>2. CASE Pointer
  BY <1>2, ScrollbarKeeps, WheelKeeps, ClickKeeps, DragKeeps, ClickBesideKeeps,
     AmbientKeeps DEF Pointer
<1>3. CASE Peer
  BY <1>3, RemoteEditKeeps, RemoteSplitKeeps, RemoteJoinKeeps, RemoteMoveKeeps,
     UpdateLineKeeps, ReplaceBlockKeeps, FileStartKeeps, FileLineKeeps DEF Peer
<1>4. CASE Frame
  BY <1>4, FrameKeeps
<1>5. CASE UNCHANGED vars
  BY <1>5 DEF vars, cursors, flags, screen, Inv, TypeOK, Within, StaleOwed, SelectionOwed
<1> QED
  BY <1>1, <1>2, <1>3, <1>4, <1>5 DEF Next

\* It holds when nothing has been typed.
LEMMA InitSound == Init => Inv
<1> SUFFICES ASSUME Init PROVE Inv
  OBVIOUS
<1>1. /\ 1 \in 1 .. MaxRows /\ 0 \in 0 .. 2 * MaxRows /\ -1 \in -1 .. MaxRows
      /\ 0 <= 1 + MaxRows /\ FULL \in Modes
  BY DEF Modes
<1>2. /\ n = 1 /\ crow = 0 /\ srow = 0 /\ rrow = -1 /\ pending = FULL /\ begun = TRUE
      /\ loading \in BOOLEAN /\ sel = FALSE /\ scroll_dirty \in BOOLEAN /\ sel_dirty \in BOOLEAN
      /\ stale = Lines /\ lit = FALSE /\ torn \in BOOLEAN
  BY DEF Init
<1>3. TypeOK /\ Within
  BY <1>1, <1>2, Zenon DEF TypeOK, Within
<1> QED
  BY <1>2, <1>3 DEF Inv, StaleOwed, SelectionOwed

\* However the handlers choose between a repaint of one line, of a character
\* and of everything (commands.c), however the requests of a turn are merged
\* (render_state.c:5-11) and whichever of the two flags set_render_ex consumes
\* (commands.c:20-23), what a frame leaves wrong on the screen is marked.
THEOREM NothingForgotten == Spec => [](TypeOK /\ StaleIsOwed /\ SelectionIsOwed)
<1>1. Spec => []Inv
  BY InitSound, NextKeeps, PTL DEF Spec
<1>2. Inv => TypeOK /\ StaleIsOwed /\ SelectionIsOwed
  <2>1. ASSUME Inv, ~begun, stale # {}
        PROVE  torn \/ scroll_dirty \/ sel_dirty
    <3>1. pending = NONE
      BY <2>1 DEF Inv
    <3>2. PaintedBy(NONE, crow - srow, rrow - srow) = {}
      BY DEF PaintedBy
    <3> QED
      BY <2>1, <3>1, <3>2 DEF Inv, StaleOwed
  <2>2. ASSUME Inv, ~begun, lit # sel
        PROVE  sel_dirty
    BY <2>2 DEF Inv, SelectionOwed
  <2> QED
    BY <2>1, <2>2 DEF Inv, StaleIsOwed, SelectionIsOwed
<1> QED
  BY <1>1, <1>2, PTL
=============================================================================
