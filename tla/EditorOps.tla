------------------------------ MODULE EditorOps ------------------------------
(***************************************************************************)
(* The text model of LCode (src/proj/code/model/editor/editor.c) as        *)
(* operators.  The file-scope statics of editor.c are the fields of one    *)
(* record e, so that a module may hold one editor or one per peer:         *)
(*                                                                         *)
(*   lines          the rows of text; the C index r is lines[r+1] here     *)
(*   crow, ccol     cursor_row, cursor_col                                 *)
(*   srow, scol     scroll_row, scroll_col                                 *)
(*   vrows, vcols   visible_rows, visible_cols                             *)
(*   sel, arow,     sel_active and the anchor, <<0, 0>> while inactive     *)
(*   acol             (the C code never reads it then)                     *)
(*   rrow, rcol     remote_cursor_row, remote_cursor_col                   *)
(*   clip           the clipboard string cut at each '\n'; NoClip is NULL  *)
(*                                                                         *)
(* An operator named like a C function maps the state before the call to   *)
(* the state after it.  Allocation succeeds, the buffers' capacities and   *)
(* the two dirty flags (they only choose how much to redraw) are left out. *)
(***************************************************************************)
EXTENDS Integers, Sequences, FiniteSetsExt

CONSTANTS Char,      \* the characters a row may hold
          Space,     \* the one that separates words
          Newline    \* '\n', which no row holds

ASSUME CharAssumption == Space \in Char /\ Newline \notin Char

Row    == Seq(Char)
NoClip == << >>

RowCount(e)  == Len(e.lines)
RowLen(e, r) == Len(e.lines[r + 1])

-----------------------------------------------------------------------------
(* Text: every edit of editor.c is one of these two transformations.       *)

\* The rows after inserting the rows segs at column c of row r: the first
\* continues the head of row r, the last is continued by its tail.
Splice(lines, r, c, segs) ==
  LET old  == lines[r + 1]
      n    == Len(segs)
      head == SubSeq(old, 1, c)
      tail == SubSeq(old, c + 1, Len(old))
      seg(k) == (IF k = 1 THEN head ELSE << >>) \o segs[k]
                  \o (IF k = n THEN tail ELSE << >>)
  IN  [i \in 1 .. Len(lines) + n - 1 |->
         IF i <= r THEN lines[i]
         ELSE IF i <= r + n THEN seg(i - r)
         ELSE lines[i - n + 1]]

\* The rows after removing the text from (sr, sc) up to (er, ec): what is left
\* of row er is appended to what is left of row sr.
DeleteRange(lines, sr, sc, er, ec) ==
  LET merged == SubSeq(lines[sr + 1], 1, sc)
                  \o SubSeq(lines[er + 1], ec + 1, Len(lines[er + 1]))
  IN  [i \in 1 .. Len(lines) - (er - sr) |->
         IF i <= sr THEN lines[i]
         ELSE IF i = sr + 1 THEN merged
         ELSE lines[i + (er - sr)]]

\* The text from (sr, sc) up to (er, ec), one row per line.
Slice(lines, sr, sc, er, ec) ==
  [i \in 1 .. er - sr + 1 |->
     LET row == lines[sr + i]
     IN  SubSeq(row, IF i = 1 THEN sc + 1 ELSE 1,
                     IF i = er - sr + 1 THEN ec ELSE Len(row))]

\* Where the two backward loops of a word motion stop: over the spaces, then
\* over the word before them.
WordStart(row, col) ==
  LET end == Max({0} \cup {i \in 1 .. col : row[i] # Space})
  IN  Max({0} \cup {i \in 1 .. end : row[i] = Space})

\* Where the two forward loops stop: over the word, then over the spaces.
WordEnd(row, col) ==
  LET len == Len(row)
      gap == Min({len} \cup {i \in col .. len - 1 : row[i + 1] = Space})
  IN  Min({len} \cup {i \in gap .. len - 1 : row[i + 1] # Space})

-----------------------------------------------------------------------------
(* Cursor and viewport.                                                    *)

\* Fault: the first position past the window counts as inside it.
FaultyClampAxis(pos, offset, size) ==
  IF pos < offset THEN pos
  ELSE IF pos > offset + size THEN pos - size + 1
  ELSE offset

\* The scroll offset that brings pos into a window of the given size.
ClampAxis(pos, offset, size) ==
  IF pos < offset THEN pos
  ELSE IF pos >= offset + size THEN pos - size + 1
  ELSE offset

clamp_scroll(e) ==
  [e EXCEPT !.srow = ClampAxis(e.crow, @, e.vrows),
            !.scol = ClampAxis(e.ccol, @, e.vcols)]

\* The cursor assigned, then clamp_scroll: how nearly every function ends.
CursorTo(e, r, c) == clamp_scroll([e EXCEPT !.crow = r, !.ccol = c])

\* x brought into lo .. hi.
Clamp(x, lo, hi) == IF x < lo THEN lo ELSE IF x > hi THEN hi ELSE x

editor_set_viewport(e, rows, cols) == [e EXCEPT !.vrows = rows, !.vcols = cols]

\* Fault: the end of the file does not bound the scroll offset.
FaultyScrollBy(e, drow) ==
  [e EXCEPT !.srow = IF @ + drow < 0 THEN 0 ELSE @ + drow]

editor_scroll_by(e, drow) ==
  LET new == IF e.srow + drow < 0 THEN 0 ELSE e.srow + drow
  IN  [e EXCEPT !.srow = IF new > RowCount(e) - 1 THEN RowCount(e) - 1 ELSE new]

editor_set_cursor(e, row, col) ==
  IF e.rrow = row THEN e                      \* the peer is on that row
  ELSE LET r == Clamp(row, 0, RowCount(e) - 1)
       IN  CursorTo(e, r, Clamp(col, 0, RowLen(e, r)))

editor_move_left(e) ==
  IF e.ccol > 0 THEN CursorTo(e, e.crow, e.ccol - 1)
  ELSE IF e.crow > 0 THEN CursorTo(e, e.crow - 1, RowLen(e, e.crow - 1))
  ELSE clamp_scroll(e)

editor_move_right(e) ==
  IF e.ccol < RowLen(e, e.crow) THEN CursorTo(e, e.crow, e.ccol + 1)
  ELSE IF e.crow < RowCount(e) - 1 THEN CursorTo(e, e.crow + 1, 0)
  ELSE clamp_scroll(e)

\* Fault: the column is kept on a shorter row.
FaultyToRow(e, r) == CursorTo(e, r, e.ccol)

\* Row r with the column cut to its length.
ToRow(e, r) ==
  CursorTo(e, r, IF e.ccol > RowLen(e, r) THEN RowLen(e, r) ELSE e.ccol)

editor_move_up(e) ==
  IF e.crow = 0 THEN clamp_scroll(e)
  ELSE IF e.crow - 1 = e.rrow THEN e
  ELSE ToRow(e, e.crow - 1)

editor_move_down(e) ==
  IF e.crow = RowCount(e) - 1 THEN clamp_scroll(e)
  ELSE IF e.crow + 1 = e.rrow THEN e
  ELSE ToRow(e, e.crow + 1)

editor_move_word_left(e) ==
  CursorTo(e, e.crow, WordStart(e.lines[e.crow + 1], e.ccol))

editor_move_word_right(e) ==
  CursorTo(e, e.crow, WordEnd(e.lines[e.crow + 1], e.ccol))

editor_move_home(e) == CursorTo(e, e.crow, 0)
editor_move_end(e)  == CursorTo(e, e.crow, RowLen(e, e.crow))

-----------------------------------------------------------------------------
(* Edits at the cursor.                                                    *)

editor_insert_char(e, c) ==
  IF c = Newline
  THEN CursorTo([e EXCEPT !.lines = Splice(@, e.crow, e.ccol, << << >>, << >> >>)],
                e.crow + 1, 0)
  ELSE CursorTo([e EXCEPT !.lines = Splice(@, e.crow, e.ccol, << <<c>> >>)],
                e.crow, e.ccol + 1)

editor_delete_char(e) ==
  IF e.ccol > 0
  THEN CursorTo([e EXCEPT !.lines = DeleteRange(@, e.crow, e.ccol - 1, e.crow, e.ccol)],
                e.crow, e.ccol - 1)
  ELSE IF e.crow > 0
  THEN LET prev_len == RowLen(e, e.crow - 1)
       IN  CursorTo([e EXCEPT !.lines = DeleteRange(@, e.crow - 1, prev_len, e.crow, 0)],
                    e.crow - 1, prev_len)
  ELSE clamp_scroll(e)

editor_delete_word(e) ==
  IF e.ccol = 0 THEN e
  ELSE LET start == WordStart(e.lines[e.crow + 1], e.ccol)
       IN  CursorTo([e EXCEPT !.lines = DeleteRange(@, e.crow, start, e.crow, e.ccol)],
                    e.crow, start)

-----------------------------------------------------------------------------
(* Selection and clipboard.                                                *)

\* The anchor and the cursor in text order.
editor_sel_get_range(e) ==
  IF e.crow > e.arow \/ (e.crow = e.arow /\ e.ccol >= e.acol)
  THEN [sr |-> e.arow, sc |-> e.acol, er |-> e.crow, ec |-> e.ccol]
  ELSE [sr |-> e.crow, sc |-> e.ccol, er |-> e.arow, ec |-> e.acol]

editor_sel_set_anchor(e) ==
  [e EXCEPT !.sel = TRUE, !.arow = e.crow, !.acol = e.ccol]

editor_sel_clear(e) == [e EXCEPT !.sel = FALSE, !.arow = 0, !.acol = 0]

\* Fault: the selection outlives the text it selected.
FaultyDeleteSelection(e) ==
  IF ~e.sel THEN e
  ELSE LET g == editor_sel_get_range(e)
       IN  CursorTo([e EXCEPT !.lines = DeleteRange(@, g.sr, g.sc, g.er, g.ec)],
                    g.sr, g.sc)

editor_delete_selection(e) ==
  IF ~e.sel THEN e
  ELSE LET g == editor_sel_get_range(e)
       IN  CursorTo([editor_sel_clear(e) EXCEPT
                       !.lines = DeleteRange(@, g.sr, g.sc, g.er, g.ec)],
                    g.sr, g.sc)

editor_copy_selection(e) ==
  IF ~e.sel THEN e
  ELSE LET g == editor_sel_get_range(e)
       IN  [e EXCEPT !.clip = Slice(e.lines, g.sr, g.sc, g.er, g.ec)]

\* Fault: the cursor column after a paste of one row forgets where it started.
FaultyPaste(e) ==
  IF e.clip = NoClip THEN e
  ELSE LET n == Len(e.clip)
       IN  CursorTo([e EXCEPT !.lines = Splice(@, e.crow, e.ccol, e.clip)],
                    e.crow + n - 1, Len(e.clip[n]))

\* With no clipboard the caller only reports EDITOR_ERR_NO_CLIPBOARD.
editor_paste(e) ==
  IF e.clip = NoClip THEN e
  ELSE LET n == Len(e.clip)
       IN  CursorTo([e EXCEPT !.lines = Splice(@, e.crow, e.ccol, e.clip)],
                    e.crow + n - 1,
                    Len(e.clip[n]) + (IF n = 1 THEN e.ccol ELSE 0))

-----------------------------------------------------------------------------
(* Starting and loading.                                                   *)

\* editor_init frees the clipboard and leaves the viewport and the remote
\* cursor alone.
editor_init(e) ==
  [editor_sel_clear(e) EXCEPT
     !.lines = << << >> >>, !.crow = 0, !.ccol = 0, !.srow = 0, !.scol = 0,
     !.clip = NoClip]

\* Text is written into the last row and an empty row is added after it.
editor_load_line(e, row) ==
  [e EXCEPT !.lines = Append([@ EXCEPT ![Len(@)] = row], << >>)]

\* Fault: the last row is dropped even when it is the only one.
FaultyLoadFinalize(e) ==
  IF RowLen(e, RowCount(e) - 1) = 0
  THEN [e EXCEPT !.lines = SubSeq(@, 1, Len(@) - 1)]
  ELSE e

editor_load_finalize(e) ==
  IF RowCount(e) > 1 /\ RowLen(e, RowCount(e) - 1) = 0
  THEN [e EXCEPT !.lines = SubSeq(@, 1, Len(@) - 1)]
  ELSE e

\* The state execute_open leaves behind: init, one editor_load_line for each
\* row of the file, finalize.
Loaded(e, file) ==
  editor_load_finalize(
    [editor_init(e) EXCEPT !.lines = file \o << << >> >>])
=============================================================================
