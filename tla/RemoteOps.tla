------------------------------ MODULE RemoteOps ------------------------------
(***************************************************************************)
(* What a packet of the peer does to the text model: the last section of   *)
(* src/proj/code/model/editor/editor.c, in the style of EditorOps.  A row  *)
(* whose buffer is still NULL is an empty row here: that tells nothing     *)
(* apart until a user edits such a row.                                    *)
(***************************************************************************)
EXTENDS EditorOps

\* The peer's cursor is not shown, nor remembered, on the row of our own.
editor_set_remote_cursor(e, row, col) ==
  IF row = e.crow THEN e ELSE [e EXCEPT !.rrow = row, !.rcol = col]

\* Fault: the row next to the changed one does not count as below it.
FaultyShifted(crow, r, n) == IF crow > r + 1 THEN crow + n ELSE crow

\* The cursor row when n rows are added (n > 0) or removed (n < 0) after row r.
Shifted(crow, r, n) == IF crow > r THEN crow + n ELSE crow

editor_remote_insert_char(e, c) ==
  IF c = Newline
  THEN clamp_scroll(
         [e EXCEPT !.lines = Splice(@, e.rrow, e.rcol, << << >>, << >> >>),
                   !.rrow = @ + 1, !.rcol = 0, !.crow = Shifted(@, e.rrow, 1)])
  ELSE clamp_scroll(
         [e EXCEPT !.lines = Splice(@, e.rrow, e.rcol, << <<c>> >>),
                   !.rcol = @ + 1])

\* At (0, 0), and before any position was received, there is nothing to delete.
editor_remote_delete_char(e) ==
  IF e.rcol > 0
  THEN clamp_scroll(
         [e EXCEPT !.lines = DeleteRange(@, e.rrow, e.rcol - 1, e.rrow, e.rcol),
                   !.rcol = @ - 1])
  ELSE IF e.rrow > 0
  THEN LET prev_len == RowLen(e, e.rrow - 1)
       IN  clamp_scroll(
             [e EXCEPT !.lines = DeleteRange(@, e.rrow - 1, prev_len, e.rrow, 0),
                       !.rrow = @ - 1, !.rcol = prev_len,
                       !.crow = Shifted(@, e.rrow, -1)])
  ELSE clamp_scroll(e)

\* Rows start .. start + deleted - 1 make room for empty ones, which the
\* CMD_UPDATE_LINE packets that follow will fill.
editor_remote_replace_block(e, start, deleted, inserted) ==
  IF start > RowCount(e) THEN e
  ELSE LET actual == Min({deleted, RowCount(e) - start})
       IN  clamp_scroll(
             [e EXCEPT
                !.lines = SubSeq(@, 1, start) \o [i \in 1 .. inserted |-> << >>]
                            \o SubSeq(@, start + actual + 1, Len(@)),
                !.crow = Shifted(@, start + actual - 1, inserted - actual)])

editor_remote_update_line(e, row, text) ==
  IF row >= RowCount(e) THEN e
  ELSE clamp_scroll([e EXCEPT !.lines[row + 1] = text])
=============================================================================
