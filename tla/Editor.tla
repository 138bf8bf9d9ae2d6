-------------------------------- MODULE Editor --------------------------------
(***************************************************************************)
(* One user editing: the commands of commands.c that reach the text model, *)
(* while no peer is connected (`remote' is false) and the editor, not the  *)
(* command bar or the file tree, has the keyboard.  One action is one call *)
(* of commands_dispatch or commands_dispatch_mouse, run to completion by   *)
(* the event loop, or one change of layout between two of them.            *)
(***************************************************************************)
EXTENDS EditorOps

CONSTANTS Files,      \* the files that can be opened, as sequences of rows
          Viewports,  \* the <<rows, cols>> the layout can give the text area
          WheelSteps, \* values of a wheel packet
          MaxText,    \* bound: the symbols of the text, line breaks included
          MaxClip     \* bound: those of the clipboard

ASSUME FilesAssumption    == Files \subseteq Seq(Row)
ASSUME ViewportAssumption == /\ Viewports # {}
                             /\ Viewports \subseteq (Nat \ {0}) \X (Nat \ {0})
ASSUME WheelAssumption    == WheelSteps \subseteq Int
ASSUME BoundAssumption    == MaxText \in Nat /\ MaxClip \in Nat

VARIABLE ed

vars == ed

\* How many symbols the rows hold, counting the breaks between them.
Size(rows) == Len(rows) - 1 + MapThenSumSet(LAMBDA i : Len(rows[i]), DOMAIN rows)

\* The bounds of the model, not of the code: a command that would leave more
\* is not taken.
Fits(e) == Size(e.lines) <= MaxText /\ Size(e.clip) <= MaxClip

\* The handler ran and left the editor in state e.
Becomes(e) == Fits(e) /\ ed' = e

-----------------------------------------------------------------------------
\* editor_init then scene_init's editor_set_viewport.
Init ==
  \E v \in Viewports :
    ed = [lines |-> << << >> >>, crow |-> 0, ccol |-> 0, srow |-> 0, scol |-> 0,
          vrows |-> v[1], vcols |-> v[2], sel |-> FALSE, arow |-> 0, acol |-> 0,
          rrow |-> -1, rcol |-> -1, clip |-> NoClip]

-----------------------------------------------------------------------------
(* commands_dispatch                                                       *)

\* A printable character; with a selection, it replaces it.
TypeChar(c) == Becomes(editor_insert_char(editor_delete_selection(ed), c))

Enter == Becomes(editor_insert_char(editor_delete_selection(ed), Newline))

Backspace ==
  Becomes(IF ed.sel THEN editor_delete_selection(ed) ELSE editor_delete_char(ed))

\* Over a selection as Backspace; at column 0 it joins two rows, elsewhere it
\* removes a word.
CtrlBackspace ==
  Becomes(IF ed.sel THEN editor_delete_selection(ed)
          ELSE IF ed.ccol = 0 THEN editor_delete_char(ed)
          ELSE editor_delete_word(ed))

\* Shift starts or keeps a selection, no shift drops it.
Anchored(shift) ==
  IF ~shift THEN editor_sel_clear(ed)
  ELSE IF ed.sel THEN ed ELSE editor_sel_set_anchor(ed)

ArrowLeft(shift)  == Becomes(editor_move_left(Anchored(shift)))
ArrowRight(shift) == Becomes(editor_move_right(Anchored(shift)))
ArrowUp(shift)    == Becomes(editor_move_up(Anchored(shift)))
ArrowDown(shift)  == Becomes(editor_move_down(Anchored(shift)))
Home(shift)       == Becomes(editor_move_home(Anchored(shift)))
End(shift)        == Becomes(editor_move_end(Anchored(shift)))

\* Ctrl+left and Ctrl+right; with the other four Ctrl makes no difference.
WordLeft(shift)   == Becomes(editor_move_word_left(Anchored(shift)))
WordRight(shift)  == Becomes(editor_move_word_right(Anchored(shift)))

Arrows(shift) ==
  \/ ArrowLeft(shift) \/ ArrowRight(shift) \/ ArrowUp(shift) \/ ArrowDown(shift)
  \/ Home(shift) \/ End(shift) \/ WordLeft(shift) \/ WordRight(shift)

\* Fault: the paste forgets the selection.
FaultyPasteCommand == Becomes(editor_paste(ed))

Copy  == Becomes(editor_copy_selection(ed))
Cut   == Becomes(editor_delete_selection(editor_copy_selection(ed)))
Paste == Becomes(editor_paste(editor_delete_selection(ed)))

\* execute_open, from the command bar, Ctrl+O or the file tree.
Open(file) == Becomes(Loaded(ed, file))

-----------------------------------------------------------------------------
(* commands_dispatch_mouse                                                 *)

\* The text position under the cell dy rows and dx columns into the text area.
scene_px_to_text(dy, dx) ==
  LET row == Clamp(ed.srow + dy, 0, RowCount(ed) - 1)
  IN  [row |-> row, col |-> Clamp(ed.scol + dx, 0, RowLen(ed, row))]

\* A partial row may show below the last full one, hence the closed intervals.
Cells == (0 .. ed.vrows) \X (0 .. ed.vcols)

\* The press of the button in the text area: cursor, then a fresh anchor.
Click(dy, dx) ==
  LET p == scene_px_to_text(dy, dx)
  IN  Becomes(editor_sel_set_anchor(
                editor_set_cursor(editor_sel_clear(ed), p.row, p.col)))

\* A packet while the button stays down extends whatever selection there is.
Drag(dy, dx) ==
  LET p == scene_px_to_text(dy, dx)
  IN  Becomes(editor_set_cursor(ed, p.row, p.col))

\* Every event that is not a hold first drops the selection.
Released(holding) == IF holding THEN ed ELSE editor_sel_clear(ed)

SCROLL_SPEED_MULTIPLIER == 3

\* The wheel is handled before the button: a press that comes with a wheel
\* movement scrolls and does not click.
Wheel(z, holding) ==
  Becomes(editor_scroll_by(Released(holding), z * SCROLL_SPEED_MULTIPLIER))

\* The largest first row scene_click_scrollbar asks for.
MaxScroll == IF RowCount(ed) > ed.vrows THEN RowCount(ed) - ed.vrows ELSE 0

ScrollbarClick(target, holding) ==
  Becomes(editor_scroll_by(Released(holding), target - ed.srow))

\* A press on the file tree or the status bar.
ClickElsewhere == Becomes(editor_sel_clear(ed))

-----------------------------------------------------------------------------
\* A RENDER_FULL after the file tree was shown or hidden, or after the gutter
\* grew, gives the text area another width.  The scroll offset stays.
Relayout(v) == Becomes(editor_set_viewport(ed, v[1], v[2]))

Next ==
  \/ \E c \in Char : TypeChar(c)
  \/ Enter
  \/ Backspace
  \/ CtrlBackspace
  \/ \E shift \in BOOLEAN : Arrows(shift)
  \/ Copy
  \/ Cut
  \/ Paste
  \/ \E file \in Files : Open(file)
  \/ \E cell \in Cells : Click(cell[1], cell[2])
  \/ \E cell \in Cells : Drag(cell[1], cell[2])
  \/ \E z \in WheelSteps, holding \in BOOLEAN : Wheel(z, holding)
  \/ \E target \in 0 .. MaxScroll, holding \in BOOLEAN : ScrollbarClick(target, holding)
  \/ ClickElsewhere
  \/ \E v \in Viewports : Relayout(v)

Spec == Init /\ [][Next]_vars

-----------------------------------------------------------------------------
(* Properties                                                              *)

Position(e, r, c) == r \in 0 .. RowCount(e) - 1 /\ c \in 0 .. RowLen(e, r)

EditorState ==
  [lines : Seq(Row) \ {<< >>}, crow : Int, ccol : Int, srow : Int, scol : Int,
   vrows : Nat \ {0}, vcols : Nat \ {0}, sel : BOOLEAN, arow : Int, acol : Int,
   rrow : Int, rcol : Int, clip : Seq(Row)]

\* The fields of the editor have their types; the text never runs out of rows.
TypeOK == ed \in EditorState

\* The cursor denotes a position of the text: editor_insert_char and its
\* siblings index lines[cursor_row].buf[cursor_col] without a check.
CursorInText == Position(ed, ed.crow, ed.ccol)

\* An active selection's anchor denotes a position of the text, whatever was
\* deleted since it was set: editor_sel_get_range hands it to loops over lines.
AnchorInText == ed.sel => Position(ed, ed.arow, ed.acol)

\* The first row drawn is a row of the text and the first column is not
\* negative, after any mix of scrolling, shrinking the text and relayouts.
ScrollInText == ed.srow \in 0 .. RowCount(ed) - 1 /\ ed.scol >= 0

\* The cursor lies in the window.
CursorVisible(e) == /\ e.crow \in e.srow .. e.srow + e.vrows - 1
                    /\ e.ccol \in e.scol .. e.scol + e.vcols - 1

\* A command that moves the cursor or changes the text brings the cursor back
\* into the window, however far the view had been scrolled away.
EditShowsCursor ==
  [][ed'.lines # ed.lines \/ ed'.crow # ed.crow \/ ed'.ccol # ed.ccol
       => CursorVisible(ed')]_vars

\* No command changes the text and leaves a selection active: the anchor it
\* would keep was taken in the old text.
TextChangeEndsSelection == [][ed'.lines # ed.lines => ~ed'.sel]_vars

\* "true if a selection anchor has been set and the selection is non-empty"
\* (editor.h:167), which editor_sel_is_active does not look at.
ActiveSelectionNonEmpty == ed.sel => <<ed.arow, ed.acol>> # <<ed.crow, ed.ccol>>
=============================================================================
