-------------------------------- MODULE Repaint --------------------------------
(***************************************************************************)
(* What is painted again and when: the handlers of commands.c with the     *)
(* dirty flags of editor.c, the pending request of render_state.c and the  *)
(* frame of scene.c.  The screen is known by what is wrong on it: the      *)
(* lines of the window that do not show their row of the text, and         *)
(* whether a selection is painted.                                         *)
(*                                                                         *)
(* A turn of the main loop dispatches at most one key, which comes first,  *)
(* then packets and the mouse, and ends with a frame.  Columns are left    *)
(* out but for an edit or a motion that scrolls them ("wide").             *)
(***************************************************************************)
EXTENDS RenderState

CONSTANTS MaxRows,     \* bound on the rows of the text
          VisRows      \* the lines of the window

ASSUME SizeAssumption == MaxRows \in Nat \ {0} /\ VisRows \in Nat \ {0}

VARIABLES n,           \* row_count
          crow, srow,  \* cursor_row, scroll_row
          rrow,        \* remote_cursor_row
          loading,     \* file_num_lines > 0
          sel,         \* sel_active
          scroll_dirty, sel_dirty,
          pending,     \* render_mode
          begun,       \* this turn dispatched something already
          stale,       \* the lines that do not show their row
          lit,         \* a selection is painted
          torn         \* the peer moved rows and asked for no full repaint

cursors == <<crow, srow, rrow>>
flags   == <<scroll_dirty, sel_dirty>>
screen  == <<stale, lit, torn>>
vars    == <<n, cursors, loading, sel, flags, pending, begun, screen>>

Lines == 0 .. VisRows - 1

Init ==
  /\ n = 1 /\ crow = 0 /\ srow = 0 /\ rrow = -1
  /\ loading = FALSE /\ sel = FALSE
  /\ scroll_dirty = FALSE /\ sel_dirty = FALSE
  /\ pending = FULL /\ begun = TRUE     \* scene_init asks for the first frame
  /\ stale = Lines /\ lit = FALSE /\ torn = FALSE

-----------------------------------------------------------------------------
(* What a handler does to text and viewport, and what it asks for.         *)

\* There are nn rows, of which those in changed are new; the lines follow.
Rows(nn, changed) ==
  /\ n' = nn
  /\ stale' = IF srow' # srow THEN Lines
              ELSE stale \cup {y \in Lines : srow + y \in changed}

\* Fault: the window ends one line above its last.
FaultyClampAxis(pos, offset) ==
  IF pos < offset THEN pos - 1
  ELSE IF pos >= offset + VisRows THEN pos - VisRows
  ELSE offset

ClampAxis(pos, offset) ==
  IF pos < offset THEN pos
  ELSE IF pos >= offset + VisRows THEN pos - VisRows + 1
  ELSE offset

\* The cursor goes to row r and the viewport follows: clamp_scroll.
CursorTo(r) == crow' = r /\ srow' = ClampAxis(r, srow)

\* scroll_dirty after clamp_scroll.
Scrolled == scroll_dirty \/ srow' # srow

\* set_render, with the flags as the handler leaves them.
Asks(mode, scrolled, selDirty) ==
  /\ pending' = Merged(pending, mode)
  /\ scroll_dirty' = scrolled /\ sel_dirty' = selDirty

\* Fault: both flags are consumed and only the first is looked at.
FaultyAsksEx(mode, scrolled, selDirty) ==
  /\ pending' = Merged(pending, IF scrolled \/ sel' THEN FULL ELSE mode)
  /\ scroll_dirty' = FALSE /\ sel_dirty' = FALSE

\* set_render_ex: || leaves the second flag alone when the first is set.
AsksEx(mode, scrolled, selDirty) ==
  /\ pending' = Merged(pending, IF scrolled \/ selDirty \/ sel' THEN FULL ELSE mode)
  /\ scroll_dirty' = FALSE
  /\ sel_dirty' = (selDirty /\ scrolled)

-----------------------------------------------------------------------------
(* Keys.                                                                   *)

Key == ~begun /\ begun' = TRUE /\ UNCHANGED <<loading, lit, torn>>

\* A packet may have left the cursor outside the text; no key edits it then.
Edit == Key /\ crow < n /\ UNCHANGED rrow

\* A character typed, or a character or a word erased within the row.
EditRow(wide) ==
  /\ Edit /\ ~sel
  /\ CursorTo(crow) /\ n' = n
  /\ stale' = IF srow' # srow \/ wide THEN Lines ELSE stale \cup ({crow - srow} \cap Lines)
  /\ UNCHANGED sel
  /\ AsksEx(LINE, Scrolled \/ wide, sel_dirty)

Enter ==
  /\ Edit /\ ~sel /\ n < MaxRows
  /\ CursorTo(crow + 1) /\ Rows(n + 1, crow .. MaxRows)
  /\ UNCHANGED sel
  /\ Asks(FULL, Scrolled, sel_dirty)

\* Backspace at the start of a row; nothing to join to at the first.
JoinUp ==
  /\ Edit /\ ~sel
  /\ IF crow = 0 THEN CursorTo(0) /\ Rows(n, {})
     ELSE CursorTo(crow - 1) /\ Rows(n - 1, crow - 1 .. MaxRows)
  /\ UNCHANGED sel
  /\ AsksEx(FULL, Scrolled, sel_dirty)

\* The selection, which spans up to `gone` more rows, is deleted and `added`
\* rows are inserted.
Deletes(sr, gone, added) ==
  /\ sr + gone < n /\ crow \in {sr, sr + gone}
  /\ n - gone + added <= MaxRows
  /\ CursorTo(sr + added) /\ Rows(n - gone + added, sr .. MaxRows)
  /\ sel' = FALSE

\* Backspace, cut and paste end in set_render_ex, typing over in set_render.
\* Paste needs no selection.
ReplaceSelection(sr, gone, added) ==
  /\ Edit
  /\ sel \/ gone = 0
  /\ Deletes(sr, gone, added)
  /\ \/ AsksEx(FULL, Scrolled, sel \/ sel_dirty)
     \/ sel /\ added <= 1 /\ Asks(FULL, Scrolled, TRUE)

\* Without a clipboard the selection is deleted and only the status is shown.
PasteNothing(sr, gone) ==
  /\ Edit /\ sel
  /\ Deletes(sr, gone, 0)
  /\ Asks(STATUS, Scrolled, TRUE)

\* With shift the selection is kept or begun, without it is dropped.
Arrow(to, shift, wide) ==
  /\ Edit
  /\ CursorTo(to) /\ n' = n
  /\ stale' = IF srow' # srow \/ wide THEN Lines ELSE stale
  /\ sel' = shift
  /\ AsksEx(CHAR, Scrolled \/ wide, sel_dirty \/ shift \/ sel)

\* The command bar and the file tree; saving.
BarKey ==
  /\ Key
  /\ \E m \in {STATUS, FULL} : Asks(m, scroll_dirty, sel_dirty)
  /\ UNCHANGED <<n, cursors, sel, stale>>

\* editor_init clears both flags.
Reset == /\ crow' = 0 /\ srow' = 0 /\ sel' = FALSE /\ stale' = Lines
         /\ UNCHANGED rrow

OpenFile ==
  /\ Key
  /\ n' \in 1 .. MaxRows
  /\ Reset
  /\ Asks(FULL, FALSE, FALSE)

-----------------------------------------------------------------------------
(* Mouse: commands_dispatch_mouse.                                         *)

Event == begun' = TRUE /\ UNCHANGED <<loading, rrow, lit, torn>>

\* A press clears the selection, holding the button does not.
Unselects(press) ==
  IF press THEN sel' = FALSE ELSE UNCHANGED sel

ScrollTo(s) ==
  /\ srow' = s
  /\ stale' = IF s # srow THEN Lines ELSE stale
  /\ UNCHANGED <<n, crow>>

\* On the scrollbar a repaint is asked for only if the text scrolled.
Scrollbar(s, press) ==
  /\ Event
  /\ s <= n - VisRows \/ s = 0
  /\ Unselects(press)
  /\ ScrollTo(s)
  /\ Asks(IF Scrolled THEN FULL ELSE NONE, FALSE, sel_dirty \/ (press /\ sel))

Wheel(s, press) ==
  /\ Event
  /\ s \in 0 .. n - 1
  /\ Unselects(press)
  /\ ScrollTo(s)
  /\ Asks(FULL, Scrolled, sel_dirty \/ (press /\ sel))

\* filetree_commands_mouse asks for a full repaint before the click moves the
\* cursor, which the peer's row refuses, and before it drops an anchor.
Click(r) ==
  /\ Event
  /\ r \in srow .. n - 1 /\ r < srow + VisRows
  /\ IF rrow = r THEN UNCHANGED <<crow, srow>> ELSE CursorTo(r)
  /\ Rows(n, {})
  /\ sel' = TRUE
  /\ pending' = FULL
  /\ scroll_dirty' = FALSE /\ sel_dirty' = TRUE

Drag(r) ==
  /\ Event
  /\ r \in srow .. n - 1 /\ r < srow + VisRows
  /\ IF rrow = r THEN UNCHANGED <<crow, srow>> ELSE CursorTo(r)
  /\ Rows(n, {})
  /\ UNCHANGED sel
  /\ Asks(FULL, Scrolled, sel_dirty \/ (sel /\ rrow # r))

\* A press beside the text.
ClickBeside ==
  /\ Event
  /\ sel' = FALSE
  /\ Asks(FULL, scroll_dirty, sel_dirty \/ sel)
  /\ UNCHANGED <<n, crow, srow, stale>>

\* The pointer moves or the clock ticks.
Ambient ==
  /\ Event
  /\ \E m \in {MOUSE, STATUS} : Asks(m, scroll_dirty, sel_dirty)
  /\ UNCHANGED <<n, crow, srow, sel, stale>>

-----------------------------------------------------------------------------
(* Packets: commands_dispatch_serial.  An edit at a remote cursor outside  *)
(* the text is left out.                                                   *)

Packet == begun' = TRUE /\ UNCHANGED <<sel, lit>>

\* Rows moved, and less than a full repaint was asked for.
Tears == torn' = (torn \/ pending' # FULL)

\* The cursor stays on its line when d rows are added after row r.
Follows(r, d) == CursorTo(IF crow > r THEN crow + d ELSE crow)

\* sel_dirty after clamp_scroll.
Touched == sel_dirty \/ sel

RemoteEdit ==
  /\ Packet /\ rrow \in 0 .. n - 1
  /\ CursorTo(crow) /\ Rows(n, {rrow})
  /\ AsksEx(REMOTE_LINE, Scrolled, Touched)
  /\ UNCHANGED <<rrow, loading, torn>>

RemoteSplit ==
  /\ Packet /\ rrow \in 0 .. n - 1 /\ n < MaxRows
  /\ rrow' = rrow + 1
  /\ Follows(rrow, 1) /\ Rows(n + 1, rrow .. MaxRows)
  /\ AsksEx(REMOTE_LINE, Scrolled, Touched)
  /\ Tears
  /\ UNCHANGED loading

RemoteJoin ==
  /\ Packet /\ rrow \in 1 .. n - 1
  /\ rrow' = rrow - 1
  /\ Follows(rrow, -1) /\ Rows(n - 1, rrow - 1 .. MaxRows)
  /\ AsksEx(FULL, Scrolled, Touched)
  /\ UNCHANGED <<loading, torn>>

\* On the cursor's row the remote cursor stays where it was.
RemoteMove(r) ==
  /\ Packet
  /\ rrow' = IF r = crow THEN rrow ELSE r
  /\ AsksEx(IF r # rrow THEN FULL ELSE REMOTE_LINE, scroll_dirty, sel_dirty)
  /\ UNCHANGED <<n, crow, srow, loading, stale, torn>>

\* Asks for nothing: "new lines will arrive later".
ReplaceBlock(start, deleted, inserted) ==
  /\ Packet
  /\ deleted \in 1 .. n - start /\ n - deleted + inserted <= MaxRows
  /\ Follows(start + deleted - 1, inserted - deleted)
  /\ Rows(n - deleted + inserted, start .. MaxRows)
  /\ Asks(NONE, Scrolled, Touched)
  /\ Tears
  /\ UNCHANGED <<rrow, loading>>

UpdateLine(r) ==
  /\ Packet
  /\ IF r < n THEN CursorTo(crow) /\ Rows(n, {r}) /\ AsksEx(FULL, Scrolled, Touched)
     ELSE AsksEx(FULL, scroll_dirty, sel_dirty) /\ UNCHANGED <<n, crow, srow, stale>>
  /\ UNCHANGED <<rrow, loading, torn>>

FileStart ==
  /\ begun' = TRUE /\ UNCHANGED <<lit, torn>>
  /\ n' = 1 /\ Reset
  /\ loading' = TRUE
  /\ AsksEx(FULL, FALSE, FALSE)

\* Only the last line of a transfer asks for a repaint.
FileLine ==
  /\ Packet /\ loading
  /\ \/ /\ n < MaxRows
        /\ n' = n + 1
        /\ Asks(NONE, scroll_dirty, sel_dirty)
        /\ Tears
        /\ UNCHANGED loading
     \/ /\ n' = n
        /\ loading' = FALSE
        /\ AsksEx(FULL, scroll_dirty, sel_dirty)
        /\ UNCHANGED torn
  /\ stale' = stale \cup {y \in Lines : srow + y \in {n - 1, n}}
  /\ UNCHANGED cursors

-----------------------------------------------------------------------------
(* view_render.                                                            *)

\* Fault: the row above the cursor's is painted.
FaultyPaintedBy(mode, own, theirs) ==
  {y \in Lines : \/ mode = FULL
                 \/ mode = LINE /\ y = own - 1
                 \/ mode = REMOTE_LINE /\ y = theirs}

\* The lines of the window that a frame paints, with our cursor on line own and
\* the peer's on line theirs; a character or the status bar repairs no line.
PaintedBy(mode, own, theirs) ==
  {y \in Lines : \/ mode = FULL
                 \/ mode = LINE /\ y = own
                 \/ mode = REMOTE_LINE /\ y = theirs}

Frame ==
  /\ begun /\ begun' = FALSE
  /\ stale' = stale \ PaintedBy(pending, crow - srow, rrow - srow)
  /\ lit' = IF pending = FULL THEN sel ELSE lit
  /\ torn' = (torn /\ pending # FULL)
  /\ pending' = NONE
  /\ UNCHANGED <<n, cursors, loading, sel, flags>>

AllRows == 0 .. MaxRows - 1

Keys ==
  \/ \E wide \in BOOLEAN : EditRow(wide)
  \/ Enter \/ JoinUp \/ BarKey \/ OpenFile
  \/ \E sr, gone \in AllRows : PasteNothing(sr, gone)
  \/ \E sr, gone, added \in AllRows : ReplaceSelection(sr, gone, added)
  \/ \E to \in {crow - 1, crow, crow + 1} \cap (0 .. n - 1), shift, wide \in BOOLEAN :
       Arrow(to, shift, wide)

Pointer ==
  \/ \E s \in AllRows, press \in BOOLEAN : Scrollbar(s, press) \/ Wheel(s, press)
  \/ \E r \in AllRows : Click(r) \/ Drag(r)
  \/ ClickBeside \/ Ambient

Peer ==
  \/ RemoteEdit \/ RemoteSplit \/ RemoteJoin \/ FileStart \/ FileLine
  \/ \E r \in AllRows : RemoteMove(r) \/ UpdateLine(r)
  \/ \E start \in AllRows, deleted, inserted \in 1 .. MaxRows :
       ReplaceBlock(start, deleted, inserted)

Next == Keys \/ Pointer \/ Peer \/ Frame

Spec == Init /\ [][Next]_vars

-----------------------------------------------------------------------------
(* Properties                                                              *)

TypeOK ==
  /\ n \in 1 .. MaxRows /\ crow \in 0 .. 2 * MaxRows /\ srow \in 0 .. 2 * MaxRows
  /\ rrow \in -1 .. MaxRows
  /\ loading \in BOOLEAN /\ sel \in BOOLEAN
  /\ scroll_dirty \in BOOLEAN /\ sel_dirty \in BOOLEAN
  /\ pending \in Modes /\ begun \in BOOLEAN
  /\ stale \subseteq Lines /\ lit \in BOOLEAN /\ torn \in BOOLEAN

\* Between two turns a line of the window that does not show its row is one the
\* peer tore, or a flag is still set that makes the next repaint a full one:
\* whatever partial repaints the handlers chose, however the requests of a turn
\* were merged and whichever flags they consumed.
StaleIsOwed == ~begun /\ stale # {} => torn \/ scroll_dirty \/ sel_dirty

\* So is a painted selection that is gone, or one that is not painted yet.
SelectionIsOwed == ~begun /\ lit # sel => sel_dirty
=============================================================================
