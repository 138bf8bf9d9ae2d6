--------------------------------- MODULE Panels ---------------------------------
(***************************************************************************)
(* Who takes a key or a click: the file tree (filetree.c, with the         *)
(* handlers of filetree_commands.c), the command bar (command_bar.c, with  *)
(* dispatch_command_mode) or the text.  Of the text only the loading of a  *)
(* file and the quit flag are kept here; what the keys do to it is         *)
(* Editor's.                                                               *)
(*                                                                         *)
(* A path is known by its depth, an entry of a directory by its kind, and  *)
(* the text in the command bar by its length.  The disk is free to change  *)
(* and to fail between two readings of a directory.                        *)
(***************************************************************************)
EXTENDS Integers, Sequences

CONSTANTS Listings,    \* what a directory may be found to hold, sorted
          VisRows,     \* scene_get_vis_rows()
          PathMax,     \* CWD_MAX: the depth below which nothing is entered
          BufSize,     \* CMD_BUF_SIZE
          Prefill,     \* length of "save " or "open "
          Ticks        \* TIMER_HZ: how long a message stays

Kinds == {"up", "dir", "file"}

ASSUME SizeAssumption ==
  /\ {VisRows, BufSize, Ticks} \subseteq Nat \ {0}
  /\ PathMax \in Nat /\ Prefill \in 0 .. BufSize - 1

\* A failing readdir ends a listing early, with nothing in it at worst.
ASSUME ListingsAssumption == Listings \subseteq Seq(Kinds)

VARIABLES cwd, entries, cursor, scroll,  \* of the file tree
          error,                         \* error_msg is not empty
          visible, focused,
          mode, input_len,               \* of the command bar
          status_ticks,                  \* how long its message stays
          untitled,                      \* the file has no name
          quit                           \* quit_flag

tree  == <<cwd, entries, cursor, scroll, error>>
panel == <<visible, focused>>
bar   == <<mode, input_len>>
vars  == <<tree, panel, bar, status_ticks, untitled, quit>>

Count == Len(entries)

-----------------------------------------------------------------------------
(* The file tree                                                           *)

\* filetree_refresh with the cursor on its first row: opendir fails or not.
Refresh ==
  /\ cursor' = 0
  /\ \/ entries' \in Listings /\ error' = FALSE
     \/ entries' = << >> /\ error' = TRUE

\* Fault: the window stays where it was in the other directory.
FaultyEnterDir(depth) == cwd' = depth /\ scroll' = scroll /\ Refresh

\* What is on the disk is left to Refresh, the depth to the callers.
EnterDir(depth) == cwd' = depth /\ scroll' = 0 /\ Refresh

\* The directory stays, with the window moved to row.
StaysAt(row) == scroll' = row /\ UNCHANGED <<cwd, entries, cursor, error>>

filetree_go_parent(row) == IF cwd = 0 THEN StaysAt(row) ELSE EnterDir(cwd - 1)

\* Fault: a cursor below the window is moved along.
FaultyMoveUp ==
  LET at == IF cursor > 0 THEN cursor - 1 ELSE cursor
  IN  cursor' = at /\ scroll' = IF at < scroll THEN at ELSE scroll

filetree_move_up ==
  LET drifted == IF cursor > scroll + VisRows THEN scroll + VisRows ELSE cursor
      at      == IF drifted > 0 THEN drifted - 1 ELSE drifted
  IN  cursor' = at /\ scroll' = IF at < scroll THEN at ELSE scroll

filetree_move_down ==
  LET drifted == IF cursor < scroll THEN scroll - 1 ELSE cursor
      at      == IF drifted < Count - 1 THEN drifted + 1 ELSE drifted
  IN  /\ cursor' = at
      /\ scroll' = IF at >= scroll + VisRows THEN at - VisRows + 1 ELSE scroll

\* The window once row at has been made visible.
ScrollTo(at) == IF at < scroll THEN at
                ELSE IF at >= scroll + VisRows THEN at - VisRows + 1
                ELSE scroll

\* Its callers pass the index of an entry.
filetree_set_cursor(idx) == cursor' = idx /\ scroll' = ScrollTo(idx)

\* Fault: the offset is not kept from going below zero.
FaultyScrollBy(delta) ==
  LET max_scroll == IF Count > VisRows THEN Count - VisRows ELSE 0
  IN  scroll' = IF scroll + delta > max_scroll THEN max_scroll ELSE scroll + delta

filetree_scroll_by(delta) ==
  LET max_scroll == IF Count > VisRows THEN Count - VisRows ELSE 0
      to         == IF scroll + delta < 0 THEN 0 ELSE scroll + delta
  IN  scroll' = IF to > max_scroll THEN max_scroll ELSE to

-----------------------------------------------------------------------------
(* The command bar                                                         *)

command_bar_start(len) == mode' = "COMMAND" /\ input_len' = len

command_bar_set_status == status_ticks' = Ticks

\* show_filetree_error, if there was a failure to show.
Reports(failed) ==
  IF failed THEN command_bar_set_status ELSE UNCHANGED status_ticks

-----------------------------------------------------------------------------
(* Keys: filetree_commands_try, dispatch_command_mode, commands_dispatch.  *)

Init ==
  /\ cwd \in 0 .. PathMax /\ scroll = 0
  /\ \/ entries \in Listings /\ error = FALSE
     \/ entries = << >> /\ error = TRUE
  /\ cursor = 0
  /\ visible = TRUE /\ focused = FALSE
  /\ mode = "EDITOR" /\ input_len = 0 /\ status_ticks = 0
  /\ untitled \in BOOLEAN /\ quit = FALSE

Running == quit = FALSE

\* Fault: the focus stays.
FaultyToggle == visible' = ~visible /\ UNCHANGED focused

\* Ctrl+B, in every mode.
Toggle == visible' = ~visible /\ focused' = ~visible

ToggleTree ==
  /\ Running /\ Toggle
  /\ UNCHANGED <<tree, bar, status_ticks, untitled, quit>>

InTree == Running /\ focused /\ UNCHANGED <<visible, bar, quit>>

TreeEscape ==
  /\ InTree
  /\ focused' = FALSE
  /\ UNCHANGED <<tree, status_ticks, untitled>>

TreeUpDown ==
  /\ InTree
  /\ filetree_move_up \/ filetree_move_down
  /\ UNCHANGED <<cwd, entries, error, focused, status_ticks, untitled>>

\* Backspace or the left arrow.
TreeParent ==
  /\ InTree
  /\ filetree_go_parent(scroll)
  /\ Reports(cwd > 0 /\ error')
  /\ UNCHANGED <<focused, untitled>>

\* open_filetree_file, after a click has moved the window to row.  A file that
\* cannot be opened keeps the text, and gives up the focus all the same.
Opens(row) ==
  LET kind == entries[cursor + 1] IN
  \/ /\ entries = << >>                     \* the error is shown again
     /\ Reports(error)
     /\ UNCHANGED <<tree, untitled, focused>>
  \/ /\ entries # << >> /\ kind = "file"
     /\ StaysAt(row)
     /\ untitled' \in {untitled, FALSE}
     /\ focused' = FALSE
     /\ UNCHANGED status_ticks
  \/ /\ entries # << >> /\ kind # "file"
     /\ \/ kind = "up" /\ filetree_go_parent(row) /\ Reports(cwd > 0 /\ error')
        \/ kind = "dir" /\ cwd < PathMax /\ EnterDir(cwd + 1) /\ Reports(error')
        \/ /\ kind = "dir" /\ cwd = PathMax     \* "Path too long"
           /\ scroll' = row /\ error' = TRUE /\ Reports(TRUE)
           /\ UNCHANGED <<cwd, entries, cursor>>
     /\ focused' = TRUE
     /\ UNCHANGED untitled

TreeEnter == InTree /\ Opens(scroll)

InBar == Running /\ ~focused /\ mode = "COMMAND" /\ UNCHANGED <<tree, panel>>

BarEscape ==
  /\ InBar
  /\ mode' = "EDITOR"
  /\ UNCHANGED <<input_len, status_ticks, untitled, quit>>

\* A character, whatever the state of Ctrl, or Backspace.
BarInput ==
  /\ InBar
  /\ \/ input_len < BufSize - 1 /\ input_len' = input_len + 1
     \/ input_len > 0 /\ input_len' = input_len - 1
  /\ UNCHANGED <<mode, status_ticks, untitled, quit>>

\* :save and :open name the file if they succeed, :q quits, :sync says so.
BarEnter ==
  /\ InBar
  /\ mode' = "EDITOR"
  /\ \/ untitled' \in {untitled, FALSE} /\ UNCHANGED <<status_ticks, quit>>
     \/ quit' = TRUE /\ UNCHANGED <<status_ticks, untitled>>
     \/ command_bar_set_status /\ UNCHANGED <<untitled, quit>>
  /\ UNCHANGED input_len

InText == Running /\ ~focused /\ mode = "EDITOR" /\ UNCHANGED <<tree, panel>>

TextQuit ==
  /\ InText
  /\ quit' = TRUE
  /\ UNCHANGED <<bar, status_ticks, untitled>>

\* Ctrl+S without a name, Ctrl+O, and the colon.
TextToBar ==
  /\ InText
  /\ command_bar_start(Prefill) \/ command_bar_start(0)
  /\ UNCHANGED <<status_ticks, untitled, quit>>

\* Nothing to paste.
TextMessage ==
  /\ InText
  /\ command_bar_set_status
  /\ UNCHANGED <<bar, untitled, quit>>

-----------------------------------------------------------------------------
(* Mouse and timer                                                         *)

\* The tree has rows down to the end of the screen, two of them under the status
\* bar; the row y pressed may be below the last entry.
OnTree == Running /\ visible /\ UNCHANGED <<visible, bar, quit>>

TreeWheel(delta) ==
  /\ OnTree
  /\ filetree_scroll_by(delta)
  /\ focused' = TRUE
  /\ UNCHANGED <<cwd, entries, cursor, error, status_ticks, untitled>>

TreePressBelow ==
  /\ OnTree
  /\ focused' = TRUE
  /\ UNCHANGED <<tree, status_ticks, untitled>>

TreePress(y) ==
  LET idx == scroll + y
  IN  /\ OnTree /\ idx < Count
      /\ IF idx = cursor
         THEN Opens(ScrollTo(idx))
         ELSE /\ filetree_set_cursor(idx)
              /\ focused' = TRUE
              /\ UNCHANGED <<cwd, entries, error, status_ticks, untitled>>

\* A press, drag or wheel step beside the tree and the scroll bar.
PressBeside ==
  /\ Running
  /\ focused' = FALSE
  /\ UNCHANGED <<tree, visible, bar, status_ticks, untitled, quit>>

Tick ==
  /\ Running /\ status_ticks > 0
  /\ status_ticks' = status_ticks - 1
  /\ UNCHANGED <<tree, panel, bar, untitled, quit>>

Next ==
  \/ ToggleTree
  \/ TreeEscape \/ TreeUpDown \/ TreeParent \/ TreeEnter
  \/ BarEscape \/ BarInput \/ BarEnter
  \/ TextQuit \/ TextToBar \/ TextMessage
  \/ \E delta \in {-1, 1} : TreeWheel(delta)
  \/ TreePressBelow \/ PressBeside \/ Tick
  \/ \E y \in 0 .. VisRows + 1 : TreePress(y)

Spec == Init /\ [][Next]_vars

-----------------------------------------------------------------------------
(* Properties                                                              *)

TypeOK ==
  /\ cwd \in 0 .. PathMax /\ entries \in Seq(Kinds)
  /\ cursor \in Nat /\ scroll \in Nat
  /\ error \in BOOLEAN /\ visible \in BOOLEAN /\ focused \in BOOLEAN
  /\ mode \in {"EDITOR", "COMMAND"} /\ input_len \in 0 .. BufSize - 1
  /\ status_ticks \in 0 .. Ticks
  /\ untitled \in BOOLEAN /\ quit \in BOOLEAN

\* entries[cursor] is an entry of the directory that is shown, whatever was
\* entered, scrolled, clicked or failed before, and the window shows one entry at
\* least: filetree_enter_selected and filetree_get_selected_path take it as is.
CursorInList == IF entries = << >> THEN cursor = 0 /\ scroll = 0
                ELSE cursor < Count /\ scroll < Count

\* No key goes to a panel that is not on the screen (filetree_commands_try).
FocusedIsVisible == focused => visible

\* The arrows bring the highlighted entry back into the window, from wherever the
\* wheel has left it (filetree_move_up, filetree_move_down).
ArrowShowsCursor ==
  [][ TreeUpDown => cursor' >= scroll' /\ cursor' < scroll' + VisRows ]_vars
=============================================================================
