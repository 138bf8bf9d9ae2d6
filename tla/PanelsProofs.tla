------------------------------ MODULE PanelsProofs ------------------------------
(***************************************************************************)
(* The highlighted entry stays in the list, the focus on a panel that is   *)
(* shown, and the arrows bring the entry back into the window, for every   *)
(* disk, window and path length.  The types and the two invariants are     *)
(* inductive together: an arrow's step relies on the offset being that of  *)
(* an entry.                                                               *)
(***************************************************************************)
EXTENDS Panels, TLAPS

Inv == TypeOK /\ CursorInList /\ FocusedIsVisible

\* What the tree's operations keep of it.
TreeOK == /\ cwd \in 0 .. PathMax /\ entries \in Seq(Kinds)
          /\ cursor \in Nat /\ scroll \in Nat /\ error \in BOOLEAN
          /\ CursorInList

-----------------------------------------------------------------------------
(* The tree                                                                *)

\* A directory that is entered is shown from its first entry.
LEMMA EnterKeeps ==
  ASSUME NEW depth \in 0 .. PathMax, EnterDir(depth)
  PROVE  TreeOK'
<1>1. entries' \in Seq(Kinds) /\ error' \in BOOLEAN
  <2>1. << >> \in Seq(Kinds)
    OBVIOUS
  <2>2. TRUE \in BOOLEAN /\ FALSE \in BOOLEAN
    OBVIOUS
  <2> QED
    BY <2>1, <2>2, ListingsAssumption, Zenon DEF EnterDir, Refresh
<1>2. cwd' \in 0 .. PathMax
  BY DEF EnterDir
<1>3. cursor' = 0 /\ scroll' = 0
  BY DEF EnterDir, Refresh
<1>4. entries' # << >> => 0 < Len(entries')
  BY <1>1
<1> QED
  BY <1>1, <1>2, <1>3, <1>4 DEF TreeOK, CursorInList, Count

\* A window moved to an entry, or to the top, stays on the list.
LEMMA StaysKeeps ==
  ASSUME TreeOK, NEW row \in Nat, StaysAt(row),
         entries = << >> => row = 0, entries # << >> => row < Count
  PROVE  TreeOK'
BY DEF TreeOK, CursorInList, StaysAt, Count

\* So for the parent directory.
LEMMA ParentKeeps ==
  ASSUME TreeOK, NEW row \in Nat, filetree_go_parent(row),
         entries = << >> => row = 0, entries # << >> => row < Count
  PROVE  TreeOK'
<1>1. CASE cwd = 0
  BY <1>1, StaysKeeps DEF filetree_go_parent
<1>2. CASE cwd # 0
  <2>1. cwd - 1 \in 0 .. PathMax
    BY <1>2, SizeAssumption DEF TreeOK
  <2>2. EnterDir(cwd - 1)
    BY <1>2 DEF filetree_go_parent
  <2> QED
    BY <2>1, <2>2, EnterKeeps
<1> QED
  BY <1>1, <1>2

\* The arrows keep the highlighted entry in the list, and show it.
LEMMA ArrowKeeps ==
  ASSUME TreeOK, filetree_move_up \/ filetree_move_down,
         UNCHANGED <<cwd, entries, error>>
  PROVE  TreeOK' /\ cursor' >= scroll' /\ cursor' < scroll' + VisRows
<1>1. VisRows \in Nat \ {0} /\ Count \in Nat /\ cursor \in Nat /\ scroll \in Nat
  BY SizeAssumption DEF TreeOK, Count
<1>2. entries = << >> => Count = 0 /\ cursor = 0 /\ scroll = 0
  BY DEF TreeOK, CursorInList, Count
<1>3. entries # << >> => cursor < Count /\ scroll < Count
  BY DEF TreeOK, CursorInList
<1>4. /\ cursor' \in Nat /\ scroll' \in Nat
      /\ cursor' >= scroll' /\ cursor' < scroll' + VisRows
      /\ entries = << >> => cursor' = 0 /\ scroll' = 0
      /\ entries # << >> => cursor' < Count /\ scroll' < Count
  <2>1. CASE filetree_move_up
    BY <1>1, <1>2, <1>3, <2>1 DEF filetree_move_up
  <2>2. CASE filetree_move_down
    BY <1>1, <1>2, <1>3, <2>2 DEF filetree_move_down
  <2> QED
    BY <2>1, <2>2
<1> QED
  BY <1>4 DEF TreeOK, CursorInList, Count

\* The wheel keeps the window on the list.
LEMMA WheelKeeps ==
  ASSUME TreeOK, NEW delta \in {-1, 1}, filetree_scroll_by(delta),
         UNCHANGED <<cwd, entries, cursor, error>>
  PROVE  TreeOK'
<1>1. VisRows \in Nat \ {0} /\ Count \in Nat /\ scroll \in Nat
  BY SizeAssumption DEF TreeOK, Count
<1>2. entries = << >> => Count = 0
  BY DEF Count
<1>3. entries # << >> => Count > 0
  BY DEF Count, TreeOK
<1>4. /\ scroll' \in Nat
      /\ entries = << >> => scroll' = 0
      /\ entries # << >> => scroll' < Count
  BY <1>1, <1>2, <1>3 DEF filetree_scroll_by
<1> QED
  BY <1>4 DEF TreeOK, CursorInList, Count

\* The offset that shows an entry is that of an entry.
LEMMA ScrollToInList ==
  ASSUME TreeOK, NEW at \in Nat, at < Count
  PROVE  ScrollTo(at) \in Nat /\ ScrollTo(at) < Count /\ entries # << >>
<1>1. VisRows \in Nat \ {0} /\ Count \in Nat /\ scroll \in Nat
  BY SizeAssumption DEF TreeOK, Count
<1>2. entries # << >>
  BY DEF Count
<1>3. scroll < Count
  BY <1>2 DEF TreeOK, CursorInList
<1> QED
  BY <1>1, <1>2, <1>3 DEF ScrollTo

\* So for an entry that is opened, and the focus goes to a panel that is shown.
LEMMA OpensKeeps ==
  ASSUME TreeOK, focused \in BOOLEAN, NEW row \in Nat, Opens(row),
         entries = << >> => row = 0, entries # << >> => row < Count
  PROVE  TreeOK' /\ focused' \in BOOLEAN
<1>1. CASE entries = << >>
  BY <1>1 DEF Opens, tree, TreeOK, CursorInList, Count
<1>2. CASE entries # << >> /\ StaysAt(row) /\ focused' = FALSE
  BY <1>2, StaysKeeps
<1>3. CASE filetree_go_parent(row) /\ focused' = TRUE
  BY <1>3, ParentKeeps
<1>4. CASE cwd < PathMax /\ EnterDir(cwd + 1) /\ focused' = TRUE
  <2>1. cwd + 1 \in 0 .. PathMax
    BY <1>4, SizeAssumption DEF TreeOK
  <2> QED
    BY <1>4, <2>1, EnterKeeps
<1>5. CASE /\ scroll' = row /\ error' = TRUE /\ focused' = TRUE
           /\ UNCHANGED <<cwd, entries, cursor>>
  BY <1>5 DEF TreeOK, CursorInList, Count
<1> QED
  BY <1>1, <1>2, <1>3, <1>4, <1>5 DEF Opens

-----------------------------------------------------------------------------
(* The steps                                                               *)

\* The part of Inv that is not the tree's.
BarOK == /\ mode \in {"EDITOR", "COMMAND"} /\ input_len \in 0 .. BufSize - 1
         /\ status_ticks \in 0 .. Ticks
         /\ untitled \in BOOLEAN /\ quit \in BOOLEAN

PanelOK == visible \in BOOLEAN /\ focused \in BOOLEAN /\ FocusedIsVisible

\* The parts of the invariant: file tree, command bar, panel with the keyboard.
LEMMA InvParts == Inv => TreeOK /\ BarOK /\ PanelOK
BY DEF Inv, TypeOK, TreeOK, BarOK, PanelOK

\* They make up the invariant again after a step.
LEMMA InvNext == TreeOK' /\ BarOK' /\ PanelOK' => Inv'
BY DEF Inv, TypeOK, TreeOK, BarOK, PanelOK

\* A truth value, kept from the arithmetic.
LEMMA TruthValues == TRUE \in BOOLEAN /\ FALSE \in BOOLEAN
OBVIOUS

\* Giving up the focus is always safe.
LEMMA FocusGivenUp ==
  ASSUME PanelOK, focused' = FALSE, visible' \in BOOLEAN
  PROVE  PanelOK'
BY DEF PanelOK, FocusedIsVisible

\* A message is shown for a number of ticks that fits.
LEMMA ReportsKeeps ==
  ASSUME status_ticks \in 0 .. Ticks, NEW failed \in BOOLEAN,
         \/ UNCHANGED status_ticks \/ command_bar_set_status \/ Reports(failed)
  PROVE  status_ticks' \in 0 .. Ticks
BY SizeAssumption DEF Reports, command_bar_set_status

\* What opening an entry does to the bar: at most a message.
LEMMA OpensBar ==
  ASSUME TreeOK, BarOK, NEW row \in Nat, Opens(row), UNCHANGED <<bar, quit>>
  PROVE  BarOK'
<1>1. status_ticks' \in 0 .. Ticks
  <2>1. \/ UNCHANGED status_ticks \/ command_bar_set_status
    BY DEF Opens, Reports
  <2> QED
    BY <2>1, ReportsKeeps DEF BarOK
<1>2. untitled' \in BOOLEAN
  BY DEF Opens, BarOK
<1> QED
  BY <1>1, <1>2 DEF BarOK, bar

\* The steps of the tree that a key or the mouse asks for.
LEMMA TreeStep ==
  ASSUME Inv,
         \/ TreeEscape \/ TreeUpDown \/ TreeParent \/ TreeEnter
         \/ \E delta \in {-1, 1} : TreeWheel(delta)
         \/ TreePressBelow \/ PressBeside
         \/ \E y \in 0 .. VisRows + 1 : TreePress(y)
  PROVE  Inv'
<1> USE InvParts, InvNext
<1>1. TreeOK /\ BarOK /\ PanelOK
  OBVIOUS
<1>2. CASE TreeEscape
  <2>1. TreeOK'
    BY <1>1, <1>2 DEF TreeEscape, TreeOK, tree, CursorInList, Count
  <2>2. BarOK'
    BY <1>1, <1>2 DEF TreeEscape, InTree, bar, BarOK
  <2>3. PanelOK'
    BY <1>1, <1>2, FocusGivenUp, Zenon DEF TreeEscape, InTree, PanelOK
  <2> QED
    BY <2>1, <2>2, <2>3
<1>3. CASE TreeUpDown
  <2>1. TreeOK'
    BY <1>1, <1>3, ArrowKeeps DEF TreeUpDown
  <2>2. BarOK' /\ PanelOK'
    BY <1>1, <1>3 DEF TreeUpDown, InTree, bar, BarOK, PanelOK, FocusedIsVisible
  <2> QED
    BY <2>1, <2>2
<1>4. CASE TreeParent
  <2>1. TreeOK'
    <3>1. filetree_go_parent(scroll)
      BY <1>4 DEF TreeParent
    <3> QED
      BY <1>1, <3>1, ParentKeeps DEF TreeOK, CursorInList
  <2>2. status_ticks' \in 0 .. Ticks
    BY <1>1, <1>4, SizeAssumption DEF TreeParent, Reports, command_bar_set_status, BarOK
  <2>3. BarOK' /\ PanelOK'
    BY <1>1, <1>4, <2>2 DEF TreeParent, InTree, bar, BarOK, PanelOK, FocusedIsVisible
  <2> QED
    BY <2>1, <2>3
<1>5. CASE TreeEnter
  <2>1. Opens(scroll) /\ visible = TRUE /\ UNCHANGED <<visible, bar, quit>>
    BY <1>1, <1>5 DEF TreeEnter, InTree, PanelOK, FocusedIsVisible
  <2>2. TreeOK' /\ focused' \in BOOLEAN
    BY <1>1, <2>1, OpensKeeps DEF TreeOK, CursorInList, PanelOK
  <2>3. BarOK'
    BY <1>1, <2>1, OpensBar DEF TreeOK
  <2>4. PanelOK'
    BY <2>1, <2>2 DEF PanelOK, FocusedIsVisible
  <2> QED
    BY <2>2, <2>3, <2>4
<1>6. ASSUME NEW delta \in {-1, 1}, TreeWheel(delta) PROVE Inv'
  <2>1. TreeOK'
    BY <1>1, <1>6, WheelKeeps DEF TreeWheel
  <2>2. BarOK' /\ PanelOK'
    BY <1>1, <1>6 DEF TreeWheel, OnTree, bar, BarOK, PanelOK, FocusedIsVisible
  <2> QED
    BY <2>1, <2>2
<1>7. CASE TreePressBelow
  <2>1. TreeOK'
    BY <1>1, <1>7 DEF TreePressBelow, TreeOK, tree, CursorInList, Count
  <2>2. BarOK'
    BY <1>1, <1>7 DEF TreePressBelow, OnTree, bar, BarOK
  <2>3. PanelOK'
    BY <1>1, <1>7, TruthValues, Zenon
       DEF TreePressBelow, OnTree, PanelOK, FocusedIsVisible
  <2> QED
    BY <2>1, <2>2, <2>3
<1>8. CASE PressBeside
  <2>1. TreeOK'
    BY <1>1, <1>8 DEF PressBeside, TreeOK, tree, CursorInList, Count
  <2>2. BarOK'
    BY <1>1, <1>8 DEF PressBeside, bar, BarOK
  <2>3. PanelOK'
    BY <1>1, <1>8, FocusGivenUp, Zenon DEF PressBeside, PanelOK
  <2> QED
    BY <2>1, <2>2, <2>3
<1>9. ASSUME NEW y \in 0 .. VisRows + 1, TreePress(y) PROVE Inv'
  <2> DEFINE idx == scroll + y
  <2>1. /\ idx < Count /\ visible = TRUE /\ UNCHANGED <<visible, bar, quit>>
        /\ \/ idx = cursor /\ Opens(ScrollTo(idx))
           \/ /\ filetree_set_cursor(idx) /\ focused' = TRUE
              /\ UNCHANGED <<cwd, entries, error, status_ticks, untitled>>
    BY <1>1, <1>9 DEF TreePress, OnTree, PanelOK
  <2>2. idx \in Nat
    BY <1>1, SizeAssumption DEF TreeOK
  <2> HIDE DEF idx
  <2>3. ScrollTo(idx) \in Nat /\ ScrollTo(idx) < Count /\ entries # << >>
    BY <1>1, <2>1, <2>2, ScrollToInList
  <2>4. CASE Opens(ScrollTo(idx))
    <3>1. TreeOK' /\ focused' \in BOOLEAN
      BY <1>1, <2>3, <2>4, OpensKeeps DEF PanelOK
    <3>2. BarOK'
      BY <1>1, <2>1, <2>3, <2>4, OpensBar
    <3>3. PanelOK'
      BY <2>1, <3>1 DEF PanelOK, FocusedIsVisible
    <3> QED
      BY <3>1, <3>2, <3>3
  <2>5. CASE /\ filetree_set_cursor(idx) /\ focused' = TRUE
             /\ UNCHANGED <<cwd, entries, error, status_ticks, untitled>>
    <3>1. TreeOK'
      BY <1>1, <2>1, <2>2, <2>3, <2>5
         DEF filetree_set_cursor, TreeOK, CursorInList, Count
    <3>2. BarOK' /\ PanelOK'
      BY <1>1, <2>1, <2>5 DEF bar, BarOK, PanelOK, FocusedIsVisible
    <3> QED
      BY <3>1, <3>2
  <2> QED
    BY <2>1, <2>4, <2>5
<1> QED
  BY <1>2, <1>3, <1>4, <1>5, <1>6, <1>7, <1>8, <1>9

\* The steps of the bar, of the text and of the timer leave the tree alone.
LEMMA OtherStep ==
  ASSUME Inv,
         \/ ToggleTree \/ BarEscape \/ BarInput \/ BarEnter
         \/ TextQuit \/ TextToBar \/ TextMessage \/ Tick \/ UNCHANGED vars
  PROVE  Inv'
<1> USE InvParts, InvNext
<1>1. TreeOK /\ BarOK /\ PanelOK
  OBVIOUS
<1>2. UNCHANGED tree
  BY DEF ToggleTree, BarEscape, BarInput, BarEnter, InBar, TextQuit, TextToBar,
     TextMessage, InText, Tick, vars
<1>3. TreeOK'
  BY <1>1, <1>2 DEF TreeOK, CursorInList, Count, tree
<1>4. PanelOK'
  <2>1. CASE ToggleTree
    <3>1. (~visible) \in BOOLEAN
      BY SMT
    <3> QED
      BY <2>1, <3>1, Zenon DEF ToggleTree, Toggle, PanelOK, FocusedIsVisible
  <2>2. CASE UNCHANGED panel
    BY <1>1, <2>2 DEF PanelOK, FocusedIsVisible, panel
  <2> QED
    BY <2>1, <2>2 DEF BarEscape, BarInput, BarEnter, InBar, TextQuit, TextToBar,
       TextMessage, InText, Tick, vars
<1>5. BarOK'
  <2>1. CASE ToggleTree \/ UNCHANGED vars
    BY <1>1, <2>1 DEF ToggleTree, vars, bar, BarOK
  <2>2. CASE BarEscape \/ BarInput
    BY <1>1, <2>2, SizeAssumption DEF BarEscape, BarInput, BarOK
  <2>3. CASE BarEnter
    <3>1. status_ticks' \in 0 .. Ticks
      BY <1>1, <2>3, ReportsKeeps DEF BarEnter, BarOK
    <3>2. untitled' \in BOOLEAN /\ quit' \in BOOLEAN
      BY <1>1, <2>3, TruthValues, Zenon DEF BarEnter, BarOK
    <3>3. mode' \in {"EDITOR", "COMMAND"} /\ input_len' = input_len
      BY <2>3, Zenon DEF BarEnter
    <3> QED
      BY <1>1, <3>1, <3>2, <3>3 DEF BarOK
  <2>4. CASE TextQuit
    BY <1>1, <2>4 DEF TextQuit, bar, BarOK
  <2>5. CASE TextToBar
    BY <1>1, <2>5, SizeAssumption DEF TextToBar, command_bar_start, BarOK
  <2>6. CASE TextMessage
    <3>1. status_ticks' \in 0 .. Ticks
      BY <2>6, SizeAssumption DEF TextMessage, command_bar_set_status
    <3> QED
      BY <1>1, <2>6, <3>1 DEF TextMessage, bar, BarOK
  <2>7. CASE Tick
    <3>1. status_ticks' \in 0 .. Ticks
      BY <1>1, <2>7, SizeAssumption DEF Tick, BarOK
    <3> QED
      BY <1>1, <2>7, <3>1 DEF Tick, bar, BarOK
  <2> QED
    BY <2>1, <2>2, <2>3, <2>4, <2>5, <2>6, <2>7
<1> QED
  BY <1>3, <1>4, <1>5

\* The invariant holds when the program starts.
LEMMA InvInit == Init => Inv
<1> SUFFICES ASSUME Init PROVE Inv
  OBVIOUS
<1>1. entries \in Seq(Kinds) /\ error \in BOOLEAN
  <2>1. << >> \in Seq(Kinds)
    OBVIOUS
  <2>2. TRUE \in BOOLEAN /\ FALSE \in BOOLEAN
    OBVIOUS
  <2> QED
    BY <2>1, <2>2, ListingsAssumption, Zenon DEF Init
<1>2. entries # << >> => 0 < Len(entries)
  BY <1>1
<1>3. cwd \in 0 .. PathMax /\ cursor = 0 /\ scroll = 0 /\ untitled \in BOOLEAN
  BY DEF Init
<1>4. /\ visible \in BOOLEAN /\ focused \in BOOLEAN /\ quit \in BOOLEAN
      /\ FocusedIsVisible /\ mode \in {"EDITOR", "COMMAND"}
  BY TruthValues, Zenon DEF Init, FocusedIsVisible
<1>5. input_len \in 0 .. BufSize - 1 /\ status_ticks \in 0 .. Ticks
  BY SizeAssumption DEF Init
<1> QED
  BY <1>1, <1>2, <1>3, <1>4, <1>5 DEF Inv, TypeOK, CursorInList, Count

\* Every key, click and change of the disk keeps it: one case per action.
LEMMA InvStep == Inv /\ [Next]_vars => Inv'
<1> SUFFICES ASSUME Inv, [Next]_vars PROVE Inv'
  OBVIOUS
<1> QED
  BY TreeStep, OtherStep DEF Next

-----------------------------------------------------------------------------

\* Whatever is entered, scrolled, clicked or fails to be read, the highlighted
\* entry is in the list (filetree_enter_selected takes it as is) and no key goes
\* to a hidden panel (filetree_commands_try).
THEOREM PanelsSafe == Spec => [](TypeOK /\ CursorInList /\ FocusedIsVisible)
<1>1. Inv => TypeOK /\ CursorInList /\ FocusedIsVisible
  BY DEF Inv
<1> QED
  BY InvInit, InvStep, <1>1, PTL DEF Spec

\* The arrows show the highlighted entry (filetree_move_up, filetree_move_down).
THEOREM ArrowsShowCursor == Spec => ArrowShowsCursor
<1>1. Inv /\ [Next]_vars
        => [TreeUpDown => cursor' >= scroll' /\ cursor' < scroll' + VisRows]_vars
  <2> SUFFICES ASSUME Inv, TreeUpDown
               PROVE  cursor' >= scroll' /\ cursor' < scroll' + VisRows
    OBVIOUS
  <2>1. TreeOK
    BY InvParts
  <2> QED
    BY <2>1, ArrowKeeps DEF TreeUpDown
<1> QED
  BY InvInit, InvStep, <1>1, PTL DEF Spec, ArrowShowsCursor
=============================================================================
