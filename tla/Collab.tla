-------------------------------- MODULE Collab --------------------------------
(***************************************************************************)
(* A shared editing session over the serial line.  Two copies of LCode run *)
(* the same code; after :sync each command that edits or moves sends       *)
(* packets (commands.c, sync_block, build_packet_serial), which the other  *)
(* side applies to its own text (commands_dispatch_serial) between two     *)
(* commands of its own user.  The Author has a file to share; then both    *)
(* users edit and move their cursors.                                      *)
(*                                                                         *)
(* The line delivers packets whole and in order.  A packet carries the     *)
(* position its relative edit was made at, which the real one does not:    *)
(* `at' only feeds the history variable misplaced.                         *)
(***************************************************************************)
EXTENDS RemoteOps

CONSTANTS Peers, Author,
          Files,        \* texts the Author may have open before :sync
          Clips,        \* clipboards it may have by then
          Viewport,     \* <<rows, cols>> of both windows
          MaxText,      \* bound: the symbols of the Author's text
          Sessions,     \* bound: how many commands each user gives, and how
                        \*   many of them edit
          MaxInFlight   \* bound: packets under way to a peer before a command

ASSUME PeersAssumption == /\ Author \in Peers
                          /\ IsFiniteSet(Peers) /\ Cardinality(Peers) = 2
ASSUME FilesAssumption == /\ Files \subseteq Seq(Row) \ {<< >>}
                          /\ Clips \subseteq Seq(Row)
ASSUME ViewportAssumption == Viewport \in (Nat \ {0}) \X (Nat \ {0})

VARIABLES ed,         \* each peer's editor
          remote,     \* each peer's flag `remote' of commands.c
          load,       \* file_num_lines and lines_contador of each peer
          wire,       \* packets under way to each peer
          session,    \* the bound on this behaviour, one of Sessions
          steps,      \* commands given by each user, and its edits
          crashed,    \* a packet wrote outside the peer's text
          misplaced,  \* history: an edit was applied elsewhere than it was made
          unsent,     \* history: a text was changed and nothing was sent
          crossed     \* history: an edit was made before an earlier one of the peer came

vars == <<ed, remote, load, wire, session, steps, crashed, misplaced, unsent, crossed>>

Other(p) == CHOOSE q \in Peers : q # p
Reader   == Other(Author)

Size(rows) == Len(rows) - 1 + MapThenSumSet(LAMBDA i : Len(rows[i]), DOMAIN rows)

Position(e, r, c) == r \in 0 .. RowCount(e) - 1 /\ c \in 0 .. RowLen(e, r)
Positions(e) == UNION {{r} \X (0 .. RowLen(e, r)) : r \in 0 .. RowCount(e) - 1}

-----------------------------------------------------------------------------
(* Packets: build_packet_serial.                                           *)

UPDATE_MAX == 250
FILE_MAX   == 252
Cut(row, max) == IF Len(row) > max THEN SubSeq(row, 1, max) ELSE row

InsertChar(e, c) == [cmd |-> "INSERT_CHAR", c |-> c, at |-> <<e.crow, e.ccol>>]
DeleteChar(e)    == [cmd |-> "DELETE_CHAR", at |-> <<e.crow, e.ccol>>]
MoveCursor(r, c) == [cmd |-> "MOVE_CURSOR", row |-> r, col |-> c]

\* editor_get_line of a row that does not exist is empty.
Line(e, r) == IF r \in 0 .. RowCount(e) - 1 THEN e.lines[r + 1] ELSE << >>

\* Positions and counts travel in 16 bits.  Texts are taken to have fewer rows and
\* columns than that, and the row of a block is reduced, since it may be -1.
RowNumbers == {r \in Nat : r < 65536}
RowNumber(r) == r % 65536

UpdateLine(e, r) ==
  [cmd |-> "UPDATE_LINE", row |-> RowNumber(r), text |-> Cut(Line(e, r), UPDATE_MAX)]

\* Fault: the number of rows to remove is not counted from the selection.
FaultySyncBlock(e, start, deleted, inserted) ==
  << [cmd |-> "REPLACE_BLOCK", row |-> RowNumber(start), deleted |-> inserted,
      inserted |-> inserted] >>
    \o [i \in 1 .. inserted |-> UpdateLine(e, start + i - 1)]
    \o << MoveCursor(e.crow, e.ccol) >>

\* The rows start .. start + inserted - 1 of e replace `deleted' rows.
sync_block(e, start, deleted, inserted) ==
  (IF deleted = 1 /\ inserted = 1 THEN << >>
   ELSE << [cmd |-> "REPLACE_BLOCK", row |-> RowNumber(start), deleted |-> deleted,
            inserted |-> inserted] >>)
    \o [i \in 1 .. inserted |-> UpdateLine(e, start + i - 1)]
    \o << MoveCursor(e.crow, e.ccol) >>

\* The packets of execute_sync.
Share(e) ==
  << [cmd |-> "FILE_START", lines |-> RowCount(e)] >>
    \o [i \in 1 .. RowCount(e) |->
          [cmd |-> "FILE_LINE", text |-> Cut(e.lines[i], FILE_MAX)]]
    \o << MoveCursor(e.crow, e.ccol) >>

-----------------------------------------------------------------------------
\* The Author has opened a file, copied something and placed the cursor; the
\* other peer was just started.
Init ==
  \E file \in Files, clip \in Clips \cup {NoClip} :
    LET blank == [lines |-> << << >> >>, crow |-> 0, ccol |-> 0, srow |-> 0,
                  scol |-> 0, vrows |-> Viewport[1], vcols |-> Viewport[2],
                  sel |-> FALSE, arow |-> 0, acol |-> 0, rrow |-> -1, rcol |-> -1,
                  clip |-> NoClip]
        mine  == [Loaded(blank, file) EXCEPT !.clip = clip]
    IN  /\ \E pos \in Positions(mine) :
             ed = [p \in Peers |->
                     IF p = Author THEN CursorTo(mine, pos[1], pos[2]) ELSE blank]
        /\ remote    = [p \in Peers |-> FALSE]
        /\ load      = [p \in Peers |-> [want |-> 0, got |-> 0]]
        /\ wire      = [p \in Peers |-> << >>]
        /\ session \in Sessions
        /\ steps     = [p \in Peers |-> [commands |-> 0, edits |-> 0]]
        /\ crashed   = [p \in Peers |-> FALSE]
        /\ misplaced = FALSE
        /\ unsent    = FALSE
        /\ crossed   = FALSE

-----------------------------------------------------------------------------
(* Commands: commands_dispatch and commands_dispatch_mouse with `remote'   *)
(* set.  Until then a peer is alone, and is module Editor.                 *)

Send(p, packets) == wire' = [wire EXCEPT ![Other(p)] = @ \o packets]

\* None of the packets changes a text.
NoEdits(packets) == \A i \in DOMAIN packets : packets[i].cmd = "MOVE_CURSOR"

\* p's user gives one more command within the bound, an edit or not.
Counts(p, edit) ==
  /\ steps[p].commands < session[p].commands
  /\ edit => steps[p].edits < session[p].edits
  /\ steps' = [steps EXCEPT ![p].commands = @ + 1,
                            ![p].edits    = IF edit THEN @ + 1 ELSE @]
  /\ UNCHANGED session

\* p's user gave a command; it left p's editor in state e and sent packets.
Does(p, e, packets) ==
  LET changed == e.lines # ed[p].lines
      edit    == changed \/ ~NoEdits(packets)
  IN  /\ remote[p] /\ ~crashed[p]
      /\ Len(wire[Other(p)]) <= MaxInFlight
      /\ Counts(p, edit)
      /\ Size(e.lines) <= MaxText
      /\ ed' = [ed EXCEPT ![p] = e]
      /\ Send(p, packets)
      /\ unsent' = (unsent \/ (packets = << >> /\ changed))
      /\ crossed' = (crossed \/ (edit /\ ~NoEdits(wire[p])))
      /\ UNCHANGED <<remote, load, crashed, misplaced>>

\* A cursor or anchor that a remote edit left outside the text would be used to
\* index it; such a peer's user is assumed to press neither an arrow nor a key
\* that edits.
Usable(e) == /\ Position(e, e.crow, e.ccol)
             /\ e.sel => Position(e, e.arow, e.acol)

\* The rows of p without a buffer: those of a replaced block whose text is still
\* to come, and the row after the last one of a transfer.  An edit there uses a
\* null pointer; p's user is assumed to wait.
Blank(p) ==
  {wire[p][i].row : i \in {j \in DOMAIN wire[p] :
                            \A k \in 1 .. j : wire[p][k].cmd = "UPDATE_LINE"}}
    \cup (IF load[p].want > 0 /\ load[p].got > 0 THEN {RowCount(ed[p]) - 1} ELSE {})

Filled(p) == /\ ed[p].crow \notin Blank(p)
             /\ ed[p].sel => ed[p].arow \notin Blank(p)

\* The first row of the selection, and the rows it reaches over.
SelFirst(e) == editor_sel_get_range(e).sr
SelRows(e)  == editor_sel_get_range(e).er - SelFirst(e) + 1

\* A character, or Enter.
Type(p, c) ==
  LET old == ed[p]
      new == editor_insert_char(editor_delete_selection(old), c)
  IN  Does(p, new,
           IF old.sel
           THEN sync_block(new, SelFirst(old), SelRows(old), IF c = Newline THEN 2 ELSE 1)
           ELSE << InsertChar(old, c) >>)

EraseSelection(p) ==
  LET new == editor_delete_selection(ed[p])
  IN  /\ ed[p].sel
      /\ Does(p, new, sync_block(new, SelFirst(ed[p]), SelRows(ed[p]), 1))

Backspace(p) == /\ ~ed[p].sel
                /\ Does(p, editor_delete_char(ed[p]), << DeleteChar(ed[p]) >>)

CtrlBackspace(p) ==
  LET old  == ed[p]
      join == editor_delete_char(old)
      word == editor_delete_word(old)
  IN  /\ ~old.sel
      /\ IF old.ccol = 0 THEN Does(p, join, sync_block(join, old.crow - 1, 2, 1))
         ELSE Does(p, word, sync_block(word, old.crow, 1, 1))

Copy(p) == Does(p, editor_copy_selection(ed[p]), << >>)

CutSelection(p) ==
  LET new == editor_delete_selection(editor_copy_selection(ed[p]))
  IN  /\ ed[p].sel
      /\ Does(p, new, sync_block(new, SelFirst(ed[p]), SelRows(ed[p]), 1))

\* Without a clipboard the selection is gone all the same, and nobody is told.
Paste(p) ==
  LET old == ed[p]
      mid == editor_delete_selection(old)
      new == editor_paste(mid)
  IN  Does(p, new,
           IF old.clip = NoClip THEN << >>
           ELSE sync_block(new, mid.crow, IF old.sel THEN SelRows(old) ELSE 1,
                           RowCount(new) - RowCount(mid) + 1))

Anchored(e, shift) ==
  IF ~shift THEN editor_sel_clear(e)
  ELSE IF e.sel THEN e ELSE editor_sel_set_anchor(e)

Motions(e) ==
  {editor_move_left(e), editor_move_right(e), editor_move_up(e), editor_move_down(e),
   editor_move_home(e), editor_move_end(e),
   editor_move_word_left(e), editor_move_word_right(e)}

Arrow(p, shift) ==
  \E e \in Motions(Anchored(ed[p], shift)) :
    Does(p, e, << MoveCursor(e.crow, e.ccol) >>)

\* The packet names the cell that was clicked, even if editor_set_cursor
\* refused to go there.
Click(p, row, col) ==
  Does(p, editor_sel_set_anchor(
            editor_set_cursor(editor_sel_clear(ed[p]), row, col)),
       << MoveCursor(row, col) >>)

\* A drag sends nothing.
Drag(p, row, col) == Does(p, editor_set_cursor(ed[p], row, col), << >>)

\* The wheel, or a press outside the text: no packet either.
Unselect(p) == ed[p].sel /\ Does(p, editor_sel_clear(ed[p]), << >>)

\* Opening a file is not told to the peer.
Open(p, file) == Does(p, Loaded(ed[p], file), << >>)

\* The command :sync, which sends the whole text and so mends what was unsent
\* or crossed, unless an edit of the peer is still to come.
Sync(p) ==
  /\ ~crashed[p]
  /\ IF p = Author /\ ~remote[p] THEN UNCHANGED <<session, steps>> ELSE Counts(p, TRUE)
  /\ wire[Other(p)] = << >>
  /\ remote' = [remote EXCEPT ![p] = TRUE]
  /\ Send(p, Share(ed[p]))
  /\ unsent' = FALSE
  /\ crossed' = ~NoEdits(wire[p])
  /\ UNCHANGED <<ed, load, crashed, misplaced>>

-----------------------------------------------------------------------------
(* commands_dispatch_serial                                                *)

\* p takes the next packet, of kind cmd.
Takes(p, cmd) ==
  /\ ~crashed[p]
  /\ wire[p] # << >> /\ Head(wire[p]).cmd = cmd
  /\ wire' = [wire EXCEPT ![p] = Tail(@)]
  /\ UNCHANGED <<session, steps, unsent, crossed>>

Packet(p) == Head(wire[p])

\* A relative edit of the peer is made at the remote cursor.  Outside the text
\* it writes to memory that is not the text's.
AtRemoteCursor(p, defined, e) ==
  /\ misplaced' = (misplaced \/ Packet(p).at # <<ed[p].rrow, ed[p].rcol>>)
  /\ IF defined THEN ed' = [ed EXCEPT ![p] = e] /\ UNCHANGED crashed
     ELSE crashed' = [crashed EXCEPT ![p] = TRUE] /\ UNCHANGED ed
  /\ UNCHANGED <<remote, load>>

TakeInsertChar(p) ==
  /\ Takes(p, "INSERT_CHAR")
  /\ AtRemoteCursor(p, Position(ed[p], ed[p].rrow, ed[p].rcol),
                    editor_remote_insert_char(ed[p], Packet(p).c))

TakeDeleteChar(p) ==
  /\ Takes(p, "DELETE_CHAR")
  /\ AtRemoteCursor(p, \/ Position(ed[p], ed[p].rrow, ed[p].rcol)
                       \/ ed[p].rrow <= 0 /\ ed[p].rcol <= 0,
                    editor_remote_delete_char(ed[p]))

\* The other packets only change the editor.
Applies(p, e) == /\ ed' = [ed EXCEPT ![p] = e]
                 /\ UNCHANGED <<remote, load, crashed, misplaced>>

TakeMoveCursor(p) ==
  /\ Takes(p, "MOVE_CURSOR")
  /\ Applies(p, editor_set_remote_cursor(ed[p], Packet(p).row, Packet(p).col))

TakeReplaceBlock(p) ==
  /\ Takes(p, "REPLACE_BLOCK")
  /\ Applies(p, editor_remote_replace_block(ed[p], Packet(p).row, Packet(p).deleted,
                                            Packet(p).inserted))

TakeUpdateLine(p) ==
  /\ Takes(p, "UPDATE_LINE")
  /\ Applies(p, editor_remote_update_line(ed[p], Packet(p).row, Packet(p).text))

TakeFileStart(p) ==
  /\ Takes(p, "FILE_START")
  /\ ed' = [ed EXCEPT ![p] = editor_init(@)]
  /\ load' = [load EXCEPT ![p] = [want |-> Packet(p).lines, got |-> 0]]
  /\ remote' = [remote EXCEPT ![p] = TRUE]
  /\ misplaced' = FALSE
  /\ UNCHANGED crashed

\* Fault: the transfer waits for one line more than was announced.
FaultyLastLine(got, want) == got > want

LastLine(got, want) == got >= want

\* The last announced line ends the transfer; one that was not announced is
\* ignored.
TakeFileLine(p) ==
  /\ Takes(p, "FILE_LINE")
  /\ LET got  == load[p].got + 1
         done == LastLine(got, load[p].want)
         more == editor_load_line(ed[p], Packet(p).text)
     IN  IF load[p].want = 0 THEN UNCHANGED <<ed, load>>
         ELSE /\ ed' = [ed EXCEPT ![p] = IF done THEN editor_load_finalize(more) ELSE more]
              /\ load' = [load EXCEPT ![p] =
                            [want |-> IF done THEN 0 ELSE @.want, got |-> got]]
  /\ UNCHANGED <<remote, crashed, misplaced>>

Receive(p) ==
  \/ TakeInsertChar(p) \/ TakeDeleteChar(p) \/ TakeMoveCursor(p)
  \/ TakeReplaceBlock(p) \/ TakeUpdateLine(p)
  \/ TakeFileStart(p) \/ TakeFileLine(p)

Keys(p) ==
  /\ Usable(ed[p])
  /\ \/ /\ Filled(p)
        /\ \/ \E c \in Char \cup {Newline} : Type(p, c)
           \/ EraseSelection(p)
           \/ Backspace(p)
           \/ CtrlBackspace(p)
           \/ CutSelection(p)
           \/ Paste(p)
     \/ Copy(p)
     \/ \E shift \in BOOLEAN : Arrow(p, shift)

Others(p) ==
  \/ \E pos \in Positions(ed[p]) : Click(p, pos[1], pos[2])
  \/ \E pos \in Positions(ed[p]) : Drag(p, pos[1], pos[2])
  \/ Unselect(p)
  \/ \E file \in Files : Open(p, file)
  \/ Sync(p)

Next == \E p \in Peers : Keys(p) \/ Others(p) \/ Receive(p)

Spec == Init /\ [][Next]_vars

-----------------------------------------------------------------------------
(* Properties                                                              *)

Editors ==
  [lines : Seq(Row) \ {<< >>}, crow : Nat, ccol : Nat, srow : Int, scol : Int,
   vrows : {Viewport[1]}, vcols : {Viewport[2]}, sel : BOOLEAN, arow : Nat,
   acol : Nat, rrow : Nat \cup {-1}, rcol : Nat \cup {-1}, clip : Seq(Row)]

Packets ==
  [cmd : {"INSERT_CHAR"}, c : Char \cup {Newline}, at : Nat \X Nat]
    \cup [cmd : {"DELETE_CHAR"}, at : Nat \X Nat]
    \cup [cmd : {"MOVE_CURSOR"}, row : Nat, col : Nat]
    \cup [cmd : {"REPLACE_BLOCK"}, row : RowNumbers, deleted : Nat \ {0},
          inserted : Nat \ {0}]
    \cup [cmd : {"UPDATE_LINE"}, row : RowNumbers, text : Row]
    \cup [cmd : {"FILE_START"}, lines : Nat \ {0}]
    \cup [cmd : {"FILE_LINE"}, text : Row]

\* The two editors keep at least one row and cursors that are not negative; no
\* block is empty and no transfer receives more lines than FILE_START announced.
TypeOK ==
  /\ ed \in [Peers -> Editors]
  /\ remote \in [Peers -> BOOLEAN] /\ crashed \in [Peers -> BOOLEAN]
  /\ load \in [Peers -> [want : Nat, got : Nat]]
  /\ \A p \in Peers : load[p].want > 0 => load[p].got < load[p].want
  /\ wire \in [Peers -> Seq(Packets)]
  /\ misplaced \in BOOLEAN /\ unsent \in BOOLEAN /\ crossed \in BOOLEAN

\* Once every edit is applied the two texts are the same, unless one was applied
\* elsewhere than it was made, was never sent, or was made before an earlier one
\* of the peer had come: the blocks sync_block sends, the relative edits and a
\* transfer, from either side and in any mix, with the cursors and clicks of both
\* users between them, make the two texts equal row for row.
Converged ==
  /\ \A p \in Peers : remote[p] /\ ~crashed[p] /\ NoEdits(wire[p])
  /\ ~misplaced /\ ~unsent /\ ~crossed
  => ed[Reader].lines = ed[Author].lines

\* An edit that lands outside the text of the peer had been made elsewhere, or
\* crossed another: where a peer follows the cursor of the other, the position is
\* in its text when the packet is taken, although the text changed since it was
\* sent.
FollowedEditInText ==
  [][crashed' # crashed => misplaced' \/ unsent' \/ crossed']_vars

\* The packet p takes edits no row that p's cursor is on.
Elsewhere(p) ==
  LET e == ed[p]
      k == Packet(p)
  IN  \/ k.cmd = "INSERT_CHAR" /\ e.crow # e.rrow
      \/ /\ k.cmd = "DELETE_CHAR"
         /\ e.crow # e.rrow
         /\ e.crow = e.rrow - 1 => e.rcol > 0
      \/ k.cmd = "REPLACE_BLOCK" /\ e.crow \notin k.row .. k.row + k.deleted - 1
      \/ k.cmd = "UPDATE_LINE" /\ e.crow # k.row

\* An edit of other rows leaves the cursor on the line it was on, even when the
\* rows above it become more or fewer: "shift row index to stay on same
\* content" (editor.c:626).
KeepsLine ==
  [][\A p \in Peers :
       /\ wire[p] # << >> /\ wire'[p] = Tail(wire[p])
       /\ Position(ed[p], ed[p].crow, ed[p].ccol)
       /\ Elsewhere(p)
       => /\ ed'[p].ccol = ed[p].ccol
          /\ ed'[p].crow \in 0 .. RowCount(ed'[p]) - 1
          /\ ed'[p].lines[ed'[p].crow + 1] = ed[p].lines[ed[p].crow + 1]]_vars

\* "Finally, updates the remote cursor position to match the local cursor"
\* (commands.c:64): when the packets of :sync are taken and no command followed,
\* the reader knows where the Author's cursor is.
SyncPlacesRemoteCursor ==
  /\ remote[Reader] /\ wire[Reader] = << >>
  /\ \A p \in Peers : steps[p].commands = 0
  => /\ ed[Reader].rrow = ed[Author].crow
     /\ ed[Reader].rcol = ed[Author].ccol

\* "The implementation assumes that the cursor is always within the bounds of
\* the document" (editor.h:227): no edit is taken with the remote cursor outside
\* the text once a position has been received.
RemoteCursorInText ==
  \A p \in Peers :
    ~crashed[p] /\ wire[p] # << >> /\ Head(wire[p]).cmd = "INSERT_CHAR"
      /\ ed[p].rrow >= 0
    => Position(ed[p], ed[p].rrow, ed[p].rcol)
=============================================================================
