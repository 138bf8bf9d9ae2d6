# A TLA+ model of LCode

LCode (`src/proj/code`) is a text editor for Minix 3 with its own device drivers
(`src/framework/src`): keyboard, mouse, timer, graphics mode and a UART over which
two machines edit a text together. It is one process and one thread. Its loop
(`proj.c`) waits for a message, runs the handlers of the devices that interrupted,
dispatches the events they queued, redraws what changed, and waits again. There
are no locks and no preemption. What makes it hard is the state that outlives a
step: a cursor, an anchor or a scroll offset computed before the text changed, a
remote cursor that is sent separately from the edits that use it, a ring that
drops, a cache that assumes where the last change was made.

## Inventory

| component | state | operations | who it meets |
|---|---|---|---|
| Text model, `model/editor/editor.c` | rows, row count, cursor, viewport, scroll offset, selection and anchor, remote cursor, clipboard | insert, delete, motions, selection, clipboard, load, and the five `editor_remote_*` functions | called by the dispatcher; read by the renderer |
| Command dispatch, `controller/commands/commands.c` | `quit_flag`, `remote`, the counters of a transfer | one handler per event kind; `:save`, `:open`, `:sync` | consumes the input queue, calls the text model, file tree and command bar, sends packets |
| Serial protocol, `controller/serial.c` | decoder state, length, payload buffer | `serial_handle_byte`, `build_packet_serial` | pushes events; polls the UART to send |
| UART driver, `drivers/serial_port.c`, `common/queue.c` | 16-byte software FIFO | interrupt handler, read, write with timeout | the line to the other machine, without flow control |
| Event queue and loop, `controller/input/events.c`, `proj.c`, `controller/ih/ih.c` | a ring of 64 events, the interrupt masks | push (drops the oldest), pop, dispatch until empty | all devices push, the dispatcher pops |
| Mouse decoding, `controller/input/mouse.c`, `drivers/mouse.c` | position, button of the last packet, packet bytes | packet assembly, edge detection | pushes one or two events for a packet |
| Keyboard decoding, `controller/input/keyboard.c`, `drivers/keyboard.c`, `drivers/kbc.c` | modifiers, scancode being assembled | scancode assembly, translation | pushes at most one event |
| Screen, `view/renderer/scene.c`, `mouse_cursor.c`, `model/render_state.c` | layout, the pending render mode, the last drawn cursor, saved pixels | `set_render`, `view_render`, pixel to text | reads the text model, sets its viewport |
| Highlight cache, `view/editor/highlight_cache.c`, `syntax.c` | colours of each row, comment state at its start | sync, rebuild, get | trusts the render mode to say what changed |
| File tree, `model/filetree/filetree.c`, `filetree_commands.c` | entries, cursor, scroll, focus, visibility | refresh, motions, enter, mouse | takes keys and clicks before the editor does |
| Command bar, `model/command_bar/command_bar.c` | mode, input, status message and its ticks | start, insert, commit, tick | takes keys while it is open |
| File input and output (`commands.c`) | none | `execute_save`, `execute_open` | replaces the text |
| Clock and session time, `model/time` | last second, first tick | update, format | timer interrupt, RTC registers |
| Device set-up (`proj.c`, `ih.c`, `drivers/timer.c`, `drivers/video.c`) | subscriptions, graphics mode | start-up and its failure paths | everything |

Behaviours that are hard to test and the properties each component owes:

* Text model: after any sequence of commands the cursor, an active anchor and the
  first row drawn are in the text, an edit is made in sight, and the rows are what
  a plain text buffer would hold. No function checks its indices.
* Shared editing: edits are relative to a cursor the other side believes the peer
  has; positions, blocks and rows travel as separate packets, between commands of
  the receiving user. The texts should agree once all packets are applied.
* Event queue: nothing is lost or reordered although the ring overwrites; a quit
  request ends the loop.
* Serial: what was sent is delivered; a lost byte must not turn payload into
  structure for ever.
* Highlight cache: a colour buffer has one owner, and the colours drawn are those
  a fresh parse would give.
* Screen: a repaint that is needed is never forgotten when requests are merged.
* File tree and command bar: cursor and scroll denote entries of the current
  directory; keys go to what is shown.
* Set-up: a failing step leaves no subscription and no graphics mode behind.

* Input: each key press gives its event although the bytes of the mouse share the
  controller's buffer; a mouse that lost a byte is understood again.

`PROJECT.json` lists each hazard at its line, with the property that covers it or
the reason why none does.

## Modules

| module | models | lines of code it stands for |
|---|---|---|
| `EditorOps` | every function of `editor.c` that does not concern the peer, as an operator from the state before to the state after | `editor.c` 81-582 |
| `Editor` | one user at a machine of its own: each key and mouse command of `commands.c` as an action | `commands.c` 211-505, `scene.c` 85-115, 518-549 |
| `TextBuffer` | abstract: a string, a point, a mark, a clipboard | |
| `EditorRefinement` | the mapping from `Editor` to `TextBuffer` | |
| `EditorProofs` | proofs about `Editor`, and that it implements `TextBuffer` | |
| `RemoteOps` | the `editor_remote_*` functions | `editor.c` 586-743 |
| `Collab` | two machines with `remote` set, packets in between | `commands.c` 66-100, 170-619, `serial.c` 106-198 |
| `CollabProofs` | proofs about `Collab` | |
| `Fifo` | abstract: an unbounded queue | |
| `EventLoop` | ring, interrupt handlers in their order, dispatcher, quit flag | `events.c`, `proj.c` 58-87, `ih.c` 104-139, `mouse.c` 31-63 |
| `EventLoopProofs` | proofs about `EventLoop` | |
| `RenderState` | the render modes and how two requests merge | `render_state.c` |
| `Repaint` | every handler's effect on rows, viewport, selection and dirty flags, the request it makes, and the frame that serves it; the screen is the set of lines that are out of date | `commands.c` 20-619, `scene.c` 326-499, `editor.c` 81-176 |
| `RepaintProofs` | proofs about `Repaint` | |
| `HighlightCache` | the operations of the colour cache on its buffers and comment states | `highlight_cache.c` |
| `Recolouring` | the cache driven by edits, packets and frames | `commands.c` 27-615, `scene.c` 310-499 |
| `RecolouringProofs` | proofs about `HighlightCache` and `Recolouring` | |
| `SerialLink` | one direction of the line, byte by byte: sender, UART, FIFOs, interrupt handler, decoder | `serial.c`, `serial_port.c` |
| `SerialLinkProofs` | proofs about `SerialLink` | |
| `Panels` | who takes a key or a click: file tree, command bar or text | `filetree.c`, `filetree_commands.c`, `command_bar.c`, `commands.c` 103-168, 215-228, 384-403 |
| `PanelsProofs` | proofs about `Panels` | |
| `Input` | keyboard and mouse bytes in one controller buffer, the interrupt handlers and the decoders | `drivers/keyboard.c`, `drivers/mouse.c`, `input/keyboard.c`, `input/mouse.c`, `ih.c` 104-139 |
| `InputProofs` | proofs about `Input` | |
| `MCEditor`, `MCCollab`, `MCEventLoop`, `MCRecolouring`, `MCRepaint`, `MCSerialLink`, `MCPanels`, `MCInput` | instances for TLC | |

A component that another one drives is a module of operators on a record of the C
file's statics (`EditorOps`, `RemoteOps`, `HighlightCache`, `RenderState`); the
modules that have variables extend them. `Repaint` and `Recolouring` take the same
handlers twice, once for what is on the screen and once for what is in the cache,
because each of the two needs a different abstraction of the text.

**State.** The file-scope statics of `editor.c` are the fields of one record, so
that `Editor` has one and `Collab` one for each peer; the record's fields are
named in `EditorOps`. The C row `r` is `lines[r + 1]`. Rows are sequences of
characters; a character is a letter or the one that separates words. All edits are
expressed by `Splice` and `DeleteRange`; the `memmove`, `malloc` and capacity code
is abstracted to them, assuming that allocation succeeds.

**Actions.** A command runs to completion inside `input_dispatch`, so one action
is the whole handler: the call that ends the selection, the edit, the trailing
`clamp_scroll`, and in `Collab` also every packet `sync_block` sends. What happens
between two actions is what can happen between two turns of the loop: another
command, a packet, a relayout (`RENDER_FULL` after the gutter or the file tree
changed its width).

**Packets.** `Collab` delivers packets whole and in order: the line is a null
modem cable. Losing bytes is the business of `SerialLink`, whose `Faithful`
justifies this when no byte is lost. A relative edit carries the position it was
made at, which the real packet does not; only the history variable `misplaced`
reads it. Positions and counts travel in 16 bits; texts are taken to have fewer
rows and columns than that, and only the row of a block is reduced to them, since
`sync_block` is called with row -1 by a Ctrl-Backspace at the start of the text
(`RowNumber`). `unsent` and `crossed` are history variables as well: a user changed a
text and sent nothing (a paste without a clipboard over a selection, `:open`); a
user edited while an edit of the other was still to come. A packet whose access
the C code would make outside its rows sets `crashed`, and that peer's user stops.
`Sessions` bounds what the two users do: so many commands each, so many of them
edits, which are the commands that change the text or send more than a position.

**What a user is assumed not to do.** A remote edit moves neither the column of
the receiver's cursor nor its anchor, so that they may be left outside the text:
`Usable` keeps `Collab`'s users from arrows and editing keys then, which would
index rows with them. `editor_remote_replace_block` and `editor_load_line` leave
rows with a NULL buffer until their text arrives; they are empty rows in
`Collab`, and `Filled` keeps users from editing one meanwhile. Nothing in the code
ensures either.

**Turns of the loop.** In `Repaint` and `Recolouring` a turn dispatches at most
one key, which comes first, because a keyboard interrupt queues at most one event
and `interrupts_handler` runs its handler before the others; then any packets and
mouse events; then `view_render`, the action `Frame`. The state of interest is the
one between two turns, when `pending` is `RENDER_NONE` again: `Repaint` keeps the
lines of the window that do not show their row (`stale`) and whether a selection
is painted (`lit`). A block that the peer replaces asks for no repaint in the
code; `torn` remembers that until the next full one.

**The cache.** A colour buffer is its capacity, the row it was coloured from and
the comment state it was coloured in. The row `/*/`, which opens a comment outside
of one and closes it inside, is enough to reach every pattern of comment states.
The two `memmove`s of `highlight_cache_sync` are the functions `InsertSource` and
`RemoveSource`, which say from where each slot takes its pointer.

**The line.** `SerialLink` numbers the bytes below a small `Base`, one of them the
start byte. `Arrive` is the UART: it stores a byte, stores another one marked as
in error, or finds its FIFO full. The program reads the line status before each
byte, so one overrun makes it drop the byte at the head of the FIFO; `WriteBack`
is the other direction's polling of the same status register, which clears errors
the receiver never sees. Losing a byte to a full FIFO, in `serial_write_char` or
to an error counts as `damage`, a history variable that `MaxDamage` bounds but for
the good bytes an overrun drops.

**The controller.** `Input` has one output buffer, which the controller fills
again only when it was read. `keyboard_ih` reads whatever byte is there and
`mouse_ih` only its own; a byte in error is read by neither. A keyboard interrupt
without a byte decodes the previous scancode again, as the code does. Interrupts
without a byte exist because the start-up polls the mouse's replies after it has
subscribed the interrupts (`ih.c` 35-50).

**Panels.** A path is its depth, an entry its kind, and each reading of a
directory may find another listing or fail. `VisRows + 2` rows can be pressed,
since `scene_px_to_filetree` does not look where the panel ends.

## Runs

| run | instance | shows |
|---|---|---|
| `editor` | alphabet of a letter and the space, text of up to 3 symbols (4 rows), clipboard of up to 2, windows of 2x1 and 2x2, three files; all 50 568 states | `TypeOK`, `CursorInText`, `AnchorInText`, `ScrollInText`, `EditShowsCursor`, `TextChangeEndsSelection`, and that `Editor` implements `TextBuffer` |
| `editor_empty_selection` | the same | an active selection may be empty, against `editor.h:167` |
| `collab` | three commands of the Author alone; two of it and one of the reader; one of it and two of the reader, of which one edits; at most one packet under way to a peer when the other gives a command, text of up to 6 symbols; all 1.1 million states | `TypeOK`, `Converged`, `FollowedEditInText`, `KeepsLine` |
| `collab_sync_cursor` | three commands of the Author and one motion of the reader | `:sync` does not tell the reader where the Author is, against `commands.c:64` |
| `collab_cursor_bounds` | the same | an edit applied below the end of the reader's text, against `editor.h:227` |
| `event_loop` | a ring of 5 that one turn can just fill; all 83 000 states | `TypeOK`, `Lossless`, `QuitEnds`, `TurnEnds` |
| `recolouring` | texts of up to 3 rows that are blank or `/*/`, three files; all 960 000 states | `TypeOK`, `SyncOneOwner`, `LineRepaintRestores` |
| `recolouring_overrun` | the same with a longer row | a row drawn with the colours of a shorter one, against `highlight_cache.h:17` |
| `repaint` | texts of up to 4 rows in a window of 2; all 102 000 states | `TypeOK`, `StaleIsOwed`, `SelectionIsOwed` |
| `serial` | three packets out of four kinds, one cut and one with a start byte in its payload, FIFOs of two bytes, one byte damaged; all 1.1 million states | `TypeOK`, `Faithful`, `DamageIsLocal`, `Drains` |
| `panels` | listings of 0, 1, 3, 5 and 6 entries in a window of two, paths of depth 0 to 2; all 45 000 states | `TypeOK`, `CursorInList`, `FocusedIsVisible`, `ArrowShowsCursor` |
| `input` | two shift keys, one that pretends to be shift, one that types, two held at once, packets of 4 bytes, one byte damaged; all 1.4 million states | `TypeOK`, `ModifiersFollowKeys`, `EachPressTyped`, `ClickPerPress`, `Resyncs` |

**Why the bounds are enough.** Three symbols and line breaks give up to four rows,
with a window of two rows and one or two columns: text above, in and below the
window, rows shorter and longer than it, a selection over one, two or three rows
in both directions, a paste of one row and of two, the end of the text reached
from everywhere. A command that would leave more text than `MaxText` is not taken.
In `collab` a trace of three commands can select, delete or paste rows and type at
the place that results; one of two can do the first two of these with the reader's
cursor on, above or below, or with an edit of the reader in between; and the
reader can move, be seen there by the Author, and then edit, which takes it two
commands. A second `:sync`, from either side, can cut into any of them; a bound of
one packet under way lets a command be given before the last packets of the one
before it were applied. In
`event_loop` the indices wrap many times; the C code has 64 slots and at most nine
pushes in a turn (one key, two for the mouse, six packets in the 16 bytes
`serial_ih` reads), and the model leaves the ring no slot to spare. Three rows are
the fewest with a row above and below the cursor's, so that a comment state can
spread past it, stop, and a buffer be moved in both directions; the cache's arrays
start with two slots and have to grow. Four rows and a window of two put text
above, in and below the window of `repaint`. Packets of `serial` are longer than
both FIFOs together, so that each spans several interrupts, and three of them let
a damaged one be followed by two good ones. The listings of `panels` are shorter
than the window, just as long, and longer than it by more than its height, so that
the wheel can leave the cursor on either side. In `input` the damaged byte can
fall anywhere in a scancode of four bytes or a packet of four.

**Stopping.** `Collab` and `EventLoop` stop where the program does (all commands
given and packets applied; the loop left), and so does `Panels` when the user
quits. `Input` stops where the devices do: after a parity or timeout error the
byte is never read and the controller's buffer stays full. These runs do not look
for deadlock. `Editor`, `Recolouring` and `Repaint` never stop, and their runs
check that. `SerialLink` cannot deadlock by construction, as the receiver may
always write itself; that it does not starve is `Drains`.

**Fairness.** `EventLoop` has `WF_vars(Turn)`: once `driver_receive` has returned,
the program runs on until it waits again. It is one thread that nothing blocks in
between. Nothing makes a device interrupt or a user press a key, so `Receive` is
not fair. `SerialLink` is weakly fair in what cannot stop once it is possible: a
byte that is to be written (`serial_write_char` gives up after 100 attempts), a
byte on the line, an interrupt that is pending, and the two loops of the receiver.
A byte that waits below the trigger level interrupts by the UART's character
time-out, which the code accepts; without it `Drains` fails. Building a packet is
not fair. `Input` is weakly fair in `interrupts_handler` and strongly fair in each
device's byte entering the buffer: the controller holds a device back by its clock
line while the buffer is full and serves both when it is free, so a busy mouse
does not keep the keyboard out. Weak fairness would not say that, because the
buffer is full again and again. `Resyncs` assumes besides that the mouse goes on
reporting without moving.

### What was found

1. *An active selection may be empty* (`ActiveSelectionNonEmpty`).
   `editor_sel_is_active` returns the flag alone while `editor.h:167` promises a
   non-empty selection. A click leaves such a selection behind, since the release
   of the button queues no event, and the Backspace after it deletes the empty
   range.
2. *`:sync` does not place the remote cursor* (`SyncPlacesRemoteCursor`).
   `CMD_FILE_START` resets the receiver's cursor to row 0, and
   `editor_set_remote_cursor` ignores a position on that row. Sent from row 0, the
   last packet of `:sync` has no effect and the remote cursor stays at (-1, -1).
   The Author has no position of the other user either until that one moves: in
   the run `collab`, its first character typed before that sets `crashed` on the
   Author's side, with `misplaced`.
3. *An edit may be applied outside the text* (`RemoteCursorInText`). The Author
   joins rows onto the row of the reader's cursor; the new position is refused for
   the same reason; the old one now lies below the end of the text, and the next
   character is inserted there.
4. *A row drawn with the colours of a shorter one* (`OneColourPerCharacter`). A
   full repaint leaves the cache as it is when the number of rows is, and a buffer
   that is there is returned whatever its row holds now. After a character that
   scrolls the text sideways, a paste within a row or over as many rows, or a file
   of as many rows sent by the peer, the colours are those of the old row, and
   `draw_line_colored` (`scene.c:304`) reads beyond their end where the row is
   longer now; `highlight_cache.h:17` promises one colour for each character.
   `:open` and `:save` do empty the cache.

What the models have, but no property denies: a byte in error stops both input
devices (`keyboard.c:141`); the rows of a block replaced by the peer are shown
only after the next full repaint (`commands.c:563`); a start byte inside a
position that follows a lost byte may be taken for a start, which is why
`DamageIsLocal` is stated for payloads without one; a click on the highlighted
entry opens it even if it is the first (`filetree_commands.c:104`); tree rows
hidden under the status bar can be clicked (`scene.c:551`); a root directory that
could not be read is never read again (`filetree.c:146`).

Smaller disagreements between comments and code, met on the way: `events.h` says
`input_event_push` returns false on a full queue, while it drops the oldest event
and returns true; `load_finalize` is described as resetting cursor and scroll,
which `editor_init` does; `editor.h:227` calls the remote insertion one "without
updating the local cursor position", which moves along with its line;
`filetree.h:125` has `filetree_go_parent` return an error at the root, where it
returns OK.

## Proofs

| theorem | states |
|---|---|
| `SoundAlways` | `Spec => []Sound(ed)` for `Editor` |
| `EditorSafety` | `Spec => [](TypeOK /\ CursorInText /\ AnchorInText /\ ScrollInText)` |
| `EditsShowTheCursor` | `Spec => EditShowsCursor` for `Editor` |
| `EditsEndTheSelection` | `Spec => TextChangeEndsSelection` for `Editor` |
| `EditorImplementsTextBuffer` | `Spec => ImplementsTextBuffer`: each command does to the rows what `TextBuffer` does to the string |
| `TypeCorrect` | `Spec => []TypeOK` for `Collab` |
| `CursorKeepsLine` | `Spec => KeepsLine` for `Collab` |
| `ShortConverges` | `Spec /\ []Short => []Converged`: the packets turn one text into the other |
| `FollowedEditLands` | `Spec /\ []Short => FollowedEditInText` |
| `RingSafe` | `Spec => []TypeOK` for `EventLoop` |
| `QueueLossless` | `Spec => Lossless`: the ring implements `Fifo` |
| `NothingForgotten` | `Spec => [](TypeOK /\ StaleIsOwed /\ SelectionIsOwed)` for `Repaint` |
| `CacheTyped`, `SyncSafe`, `LineRepaintSound` | `Spec => []TypeOK`, `[]SyncOneOwner` and `LineRepaintRestores` for `Recolouring` |
| `RebuildIs` | what `highlight_cache_rebuild_from` does to each row |
| `SyncKeepsOwners` | `highlight_cache_sync` gives each buffer one owner and keeps none that it freed |
| `SerialTypes`, `SerialFaithful` | `Spec => []TypeOK` and `Spec => []Faithful` for `SerialLink` |
| `DamageStaysLocal` | `Spec => []DamageIsLocal`: one wrong packet for each damaged byte at most, however much is lost |
| `EncodeIs` | a waiting decoder makes of the bytes of a packet that packet |
| `InvAlways` | the inductive invariant of `Input` |
| `InputTypes`, `ModifiersFollow`, `PressesAreTyped`, `PacketsClick` | `Spec => []TypeOK`, `[]ModifiersFollowKeys`, `EachPressTyped` and `ClickPerPress` for `Input` |
| `PanelsSafe` | `Spec => [](TypeOK /\ CursorInList /\ FocusedIsVisible)` for `Panels` |
| `ArrowsShowCursor` | `Spec => ArrowShowsCursor` for `Panels` |

**Editor.** The theorems hold for every alphabet, set of files, set of viewports
and wheel steps, and texts of any length; assumed are the types of these
constants, that `Newline` is in no row, and that a viewport has at least one row
and column. The inductive invariant `Sound` conjoins the four run invariants: none
is inductive alone, since a motion needs the cursor in the text, a deletion needs
the anchor there as well, and `clamp_scroll` needs a cursor in the text to leave
the scroll offset in it. The argument goes along the code. `SpliceText`,
`DeleteRangeText` and `SliceText` say what the two text transformations and the
copy preserve; `WordBounds` bounds the word loops; `ClampAxisBounds` and
`CursorToSound` cover how nearly every function ends; then each function of
`editor.c` has a lemma that it keeps `Sound`, and `NextSound` has one case for
each command. The two step theorems rest on how a function
of `editor.c` ends: it returned early, or assigned the cursor and called
`clamp_scroll` in the text it had (`Moved`) or in another one (`Edited`), and
`CursorToShows` says that `clamp_scroll` then shows the cursor; `NextKept` again
has one case for each command. `Sound` provides the integers `clamp_scroll` needs.

**TextBuffer.** `EditorImplementsTextBuffer` needs one assumption more,
`NothingAssumption`: the value that stands for no mark and no clipboard is neither
a position nor a text. The invariant is `Sound` and that no peer holds a row, as
`editor_set_cursor` leaves a row the peer holds alone. The argument has four
layers.

* Rows and text. `Joined(A, B)` continues the last row of `A` by the first of `B`;
  `FlatJoined` says that the text of a join is the two texts put together, by
  induction on the rows of `B` and the recursion in `FlattenSeq`. A place `(r, c)`
  cuts the rows in two that join to the whole (`CutIs`), so its offset cuts the
  text (`TextCut`). `SpliceFlat`, `DeleteFlat` and `SliceFlat` write the three
  operations of `editor.c` on rows as joins of what is before, between and after:
  that they insert, remove and copy text follows without looking at a symbol.
* Lines. `RowStart` says where in the text a row lies and that a line break, or the
  end of the text, bounds it. `LineEnds`, `WordBack` and `WordOn` turn the maxima
  and minima by which `TextBuffer` says where a line or a word ends into the loops
  of `editor.c`; the lemmas `GoLeft` to `GoInRow` give each motion.
* The functions of `editor.c`, each with a lemma about what it does to text, point,
  mark and clipboard (`CharSeen`, `DeleteWordSeen`, `PasteSeen`, `UpSeen`, ...).
* The steps: `InsertStep` to `LoadStep` compose these for each command into an
  action of `TextBuffer`, and `NextMapped` has one case for each action of `Editor`.

**Collab.** Assumed are that there are two peers, one of them the Author, the types
of files and clipboards, and a viewport of at least one row and column; not the
bounds of the runs, so that commands given, packets under way and texts are
unlimited.

* `TypeCorrect` has a lemma for each function that an own command or a packet
  calls, about every editor that has a row and no negative cursor: unlike
  `EditorProofs` it cannot start from a cursor in the text, which a packet may
  leave outside. `Usable` provides that where an edit needs it. A transfer keeps
  `got < want`, as the last line ends it.
* `CursorKeepsLine` is an action property of that invariant. `Around` says what a
  block does to the rows beside it, and `TakenKeeps` goes through the packets: a
  cursor on none of the rows touched goes along with its line.
* `Short` says that each row has at most 250 characters and each text fewer than
  65535 rows. Without it `Converged` is false: `build_packet_serial` cuts a row at
  250 bytes in a block and at 252 in a transfer, so the peer is never told the
  rest, and the row -1 that a Ctrl-Backspace at the start of the text sends is
  taken for row 65535. It is a hypothesis about the behaviour and not about the
  constants, as any text grows with its typing.
* `After(k, t)` is what the packet `k` makes of text and transfer of the peer that
  takes it, and `Chain(w, t, u)` that the packets `w` take `t` to `u`, each relative
  edit among them finding its position in the text as it will be then. The
  inductive invariant `Agreement` says that one of the peers leads (`OneLeads`):
  all it has still to take are positions, and the packets to the other one are a
  chain from the follower's text to the leader's, from any text if a transfer
  starts them, else unless an edit was misplaced. `Converged` is that with no edit
  under way. Neither `Converged` nor the chain alone is inductive: a user may edit
  with packets under way, and it is the other peer's replica that the packets must
  fit, not the text of today.
* A command of the leader sends packets that go on from its old text to its new
  one (`TellsChain`), and a chain may be continued (`ChainJoin`): `BlockChain` fills
  the room a block made row by row, `ShareChain` does the same for a transfer with
  its empty row at the end. When the follower edits, `crossed` or the absence of an
  edit on its way to it says that the two texts are the same by then, and it becomes
  the leader (`FollowerTells`). `:sync` starts a chain that needs nothing of the
  text before it (`SyncFollows`). Taking a packet moves the chain's start by one
  (`ChainTail`). Two facts about the session complete the invariant: nothing is
  under way before it (`Idle`), and a transfer is not behind another packet, since
  `:sync` waits for an empty wire (`OneStart`).
* `FollowedEditLands` reads the chain: the edit at its head finds its position.

TLC checked `Agreement` on two of the instances before it was proved.

**EventLoop.** Assumed is `SizeAssumption`, that a turn pushes no more than the
ring holds, which the bounds of the UART FIFO justify. `Inv` adds to the type
invariant `Agree`, that `tail` is `count` slots after `head`, and `Room`, that in
each stage of a turn there is room for what the turn may still push: without it
the ring would drop. Under `Inv` a push appends to the sequence of waiting events
(`PushAppends`) and a pop takes its head (`PopTakes`); every other step is a
stutter of `Fifo`.

**Repaint.** The theorem holds for texts and windows of any positive size.
`StaleIsOwed` and `SelectionIsOwed` speak of the state between two turns; within a
turn what is missing may also be covered by the request that is pending. The
inductive invariant `Inv` says that: a stale line is torn, or a flag is set, or
the pending request is full, or it paints that very line (`StaleOwed`); a
selection painted wrongly has its flag set or a full request (`SelectionOwed`);
between turns nothing is pending; and the cursor is at most `MaxRows` below the
end of the text, where packets may leave it (`Within`). `MergedCovers` is the
heart: a merged request paints what each of its parts would have painted.
`AskedEx` says that `set_render_ex` consumes a flag only for a full request. Each
handler then has its lemma.

**Recolouring.** The theorems hold for texts and caches of any size; assumed are
the types of the constants and that no file has more rows than the bound. The
inductive invariant is the types, with the record of the cache: what makes the
theorems work is that each of its operations is total on every such record, so
that nothing has to be known of how a cache came to be. `SyncKeepsOwners` is about the two shifts
of `highlight_cache_sync` alone: for each slot it says where the pointer comes
from, and that no two slots have the same source. `RebuildIs` says what
`highlight_cache_rebuild_from` does to each row; `LineRepaintSound` follows, since
rows after the one that changed are the rows the states were computed from. The
comment states are a recursion over the rows, and the room of the doubled arrays
is a power of two: both are handled by `Induct`, induction over the *set* of the
numbers that have a property, which follows from the library's well-foundedness of
`<` on the naturals without an operator as a parameter.

**SerialLink.** Assumed are `SizeAssumption` and that requests are packets, of any
length, whose command is not the start byte: the commands of `serial.h` are 0x01 to
0x11, the start byte is 0xFE. Only `DamageStaysLocal` needs the last, as a decoder
that resynchronises on a command would read a second wrong packet. What the decoder
makes of the bytes under way is the recursive function `Decoding`; `End` is its last
value. `EndOfConcat` says that the bytes may be decoded in two parts, the second
from where the first left the decoder; hence a byte at the front is what
`serial_handle_byte` takes (`EndOfHead`), a byte at the end goes on from what came
before it (`EndOfNext`), and `EncodeIs` is an induction along the payload. The
inductive invariant `Clean` says that on an undamaged line nothing in the hardware
FIFO is bad, no overrun is pending, the decoder waits for a start byte after all
that is under way, and the packets delivered and to be delivered are those sent. The
second is needed: an overrun would make `serial_ih` drop a good byte; so is the
third, as a packet that is built must find the decoder waiting. Every action but two
leaves the concatenation of queue, FIFO, wire and sender as it is (`LineMoves`);
`Build` appends to it and `serial_handle_byte` takes its head. `Typed` strengthens
the types by one fact, that while a payload is read some of it is missing; without
it the buffer could overtake its length.

`DamageStaysLocal` holds for any amount of damage, at any bytes. `Clean` says
nothing once a byte is lost, so its invariant, `Explained`, is another one: there
is a finite set of `hurt` places in what was sent, no more of them than there is
damage, that explains all the rest.

* `Stream` says where in the requests each byte under way was: in order, with no
  place left out that is not hurt, and each byte as it was sent unless its place is
  hurt. A bad byte of the hardware FIFO is hurt already, which is why `serial_ih`
  drops it at no further cost, and why `WriteBack` may clear its mark.
* `Seen` says what the decoder makes of the bytes before: it waits for a start
  byte; or it has the bytes of one request so far (`Following`); or the packet it
  reads will be wrong and one hurt place is to blame for it and for no packet
  delivered before. `Local` is what `DamageIsLocal` says of the packets delivered.
* A lost or garbled byte hurts one more place, which is still to come, so that
  nothing changes in `Seen` (`Lose`, `Garble`); `Forgive` and `Built` are
  `WriteBack` and `Build`.
* When the decoder takes a byte (`Take`), no place may have been hurt since the
  last one: then it is the next byte of the same request, or the first of a later
  one (`NextPlace`). A decoder that waits starts only at the front of a request, as
  no other byte of one is a start byte (`NoStartInside`), and one that reads a wrong
  packet goes on or delivers it. Else one more place was hurt, which pays for the
  packet that the decoder reads from now on, whatever that is.

**Input.** Assumed is `InputAssumption`, about the sets of keys and the packet
length. The inductive invariant follows a code or packet from the device to the
decoder: what is still in the device, the byte in the controller's buffer and what
the decoder has of it are the three parts of one code (`WireOK`, `DecoderOK`), but
for the last byte of an earlier one, which may still be in the buffer when the
device begins the next. `Prompt` says which interrupts are pending, `ModsOK` what
the modifier flags are once that code is decoded, `PacketOK` and `ButtonOK` the
same for the mouse. `ModifiersFollow` reads `ModsOK` where nothing is under way;
the two action properties follow from where in the code the next byte falls.

**Panels.** Assumed are the types of the constants and that a listing is a
sequence of kinds. `TypeOK`, `CursorInList` and `FocusedIsVisible` are inductive
together; the tree's operations have one lemma each about `TreeOK`, the part of
the invariant they can disturb, and `ArrowsShowCursor` follows from the arithmetic
of the two motions once `scroll` is known to be the offset of an entry.

**Only model-checked.** The liveness properties `TurnEnds`, `QuitEnds`, `Drains`
and `Resyncs`, which need ENABLED and fairness. Every other property of a passing
run is a theorem. What `Collab` does to rows that a packet cuts is outside of what
`Short` allows, and outside of its instances.

## Not modelled

Glyphs and pixels, the syntax table, formatting of dates, file names and status
texts, and the exercises under `src/framework` that share its drivers are left
out, as they keep no state that the rest depends on. The headers under
`.minix-src` and the copies of the course's laboratories are not part of the
editor. In the modelled components: allocation failure and buffer capacities of
the text, what a save writes, the 4095-character pieces in which `fgets` reads a
long row (each becomes a row), and what an own edit does at a cursor, an anchor or
a row that `Usable` and `Filled` exclude. The rows of the
`collab` instances are far below the 250 and 252 bytes at which a packet cuts
them; the cut itself is modelled there and checked in `serial`. An edit at a
remote cursor outside the text, which `collab_cursor_bounds` shows to happen, is
left out of `Repaint` and `Recolouring`. Single characters on the screen, the
gutter and the pixels saved under the pointer are not; nor are colours, which are
whatever `syntax.c` makes of a row and the comment state before it. The clock and
the session timer, and the start-up with its failing steps, wait for later
modules.

## Plan

1. `Collab` with the buffers of rows, so that `Filled` becomes a property. Proof
   that a user's own cursor stays in its text while the other only moves.
2. `Lifecycle`: start-up, its failures, shutdown; which subscriptions and which
   video mode remain.
3. `EditorMemory`: `Splice` and `DeleteRange` against the rows, capacities and
   failing allocations of the C functions.
4. Clock and session time: the torn read of the clock registers, the wrap of the
   timer.
