------------------------------ MODULE Recolouring ------------------------------
(***************************************************************************)
(* The cache of row colours at work: the handlers of commands.c change the *)
(* rows and ask for a repaint, and the render pipeline of scene.c tells    *)
(* the cache what happened and takes colours from it.                      *)
(*                                                                         *)
(* A turn of the main loop dispatches at most one key, which comes first,  *)
(* then packets and the mouse, and ends with a frame.  The window shows    *)
(* the whole text and columns are left out: an edit says how the length of *)
(* a row changes.  The language stays C.  What is drawn is Repaint's.      *)
(***************************************************************************)
EXTENDS HighlightCache, RenderState

CONSTANTS Files,       \* texts a file may have
          Pasted,      \* rows that may take the place of a selection
          MaxRows      \* bound on the rows of the text

ASSUME RowsAssumption == /\ MaxRows \in Nat \ {0}
                         /\ Files \cup Pasted \subseteq Seq(Text) \ {<< >>}
                         /\ \A file \in Files : Len(file) <= MaxRows

VARIABLES rows,        \* the text
          crow,        \* the cursor's row
          pending,     \* render_mode
          prow,        \* prev_row
          h            \* the cache

vars == <<rows, crow, pending, prow, h>>

Rows == UNION {[1 .. n -> Text] : n \in 1 .. MaxRows}
InText(r) == r \in 0 .. Len(rows) - 1
RowAt(r) == IF InText(r) THEN rows[r + 1] ELSE Blank

Init ==
  /\ rows = <<Blank>> /\ crow = 0
  /\ pending = FULL           \* scene_init asks for the first frame
  /\ prow = 0
  /\ h = highlight_cache_set_language(Empty, rows, TRUE)

-----------------------------------------------------------------------------
(* Edits.  Every handler of a key asks for a repaint, so a pending request *)
(* says that the turn has dispatched something.                            *)

\* Rows sr .. er become the rows new.
Replaced(sr, er, new) == SubSeq(rows, 1, sr) \o new \o SubSeq(rows, er + 2, Len(rows))

\* A packet may have left the cursor outside the text; no key is taken then.
Key == pending = NONE /\ InText(crow) /\ UNCHANGED <<prow, h>>

Asks(modes) == \E m \in modes : pending' = Merged(pending, m)

\* Row r becomes a text that is n characters longer or shorter.
Resize(r, lengths) ==
  \E t \in Text : Length[t] \in lengths /\ rows' = [rows EXCEPT ![r + 1] = t]

Split(r) ==
  /\ Len(rows) < MaxRows
  /\ \E t, u \in Text : /\ Length[t] + Length[u] = Length[RowAt(r)]
                        /\ rows' = Replaced(r, r, <<t, u>>)

Join(r) ==
  \E t \in Text : /\ Length[t] = Length[RowAt(r)] + Length[RowAt(r + 1)]
                  /\ rows' = Replaced(r, r + 1, <<t>>)

TypeChar == Key /\ Resize(crow, {Length[RowAt(crow)] + 1}) /\ UNCHANGED crow
                /\ Asks(Widened(LINE))

\* A character or a word of the row.
EraseInRow == Key /\ Resize(crow, 0 .. Length[RowAt(crow)] - 1) /\ UNCHANGED crow
                  /\ Asks(Widened(LINE))

Enter == Key /\ Split(crow) /\ crow' = crow + 1 /\ Asks({FULL})

\* Backspace at the start of a row.
JoinUp == Key /\ crow > 0 /\ Join(crow - 1) /\ crow' = crow - 1 /\ Asks({FULL})

\* The rows that a selection spans become one or more.
Replaces(news) ==
  \E sr \in 0 .. crow, er \in crow .. Len(rows) - 1, new \in news :
    /\ Len(rows) - (er - sr + 1) + Len(new) <= MaxRows
    /\ rows' = Replaced(sr, er, new)
    /\ crow' = sr + Len(new) - 1

\* Deleting, cutting, typing over or pasting over a selection, or pasting at
\* the cursor.
ReplaceSelection == Key /\ Replaces(Pasted) /\ Asks({FULL})

\* Without a clipboard a paste deletes the selection and shows the status only.
PasteNothing == Key /\ Replaces({<<t>> : t \in Text}) /\ Asks({STATUS})

Arrow ==
  /\ Key
  /\ crow' \in {r \in crow - 1 .. crow + 1 : InText(r)}
  /\ Asks(Widened(CHAR))
  /\ UNCHANGED rows

\* Another file; both this and a save detect the language.
OpenFile ==
  /\ pending = NONE
  /\ rows' \in Files /\ crow' = 0
  /\ h' = highlight_cache_set_language(h, rows', TRUE)
  /\ Asks({FULL})
  /\ UNCHANGED prow

Save ==
  /\ pending = NONE
  /\ h' = highlight_cache_set_language(h, rows, TRUE)
  /\ Asks({FULL})
  /\ UNCHANGED <<rows, crow, prow>>

\* Every press, drag or wheel step passes through filetree_commands_mouse,
\* which asks for a full repaint.
Mouse ==
  /\ crow' \in {crow} \cup 0 .. Len(rows) - 1
  /\ Asks({FULL})
  /\ UNCHANGED <<rows, prow, h>>

\* The pointer, the clock and the command bar repaint no text.
Elsewhere == Asks({MOUSE, STATUS}) /\ UNCHANGED <<rows, crow, prow, h>>

-----------------------------------------------------------------------------
(* Packets.  The peer's cursor may be on any row.                          *)

Packet == UNCHANGED <<prow, h>>

\* Fault: the cursor moves along wherever it is.
FaultyBelow(r, n) == crow' = crow + n

Below(r, n) == crow' = IF crow > r THEN crow + n ELSE crow

RemoteEdit ==
  /\ Packet
  /\ \E r \in 0 .. Len(rows) - 1 :
       Resize(r, {Length[RowAt(r)] - 1, Length[RowAt(r)] + 1})
  /\ Asks(Widened(REMOTE_LINE))
  /\ UNCHANGED crow

RemoteSplit ==
  /\ Packet
  /\ \E r \in 0 .. Len(rows) - 1 : Split(r) /\ Below(r, 1)
  /\ Asks(Widened(REMOTE_LINE))

RemoteJoin ==
  /\ Packet
  /\ \E r \in 1 .. Len(rows) - 1 : Join(r - 1) /\ Below(r, -1)
  /\ Asks({FULL})

\* Asks for nothing: "new lines will arrive later".
ReplaceBlock ==
  /\ Packet
  /\ \E start \in 0 .. Len(rows) - 1, inserted \in 1 .. MaxRows :
     \E deleted \in 1 .. Len(rows) - start :
       /\ Len(rows) - deleted + inserted <= MaxRows
       /\ rows' = Replaced(start, start + deleted - 1, [i \in 1 .. inserted |-> Blank])
       /\ Below(start + deleted - 1, inserted - deleted)
  /\ UNCHANGED pending

UpdateLine ==
  /\ Packet
  /\ \E r \in 0 .. Len(rows) - 1, t \in Text : rows' = [rows EXCEPT ![r + 1] = t]
  /\ Asks({FULL})
  /\ UNCHANGED crow

\* A transfer starts from an empty text.
FileStart == Packet /\ rows' = <<Blank>> /\ crow' = 0 /\ Asks({FULL})

\* A line goes to the last row and leaves an empty one after it, which the
\* last line's finalize drops.  Only the last line asks for a repaint.
FileLine ==
  /\ Packet
  /\ LET kept == SubSeq(rows, 1, Len(rows) - 1)
     IN  \E t \in Text :
           \/ Len(rows) < MaxRows /\ rows' = kept \o <<t, Blank>> /\ UNCHANGED pending
           \/ rows' = kept \o <<t>> /\ Asks({FULL})
  /\ UNCHANGED crow

-----------------------------------------------------------------------------
(* The render pipeline, at the end of a turn that asked for something.     *)

Drawn == {r \in 0 .. Len(rows) - 1 : RowAt(r) # Blank}

PaintFull == h' = highlight_cache_get_lines(
                    highlight_cache_sync(h, Len(rows), crow), rows, Drawn)

\* Rebuilding has coloured the row that is then drawn.
PaintLine == h' = highlight_cache_rebuild_from(highlight_cache_free_row(h, crow),
                                               rows, crow, TRUE)

\* The character that was under the cursor.
PaintChar == h' = highlight_cache_rebuild_from(h, rows, prow, TRUE)

\* The peer's line is drawn without colours.
PaintOther == UNCHANGED h

Frame ==
  /\ pending # NONE /\ pending' = NONE
  /\ \/ pending = FULL /\ PaintFull
     \/ pending = LINE /\ PaintLine
     \/ pending = CHAR /\ PaintChar
     \/ pending \in {MOUSE, STATUS, REMOTE_LINE} /\ PaintOther
  /\ prow' = IF pending \in {MOUSE, STATUS} THEN prow ELSE crow
  /\ UNCHANGED <<rows, crow>>

Local == \/ TypeChar \/ EraseInRow \/ Enter \/ JoinUp \/ ReplaceSelection
         \/ PasteNothing \/ Arrow \/ OpenFile \/ Save \/ Mouse \/ Elsewhere
Peer  == \/ RemoteEdit \/ RemoteSplit \/ RemoteJoin \/ ReplaceBlock \/ UpdateLine
         \/ FileStart \/ FileLine

Next == Local \/ Peer \/ Frame

Spec == Init /\ [][Next]_vars

-----------------------------------------------------------------------------
(* Properties                                                              *)

TypeOK ==
  /\ rows \in Rows /\ crow \in Nat /\ prow \in Nat
  /\ pending \in Modes
  /\ h.slots \in Seq(Buffer \cup {None})
  /\ h.open \in Seq(BOOLEAN)
  /\ h.last \in 0 .. MaxRows

\* The next shift of the cache gives each buffer at most one owner: one that is
\* freed is in no slot and another one in at most one, so that none is freed twice
\* or used after it was freed (highlight_cache_sync).
SyncOneOwner ==
  LET new == Len(rows)
      g   == line_colors_cache_grow(h, new)
  IN  Inserts(h, new, crow) \/ Removes(h, new, crow) =>
        OneOwner(SyncSource(g, new, crow), Len(g.slots), SyncFreed(h, new, crow))

SlotAt(g, r) == IF r < Len(g.slots) THEN g.slots[r + 1] ELSE None
OpenAt(g, r) == r < Len(g.open) /\ g.open[r + 1]

\* Row r's comment state follows from the row above it, and its colours, if it
\* has any, are those of its text in that state.
StateFollows(g, r) == OpenAt(g, r) = (r > 0 /\ OpenAfter(rows[r], OpenAt(g, r - 1), TRUE))

ColoursRight(g, r) ==
  LET b == SlotAt(g, r)
  IN  RowAt(r) = Blank \/ b = None \/ (b.of = RowAt(r) /\ b.in = OpenAt(g, r))

\* "Re-calculates from row to propagate block-comment state changes, stopping
\* once the state stabilizes" (highlight_cache.h:45): when only the cursor's row
\* changed since the cache was right, repainting it makes all of it right again.
LineRepaintRestores ==
  [][ /\ pending = LINE /\ pending' = NONE /\ InText(crow)
      /\ \A r \in 0 .. Len(rows) - 1 :
           /\ r # crow + 1 => StateFollows(h, r)
           /\ r # crow => ColoursRight(h, r)
      => \A r \in 0 .. Len(rows) - 1 :
           StateFollows(h', r) /\ ColoursRight(h', r)]_vars

\* "One uint32_t per character" (highlight_cache.h:17): what a full repaint
\* draws a row with is at least as long as the row.
OneColourPerCharacter ==
  [][ pending = FULL /\ pending' = NONE
      => \A r \in Drawn : SlotAt(h', r).cap >= Length[RowAt(r)]]_vars
=============================================================================
