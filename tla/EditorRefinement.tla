--------------------------- MODULE EditorRefinement ---------------------------
(***************************************************************************)
(* The rows, row/column cursor and row-cut clipboard of Editor implement   *)
(* the string, point, mark and clipboard of TextBuffer.                    *)
(***************************************************************************)
EXTENDS Editor, SequencesExt

CONSTANT Nothing   \* of TextBuffer: neither a position nor a text

ASSUME NothingAssumption ==
  Nothing \notin Nat /\ Nothing \notin Seq(Char \cup {Newline})

\* Rows joined by '\n': the text execute_save writes, but for its last newline.
Flat(rows) ==
  FlattenSeq([i \in DOMAIN rows |-> IF i = 1 THEN rows[1] ELSE <<Newline>> \o rows[i]])

\* How many symbols come before column c of row r.
Offset(rows, r, c) ==
  Len(Flat(Append(SubSeq(rows, 1, r), SubSeq(rows[r + 1], 1, c))))

Buffer == INSTANCE TextBuffer WITH
            text  <- Flat(ed.lines),
            point <- Offset(ed.lines, ed.crow, ed.ccol),
            mark  <- IF ed.sel THEN Offset(ed.lines, ed.arow, ed.acol) ELSE Nothing,
            clip  <- IF ed.clip = NoClip THEN Nothing ELSE Flat(ed.clip)

\* Every command has on the rows the effect the user is promised on the text:
\* columns past the end of a row, joins and splits at row ends, selections over
\* several rows in either direction and multi-row pastes included.
ImplementsTextBuffer == Buffer!Spec
=============================================================================
