------------------------------ MODULE TextBuffer ------------------------------
(***************************************************************************)
(* What an editor promises its user, without rows, viewport or buffers: a  *)
(* string of symbols, a point between two of them, possibly a mark that    *)
(* spans a selection with the point, and a clipboard.                      *)
(***************************************************************************)
EXTENDS Integers, Sequences, FiniteSetsExt

CONSTANTS Char, Space, Newline,
          Nothing   \* no mark, or no clipboard

VARIABLES text, point, mark, clip

vars == <<text, point, mark, clip>>

Symbol == Char \cup {Newline}

Init == text = << >> /\ point = 0 /\ mark = Nothing /\ clip = Nothing

-----------------------------------------------------------------------------
(* The selection, empty at the point when there is no mark.                *)

From == IF mark = Nothing THEN point ELSE Min({point, mark})
To   == IF mark = Nothing THEN point ELSE Max({point, mark})

\* The symbols between positions i and j replaced by s.
Replace(i, j, s) ==
  /\ text'  = SubSeq(text, 1, i) \o s \o SubSeq(text, j + 1, Len(text))
  /\ point' = i + Len(s)
  /\ mark'  = Nothing

-----------------------------------------------------------------------------
(* Positions a motion reaches.                                             *)

LineStart(p) == Max({0} \cup {i \in 1 .. p : text[i] = Newline})
LineEnd(p)   == Min({Len(text)} \cup {i \in p .. Len(text) - 1 : text[i + 1] = Newline})

\* The nearest position not after p, on p's line, that has no word symbol
\* before it and only one word and then spaces between it and p.
WordBefore(p) ==
  LET last == Max({LineStart(p)} \cup {i \in LineStart(p) + 1 .. p : text[i] # Space})
  IN  Max({LineStart(p)} \cup {i \in LineStart(p) + 1 .. last : text[i] = Space})

\* The start of the next word of p's line, or the end of the line.
WordAfter(p) ==
  Min({LineEnd(p)} \cup
      {i \in p .. LineEnd(p) - 1 :
         /\ text[i + 1] # Space
         /\ \E k \in p + 1 .. i : text[k] = Space})

Left(p)  == Max({0, p - 1})
Right(p) == Min({Len(text), p + 1})

Up(p) ==
  IF LineStart(p) = 0 THEN p
  ELSE LET above == LineStart(p) - 1
       IN  Min({above, LineStart(above) + p - LineStart(p)})

Down(p) ==
  IF LineEnd(p) = Len(text) THEN p
  ELSE LET below == LineEnd(p) + 1
       IN  Min({LineEnd(below), below + p - LineStart(p)})

Motions(p) == {Left(p), Right(p), Up(p), Down(p), LineStart(p), LineEnd(p),
               WordBefore(p), WordAfter(p)}

-----------------------------------------------------------------------------
(* What the user can do.                                                   *)

Insert == \E c \in Symbol : Replace(From, To, <<c>>) /\ UNCHANGED clip

EraseSelection == mark # Nothing /\ Replace(From, To, << >>) /\ UNCHANGED clip

EraseSymbol ==
  /\ mark = Nothing
  /\ Replace(Left(point), point, << >>)
  /\ UNCHANGED clip

\* A word, or the line break when the point is at the start of a line.
EraseWord ==
  /\ mark = Nothing
  /\ Replace(IF point = LineStart(point) THEN Left(point) ELSE WordBefore(point),
             point, << >>)
  /\ UNCHANGED clip

\* A motion, dropping the mark, or keeping or setting it with shift.
Move ==
  /\ point' \in Motions(point)
  /\ mark' \in {Nothing, IF mark = Nothing THEN point ELSE mark}
  /\ UNCHANGED <<text, clip>>

\* A click puts point and mark anywhere, a drag takes the point along.
Point ==
  /\ point' \in 0 .. Len(text)
  /\ mark' \in {point', mark}
  /\ UNCHANGED <<text, clip>>

Unselect == mark' = Nothing /\ UNCHANGED <<text, point, clip>>

Copied == SubSeq(text, From + 1, To)

CopySelection ==
  /\ mark # Nothing
  /\ clip' = Copied
  /\ UNCHANGED <<text, point, mark>>

CutSelection ==
  /\ mark # Nothing
  /\ clip' = Copied
  /\ Replace(From, To, << >>)

Insertion == IF clip = Nothing THEN << >> ELSE clip

PasteClip == Replace(From, To, Insertion) /\ UNCHANGED clip

\* Another file: the clipboard does not survive it.
Load ==
  /\ text' \in Seq(Symbol)
  /\ point' = 0 /\ mark' = Nothing /\ clip' = Nothing

Next ==
  \/ Insert \/ EraseSelection \/ EraseSymbol \/ EraseWord
  \/ Move \/ Point \/ Unselect
  \/ CopySelection \/ CutSelection \/ PasteClip
  \/ Load

Spec == Init /\ [][Next]_vars
=============================================================================
