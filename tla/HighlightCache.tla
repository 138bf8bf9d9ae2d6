---------------------------- MODULE HighlightCache ----------------------------
(***************************************************************************)
(* The cache of row colours, src/proj/code/view/editor/highlight_cache.c,  *)
(* as operators on a record h that holds the file-scope statics:           *)
(*                                                                         *)
(*   slots   line_colors_cache and line_colors_cache_cap; the C index r is *)
(*           slots[r+1], and the length is line_colors_cache_count         *)
(*   open    block_comment_open; open[r+1] says whether row r starts       *)
(*           inside a block comment                                        *)
(*   last    line_colors_last_row_count                                    *)
(*                                                                         *)
(* The text is a sequence of members of Text, of which only the length and *)
(* the effect on a block comment matter.  A colour buffer is the room it   *)
(* has and what it was coloured from.  Allocation succeeds.                *)
(***************************************************************************)
EXTENDS Integers, Sequences, FiniteSets, FiniteSetsExt

CONSTANTS Text, Blank,       \* the contents a row may have; the empty one
          Length,            \* Length[t]: the characters of t
          After,             \* After[t][b]: a comment open after t, b before it
          FirstSlots         \* what the two arrays start from (64 in the code)

ASSUME TextAssumption ==
  /\ Blank \in Text
  /\ Length \in [Text -> Nat]
  /\ After \in [Text -> [BOOLEAN -> BOOLEAN]]
  /\ \A t \in Text : Length[t] = 0 <=> t = Blank
  /\ \A b \in BOOLEAN : After[Blank][b] = b

ASSUME FirstSlotsAssumption == FirstSlots \in Nat \ {0}

None == [cap |-> 0, of |-> Blank, in |-> FALSE]       \* a NULL buffer

Buffer == [cap : Nat \ {0}, of : Text, in : BOOLEAN]

Empty == [slots |-> << >>, open |-> << >>, last |-> 0]

\* A comment open after text t; only C is parsed.
OpenAfter(t, b, isC) == IF isC THEN After[t][b] ELSE b

-----------------------------------------------------------------------------
(* Room.  An array that is too short is doubled until it is long enough.   *)

Room(have, needed) ==
  IF have >= needed THEN have
  ELSE LET first == IF have = 0 THEN FirstSlots ELSE 2 * have
       IN  first * Min({2 ^ k : k \in {k \in 0 .. needed : first * 2 ^ k >= needed}})

Grown(s, needed, new) ==
  [i \in 1 .. Room(Len(s), needed) |-> IF i <= Len(s) THEN s[i] ELSE new]

line_colors_cache_grow(h, needed) == [h EXCEPT !.slots = Grown(@, needed, None)]

block_comment_open_grow(h, needed) == [h EXCEPT !.open = Grown(@, needed, FALSE)]

highlight_cache_free_row(h, row) ==
  [h EXCEPT !.slots = [i \in 1 .. Len(@) |-> IF i = row + 1 THEN None ELSE @[i]]]

line_colors_cache_invalidate_all(h) ==
  [h EXCEPT !.slots = [i \in 1 .. Len(@) |-> None], !.last = 0]

\* Buffer b coloured from t: enlarged when it is too small, else reused.
Recoloured(b, t, in) ==
  IF Length[t] = 0 THEN b
  ELSE [cap |-> IF b.cap < Length[t] THEN Length[t] ELSE b.cap, of |-> t, in |-> in]

-----------------------------------------------------------------------------
(* highlight_cache_sync: follow a row that was inserted or removed.        *)

\* Where the buffer of each slot comes from, -1 for a slot that becomes NULL.
\* The copy to the right leaves slot split + 1 behind, which is then cleared.
InsertSource(n, old, split) ==
  [i \in 1 .. n |->
     IF i \in {split + 1, split + 2} THEN -1
     ELSE IF i \in split + 3 .. old + 1 THEN i - 1
     ELSE i]

\* Fault: the last slot keeps the pointer that was copied down.
FaultyRemoveSource(n, old, merge) ==
  [i \in 1 .. n |->
     IF i = merge + 1 THEN -1
     ELSE IF i \in merge + 2 .. old - 1 THEN i + 1
     ELSE IF i = merge + 2 THEN -1
     ELSE i]

\* The copy to the left leaves the last slot behind, which is then cleared.
RemoveSource(n, old, merge) ==
  [i \in 1 .. n |->
     IF i = merge + 1 THEN -1
     ELSE IF i \in merge + 2 .. old - 1 THEN i + 1
     ELSE IF i = merge + 2 \/ i = old THEN -1
     ELSE i]

Inserts(h, new, row) == h.last > 0 /\ new = h.last + 1 /\ row > 0
Removes(h, new, row) == h.last > 0 /\ new = h.last - 1 /\ row < Min({h.last, Len(h.slots)})

SyncSource(h, new, row) ==
  IF Inserts(h, new, row) THEN InsertSource(Len(h.slots), h.last, row - 1)
  ELSE RemoveSource(Len(h.slots), Min({h.last, Len(h.slots)}), row)

\* The slots that are freed before they are overwritten or cleared.
SyncFreed(h, new, row) ==
  IF Inserts(h, new, row) THEN {row} ELSE {row + 1, row + 2}

\* No two of n slots take the same buffer, and none takes one that was freed.
OneOwner(source, n, freed) ==
  \A j \in 1 .. n :
    source[j] # -1 => /\ source[j] \notin freed
                      /\ \A k \in 1 .. n : source[k] = source[j] => k = j

Moved(s, source) == [i \in 1 .. Len(s) |-> IF source[i] = -1 THEN None ELSE s[source[i]]]

highlight_cache_sync(h, new, row) ==
  LET g == IF Inserts(h, new, row) THEN line_colors_cache_grow(h, new) ELSE h
  IN  IF new = h.last THEN h
      ELSE IF Inserts(h, new, row) \/ Removes(h, new, row)
      THEN [g EXCEPT !.slots = Moved(@, SyncSource(g, new, row)), !.last = new]
      ELSE IF h.last = 0 \/ new \in {h.last - 1, h.last + 1}
      THEN [h EXCEPT !.last = new]
      ELSE [line_colors_cache_invalidate_all(h) EXCEPT !.last = new]

-----------------------------------------------------------------------------
(* Colouring.                                                              *)

\* highlight_cache_get_line for each of the rows wanted, none of them blank: a
\* buffer already there is returned whatever the row holds now.
highlight_cache_get_lines(h, rows, wanted) ==
  LET s == Grown(h.slots, Max({0} \cup {r + 1 : r \in wanted}), None)
      open(r) == r < Len(h.open) /\ h.open[r + 1]
  IN  [h EXCEPT !.slots =
         [i \in 1 .. Len(s) |->
            IF i - 1 \in wanted /\ s[i] = None
            THEN Recoloured(None, rows[i], open(i - 1)) ELSE s[i]]]

\* The comment state before each row from row `from` on, and after the last.
States(rows, from, start, isC) ==
  LET st[r \in from .. Len(rows)] ==
        IF r = from THEN start ELSE OpenAfter(rows[r], st[r - 1], isC)
  IN  st

\* Fault: the state before the row is compared, not the one after it.
FaultyLastRescanned(open, st, row, total) ==
  Min({total - 1} \cup {r \in row .. total - 1 : open[r + 1] = st[r]})

\* The first row after which the state is what it was, or the last row.
LastRescanned(open, st, row, total) ==
  Min({total - 1} \cup {r \in row .. total - 1 : open[r + 2] = st[r + 1]})

highlight_cache_rebuild_from(h, rows, row, isC) ==
  LET total == Len(rows)
      g     == block_comment_open_grow(h, total + 1)
      st    == States(rows, row, g.open[row + 1], isC)
      stop  == LastRescanned(g.open, st, row, total)
      \* the row after the last is freed too when its state changes
      freed == IF st[stop + 1] = g.open[stop + 2] THEN row + 1 .. stop
               ELSE row + 1 .. stop + 1
      longest == Max({0} \cup {r + 1 : r \in {r \in row .. stop : Length[rows[r + 1]] > 0}})
      s     == line_colors_cache_grow(g, longest).slots
  IN  IF row >= total THEN h
      ELSE [g EXCEPT
              !.open  = [i \in 1 .. Len(@) |-> IF i \in row + 2 .. stop + 2 THEN st[i - 1]
                                               ELSE @[i]],
              !.slots = [i \in 1 .. Len(s) |->
                           LET b == IF i - 1 \in freed THEN None ELSE s[i]
                           IN  IF i - 1 \in row .. stop
                               THEN Recoloured(b, rows[i], st[i - 1])
                               ELSE b]]

highlight_cache_set_language(h, rows, isC) ==
  LET total == Len(rows)
      g  == block_comment_open_grow(line_colors_cache_invalidate_all(h), total + 1)
      st == States(rows, 0, FALSE, isC)
  IN  [g EXCEPT !.open = [i \in 1 .. Len(@) |-> IF i <= total THEN st[i - 1] ELSE @[i]]]
=============================================================================
