---------------------------- MODULE CellString ----------------------------
(* A row of the screen, addressed by column (src/screen/cell_string.rs).   *)
(* A slot is what one cell of the terminal shows, a base character and the *)
(* marks that ride on it, with the columns it spills into; a row is the    *)
(* sequence of its slots.  Rows are made of texts and of the cells of a    *)
(* terminal grid, and read by column; the rendered text is only for output.*)
EXTENDS Naturals, Sequences, SequencesExt

\* A character: narrow, wide, a combining mark, a blank.
Glyphs == {"a", "wide", "mark", " "}
WidthOf == [a |-> 1, wide |-> 2, mark |-> 0] @@ (" " :> 1)
BytesOf == [a |-> 1, wide |-> 3, mark |-> 2] @@ (" " :> 1)

\* display_width.
DisplayWidth(text) == FoldLeft(LAMBDA n, ch : n + WidthOf[ch], 0, text)

\* CellSlot::width.
Wide(slot) == 1 + slot.more
Ends(slot) == slot.col + Wide(slot)

-----------------------------------------------------------------------------
(* Making a row.                                                           *)

Flush(s) ==
  IF s.group = <<>> THEN s
  ELSE LET slot == [col |-> s.at, text |-> s.group, more |-> DisplayWidth(s.group) - 1] IN
       [slots |-> Append(s.slots, slot), group |-> <<>>, at |-> Ends(slot)]

\* from_text: a mark rides on the character before it; one that comes first is
\* dropped.
FromText(text) ==
  LET step(s, ch) ==
        IF WidthOf[ch] = 0
        THEN IF s.group = <<>> THEN s ELSE [s EXCEPT !.group = Append(@, ch)]
        ELSE [Flush(s) EXCEPT !.group = <<ch>>]
      end == Flush(FoldLeft(step, [slots |-> <<>>, group |-> <<>>, at |-> 0], text)) IN
  [slots |-> end.slots, cols |-> end.at]

\* from_cells: an empty cell behind a wide one is its second half, any other
\* is a blank; a slot never claims a column beyond the row.
FromCells(cells, cols) ==
  LET spilled(slots, x) ==
        slots # <<>> /\ Last(slots).more > 0 /\ Ends(Last(slots)) - 1 = x
      room(x) == cols - x - 1
      more(cell) ==
        LET w == IF DisplayWidth(cell.text) = 0 THEN 0 ELSE DisplayWidth(cell.text) - 1 IN
        IF w < room(cell.x) THEN w ELSE room(cell.x)
      step(slots, cell) ==
        IF cell.x >= cols \/ (cell.text = <<>> /\ spilled(slots, cell.x)) THEN slots
        ELSE Append(slots, [col |-> cell.x, text |-> cell.text,
                            more |-> IF cell.text = <<>> THEN 0 ELSE more(cell)]) IN
  [slots |-> FoldLeft(step, <<>>, cells), cols |-> cols]

-----------------------------------------------------------------------------
(* Reading a row.                                                          *)

Blanks(n) == [k \in 1 .. n |-> " "]

\* render: gaps and empty cells are blank, and a wide character is followed by
\* a blank for its second column.
Render(row) ==
  LET step(s, slot) ==
        LET gap == IF s.col < slot.col THEN slot.col - s.col ELSE 0 IN
        [col |-> s.col + gap + (IF slot.text = <<>> THEN 1 ELSE Wide(slot)),
         out |-> s.out \o Blanks(gap) \o
                   (IF slot.text = <<>> THEN Blanks(1) ELSE slot.text \o Blanks(slot.more))] IN
  FoldLeft(step, [col |-> 0, out |-> <<>>], row.slots).out

\* char_at: what starts at a column; a gap between slots reads as a blank.
CharAt(row, c) ==
  LET at == {n \in DOMAIN row.slots : row.slots[n].col = c}
      before == {n \in DOMAIN row.slots : row.slots[n].col < c}
      behind == {n \in DOMAIN row.slots : row.slots[n].col > c} IN
  IF at # {} THEN <<row.slots[CHOOSE n \in at : TRUE].text>>
  ELSE IF before # {} /\ behind # {} /\ \A n \in before : Ends(row.slots[n]) <= c
  THEN << <<" ">> >> ELSE <<>>

\* glyph_at: the slot that owns a column.
GlyphAt(row, c) ==
  LET owners == {n \in DOMAIN row.slots : row.slots[n].col <= c /\ c < Ends(row.slots[n])} IN
  IF owners = {} THEN <<>>
  ELSE <<row.slots[CHOOSE n \in owners : \A m \in owners : n <= m]>>

\* slice_cells: what starts within the columns, and a blank for each column
\* that a wide character of before still covers.
SliceCells(row, from, w) ==
  LET piece(c) ==
        LET owner == GlyphAt(row, c) IN
        IF owner = <<>> \/ owner[1].col < from THEN <<" ">>
        ELSE IF owner[1].col = c THEN owner[1].text ELSE <<>> IN
  FlattenSeq([n \in 1 .. w |-> piece(from + n - 1)])

\* byte_to_cell: how many characters of the rendered text come before the one
\* that holds the byte.
ByteToCell(row, offset) ==
  LET out == Render(row)
      bytes[n \in 0 .. Len(out)] == IF n = 0 THEN 0 ELSE bytes[n - 1] + BytesOf[out[n]]
      holds == {n \in DOMAIN out : bytes[n - 1] <= offset /\ offset < bytes[n]} IN
  IF holds = {} THEN <<>> ELSE <<(CHOOSE n \in holds : TRUE) - 1>>

-----------------------------------------------------------------------------
(* Properties.                                                             *)

\* The cells of the terminal grid that shows a row, with a blank one behind.
Grid(row) ==
  [n \in 1 .. row.cols + 1 |->
     [x |-> n - 1, text |-> LET start == {s \in Range(row.slots) : s.col = n - 1} IN
                            IF start = {} THEN <<>> ELSE (CHOOSE s \in start : TRUE).text]]
Shown(text) == SelectSeq(text, LAMBDA ch : ch # " ")

\* Rows of the two origins are the same row, each column has one owner, a
\* column where a slot starts is read back, and a row that is cut between any
\* two columns shows each character once (cell_string.rs: "slots are kept dense
\* in column order with no gaps"; slice_cells).
RowsAddressed(text) ==
  LET row == FromText(text)
      grid == FromCells(Grid(row), row.cols + 1) IN
  /\ \A n \in DOMAIN row.slots : grid.slots[n] = row.slots[n]
  /\ Len(grid.slots) = Len(row.slots) + 1
  /\ \A c \in 0 .. row.cols :
       /\ \E n \in DOMAIN grid.slots : \A m \in DOMAIN grid.slots :
            (grid.slots[m].col <= c /\ c < Ends(grid.slots[m])) <=> m = n
       /\ CharAt(grid, c) = IF GlyphAt(grid, c)[1].col = c
                            THEN <<GlyphAt(grid, c)[1].text>> ELSE <<>>
  /\ \A c \in 0 .. row.cols :
       Shown(SliceCells(row, 0, c)) \o Shown(SliceCells(row, c, row.cols - c))
         = Shown(FlattenSeq([n \in DOMAIN row.slots |-> row.slots[n].text]))

\* The byte at which a slot begins in the rendered text of its row.
Offset(row, n) ==
  FoldLeft(LAMBDA b, ch : b + BytesOf[ch], 0, Render([row EXCEPT !.slots = SubSeq(@, 1, n - 1)]))

\* Without marks the rendered text has one character for each column, and the
\* offset of a character leads back to the column it starts in (byte_to_cell).
RenderIsColumns(text) ==
  (\A n \in DOMAIN text : text[n] # "mark") =>
    LET row == FromText(text) IN
    /\ Len(Render(row)) = row.cols
    /\ \A n \in DOMAIN row.slots : ByteToCell(row, Offset(row, n)) = <<row.slots[n].col>>

-----------------------------------------------------------------------------
(* Statements of the repository that the code does not keep; no run checks *)
(* them.                                                                   *)

\* byte_to_cell says that the rendered text has one character for each column.
\* A mark is a character of its own there, and shifts what comes behind it.
OffsetsAreColumns(text) ==
  LET row == FromText(text) IN
  \A n \in DOMAIN row.slots : ByteToCell(row, Offset(row, n)) = <<row.slots[n].col>>
=============================================================================
