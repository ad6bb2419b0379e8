------------------------------- MODULE Tables -------------------------------
(***************************************************************************)
(* parsing/tables.py, borders.py and textboxes.py: the blocks of Markdown  *)
(* that paragraphs, boxes and tables of a Word document become.            *)
(*                                                                         *)
(* A paragraph's text is known by where it stands: at <<n, k>> is the k-th *)
(* paragraph of the n-th element of the body, k being 0 for one that       *)
(* stands in the body itself.  With it goes what later steps read in it:   *)
(* the target of a link, and how many hashes it opens with.  A block says  *)
(* the texts it prints, in the order it prints them; NoBlock prints        *)
(* nothing.  Words, markup and the widths of cells are left out.           *)
(***************************************************************************)
EXTENDS Lists

NoBlock == [is |-> "nothing", says |-> <<>>]

Block(is, says) == IF says = <<>> THEN NoBlock ELSE [is |-> is, says |-> says]

\* Paragraphs as parts of the n-th element.
Placed(n, paragraphs) == [i \in DOMAIN paragraphs |-> [paragraphs[i] EXCEPT !.n = n]]

\* What a paragraph says, if anything.
Text(p) ==
  IF p.says = "nothing" THEN <<>>
  ELSE << [at |-> <<p.n, p.k>>, link |-> p.link, hashes |-> p.hashes] >>

TextsOfLines(lines) == FlattenSeq([i \in DOMAIN lines |-> lines[i].text])

\* A run of list entries as one block: the texts of the lines it prints.
ListBlock(entries) == Block("list", TextsOfLines(Render(entries)))

-----------------------------------------------------------------------------
(* blocks and quote                                                        *)

CloseRun(made) == [run |-> <<>>, says |-> made.says \o ListBlock(made.run).says]

\* One paragraph of a container: an item of the open run, or a block of its own.
TakeOne(made, p) ==
  IF ListItem(p) # <<>>
    THEN [made EXCEPT !.run = Append(@, [item |-> ListItem(p), text |-> Text(p)])]
    ELSE [CloseRun(made) EXCEPT !.says = @ \o Text(p)]

Blocks(paragraphs) ==
  CloseRun(FoldLeft(TakeOne, [run |-> <<>>, says |-> <<>>], paragraphs)).says

\* Paragraphs in a box: a table's one cell, a text box, a border.
Quote(paragraphs) == Block("quote", Blocks(paragraphs))

-----------------------------------------------------------------------------
(* table_markdown                                                          *)

\* The grid columns a cell covers: itself in the first of them, unless it goes
\* on the one above it, and nothing in the others.
ColumnsOf(cell) ==
  << IF cell.merge = "continues" THEN <<>> ELSE cell.paragraphs >>
    \o [i \in 1..(cell.span - 1) |-> <<>>]

\* As many cells as the grid declares, whatever the row holds.
RowCells(row, columns) ==
  LET cells == FlattenSeq([i \in DOMAIN row |-> ColumnsOf(row[i])])
  IN  [i \in 1..columns |-> IF i \in DOMAIN cells THEN cells[i] ELSE <<>>]

\* What a cell holds is put on one line.
CellMarkdown(n, paragraphs) == Blocks(Placed(n, paragraphs))

TableMarkdown(n, table) ==
  LET rows == table.rows
      cells(row) == RowCells(row, table.columns)
      rowSays(row) == FlattenSeq([i \in 1..table.columns |-> CellMarkdown(n, cells(row)[i])])
  IN  IF rows = <<>> \/ table.columns = 0 THEN NoBlock
      ELSE IF Len(rows) = 1 /\ Len(rows[1]) = 1 THEN Quote(Placed(n, rows[1][1].paragraphs))
      ELSE [is |-> "table", says |-> FlattenSeq([r \in DOMAIN rows |-> rowSays(rows[r])])]

-----------------------------------------------------------------------------
(* Boxes                                                                   *)

\* The text boxes a paragraph anchors.  A shape is written once for each kind of
\* reader, and drawn once: the first choice, else the fallback.
AnchoredIn(p) ==
  FlattenSeq([i \in DOMAIN p.shapes |->
    IF p.shapes[i].choices # <<>> THEN p.shapes[i].choices[1] ELSE p.shapes[i].fallback])

\* A border is four sides drawn; its frame is what the four say.
IsBoxed(p) == \A side \in DOMAIN p.border : p.border[side] \notin {"", "none"}
Signature(p) == SelectSeq(p.border, LAMBDA side : side # "")

=============================================================================
