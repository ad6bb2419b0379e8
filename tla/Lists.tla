------------------------------- MODULE Lists -------------------------------
(***************************************************************************)
(* parsing/lists.py: which paragraphs of a Word document are list items,   *)
(* how deep each is, and the Markdown a run of them becomes.  Word keeps   *)
(* no list: depth is worked out from the indents and the bullets alone.    *)
(*                                                                         *)
(* A value the document may leave unset is a sequence of at most one       *)
(* element.  The text of an item is a sequence, empty where it says        *)
(* nothing; the lines within it hang under its first and are left out, and *)
(* so are the blank lines between.                                         *)
(***************************************************************************)
EXTENDS Numerals, Filtering

CONSTANT Declared   \* numId -> what the list declares of its levels, in order

\* An indent is a number of twips, where a level declares one.
ASSUME DeclaredAssumption ==
  \A numId \in DOMAIN Declared :
    /\ Declared[numId] \in Seq(Range(Declared[numId]))
    /\ \A declared \in Range(Declared[numId]) : declared.indent \in Seq(Int)

NUMBERING_REMOVED == 0
SAME_COLUMN == 180          \* twips
NoRank == -1

\* Word's own bullets, in the order a demotion steps through them.
BULLET_RANKS == [filled |-> 0, hollow |-> 1, square |-> 2]

-----------------------------------------------------------------------------
(* Which paragraphs are items                                              *)

\* A property in effect: the paragraph's own, else its style's.
Effective(own, style) == IF own # <<>> THEN own ELSE style

DeclaredLevels(numId) == IF numId \in DOMAIN Declared THEN Declared[numId] ELSE <<>>

DeclaredAt(numId, level) ==
  LET declares == DeclaredLevels(numId)
  IN  Only(declares, {declared \in Range(declares) : declared.ilvl = level})

Marker(numId, level) ==
  LET declared == DeclaredAt(numId, level)
  IN  IF declared = <<>> THEN [marker |-> "bullet", rank |-> NoRank]
      ELSE IF declared[1].format \notin {"bullet", ""}
        THEN [marker |-> declared[1].format, rank |-> NoRank]
      ELSE [marker |-> declared[1].glyph,
            rank   |-> IF declared[1].glyph \in DOMAIN BULLET_RANKS
                       THEN BULLET_RANKS[declared[1].glyph] ELSE NoRank]

\* The format declared at the level, else the first one the list declares.
IsOrdered(numId, level) ==
  LET formats == SelectSeq(DeclaredLevels(numId), LAMBDA declared : declared.format # "")
      here    == SelectSeq(formats, LAMBDA declared : declared.ilvl = level)
  IN  formats # <<>> /\ Head(here \o formats).format # "bullet"

Indent(paragraph, numId, level) ==
  LET declared == DeclaredAt(numId, level)
      lists    == IF declared = <<>> THEN <<>> ELSE declared[1].indent
  IN  Head(paragraph.own.indent \o lists \o <<0>>)

\* The item a paragraph is, if numbering is in effect on it.
ListItem(paragraph) ==
  LET numId == Effective(paragraph.own.numId, paragraph.style.numId)
      level == Head(Effective(paragraph.own.ilvl, paragraph.style.ilvl) \o <<0>>)
      shown == Marker(numId[1], level)
  IN  IF numId \in {<<>>, <<NUMBERING_REMOVED>>} THEN <<>>
      ELSE << [indent  |-> Indent(paragraph, numId[1], level),
               ordered |-> IsOrdered(numId[1], level),
               marker  |-> shown.marker, rank |-> shown.rank] >>

IsDeeper(item, previous) == item.indent > previous.indent + SAME_COLUMN

-----------------------------------------------------------------------------
(* How deep an item is: the stack of open depths, innermost last           *)

InColumn(depth, item) ==
  /\ depth.left - item.indent <= SAME_COLUMN
  /\ item.indent - depth.left <= SAME_COLUMN

Encloses(depth, item) == depth.rank # NoRank /\ item.rank # NoRank /\ depth.rank < item.rank

Demoted(stack, item) ==
  /\ stack # <<>>
  /\ Last(stack).rank # NoRank /\ item.rank # NoRank
  /\ item.rank = Last(stack).rank + 1

\* Mutant of Open: two columns to a depth, whatever the marker above it takes.
OpenByTwo(stack, item) ==
  Append(stack, [left |-> item.indent, ordered |-> item.ordered,
                 indent |-> 2 * Len(stack),
                 count |-> 0, content |-> 0, marker |-> item.marker, rank |-> item.rank])

\* A new depth, whose markers start where the text of the item above it does.
Open(stack, item) ==
  Append(stack, [left |-> item.indent, ordered |-> item.ordered,
                 indent |-> IF stack = <<>> THEN 0 ELSE Last(stack).content,
                 count |-> 0, content |-> 0, marker |-> item.marker, rank |-> item.rank])

\* The item joins the innermost depth.  One of the other kind starts a list.
Join(stack, item) ==
  LET depth == Last(stack)
  IN  Append(Front(stack),
        [depth EXCEPT !.left = item.indent, !.marker = item.marker,
                      !.rank = item.rank, !.ordered = item.ordered,
                      !.count = IF depth.ordered = item.ordered THEN @ ELSE 0])

\* The depths an item drawn to their left leaves standing.
Standing(stack, item) ==
  LET keeps(i) == \/ stack[i].left - item.indent <= SAME_COLUMN
                  \/ Encloses(stack[i], item)
      kept == {i \in DOMAIN stack : keeps(i)}
  IN  SubSeq(stack, 1, IF kept = {} THEN 0 ELSE CHOOSE i \in kept : \A j \in kept : j <= i)

\* By position alone: beneath the depths left standing, or in the last of them.
DepthByPosition(standing, item) ==
  IF \/ standing = <<>>
     \/ item.indent - Last(standing).left > SAME_COLUMN
     \/ Encloses(Last(standing), item)
    THEN Open(standing, item)
    ELSE Join(standing, item)

\* The stack with the item's depth innermost: the depth that wears its marker in
\* its column; else one opened by demotion; else as its position says.
DepthFor(stack, item) ==
  LET worn == {i \in DOMAIN stack : stack[i].marker = item.marker /\ InColumn(stack[i], item)}
  IN  IF worn # {} THEN Join(SubSeq(stack, 1, CHOOSE i \in worn : \A j \in worn : j <= i), item)
      ELSE IF Demoted(stack, item) THEN Open(stack, item)
      ELSE DepthByPosition(Standing(stack, item), item)

-----------------------------------------------------------------------------
(* Rendering a run                                                         *)

\* The columns a marker takes: its number, a full stop and a space; or a dash and
\* a space.
MarkerWidth(ordered, ordinal) == IF ordered THEN Len(Digits[ordinal]) + 2 ELSE 2

\* The next marker of the innermost depth, and the column its text starts in.
NextMarker(stack) ==
  LET count == Last(stack).count + 1
      width == MarkerWidth(Last(stack).ordered, count)
  IN  Append(Front(stack), [Last(stack) EXCEPT !.count = count, !.content = Last(stack).indent + width])

\* A line at the innermost depth: its item, or a block of it.
Line(is, depth, level, text) ==
  IF is = "item"
    THEN [is |-> is, indent |-> depth.indent, ordered |-> depth.ordered,
          ordinal |-> depth.count, depth |-> level, text |-> text]
    ELSE [is |-> is, indent |-> depth.content, ordered |-> FALSE,
          ordinal |-> 0, depth |-> level, text |-> text]

AddItem(page, stack, text) ==
  [stack |-> stack, lines |-> Append(page.lines, Line("item", Last(stack), Len(stack), text))]

\* One entry of a run: an item, or a block that belongs to the item above it.
TakeEntry(page, entry) ==
  IF entry.text = <<>> \/ (entry.item = <<>> /\ page.stack = <<>>) THEN page
  ELSE IF entry.item = <<>>
    THEN [page EXCEPT !.lines =
           Append(@, Line("block", Last(page.stack), Len(page.stack), entry.text))]
  ELSE AddItem(page, NextMarker(DepthFor(page.stack, entry.item[1])), entry.text)

\* The lines of a run: what each says, the column it starts in and its marker.
Render(entries) == FoldLeft(TakeEntry, [lines |-> <<>>, stack |-> <<>>], entries).lines

-----------------------------------------------------------------------------
(* What a renderer makes of the lines (external: CommonMark).  A line is   *)
(* tried against the open items from the outermost in, up to the first     *)
(* whose text starts further right; a marker of the same kind there goes   *)
(* on with the list.                                                       *)

\* How many of the open items a line is inside.
Inside(open, line) ==
  CHOOSE n \in 0..Len(open) :
    /\ \A i \in 1..n : open[i].content <= line.indent
    /\ n < Len(open) => line.indent < open[n + 1].content

ReadLine(reading, line) ==
  LET above  == Inside(reading.open, line)
      inside == SubSeq(reading.open, 1, above)
      same   == /\ Len(reading.open) > above
                /\ reading.open[above + 1].ordered = line.ordered
      shown  == IF ~line.ordered THEN 0
                ELSE IF same THEN reading.open[above + 1].shown + 1 ELSE line.ordinal
      width  == MarkerWidth(line.ordered, line.ordinal)
  IN  IF line.is = "block" THEN [open |-> inside, shows |-> Append(reading.shows, [depth |-> above, ordinal |-> 0])]
      ELSE [open  |-> Append(inside, [content |-> line.indent + width,
                                      ordered |-> line.ordered, shown |-> shown]),
            shows |-> Append(reading.shows, [depth |-> above + 1, ordinal |-> shown])]

Shows(lines) == FoldLeft(ReadLine, [open |-> <<>>, shows |-> <<>>], lines).shows

=============================================================================
