---------------------------- MODULE DocumentWalk ----------------------------
(***************************************************************************)
(* parsing/parser.py: the one walk over the body of a Word document that   *)
(* makes its sections, and the title read off its cover.  Each action      *)
(* takes the next element of the body, whatever it is: the document is     *)
(* made up as it is read.                                                  *)
(*                                                                         *)
(* An element is a table, the start of a bookmark or a paragraph.  Of a    *)
(* paragraph's style its kind is kept: "heading" (with a level),           *)
(* "appendix", "toc", "title" or "normal".                                 *)
(***************************************************************************)
EXTENDS Tables, Outline

CONSTANT Bodies   \* kind of document -> the elements it may open with, go on with, and at most how many

\* A paragraph wherever it stands: its text is known by its place.
IsPart(p) == {"n", "k", "says", "own"} \subseteq DOMAIN p /\ p.own.indent \in Seq(Int)

ArePartsIn(paragraphs) ==
  paragraphs \in Seq(Range(paragraphs)) /\ \A p \in Range(paragraphs) : IsPart(p)

\* A shape is drawn by its choices, each a sequence of boxes, or by its fallback.
AreBoxes(boxes) == boxes \in Seq(Range(boxes)) /\ \A box \in Range(boxes) : ArePartsIn(box)

IsShape(shape) ==
  /\ shape.choices \in Seq(Range(shape.choices)) /\ AreBoxes(shape.fallback)
  /\ \A choice \in Range(shape.choices) : AreBoxes(choice)

IsParagraph(e) ==
  /\ IsPart(e) /\ {"kind", "level", "heading", "shapes"} \subseteq DOMAIN e
  /\ e.level \in Nat
  /\ e.shapes \in Seq(Range(e.shapes)) /\ \A shape \in Range(e.shapes) : IsShape(shape)

\* A row is a sequence of cells, and none of the first row goes on one above it.
IsTable(e) ==
  /\ e.columns \in Nat /\ e.rows \in Seq(Range(e.rows))
  /\ \A row \in Range(e.rows) :
       /\ row \in Seq(Range(row))
       /\ \A cell \in Range(row) : cell.span \in Nat \ {0} /\ ArePartsIn(cell.paragraphs)
  /\ e.rows # <<>> => \A cell \in Range(e.rows[1]) : cell.merge # "continues"

ASSUME BodiesAssumption ==
  \A of \in DOMAIN Bodies :
    /\ Bodies[of].longest \in Nat
    /\ \A e \in Bodies[of].first \cup Bodies[of].elements :
         (e.is = "paragraph" => IsParagraph(e)) /\ (e.is = "table" => IsTable(e))

VARIABLES
  kind,       \* of document
  body,       \* the elements taken so far
  walk,       \* what the walk holds
  ended       \* the walk is over

walkVars == <<kind, body, walk, ended>>

\* A frame of the stack is a section open for children, or the document itself.
Frame(level, section) == [level |-> level, section |-> section, numbered |-> 0, appendices |-> 0]

WalkInit ==
  /\ kind \in DOMAIN Bodies
  /\ body = <<>>
  /\ walk = [sections  |-> <<>>,
             stack     |-> <<Frame(0, 0)>>,
             items     |-> <<>>,       \* the open run of list entries
             pending   |-> <<>>,       \* prose and boxes held since its last item
             boxed     |-> <<>>,       \* the open run of bordered paragraphs
             opened    |-> <<>>,       \* bookmarks ahead of the next block
             bookmarks |-> <<>>]       \* the claimed, each with its section
  /\ ended = FALSE

-----------------------------------------------------------------------------
(* Filing blocks                                                           *)

\* Anything ahead of the first heading is dropped.
AppendBlock(w, block) ==
  IF w.sections = <<>> \/ block = NoBlock THEN w
  ELSE [w EXCEPT !.sections[Len(w.sections)].content = Append(@, block)]

\* Mutant of CloseList: the prose held is filed ahead of the list.
CloseListLast(w) ==
  LET filed == FoldLeft(AppendBlock, w, w.pending)
  IN  [IF w.items = <<>> THEN filed ELSE AppendBlock(filed, ListBlock(w.items))
         EXCEPT !.items = <<>>, !.pending = <<>>]

\* The run is filed as one block, and after it the prose that waited for
\* another item of it.
CloseList(w) ==
  LET listed == IF w.items = <<>> THEN w ELSE AppendBlock(w, ListBlock(w.items))
  IN  [FoldLeft(AppendBlock, listed, w.pending) EXCEPT !.items = <<>>, !.pending = <<>>]

Continuation(block) == [item |-> <<>>, text |-> block.says]

\* A box is a block of the item above it, or waits with the prose that waits.
TakeBox(w, block) ==
  IF w.items = <<>> THEN AppendBlock(CloseList(w), block)
  ELSE IF w.pending # <<>> THEN [w EXCEPT !.pending = Append(@, block)]
  ELSE [w EXCEPT !.items = Append(@, Continuation(block))]

CloseBox(w) ==
  IF w.boxed = <<>> THEN w ELSE TakeBox([w EXCEPT !.boxed = <<>>], Quote(w.boxed))

TakeBordered(w, p) ==
  LET apart == w.boxed # <<>> /\ Signature(p) # Signature(Last(w.boxed))
  IN  [IF apart THEN CloseBox(w) ELSE w EXCEPT !.boxed = Append(@, p)]

\* The leftmost item of the run.
Floor(w) ==
  LET items == SelectSeq(w.items, LAMBDA entry : entry.item # <<>>)
  IN  items[CHOOSE i \in DOMAIN items :
              \A j \in DOMAIN items : items[i].item[1].indent <= items[j].item[1].indent].item[1]

\* The prose held since the last item is a block of that item where the next is
\* drawn deeper; else it ends the run.
TakePending(w, item) ==
  IF w.pending = <<>> THEN w
  ELSE IF IsDeeper(item, Floor(w))
    THEN [w EXCEPT !.items = @ \o [i \in DOMAIN w.pending |-> Continuation(w.pending[i])],
                   !.pending = <<>>]
  ELSE CloseList(w)

\* A paragraph that is neither a heading nor bordered.
CollectBody(w, p) ==
  LET item  == ListItem(p)
      block == Block("prose", Text(p))
  IN  IF p.kind = "toc" THEN CloseList(w)
      ELSE IF item # <<>>
        THEN [TakePending(w, item[1]) EXCEPT
                !.items = Append(@, [item |-> item, text |-> Text(p)])]
      ELSE IF block = NoBlock THEN w
      ELSE IF w.items # <<>> THEN [w EXCEPT !.pending = Append(@, block)]
      ELSE AppendBlock(w, block)

-----------------------------------------------------------------------------
(* Sections                                                                *)

\* The level of the heading a paragraph is; 0 where it opens no section, as one
\* without words does not.
HeadingLevel(p) ==
  IF p.says # "text" THEN 0
  ELSE IF p.kind = "appendix" THEN 1
  ELSE IF p.kind = "heading" THEN p.level
  ELSE 0

\* The innermost frame the heading is beneath is of its parent.
Beneath(stack, level) ==
  SubSeq(stack, 1, CHOOSE i \in DOMAIN stack :
    stack[i].level < level /\ \A j \in (i + 1)..Len(stack) : stack[j].level >= level)

\* Mutant of OpenSection: appendices and sections are counted as one.
OpenSectionCountingAll(w, p) ==
  LET appendix == p.kind = "appendix"
      under    == Beneath(w.stack, HeadingLevel(p))
      parent   == Last(under)
      counted  == [parent EXCEPT !.numbered = @ + 1, !.appendices = @ + 1]
  IN  [w EXCEPT
        !.sections = Append(@, [heading |-> p.heading, appendix |-> appendix,
                                ordinal |-> counted.numbered, parent |-> parent.section,
                                content |-> <<>>]),
        !.stack = Append(Append(Front(under), counted),
                         Frame(HeadingLevel(p), Len(w.sections) + 1))]

OpenSection(w, p) ==
  LET appendix == p.kind = "appendix"
      under    == Beneath(w.stack, HeadingLevel(p))
      parent   == Last(under)
      counted  == IF appendix THEN [parent EXCEPT !.appendices = @ + 1]
                  ELSE [parent EXCEPT !.numbered = @ + 1]
  IN  [w EXCEPT
        !.sections = Append(@, [heading  |-> p.heading, appendix |-> appendix,
                                ordinal  |-> IF appendix THEN counted.appendices ELSE counted.numbered,
                                parent   |-> parent.section, content |-> <<>>]),
        !.stack = Append(Append(Front(under), counted),
                         Frame(HeadingLevel(p), Len(w.sections) + 1))]

\* A bookmark is claimed by the section it marks the start of; a name used again
\* moves to the later one, in the place it had.
Claim(bookmarks, name, section) ==
  LET at == {i \in DOMAIN bookmarks : bookmarks[i].name = name}
  IN  IF at = {} THEN Append(bookmarks, [name |-> name, section |-> section])
      ELSE [i \in DOMAIN bookmarks |->
              IF i \in at THEN [name |-> name, section |-> section] ELSE bookmarks[i]]

-----------------------------------------------------------------------------
(* The walk                                                                *)

Read(e) ==
  /\ ~ended /\ Len(body) < Bodies[kind].longest
  /\ e \in IF body = <<>> THEN Bodies[kind].first ELSE Bodies[kind].elements
  /\ body' = Append(body, e)

\* The text boxes a paragraph anchors come straight after it.
TakeAnchored(w, p) ==
  FoldLeft(LAMBDA v, box : TakeBox(CloseBox(v), Quote(Placed(p.n, box))), w, AnchoredIn(p))

TakeBookmark(e) ==
  /\ Read(e) /\ e.is = "bookmark"
  /\ walk' = [walk EXCEPT !.opened = Append(@, e.name)]
  /\ UNCHANGED <<kind, ended>>

TakeTable(e) ==
  /\ Read(e) /\ e.is = "table"
  /\ walk' = [AppendBlock(CloseList(CloseBox(walk)), TableMarkdown(Len(body) + 1, e))
                EXCEPT !.opened = <<>>]
  /\ UNCHANGED <<kind, ended>>

TakeHeading(e) ==
  /\ Read(e) /\ e.is = "paragraph" /\ HeadingLevel(e) > 0
  /\ LET p      == [e EXCEPT !.n = Len(body) + 1]
         opened == OpenSection(CloseList(CloseBox(walk)), p)
         claim(bookmarks, name) == Claim(bookmarks, name, Len(opened.sections))
     IN  walk' = TakeAnchored([opened EXCEPT
                   !.bookmarks = FoldLeft(claim, @, walk.opened \o p.names),
                   !.opened = <<>>], p)
  /\ UNCHANGED <<kind, ended>>

TakeBoxed(e) ==
  /\ Read(e) /\ e.is = "paragraph" /\ HeadingLevel(e) = 0 /\ IsBoxed(e)
  /\ LET p == [e EXCEPT !.n = Len(body) + 1]
     IN  walk' = TakeAnchored([TakeBordered(walk, p) EXCEPT !.opened = <<>>], p)
  /\ UNCHANGED <<kind, ended>>

TakeBody(e) ==
  /\ Read(e) /\ e.is = "paragraph" /\ HeadingLevel(e) = 0 /\ ~IsBoxed(e)
  /\ LET p == [e EXCEPT !.n = Len(body) + 1]
     IN  walk' = TakeAnchored([CollectBody(CloseBox(walk), p) EXCEPT !.opened = <<>>], p)
  /\ UNCHANGED <<kind, ended>>

End ==
  /\ ~ended /\ ended' = TRUE
  /\ walk' = CloseList(CloseBox(walk))
  /\ UNCHANGED <<kind, body>>

TakeNext(e) ==
  TakeBookmark(e) \/ TakeTable(e) \/ TakeHeading(e) \/ TakeBoxed(e) \/ TakeBody(e)

-----------------------------------------------------------------------------
(* The title on the cover                                                  *)

\* The cover ends at the contents, the first heading, even one that says
\* nothing, or the page.
OpensBody(p) == p.kind \in {"toc", "appendix", "heading"} \/ p.page = "before"

TakeCover(cover, p) ==
  LET said == IF p.says = "text"
                THEN [cover EXCEPT !.part = Append(@, p)]
                ELSE IF cover.part # <<>>
                THEN [cover EXCEPT !.groups = Append(@, cover.part), !.part = <<>>]
                ELSE cover
  IN  IF cover.over THEN cover
      ELSE IF OpensBody(p) THEN [cover EXCEPT !.over = TRUE]
      ELSE [said EXCEPT !.over = p.page = "within"]

Paragraphs ==
  LET placed == [n \in DOMAIN body |-> IF body[n].is = "paragraph"
                                          THEN [body[n] EXCEPT !.n = n] ELSE body[n]]
  IN  Only(placed, {e \in Range(placed) : e.is = "paragraph"})

CoverGroups ==
  LET cover == FoldLeft(TakeCover, [groups |-> <<>>, part |-> <<>>, over |-> FALSE], Paragraphs)
  IN  IF cover.part = <<>> THEN cover.groups ELSE Append(cover.groups, cover.part)

\* The parts of the title, each as the paragraphs it was wrapped over: those in
\* the Title style, where there are any.
CoverTitle ==
  LET titled(group) == Only(group, {p \in Range(group) : p.kind = "title"})
      marked == Only([g \in DOMAIN CoverGroups |-> titled(CoverGroups[g])],
                     {titled(group) : group \in Range(CoverGroups)} \ {<<>>})
  IN  IF marked = <<>> THEN CoverGroups ELSE marked

=============================================================================
