----------------------------- MODULE Conversion -----------------------------
(***************************************************************************)
(* The conversion of a Word document: its body walked into sections, the   *)
(* sections printed and read back, and a paragraph read into its line of   *)
(* Markdown.  Each of the promises below is stated of the document itself, *)
(* not of the way it is walked.                                            *)
(***************************************************************************)
EXTENDS DocumentWalk, StoredDocument, Inline, Filtering

CONSTANT Paragraph   \* kind of document of which one paragraph is read, child by child

vars == <<walkVars, inlineVars>>

Init == WalkInit /\ InlineInit

ReadChild(child) == kind = Paragraph /\ TakeChild(child) /\ UNCHANGED walkVars
TakeElement(e)   == kind # Paragraph /\ TakeNext(e) /\ UNCHANGED inlineVars
EndDocument      == kind # Paragraph /\ End /\ UNCHANGED inlineVars

Next ==
  \/ \E child \in Children : ReadChild(child)
  \/ \E e \in Bodies[kind].first \cup Bodies[kind].elements : TakeElement(e)
  \/ EndDocument

Spec == Init /\ [][Next]_vars

-----------------------------------------------------------------------------
(* What a document says, and what is filed of it                           *)

Elements == DOMAIN body
IsHeading(n) == body[n].is = "paragraph" /\ HeadingLevel(body[n]) > 0
SectionAt(n) == Cardinality({m \in 1..n : IsHeading(m)})

\* The columns ahead of a cell.
Before(row, i) ==
  LET spanned[k \in 0..Len(row)] == IF k = 0 THEN 0 ELSE spanned[k - 1] + row[k].span
  IN  spanned[i - 1]

\* A merged cell is read where it starts, within the columns there are.
CellParts(table, row, i) ==
  IF row[i].merge = "continues" \/ Before(row, i) >= table.columns THEN <<>> ELSE row[i].paragraphs

RowParts(table, row) == FlattenSeq([i \in DOMAIN row |-> CellParts(table, row, i)])

TableParts(table) == FlattenSeq([r \in DOMAIN table.rows |-> RowParts(table, table.rows[r])])

\* Each shape is drawn once, whatever the readers it is written for.
ShapeParts(p) ==
  LET drawn(shape) == Head(shape.choices \o <<shape.fallback>>)
  IN  FlattenSeq(FlattenSeq([i \in DOMAIN p.shapes |-> drawn(p.shapes[i])]))

\* A heading is no content of its section, nor is an entry of the contents.
OwnParts(p) == IF HeadingLevel(p) > 0 \/ (p.kind = "toc" /\ ~IsBoxed(p)) THEN <<>> ELSE <<p>>

\* The paragraphs an element shows, in the order it shows them.
PartsOf(e) ==
  CASE e.is = "table" -> TableParts(e)
    [] e.is = "paragraph" -> OwnParts(e) \o ShapeParts(e)
    [] OTHER -> <<>>

\* A paragraph is known by the element it is in and its place there.
ASSUME PlacesAssumption ==
  \A of \in DOMAIN Bodies : \A e \in Bodies[of].first \cup Bodies[of].elements :
    \A i, j \in DOMAIN PartsOf(e) : PartsOf(e)[i].k = PartsOf(e)[j].k => i = j

TextsOf(paragraphs) == FlattenSeq([i \in DOMAIN paragraphs |-> Text(paragraphs[i])])

ElementSays(n) == TextsOf(Placed(n, PartsOf(body[n])))

InSection(s, texts) == [k \in DOMAIN texts |-> <<s, texts[k]>>]

\* The texts of the document with the section each stands in.
Said ==
  FlattenSeq([n \in Elements |->
    IF SectionAt(n) = 0 THEN <<>> ELSE InSection(SectionAt(n), ElementSays(n))])

FiledIn(sections) ==
  FlattenSeq([s \in DOMAIN sections |->
    FlattenSeq([b \in DOMAIN sections[s].content |-> InSection(s, sections[s].content[b].says)])])

Filed == FiledIn(walk.sections)

\* A list item that says nothing, with no item that says something between it
\* and the n-th element: what is held for it has no item to belong to.
IsItem(n) == /\ body[n].is = "paragraph" /\ ~IsHeading(n) /\ ~IsBoxed(body[n])
             /\ ListItem(body[n]) # <<>>
FollowsSilentItem(n) ==
  \E m \in 1..n : /\ IsItem(m) /\ body[m].says = "nothing"
                  /\ \A j \in m..n : ~IsHeading(j) /\ ~(IsItem(j) /\ j < n /\ body[j].says # "nothing")

\* The walk and lists.render disagree on who files a block that no item came
\* before, so it may be lost; nothing else is.
Kept(text) == ~FollowsSilentItem(text[2].at[1])

KeptOf(texts) == Only(texts, {text \in Range(texts) : Kept(text)})

BlocksAreFiled(filed, said) ==
  /\ KeptOf(filed) = KeptOf(said)
  /\ \A k \in DOMAIN filed : ~Kept(filed[k]) =>
       /\ Cardinality({j \in DOMAIN filed : filed[j] = filed[k]}) = 1
       /\ filed[k] \in Range(said)

-----------------------------------------------------------------------------
(* The title                                                               *)

\* The paragraph is ahead of the first that opens the body or a new page.
OnCover(p, paragraphs) ==
  \A q \in Range(paragraphs) :
    /\ q.n <= p.n => ~(q.kind \in {"toc", "appendix", "heading"} \/ q.page = "before")
    /\ q.n < p.n => q.page # "within"

\* Two paragraphs are one part of the title exactly where no blank one parts them.
PartsAsWrapped(parts, title, paragraphs) ==
  \A i, j \in DOMAIN title : i < j =>
    ((\E g \in DOMAIN parts : {title[i], title[j]} \subseteq Range(parts[g]))
      <=> ~\E blank \in Range(paragraphs) :
             title[i].n < blank.n /\ blank.n < title[j].n /\ blank.says # "text")

\* The title is what the cover says, or what of it is in the Title style.
TitleIsOfTheCover(parts, paragraphs) ==
  LET cover  == Only(paragraphs, {p \in Range(paragraphs) : OnCover(p, paragraphs) /\ p.says = "text"})
      styled == Only(cover, {p \in Range(cover) : p.kind = "title"})
  IN  /\ FlattenSeq(parts) = IF styled = <<>> THEN cover ELSE styled
      /\ PartsAsWrapped(parts, FlattenSeq(parts), paragraphs)

\* Every text of the body is filed exactly once, in the section it stands in and
\* in the order of the page, however lists, boxes, tables and held prose meet;
\* what the cover says is in the title and nowhere else
\* (parser._extract_sections, _cover_title).
EveryTextIsFiled ==
  ended =>
    /\ BlocksAreFiled(Filed, Said)
    /\ TitleIsOfTheCover(CoverTitle, Paragraphs)
    /\ {filed[2].at : filed \in Range(Filed)} \cap {<<p.n, p.k>> : p \in Range(FlattenSeq(CoverTitle))} = {}

-----------------------------------------------------------------------------
(* Numbers                                                                 *)

Headings == Only([n \in Elements |-> n], {n \in Elements : IsHeading(n)})
LevelOf(i) == HeadingLevel(body[Headings[i]])

\* The nearest heading above the i-th of a lower level.
ParentOf(i) ==
  LET above == {j \in 1..(i - 1) : LevelOf(j) < LevelOf(i)}
  IN  IF above = {} THEN 0 ELSE CHOOSE j \in above : \A m \in above : m <= j

\* Each section is beneath the nearest heading of a lower level and is counted
\* among those of its kind there, whatever levels the document skips or returns
\* to; and no two sections bear one number (parser._open_section).
NumbersAreOfTheOutline ==
  /\ Len(walk.sections) = Len(Headings)
  /\ \A i \in DOMAIN Headings :
       LET section == walk.sections[i]
       IN  /\ section.heading = body[Headings[i]].heading
           /\ section.appendix = (body[Headings[i]].kind = "appendix")
           /\ section.parent = ParentOf(i)
           /\ section.ordinal = Cardinality({j \in 1..i :
                /\ ParentOf(j) = ParentOf(i)
                /\ walk.sections[j].appendix = section.appendix})
  /\ \A i, j \in DOMAIN walk.sections :
       Number(walk.sections, i) = Number(walk.sections, j) => i = j

-----------------------------------------------------------------------------
(* Stored and read back                                                    *)

Converted == Document(walk.sections, walk.bookmarks)

\* A section's place in the outline and its heading.
Bones(section) == [section EXCEPT !.content = <<>>]

\* Prose that opens with the hashes of a heading is printed as it stands.
LooksLikeHeading(line) == line.is = "prose" /\ line.says[1].hashes >= 2

\* An appendix whose heading opens with the number that is due there.
HeadedWithNumber(i) ==
  /\ walk.sections[i].appendix
  /\ walk.sections[i].heading[1].path =
       <<Cardinality({j \in 1..(i - 1) : walk.sections[j].parent = 0 /\ ~walk.sections[j].appendix}) + 1>>
  /\ Len(walk.sections[i].heading) > 1

LinksOf(sections) ==
  UNION {UNION {{block.says[k].link : k \in DOMAIN block.says} : block \in Range(sections[s].content)}
         : s \in DOMAIN sections} \ {<<>>}

\* The section a link points at, 0 for none.
Target(document, link) ==
  LET at == {i \in DOMAIN document.bookmarks : document.bookmarks[i].name = link}
  IN  IF at = {} THEN 0 ELSE document.bookmarks[CHOOSE i \in at : TRUE].section

\* No two sections print one anchor, and no link or bookmark is spelled like one.
AnchorsApart(anchors) ==
  /\ \A i, j \in DOMAIN anchors : anchors[i] = anchors[j] => i = j
  /\ Range(anchors) \cap LinksOf(walk.sections) = {}
  /\ Range(anchors) \cap {claim.name : claim \in Range(walk.bookmarks)} = {}

\* The outline is read back as it was written.
OutlineReadsBack(reread) ==
  [i \in DOMAIN reread.sections |-> Bones(reread.sections[i])]
    = [i \in DOMAIN walk.sections |-> Bones(walk.sections[i])]

\* Every text is where it was, and its link leads to the section it led to.
LinksReadBack(reread) ==
  \A s \in DOMAIN walk.sections : \A b \in DOMAIN walk.sections[s].content :
    LET was == walk.sections[s].content[b].says
        is  == reread.sections[s].content[b].says
    IN  \A k \in DOMAIN was :
          is[k].at = was[k].at /\ Target(reread, is[k].link) = Target(Converted, was[k].link)

AsStored(stored, reread) ==
  ~(\E line \in Range(stored) : LooksLikeHeading(line)) =>
    /\ Markdown(reread) = stored
    /\ ~(\E i \in DOMAIN walk.sections : HeadedWithNumber(i)) =>
         /\ OutlineReadsBack(reread)
         /\ AnchorsApart(OfDocument(walk.sections)) => LinksReadBack(reread)

\* A document read back is the document that was stored, and stored again it is
\* line for line the file it was; save where prose opens with the hashes of a
\* heading, an appendix is headed with the number due there, or two anchors are
\* spelled alike (documents/reader.py, models.MarkdownDocument.markdown).
ReadsBack == ended => AsStored(Markdown(Converted), FromMarkdown(Markdown(Converted)))

-----------------------------------------------------------------------------
(* Lists                                                                   *)

\* The entries of the open run that print a line.
PrintingOf(saying, items) ==
  IF items = {} THEN <<>>
  ELSE SubSeq(saying, CHOOSE i \in items : \A j \in items : i <= j, Len(saying))

Entries ==
  LET saying == Only(walk.items, {entry \in Range(walk.items) : entry.text # <<>>})
  IN  PrintingOf(saying, {i \in DOMAIN saying : saying[i].item # <<>>})

\* A list begun again where one of its kind at its depth has just ended.
Restarts(printed, k) ==
  /\ printed[k].ordered /\ printed[k].ordinal = 1
  /\ \E j \in 1..(k - 1) :
       /\ printed[j].ordered /\ printed[j].depth = printed[k].depth
       /\ \A i \in (j + 1)..(k - 1) : \/ printed[i].depth > printed[k].depth
                                      \/ printed[i].is = "block"

SameColumn(item, other) == ~IsDeeper(item, other) /\ ~IsDeeper(other, item)

\* Markers a reader tells apart by where they stand alone: no bullet is ranked, and
\* two drawn in the column of a third are drawn in one column.
Columnar(items) ==
  /\ \A item \in items : item.rank = NoRank
  /\ \A item, other, third \in items :
       SameColumn(item, third) /\ SameColumn(other, third) => SameColumn(item, other)

\* The k-th entry takes up the list of the j-th: it is numbered alike in the same
\* column, and all between are items numbered otherwise that are nested in the
\* j-th, as any drawn deeper is where markers stand in columns.
TakesUp(entries, printed, j, k) ==
  LET item(i)  == entries[i].item[1]
      alike(i) == item(i).marker = item(k).marker
      items    == {i \in DOMAIN entries : entries[i].item # <<>>}
      nested(i) == \/ printed[i].depth > printed[j].depth
                   \/ Columnar({item(m) : m \in items}) /\ IsDeeper(item(i), item(j))
  IN  /\ {j, k} \subseteq items /\ alike(j)
      /\ item(j).ordered /\ item(k).ordered /\ SameColumn(item(j), item(k))
      /\ \A i \in items : j < i /\ i < k => nested(i) /\ ~alike(i)

ReadsAsPrinted(entries, printed, shown) ==
  /\ \A k \in DOMAIN printed : shown[k].depth = printed[k].depth
  /\ (\A k \in DOMAIN printed : ~Restarts(printed, k)) =>
       \A k \in DOMAIN printed : printed[k].ordered => shown[k].ordinal = printed[k].ordinal
  /\ Len(printed) = Len(entries)
  /\ \A k \in DOMAIN entries : \A j \in 1..(k - 1) :
       TakesUp(entries, printed, j, k) =>
         /\ printed[k].depth = printed[j].depth
         /\ printed[k].ordinal = printed[j].ordinal + 1

\* A reader sees every line of a list at the depth its indents and bullets mean
\* and under the number printed for it, whatever was opened and left in between;
\* and an item that takes up a list is numbered on from it.  A list begun again
\* straight after one of its kind is read as one with it (lists.render).
ListReadsAsShown == ReadsAsPrinted(Entries, Render(walk.items), Shows(Render(walk.items)))

-----------------------------------------------------------------------------
(* Text within a paragraph                                                 *)

Boundary(i) == children[i].is \in {"begin", "separate", "end"}

\* The last boundary of a field before the i-th child.
BoundaryBefore(i) ==
  LET before == {j \in 1..(i - 1) : Boundary(j)}
  IN  IF before = {} THEN 0 ELSE CHOOSE j \in before : \A m \in before : m <= j

\* The begin of the field the i-th child stands in, 0 for none.
FieldOf(i) ==
  LET begins == {j \in 1..(i - 1) : /\ children[j].is = "begin"
                                    /\ \A m \in (j + 1)..(i - 1) : children[m].is # "end"}
  IN  IF begins = {} THEN 0 ELSE CHOOSE j \in begins : \A m \in begins : m <= j

\* A run is on the page unless it is of a field's instruction.
OnPage(i) ==
  \/ children[i].is = "link"
  \/ children[i].is \in {"run", "picture"}
     /\ (BoundaryBefore(i) = 0 \/ children[BoundaryBefore(i)].is # "begin")

\* The characters on the page, where they stand; a break within is of class "break".
PageSays ==
  FlattenSeq([i \in DOMAIN children |->
    IF ~OnPage(i) THEN <<>>
    ELSE IF children[i].is = "picture" THEN <<[at |-> <<i, 1>>, class |-> "picture"]>>
    ELSE [k \in DOMAIN children[i].text |-> [at |-> <<i, k>>, class |-> children[i].text[k]]]])

IsGap(c) == c.class \in {"space", "break"}

\* The words of some characters: each that is no space, and whether space is
\* between it and the one before.
Words(characters) ==
  LET inked == SelectSeq([k \in DOMAIN characters |-> k], LAMBDA k : ~IsGap(characters[k]))
  IN  [i \in DOMAIN inked |->
        [at |-> characters[inked[i]].at, apart |-> i > 1 /\ inked[i] > inked[i - 1] + 1]]

TextPrinted(page) ==
  FlattenSeq([i \in DOMAIN page |->
    SelectSeq(page[i], LAMBDA c : c.edge = "") \o <<[at |-> <<>>, class |-> "break"]>>])

\* What the walk of the children is known to lose: a field another begins in,
\* a picture or a break in a field, a break in a link, a link of space alone.
Lossless ==
  /\ \A i \in DOMAIN children : FieldOf(i) # 0 =>
       children[i].is \notin {"begin", "picture"}
  /\ \A i \in DOMAIN children :
       /\ children[i].is = "link" => \E k \in DOMAIN children[i].text : children[i].text[k] # "space"
       /\ children[i].is \in {"run", "link"} /\ (FieldOf(i) # 0 \/ children[i].is = "link") =>
            \A k \in DOMAIN children[i].text : children[i].text[k] # "break"

\* In a field's result a run wears the field's target; a link wears its own.
Pointed(c) ==
  LET i == c.at[1]
      instructions == {j \in (FieldOf(i) + 1)..(i - 1) :
                         /\ children[j].is = "instruction"
                         /\ \A m \in FieldOf(i)..j : children[m].is # "separate"}
      target == IF children[i].is = "link" THEN children[i].target
                ELSE IF FieldOf(i) = 0 \/ instructions = {} THEN ""
                ELSE children[CHOOSE j \in instructions : \A m \in instructions : j <= m].target
  IN  c.class = "text" => c.marks.link = target

\* CommonMark reads a * or ~~ run as opening, or closing, by what is beside it.
ReadAsMarkers(line) ==
  \A k \in DOMAIN line :
    LET out == IF line[k].edge = "opens" THEN k - 1 ELSE k + 1
        in  == IF line[k].edge = "opens" THEN k + 1 ELSE k - 1
        touches == out \in DOMAIN line /\ line[out].edge # ""
    IN  line[k].edge # "" /\ Delimited(line[k].marks) /\ ~touches =>
          /\ line[in].class # "space"
          /\ line[in].class = "punctuation" => out \notin DOMAIN line \/ line[out].class # "text"

PrintsAll(page) ==
  /\ Words(TextPrinted(page)) = Words(PageSays)
  /\ \A i \in DOMAIN page :
       /\ \A k \in DOMAIN page[i] : page[i][k].edge = "" => Pointed(page[i][k])
       /\ ReadAsMarkers(page[i])

\* Every character on the page is printed once, in order, with the words apart
\* that were apart, wearing the link the page gives it; and the markers printed
\* beside text are ones a renderer reads as markers (inline.paragraph_markdown).
InlineSaysAll == kind = Paragraph /\ Lossless => PrintsAll(ParagraphMarkdown)

=============================================================================
