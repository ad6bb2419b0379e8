--------------------------- MODULE StoredDocument ---------------------------
(***************************************************************************)
(* parsing/models.py markdown and documents/reader.py: the lines a         *)
(* converted document is stored as, and the document read back out of      *)
(* them.  A line is a heading, with the hashes it opens with and the words *)
(* it prints, or a block of content.  A link holds its target, a bookmark  *)
(* before it is resolved and an anchor after: both are spelled as slugs.   *)
(***************************************************************************)
EXTENDS Tables, Outline

\* Read as a heading: two hashes or more, since one is the title.
SECTION_HASHES == 2

Document(sections, bookmarks) == [sections |-> sections, bookmarks |-> bookmarks]

\* Each bookmark with the anchor of the heading it marks, given every section's.
AnchorsAmong(bookmarks, ofSection) ==
  [i \in DOMAIN bookmarks |->
    [name |-> bookmarks[i].name, anchor |-> ofSection[bookmarks[i].section]]]

Anchors(document) == AnchorsAmong(document.bookmarks, OfDocument(document.sections))

\* The targets are replaced one bookmark after the other.
ResolvedContent(block, anchors) ==
  LET resolve(link, entry) == IF link = entry.name THEN entry.anchor ELSE link
  IN  [block EXCEPT !.says = [i \in DOMAIN @ |->
        [@[i] EXCEPT !.link = FoldLeft(resolve, @, anchors)]]]

HeadingLine(hashes, printed) == [is |-> "heading", hashes |-> hashes, printed |-> printed]

SectionLines(sections, anchors, i) ==
  <<HeadingLine(Level(sections, i) + 1, RenderedHeading(sections, i))>>
    \o [k \in DOMAIN sections[i].content |-> ResolvedContent(sections[i].content[k], anchors)]

AllLines(sections, anchors) ==
  FlattenSeq([i \in DOMAIN sections |-> SectionLines(sections, anchors, i)])

Markdown(document) == AllLines(document.sections, Anchors(document))

-----------------------------------------------------------------------------
(* Reading it back                                                         *)

\* A line is a heading by the hashes it opens with, whoever put them there.
AsHeading(line) ==
  IF line.is = "heading" THEN <<line>>
  ELSE IF line.is = "prose" /\ line.says[1].hashes >= SECTION_HASHES
    THEN <<HeadingLine(line.says[1].hashes, <<Name("prose")>>)>>
  ELSE <<>>

OpenFrame(section) == [section |-> section, numbered |-> 0, appendices |-> 0]

\* The number the next numbered section beneath the frame would print.
NextNumber(sections, frame) ==
  IF frame.section = 0 THEN [name |-> "", letters |-> <<>>, path |-> <<frame.numbered + 1>>]
  ELSE [Number(sections, frame.section) EXCEPT !.path = Append(@, frame.numbered + 1)]

\* Mutant of IsNumbered: any number does.
IsAnyNumber(printed, expected) == Head(printed).path # <<>> /\ Len(printed) > 1

\* A heading is of a numbered section where it prints the number one would have
\* there; else it is an appendix.
IsNumbered(printed, expected) == Head(printed) = expected /\ Len(printed) > 1

\* The section opened in the last frame of the stack.
Opened(sections, stack, counted, printed, numbered) ==
  [sections |-> Append(sections,
     [heading  |-> IF numbered THEN Tail(printed) ELSE printed,
      appendix |-> ~numbered,
      ordinal  |-> IF numbered THEN counted.numbered ELSE counted.appendices,
      parent   |-> counted.section, content |-> <<>>]),
   stack |-> Append(Append(Front(stack), counted), OpenFrame(Len(sections) + 1))]

OpenedIn(sections, stack, printed) ==
  IF IsNumbered(printed, NextNumber(sections, Last(stack)))
    THEN Opened(sections, stack, [Last(stack) EXCEPT !.numbered = @ + 1], printed, TRUE)
    ELSE Opened(sections, stack, [Last(stack) EXCEPT !.appendices = @ + 1], printed, FALSE)

OpenedBeneath(reading, hashes, printed) ==
  OpenedIn(reading.sections,
           SubSeq(reading.stack, 1,
                  IF hashes - 1 < Len(reading.stack) THEN hashes - 1 ELSE Len(reading.stack)),
           printed)

ReadStored(reading, line) ==
  LET heading == AsHeading(line)
  IN  IF heading # <<>> THEN OpenedBeneath(reading, heading[1].hashes, heading[1].printed)
      ELSE [reading EXCEPT !.sections[Len(reading.sections)].content = Append(@, line)]

\* Every section is a bookmark, by its anchor; of two with one anchor the later,
\* in the place of the first.
ByAnchor(anchors) ==
  LET firsts == SelectSeq([i \in DOMAIN anchors |-> i],
                          LAMBDA i : \A j \in 1..(i - 1) : anchors[j] # anchors[i])
  IN  [k \in DOMAIN firsts |->
        [name    |-> anchors[firsts[k]],
         section |-> CHOOSE i \in DOMAIN anchors :
                       /\ anchors[i] = anchors[firsts[k]]
                       /\ \A j \in (i + 1)..Len(anchors) : anchors[j] # anchors[i]]]

WithBookmarks(sections) == Document(sections, ByAnchor(OfDocument(sections)))

FromMarkdown(lines) ==
  WithBookmarks(FoldLeft(ReadStored, [sections |-> <<>>, stack |-> <<OpenFrame(0)>>], lines).sections)

=============================================================================
