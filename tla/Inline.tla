------------------------------- MODULE Inline -------------------------------
(***************************************************************************)
(* parsing/inline.py: the line of Markdown a paragraph's runs, fields and  *)
(* links become.  Each action takes the next child of the paragraph.       *)
(*                                                                         *)
(* A character is kept as where it stands, <<child, place>>, and what      *)
(* CommonMark takes it for: "text", "space" or "punctuation".  Of marks    *)
(* it is kept which a run wears and the target of its link, "" for none.   *)
(* Escapes, colours' names and the spelling of targets are left out.       *)
(***************************************************************************)
EXTENDS Integers, Sequences, SequencesExt

CONSTANTS
  Children,      \* that may come next in the paragraph
  MaxChildren    \* bound: how many there are

VARIABLES
  children,      \* the children taken so far
  lines,         \* the runs of each line so far
  field          \* the field that is open, if one is

inlineVars == <<children, lines, field>>

PlainMarks == [wear |-> {}, link |-> ""]

\* A stretch of text and its marks, or a picture.
Run(text, marks) == [is |-> "text", text |-> text, marks |-> marks]
Picture(at) == [is |-> "picture", text |-> <<[at |-> at, class |-> "picture"]>>, marks |-> PlainMarks]

InlineInit == children = <<>> /\ lines = <<<<>>>> /\ field = <<>>

-----------------------------------------------------------------------------
(* Reading the children                                                    *)

\* The characters of a child, where they stand.
Characters(child) ==
  [k \in DOMAIN child.text |-> [at |-> <<Len(children) + 1, k>>, class |-> child.text[k]]]

NotBroken(characters) == SelectSeq(characters, LAMBDA c : c.class # "break")
Says(text) == \E k \in DOMAIN text : text[k].class # "space"

\* A run's text, a stretch to each line of it.
RunTexts(characters) ==
  LET take(texts, c) == IF c.class = "break" THEN Append(texts, <<>>)
                        ELSE Append(Front(texts), Append(Last(texts), c))
  IN  FoldLeft(take, <<<<>>>>, characters)

AddToLine(page, runs) == Append(Front(page), Last(page) \o runs)

AddLines(page, texts, marks) ==
  AddToLine(page, <<Run(texts[1], marks)>>)
    \o [k \in 1..(Len(texts) - 1) |-> <<Run(texts[k + 1], marks)>>]

AppendRun(page, run, marks) == AddLines(page, RunTexts(run), marks)

\* What a run wears.
MarksOf(child) == [wear |-> child.wear, link |-> ""]

\* What a link over text wears: not the underline and colour Word paints on it.
LinkMarks(marks, target) == [wear |-> marks.wear \ {"underline", "colour"}, link |-> target]

IsLinked(run) == run.marks.link # ""

Grouped(groups, run) ==
  IF groups # <<>> /\ IsLinked(Last(groups)[1]) = IsLinked(run)
    THEN Append(Front(groups), Append(Last(groups), run))
    ELSE Append(groups, <<run>>)

TextOf(runs) == FlattenSeq([k \in DOMAIN runs |-> runs[k].text])

Stretches(groups, target) ==
  FlattenSeq([g \in DOMAIN groups |->
    IF IsLinked(groups[g][1]) \/ ~Says(TextOf(groups[g])) THEN groups[g]
    ELSE <<Run(TextOf(groups[g]), LinkMarks(groups[g][1].marks, target))>>])

\* Mutant of Rendered: the whole of a field wears its target, links in it too.
RenderedAsOne(taken) ==
  IF taken.target = "" \/ taken.result = <<>> THEN taken.result
  ELSE << Run(TextOf(taken.result), LinkMarks(taken.result[1].marks, taken.target)) >>

\* What a field puts on the page: each stretch of its result between the links
\* in it as one link, if it is a HYPERLINK.
Rendered(taken) ==
  IF taken.target = "" THEN taken.result
  ELSE Stretches(FoldLeft(Grouped, <<>>, taken.result), taken.target)

-----------------------------------------------------------------------------
Take(child) ==
  /\ Len(children) < MaxChildren
  /\ children' = Append(children, child)

\* Whatever was open is given up.
TakeBegin(child) ==
  /\ Take(child) /\ child.is = "begin"
  /\ field' = <<[target |-> "", result |-> <<>>, showing |-> FALSE]>>
  /\ UNCHANGED lines

TakeSeparate(child) ==
  /\ Take(child) /\ child.is = "separate" /\ field # <<>>
  /\ field' = [field EXCEPT ![1].showing = TRUE]
  /\ UNCHANGED lines

TakeEnd(child) ==
  /\ Take(child) /\ child.is = "end" /\ field # <<>>
  /\ field' = <<>>
  /\ lines' = AddToLine(lines, Rendered(field[1]))

\* The first address of the instruction is the field's.
HyperlinkTarget(target, child) == IF target = "" THEN child.target ELSE target

\* A run ahead of the separator is of the instruction, and says where a link
\* points; after it, it is of the result, whose lines run on.
TakeIntoField(child) ==
  /\ Take(child) /\ child.is \in {"run", "picture", "instruction"} /\ field # <<>>
  /\ field' = IF field[1].showing
                THEN [field EXCEPT ![1].result =
                       IF child.is = "run"
                         THEN Append(@, Run(NotBroken(Characters(child)), MarksOf(child)))
                         ELSE Append(@, Run(<<>>, PlainMarks))]
                ELSE IF child.is = "instruction"
                THEN [field EXCEPT ![1].target = HyperlinkTarget(@, child)]
                ELSE field
  /\ UNCHANGED lines

\* A run says its text, or the picture in it; a stray mark of a field says nothing.
TakeRun(child) ==
  /\ Take(child) /\ child.is \notin {"begin", "link"} /\ field = <<>>
  /\ lines' = CASE child.is = "run" -> AppendRun(lines, Characters(child), MarksOf(child))
                [] child.is = "picture" -> AddToLine(lines, <<Picture(<<Len(children) + 1, 1>>)>>)
                [] OTHER -> AddToLine(lines, <<Run(<<>>, PlainMarks)>>)
  /\ UNCHANGED field

\* A link is one run of its line, or of the field around it.
TakeLink(child) ==
  /\ Take(child) /\ child.is = "link"
  /\ LET text == NotBroken(Characters(child))
         link == IF Says(text)
                   THEN <<Run(text, LinkMarks(MarksOf(child), child.target))>>
                   ELSE <<>>
     IN  IF field = <<>> THEN lines' = AddToLine(lines, link) /\ UNCHANGED field
         ELSE field' = [field EXCEPT ![1].result = @ \o link] /\ UNCHANGED lines

TakeChild(child) ==
  \/ TakeBegin(child) \/ TakeSeparate(child) \/ TakeEnd(child)
  \/ TakeIntoField(child) \/ TakeRun(child) \/ TakeLink(child)

\* The lines as they are where the paragraph ends: a field still open is rendered.
ParagraphLines == IF field = <<>> THEN lines ELSE AddToLine(lines, Rendered(field[1]))

-----------------------------------------------------------------------------
(* Rendering a line                                                        *)

\* Neighbouring runs of text wearing the same are one span.
Spans(runs) ==
  LET merge(spans, run) ==
        IF /\ spans # <<>> /\ Last(spans).is = "text" /\ run.is = "text"
           /\ Last(spans).marks = run.marks
          THEN Append(Front(spans), Run(Last(spans).text \o run.text, run.marks))
        ELSE Append(spans, run)
  IN  FoldLeft(merge, <<>>, runs)

\* Marked by nothing but a * or ~~ run, which is read by what stands beside it.
Delimited(marks) ==
  /\ marks.link = "" /\ marks.wear \cap {"underline", "raised", "colour"} = {}
  /\ marks.wear # {}

\* What the rest of the line opens with: a picture and marked text with markup.
FirstClass(spans) ==
  LET saying == SelectSeq(spans, LAMBDA span : span.text # <<>>)
  IN  IF saying = <<>> THEN "none"
      ELSE IF saying[1].is = "picture" \/ saying[1].marks # PlainMarks THEN "punctuation"
      ELSE saying[1].text[1].class

\* An edge character stands outside the markers where it is space, and where it
\* is punctuation that a * or ~~ run would have against its inside and text
\* against its outside.
Hoists(class, beyond, punctuation) ==
  \/ class = "space"
  \/ punctuation /\ class = "punctuation" /\ beyond = "text"

\* How much of the text is hoisted ahead of the markers, and where what they
\* wrap ends.
Hoisted(span, before, after) ==
  LET text  == span.text
      beyond(k) == IF k = 0 THEN before ELSE IF k > Len(text) THEN after ELSE text[k].class
      hoists(k, out) == Hoists(text[k].class, beyond(out), Delimited(span.marks))
      start == CHOOSE s \in 0..Len(text) :
                 /\ \A k \in 1..s : hoists(k, k - 1)
                 /\ s = Len(text) \/ ~hoists(s + 1, s)
      end   == CHOOSE e \in start..Len(text) :
                 /\ \A k \in (e + 1)..Len(text) : hoists(k, k + 1)
                 /\ e = start \/ ~hoists(e, e + 1)
  IN  [start |-> start, end |-> end]

\* Markup is printed as a character of its own, with what it marks.
Markup(edge, marks) == [at |-> <<>>, class |-> "punctuation", edge |-> edge, marks |-> marks]
Printed(text, marks) ==
  [k \in DOMAIN text |-> [at |-> text[k].at, class |-> text[k].class, edge |-> "", marks |-> marks]]

\* The span as cut: what precedes its markers, what they wrap, what follows.
Marked(text, marks, cut) ==
  IF cut.start = cut.end \/ marks = PlainMarks THEN Printed(text, PlainMarks)
  ELSE Printed(SubSeq(text, 1, cut.start), PlainMarks)
         \o <<Markup("opens", marks)>> \o Printed(SubSeq(text, cut.start + 1, cut.end), marks)
         \o <<Markup("closes", marks)>>
         \o Printed(SubSeq(text, cut.end + 1, Len(text)), PlainMarks)

RenderSpan(span, before, after) ==
  IF span.is = "picture" THEN Printed(span.text, PlainMarks)
  ELSE Marked(span.text, span.marks, Hoisted(span, before, after))

RenderSpans(spans) ==
  LET add(parts, i) ==
        parts \o RenderSpan(spans[i], IF parts = <<>> THEN "none" ELSE Last(parts).class,
                            FirstClass(SubSeq(spans, i + 1, Len(spans))))
  IN  FoldLeft(add, <<>>, [i \in DOMAIN spans |-> i])

Stripped(line) ==
  LET saying == {k \in DOMAIN line : line[k].class # "space"}
  IN  IF saying = {} THEN <<>>
      ELSE SubSeq(line, CHOOSE k \in saying : \A j \in saying : k <= j,
                        CHOOSE k \in saying : \A j \in saying : j <= k)

\* The characters a line prints, the space at its edges taken off.
RenderLine(runs) == Stripped(RenderSpans(Spans(runs)))

\* The paragraph's lines, those that say nothing left out.
RenderedLines(page) ==
  SelectSeq([i \in DOMAIN page |-> RenderLine(page[i])], LAMBDA line : line # <<>>)

ParagraphMarkdown == RenderedLines(ParagraphLines)

=============================================================================
