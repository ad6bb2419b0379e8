---------------------------- MODULE MCConversion ----------------------------
(***************************************************************************)
(* Conversion on small documents, of one kind of difficulty each.          *)
(***************************************************************************)
EXTENDS Conversion

Unset == [numId |-> <<>>, ilvl |-> <<>>, indent |-> <<>>]
Unbordered == <<"", "", "", "">>

Normal ==
  [is |-> "paragraph", n |-> 0, k |-> 0, kind |-> "normal", level |-> 0, heading |-> <<>>,
   says |-> "text", link |-> <<>>, hashes |-> 0, own |-> Unset, style |-> Unset,
   border |-> Unbordered, shapes |-> <<>>, names |-> <<>>, page |-> ""]

Blank   == [Normal EXCEPT !.says = "nothing"]
Figure  == [Normal EXCEPT !.says = "picture"]
Part(k) == [Normal EXCEPT !.k = k]
Contents == [Normal EXCEPT !.kind = "toc"]
Heading(level, words)  == [Normal EXCEPT !.kind = "heading", !.level = level, !.heading = words]
Appendix(words)        == [Normal EXCEPT !.kind = "appendix", !.heading = words]
Silent(p) == [p EXCEPT !.says = "nothing"]
Item(numId, level, p) == [p EXCEPT !.own = [numId |-> <<numId>>, ilvl |-> <<level>>, indent |-> <<>>]]
At(indent, p) == [p EXCEPT !.own.indent = <<indent>>]

A == <<Name("a")>>
NumberDue == [name |-> "", letters |-> <<>>, path |-> <<1>>]

\* Slugs.
AnnexSlug == Slugify(<<Name("annex")>>)
B == Slugify(<<Name("_Ref1")>>)

-----------------------------------------------------------------------------
(* Lists: 1 is bulleted as Word bullets, 2 is numbered, 3 has bullets of   *)
(* its own.                                                                *)

Level0(format, glyph) == [ilvl |-> 0, format |-> format, glyph |-> glyph, indent |-> <<360>>]
Level1(format, glyph) == [ilvl |-> 1, format |-> format, glyph |-> glyph, indent |-> <<720>>]

MCDeclared ==
  << <<Level0("bullet", "filled"), Level1("bullet", "hollow")>>,
     <<Level0("decimal", ""), Level1("lowerLetter", "")>>,
     <<Level0("bullet", "dash")>> >>

ListItems ==
  {At(indent, Item(list[1], list[2], Normal)) :
     indent \in {0, 360, 720}, list \in {<<1, 0>>, <<2, 0>>, <<3, 0>>}}
    \cup {At(0, Item(1, 1, Normal))}

-----------------------------------------------------------------------------
(* Flow: what may come between the items of a list                         *)

Box == <<Part(1), Item(1, 0, Part(2))>>
Boxed == [Normal EXCEPT !.border = <<"black", "black", "black", "black">>]

Flow ==
  { Item(2, 0, Normal), Item(2, 1, Normal), Silent(Item(2, 0, Normal)),
    [Normal EXCEPT !.style = [Unset EXCEPT !.numId = <<1>>],
                   !.own = [Unset EXCEPT !.numId = <<NUMBERING_REMOVED>>]],
    [Normal EXCEPT !.style = [Unset EXCEPT !.numId = <<1>>],
                   !.shapes = <<[choices |-> <<<<Box>>, <<Box>>>>, fallback |-> <<Box>>]>>],
    [Blank EXCEPT !.shapes = <<[choices |-> <<>>, fallback |-> <<Box>>]>>],
    Contents, Boxed,
    [Boxed EXCEPT !.border[1] = "auto", !.shapes = <<[choices |-> <<>>, fallback |-> <<Box>>]>>],
    [Boxed EXCEPT !.border[1] = "none"],
    Heading(1, A),
    [is |-> "table", columns |-> 1, rows |-> <<<<[merge |-> "", span |-> 1, paragraphs |-> Box]>>>>] }

Cell(merge, span, ps) == [merge |-> merge, span |-> span, paragraphs |-> ps]
Tables ==
  {[is |-> "table", columns |-> columns, rows |-> rows] :
     columns \in 0..2,
     rows \in { <<>>, <<<<Cell("", 1, Box)>>>>,
                <<<<Cell("", 2, <<Part(1)>>)>>, <<Cell("", 1, <<Part(2)>>), Cell("", 1, <<Part(3)>>)>>>>,
                <<<<Cell("starts", 1, <<Part(1)>>), Cell("", 1, <<Silent(Part(2))>>)>>,
                  <<Cell("continues", 1, <<Part(3)>>), Cell("", 1, <<Item(1, 0, Part(4)), Part(5)>>)>>>> }}

-----------------------------------------------------------------------------
(* The outline, the cover, and links                                       *)

Outlines ==
  { Heading(1, A), Heading(2, A), Heading(3, A), Appendix(<<Name("annex")>>),
    Appendix(<<NumberDue, Name("a")>>), [Normal EXCEPT !.hashes = 3] }

Covers ==
  { Normal, Blank, Figure, [Normal EXCEPT !.kind = "title"], [Normal EXCEPT !.page = "within"],
    [Normal EXCEPT !.page = "before"], Contents, Silent(Heading(1, <<>>)), Heading(1, A) }

Links ==
  { Heading(1, A), [Heading(2, A) EXCEPT !.names = <<B>>], [is |-> "bookmark", name |-> B],
    [Appendix(<<Name("annex")>>) EXCEPT !.names = <<AnnexSlug>>],
    [Normal EXCEPT !.link = B], [Item(1, 0, Normal) EXCEPT !.link = AnnexSlug] }

Kind(first, elements, longest) == [first |-> first, elements |-> elements, longest |-> longest]

MCBodies ==
  [ list      |-> Kind(ListItems, ListItems \cup {Normal, Silent(Item(2, 0, Normal))}, 4),
    flow      |-> Kind({Heading(1, A)}, Flow, 5),
    table     |-> Kind({Heading(1, A)}, Tables, 3),
    outline   |-> Kind(Outlines, Outlines, 5),
    cover     |-> Kind(Covers, Covers, 4),
    link      |-> Kind(Links, Links, 5),
    paragraph |-> Kind({}, {}, 0) ]

-----------------------------------------------------------------------------
(* The children of a paragraph                                             *)

RunOf(text, wear) == [is |-> "run", text |-> text, wear |-> wear]
LinkTo(text, target) == [is |-> "link", text |-> text, wear |-> {"underline", "colour"}, target |-> target]

MCChildren ==
  { RunOf(<<"text">>, {"italic"}), RunOf(<<"text", "break", "text">>, {}),
    RunOf(<<"space", "text", "space">>, {"bold"}), RunOf(<<"punctuation", "text">>, {"bold"}),
    RunOf(<<"text", "punctuation">>, {"bold"}),
    [is |-> "picture"], LinkTo(<<"text">>, "near"), LinkTo(<<"space">>, "near"),
    [is |-> "begin"], [is |-> "separate"], [is |-> "end"],
    [is |-> "instruction", target |-> "far"] }

=============================================================================
