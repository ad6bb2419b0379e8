------------------------------ MODULE Outline ------------------------------
(***************************************************************************)
(* parsing/models.py MarkdownSection: a document's sections as one flat    *)
(* sequence, each with its parent (0 for none) and its place among the     *)
(* siblings of its own kind.  Level and number are worked out from these.  *)
(*                                                                         *)
(* A heading is a sequence of words, each a name or a number such as 3.1   *)
(* or A.2: the number a section prints is a word of its own.               *)
(***************************************************************************)
EXTENDS Numerals, FiniteSets, SequencesExt

CONSTANT ALPHABET   \* how many letters there are to label appendices with

ASSUME OutlineAssumption == ALPHABET \in Nat \ {0}

Name(name) == [name |-> name, letters |-> <<>>, path |-> <<>>]

\* Bijective base 26: there is no letter for zero.
Letters[n \in Nat] ==
  IF n = 0 THEN <<>>
  ELSE Append(Letters[(n - 1) \div ALPHABET], ((n - 1) % ALPHABET) + 1)

\* The sections from i up to the top, i first.
Ancestry(sections, i) ==
  LET up[k \in 0..Len(sections)] == IF k = 0 THEN <<>> ELSE <<k>> \o up[sections[k].parent]
  IN  up[i]

Level(sections, i) == Len(Ancestry(sections, i))

\* An appendix at the top is lettered; beneath it everything is numbered.
Number(sections, i) ==
  LET down == Reverse(Ancestry(sections, i))
      top  == sections[down[1]]
      path == [k \in DOMAIN down |-> sections[down[k]].ordinal]
  IN  IF top.appendix
        THEN [name |-> "", letters |-> Letters[top.ordinal], path |-> Tail(path)]
        ELSE [name |-> "", letters |-> <<>>, path |-> path]

RenderedHeading(sections, i) ==
  IF sections[i].appendix THEN sections[i].heading
  ELSE <<Number(sections, i)>> \o sections[i].heading

-----------------------------------------------------------------------------
(* anchors.py                                                              *)

\* A heading's words with what is no letter, digit or hyphen taken out: the dots
\* of a number go, its digits stay.
Slugify(words) ==
  [k \in DOMAIN words |->
    [name |-> words[k].name, letters |-> words[k].letters,
     digits |-> FlattenSeq([j \in DOMAIN words[k].path |-> Digits[words[k].path[j]]])]]

Slug(sections, i) == Slugify(RenderedHeading(sections, i))

Suffixed(slug, count) ==
  IF count = 0 THEN slug ELSE Append(slug, [name |-> "", letters |-> <<>>, digits |-> Digits[count]])

\* A slug spelled before is told apart by how often it was.
ToldApart(slugs) ==
  [i \in DOMAIN slugs |->
    Suffixed(slugs[i], Cardinality({j \in 1..(i - 1) : slugs[j] = slugs[i]}))]

OfDocument(sections) == ToldApart([i \in DOMAIN sections |-> Slug(sections, i)])

=============================================================================
