----------------------------- MODULE ChapterText -----------------------------
(* Positions in a chapter's text that other parts keep: anchors ("cfi:...",*)
(* lib/cfi.ts, captured by iframe/frame.ts) and the marks of a search hit  *)
(* (iframe/searchHighlight.ts), which wrap the text the anchors count.     *)
(*                                                                         *)
(* The document is its text nodes in order.  A node is in a block, or      *)
(* loose in the chapter, maybe in an inline element of it, maybe wrapped   *)
(* in a search mark; from numbers its first character in the chapter.      *)
EXTENDS Naturals, FiniteSets, Sequences, SequencesExt, FiniteSetsExt

CONSTANTS
    Texts,   \* what a text node may say, as sequences of characters
    Queries, \* searches, already folded
    Shapes   \* chapters: sequences of [block, inline], one per text node

Space == " "

VARIABLES
    doc,    \* the text nodes
    anchor, \* a stored anchor, and the character it was captured at
    hit     \* the last query and where its hit was reported; none when cleared

textVars == <<doc, anchor, hit>>

NoAnchor == [path |-> 0, offset |-> 0, was |-> 0]
NoHit == [query |-> <<>>, near |-> 0]
Loose == 0

(***************************************************************************)
(* Anchors                                                                 *)
(***************************************************************************)

(* Faulty ContentSiblings: search marks count as elements.                 *)
SiblingsCountingMarks(d, i) ==
    Cardinality({d[j].block : j \in 1 .. i} \ {Loose})
        + Cardinality({j \in 1 .. i : d[j].block = Loose /\ d[j].marked})

(* The chapter's element children up to node i: its blocks, in order; the  *)
(* marks that wrap loose text are not counted.                             *)
ContentSiblings(d, i) == Cardinality({d[j].block : j \in 1 .. i} \ {Loose})

TextBefore(d, i) ==
    FoldLeft(LAMBDA n, j : n + Len(d[j].text), 0,
             SetToSortSeq({j \in 1 .. i - 1 : d[j].block = d[i].block}, <))

(* generateCFI for a caret at o in node i: the block's place among its     *)
(* siblings, and the characters of the block before the caret.             *)
GenerateCFI(d, i, o) == [path |-> ContentSiblings(d, i), offset |-> TextBefore(d, i) + o,
                         was |-> d[i].from + o]

InElement(d, path) == {i \in DOMAIN d : d[i].block # Loose /\ ContentSiblings(d, i) = path}

(* textNodeAtOffset: the first node with text that reaches the offset, or  *)
(* the end of the last one; 0 where nothing holds a point.                 *)
ResolvePoint(d, cfi) ==
    LET held == {i \in InElement(d, cfi.path) : d[i].text # <<>>}
        reach == {i \in held : cfi.offset <= TextBefore(d, i) + Len(d[i].text)}
        i == IF reach # {} THEN Min(reach) ELSE Max(held)
    IN  IF held = {} THEN 0
        ELSE d[i].from + IF reach # {} THEN cfi.offset - TextBefore(d, i) ELSE Len(d[i].text)

(***************************************************************************)
(* The search index                                                        *)
(***************************************************************************)

(* What the walk meets: a boundary at a block's edge, then characters.     *)
Walked(d, i) ==
    (IF i > 1 /\ d[i].block # d[i - 1].block THEN <<[node |-> 0, at |-> 0, char |-> Space]>> ELSE <<>>)
        \o [k \in DOMAIN d[i].text |-> [node |-> i, at |-> k, char |-> d[i].text[k]]]

Events(d) == FlattenSeq([i \in DOMAIN d |-> Walked(d, i)])

(* Whitespace collapses to one space, queued until a character follows.    *)
IndexChar(ix, e) ==
    IF e.char = Space THEN [ix EXCEPT !.pending = ix.seq # <<>>]
    ELSE [seq |-> (IF ix.pending THEN Append(ix.seq, [node |-> 0, at |-> 0, char |-> Space]) ELSE ix.seq)
                    \o <<e>>,
          pending |-> FALSE]

BuildSearchTextIndex(d) == FoldLeft(IndexChar, [seq |-> <<>>, pending |-> FALSE], Events(d)).seq

MatchesFoldedAt(index, start, q) ==
    /\ start + Len(q) <= Len(index)
    /\ \A k \in DOMAIN q : index[start + k].char = q[k]

(* Where the scan starts: the reported place, or the last place the query  *)
(* fits in when the report lies past it.                                   *)
StartAt(index, q, near) == Min({near, Len(index) - Len(q)})

(* From there on, then from the chapter's start.                           *)
FindFoldedMatch(index, q, near) ==
    LET all == {s \in 0 .. Len(index) : MatchesFoldedAt(index, s, q)}
        after == {s \in all : s >= StartAt(index, q, near)}
    IN  IF all = {} THEN {} ELSE {Min(IF after # {} THEN after ELSE all)}

(***************************************************************************)
(* The marks                                                               *)
(***************************************************************************)

Piece(node, lo, hi, marked) ==
    [node EXCEPT !.text = SubSeq(@, lo, hi), !.from = @ + lo - 1, !.marked = marked]

(* The run of node i: its characters in the match, with the whitespace the *)
(* index collapsed between them.  Wrapping splits the node around it.      *)
Wrapped(d, i, match) ==
    LET run == {e.at : e \in {m \in match : m.node = i}}
    IN  IF run = {} THEN <<d[i]>>
        ELSE <<Piece(d[i], 1, Min(run) - 1, FALSE), Piece(d[i], Min(run), Max(run), TRUE),
               Piece(d[i], Max(run) + 1, Len(d[i].text), FALSE)>>

WrapIndexRange(d, index, start, len) ==
    LET match == {index[k] : k \in start + 1 .. start + len}
    IN  FlattenSeq([i \in DOMAIN d |-> Wrapped(d, i, match)])

WithoutNormalising(d) == [i \in DOMAIN d |-> [d[i] EXCEPT !.marked = FALSE]]

Joins(a, b) == a.block = b.block /\ a.inline = b.inline

(* Unwrapping normalises: empty nodes go, neighbours become one again.     *)
UnwrapSearchMarks(d) ==
    FoldLeft(LAMBDA done, n :
                 IF done # <<>> /\ Joins(Last(done), n)
                 THEN Append(Front(done), [Last(done) EXCEPT !.text = @ \o n.text])
                 ELSE Append(done, n),
             <<>>, WithoutNormalising(d))

(***************************************************************************)
(* Steps                                                                   *)
(***************************************************************************)

(* The reported place of a hit may be off: the chapter was extracted       *)
(* elsewhere.  Then the query is looked for from there.                    *)
HighlightSearchMatch(q, offset) ==
    LET clean == UnwrapSearchMarks(doc)
        index == BuildSearchTextIndex(clean)
        found == IF MatchesFoldedAt(index, offset, q) THEN {offset}
                 ELSE FindFoldedMatch(index, q, offset)
    IN  /\ doc' = IF found = {} THEN clean
                  ELSE WrapIndexRange(clean, index, CHOOSE s \in found : TRUE, Len(q))
        /\ hit' = [query |-> q, near |-> offset]
        /\ UNCHANGED anchor

ClearSearchHighlights ==
    /\ doc' = UnwrapSearchMarks(doc) /\ hit' = NoHit
    /\ UNCHANGED anchor

(* captureAnchorSpot: the caret at the reading edge, when it is in a block.*)
Capture ==
    \E i \in DOMAIN doc :
        /\ doc[i].block # Loose /\ doc[i].text # <<>>
        /\ \E o \in 0 .. Len(doc[i].text) : anchor' = GenerateCFI(doc, i, o)
        /\ UNCHANGED <<doc, hit>>

Chapter(shape, says) ==
    [i \in DOMAIN shape |->
        [block |-> shape[i].block, inline |-> shape[i].inline, marked |-> FALSE, text |-> says[i],
         from |-> FoldLeft(LAMBDA n, j : n + Len(says[j]), 1, [j \in 1 .. i - 1 |-> j])]]

TextInit ==
    /\ \E shape \in Shapes : \E says \in [DOMAIN shape -> Texts] : doc = Chapter(shape, says)
    /\ anchor = NoAnchor /\ hit = NoHit

TextNext ==
    \/ \E q \in Queries : \E offset \in 0 .. 3 : HighlightSearchMatch(q, offset)
    \/ ClearSearchHighlights \/ Capture

TextSpec == TextInit /\ [][TextNext]_textVars

(***************************************************************************)
(* Properties                                                              *)
(***************************************************************************)

(* An anchor means the same character with a highlight on and with it off, *)
(* whichever of the two it was captured under.                             *)
AnchorStable == anchor # NoAnchor => ResolvePoint(doc, anchor) = anchor.was

Written(seq) == SelectSeq(seq, LAMBDA c : c # Space)

(* The chapter's text as the extractor writes it, stated on its own: the   *)
(* characters in order, one space where whitespace or a block's edge       *)
(* separates two.                                                          *)
Extracted(d) ==
    LET e == Events(d)
        chars == SetToSortSeq({k \in DOMAIN e : e[k].char # Space}, <)
        spaced(n) == n > 1 /\ chars[n] # chars[n - 1] + 1
    IN  FlattenSeq([n \in DOMAIN chars |->
            IF spaced(n) THEN <<Space, e[chars[n]].char>> ELSE <<e[chars[n]].char>>])

(* Where in the chapter's text a query stands.                             *)
Occurrences(text, q) == {s \in 0 .. Len(text) - Len(q) : SubSeq(text, s + 1, s + Len(q)) = q}

(* Where in the chapter's text the mark begins.                            *)
MarkStart ==
    LET index == BuildSearchTextIndex(doc)
    IN  Min({k \in DOMAIN index : index[k].node # 0 /\ doc[index[k].node].marked}) - 1

(* What is marked is the query and nothing else, and a query the chapter   *)
(* contains is always marked: however nodes, elements and blocks cut the   *)
(* match, whatever was marked before, and wherever the hit was reported.   *)
HighlightIsTheMatch ==
    LET marked == SelectSeq(doc, LAMBDA n : n.marked)
        says == FlattenSeq([k \in DOMAIN marked |-> marked[k].text])
        contained == Occurrences(Extracted(doc), hit.query) # {}
    IN  Written(says) = IF contained THEN Written(hit.query) ELSE <<>>

(* The mark is on the occurrence the report meant: the first from the      *)
(* reported place on, and past them all the one the chapter ends with.     *)
HighlightIsNear ==
    LET text == Extracted(doc)
        all == Occurrences(text, hit.query)
        onward == {s \in all : s >= hit.near}
        last == Len(text) - Len(hit.query)
    IN  hit # NoHit =>
            /\ onward # {} => MarkStart = Min(onward)
            /\ onward = {} /\ last \in all => MarkStart = last

(* Marks are laid on the match that was meant, and move nothing.           *)
MarksKeepText == AnchorStable /\ HighlightIsTheMatch /\ HighlightIsNear
=============================================================================
