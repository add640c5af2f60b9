---------------------------- MODULE ChapterRemap ----------------------------
(***************************************************************************)
(* How a stored reading position follows its book from one file to the     *)
(* next (internal/storage/bookreplace.go, buildChapterRemap in             *)
(* internal/api/bookreplace.go).  BookFiles counts file generations only;  *)
(* this module says what the move does to the position itself.             *)
(*                                                                         *)
(* A spine is a sequence of documents, named by href; chapters count from  *)
(* 0.  A percentage is one of 0..Full.  An anchor (CFI) is a path inside   *)
(* one document, so it is abstracted to the document it was taken in.      *)
(***************************************************************************)
EXTENDS Integers, Sequences

CONSTANTS
    Hrefs,      \* documents
    NoCFI,      \* the absent anchor
    Full,       \* 100 percent
    MaxChapters \* bound: chapters of a file

ASSUME NoCFIAssumption == NoCFI \notin Hrefs
ASSUME FullAssumption == Full \in Nat
ASSUME MaxChaptersAssumption == MaxChapters \in Nat \ {0}

VARIABLES
    spine, \* the installed file
    pos    \* a progress row, a bookmark or a staged position

remapVars == <<spine, pos>>

Spines   == UNION {[1..n -> Hrefs] : n \in 1..MaxChapters}
Position == [chapter : Int, percent : 0..Full, cfi : Hrefs \cup {NoCFI}]

Zero == [chapter |-> 0, percent |-> 0, cfi |-> NoCFI]

Chapters(s)    == 0..(Len(s) - 1)
Document(s, c) == s[c + 1]
Documents(s)   == {Document(s, c) : c \in Chapters(s)}

(* validateProgress, for a position written under the installed file.      *)
Valid(s, p) == p.chapter \in Chapters(s) /\ p.percent \in 0..Full

-----------------------------------------------------------------------------
(* newIndex: the first chapter that shows a document.                      *)
FirstIndex(s, href) == CHOOSE c \in Chapters(s) :
    /\ Document(s, c) = href
    /\ \A d \in Chapters(s) : Document(s, d) = href => c <= d

NoMove == [index |-> -1, keepAnchor |-> FALSE]

(* buildChapterRemap.  When no document is found again no chapter has a    *)
(* move, so its last loop changes nothing.                                 *)
BuildRemap(old, new) ==
    [moves |-> [c \in Chapters(old) |->
                   IF Document(old, c) \in Documents(new)
                      THEN [index |-> FirstIndex(new, Document(old, c)), keepAnchor |-> TRUE]
                      ELSE NoMove],
     newCount |-> Len(new)]

(* A remap moves chapter c.                                                *)
Matches(m, c) == /\ c \in DOMAIN m.moves
                 /\ m.moves[c].index \in 0..(m.newCount - 1)

ApplyMove(move, p) == [chapter |-> move.index, percent |-> p.percent,
                       cfi |-> IF move.keepAnchor THEN p.cfi ELSE NoCFI]

(* Faulty Apply, used by no specification: a matched chapter starts over.  *)
(* It shows that FollowsDocument notices such a slip.                      *)
ApplyRestarts(m, p) ==
    IF Matches(m, p.chapter) THEN [ApplyMove(m.moves[p.chapter], p) EXCEPT !.percent = 0]
    ELSE IF p.chapter >= m.newCount
       THEN [chapter |-> m.newCount - 1, percent |-> Full, cfi |-> NoCFI]
    ELSE [p EXCEPT !.cfi = NoCFI]

(* ChapterRemap.Apply.                                                     *)
Apply(m, p) ==
    IF m.newCount <= 0 THEN Zero
    ELSE IF Matches(m, p.chapter) THEN ApplyMove(m.moves[p.chapter], p)
    ELSE IF p.chapter < 0 THEN Zero
    ELSE IF p.chapter >= m.newCount
       THEN [chapter |-> m.newCount - 1, percent |-> Full, cfi |-> NoCFI]
    ELSE [p EXCEPT !.cfi = NoCFI]

-----------------------------------------------------------------------------
RemapInit ==
    /\ spine \in Spines
    /\ pos = Zero

(* The reader saves where it is; its anchor is taken in the open document, *)
(* or it has none yet.                                                     *)
SavePosition ==
    /\ \E c \in Chapters(spine), percent \in 0..Full :
          \E cfi \in {Document(spine, c), NoCFI} :
             pos' = [chapter |-> c, percent |-> percent, cfi |-> cfi]
    /\ UNCHANGED spine

(* ReplaceBookFileContext, remapBook: parseReplacementEPUB refuses a file  *)
(* without chapters.                                                       *)
Replace ==
    /\ spine' \in Spines
    /\ pos' = Apply(BuildRemap(spine, spine'), pos)

RemapNext == SavePosition \/ Replace

RemapSpec == RemapInit /\ [][RemapNext]_remapVars

-----------------------------------------------------------------------------
(* After any number of replacements a stored position is one the progress  *)
(* validator accepts for the installed file (Apply's clamping).            *)
PositionValid == Valid(spine, pos)

(* An anchor is never resolved against another document than its own:      *)
(* where the document is not found again the anchor is dropped (KeepAnchor).*)
AnchorInItsDocument == pos.cfi # NoCFI => Document(spine, pos.chapter) = pos.cfi

(* A replacement that still has the document keeps the reader in it, at    *)
(* the same place; otherwise the position keeps its chapter number or      *)
(* parks at the end of the shorter book.                                   *)
FollowsDocument ==
    [][<<spine, pos>>' # <<spine, pos>> /\ Replace =>
        LET doc == Document(spine, pos.chapter) IN
        IF doc \in Documents(spine')
           THEN /\ Document(spine', pos'.chapter) = doc
                /\ pos'.percent = pos.percent /\ pos'.cfi = pos.cfi
           ELSE \/ pos' = [pos EXCEPT !.cfi = NoCFI]
                \/ /\ pos.chapter >= Len(spine')
                   /\ pos' = [chapter |-> Len(spine') - 1, percent |-> Full, cfi |-> NoCFI]
      ]_remapVars

(* A file that only got chapters at its end moves nothing, as long as no   *)
(* document is listed twice.                                               *)
AppendKeepsPlace ==
    [][(/\ Len(spine) <= Len(spine') /\ spine = SubSeq(spine', 1, Len(spine))
        /\ \A c, d \in Chapters(spine) : Document(spine, c) = Document(spine, d) => c = d
        /\ Replace) => pos' = pos]_remapVars
=============================================================================
