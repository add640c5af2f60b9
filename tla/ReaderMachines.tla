--------------------------- MODULE ReaderMachines ---------------------------
(* The parts of an open book, for TLC.  They share no variable, so a       *)
(* behaviour is one of theirs, with the others at rest.                    *)
EXTENDS ReaderFrame, ReadingPosition, Bookmarks, PagedChapter, ChapterPull,
        ChapterText, BookSearch

VARIABLE machine   \* which one runs

openVars == <<machine, readerVars, positionVars, bookmarkVars, pageVars,
               pullVars, textVars, searchVars>>

(* Chapters of three text nodes, in blocks and inline elements.            *)
Node(block, inline) == [block |-> block, inline |-> inline]
SomeShapes == {<<Node(0, 0), Node(1, 0), Node(2, 0)>>, <<Node(1, 0), Node(1, 1), Node(0, 0)>>,
               <<Node(0, 0), Node(1, 0), Node(1, 1)>>}
SomeTexts == {<<"a">>, <<"a", " ", "b">>, <<" ">>}
SomeQueries == {<<"a">>, <<"a", " ", "b">>, <<"b", "a">>, <<"a", "a">>}

ReaderMachinesInit ==
    /\ machine \in {"frame", "position", "bookmarks", "pages", "pull", "text",
                    "search"}
    /\ ReaderInit
    /\ PositionInit
    /\ BookmarksInit
    /\ (machine # "bookmarks" => kept = {} /\ here = CHOOSE p \in Spots : TRUE)
    /\ PagesInit
    /\ (machine # "pages" => pg.mode = "scroll" /\ pg.wish.kind = "top" /\ pg.lay = CHOOSE l \in Layouts : TRUE)
    /\ PullInit
    /\ (machine # "pull" => frameView = [mode |-> "scroll", at |-> "mid", prev |-> TRUE, next |-> TRUE])
    /\ TextInit
    /\ (machine # "text" => \A i \in DOMAIN doc : doc[i].inline = 0 /\ doc[i].text = <<" ">>)
    /\ SearchInit

ReaderMachinesNext ==
    /\ UNCHANGED machine
    /\ \/ /\ machine = "frame" /\ ReaderNext
          /\ UNCHANGED <<positionVars, bookmarkVars, pageVars, pullVars,
                          textVars, searchVars>>
       \/ /\ machine = "position" /\ PositionNext
          /\ UNCHANGED <<readerVars, bookmarkVars, pageVars, pullVars,
                          textVars, searchVars>>
       \/ /\ machine = "bookmarks" /\ BookmarksNext
          /\ UNCHANGED <<readerVars, positionVars, pageVars, pullVars,
                          textVars, searchVars>>
       \/ /\ machine = "pages" /\ PagesNext
          /\ UNCHANGED <<readerVars, positionVars, bookmarkVars, pullVars,
                          textVars, searchVars>>
       \/ /\ machine = "pull" /\ PullNext
          /\ UNCHANGED <<readerVars, positionVars, bookmarkVars, pageVars,
                          textVars, searchVars>>
       \/ /\ machine = "text" /\ TextNext
          /\ UNCHANGED <<readerVars, positionVars, bookmarkVars, pageVars,
                          pullVars, searchVars>>
       \/ /\ machine = "search" /\ SearchNext
          /\ UNCHANGED <<readerVars, positionVars, bookmarkVars, pageVars,
                          pullVars, textVars>>

ReaderMachinesSpec == ReaderMachinesInit /\ [][ReaderMachinesNext]_openVars
=============================================================================
