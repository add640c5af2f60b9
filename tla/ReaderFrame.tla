---------------------------- MODULE ReaderFrame ----------------------------
(* The reader (routes/Read.tsx) and the sandboxed frame that shows a       *)
(* chapter (iframe/frame.ts), with the bridge between them                 *)
(* (components/reader/ChapterFrame.tsx, frameMessageQueue.ts).             *)
(*                                                                         *)
(* The two run in different documents: every message is handled later than *)
(* it is posted, a navigation may overtake the one before it, and the      *)
(* frame may restart and forget everything.  A place is [chapter, spot];   *)
(* after a swap the document still has the old chapter's scroll offset     *)
(* until the restore has run, and that is a place of the old chapter.      *)
EXTENDS Naturals, Sequences, FiniteSets, SequencesExt

CONSTANTS
    LastChapter, \* chapters are 0..LastChapter
    MaxCached,   \* MAX_CHAPTER_CACHE
    MaxQueued,   \* the queues' cap
    MaxNavs,     \* bound: navigations and in-chapter commands
    MaxUpsets    \* bound: reports of a scroll or an edge, and frame restarts, together

ASSUME ReaderAssumption ==
    /\ LastChapter \in Nat /\ MaxCached \in Nat \ {0} /\ MaxQueued \in Nat \ {0}
    /\ MaxNavs \in Nat /\ MaxUpsets \in Nat

VARIABLES
    tab,   \* Read and its ChapterFrame
    fr,    \* the frame's document
    used,  \* bounded steps taken
    want,  \* history: the chapter the last load was asked for
    landed \* history: the last command or report acted on: aimed at, and done to

readerVars == <<tab, fr, used, want, landed>>

Chapters == 0 .. LastChapter
NoNav == [chapter |-> LastChapter + 1, at |-> "none"]
NoChapter == LastChapter + 1
NoTimer == [seq |-> 0, aim |-> NoChapter]
NoLanding == [aim |-> NoChapter, on |-> NoChapter]
Place(c, s) == [chapter |-> c, spot |-> s]

(* seq 0 is "no load yet"; loaded is loadedSeq = seq.                      *)
TabInit == [chapter |-> 0, seq |-> 0, loaded |-> FALSE, settled |-> FALSE,
            ready |-> FALSE, deaf |-> FALSE, error |-> "none", save |-> Place(0, "top"),
            load |-> NoNav, aborted |-> FALSE, pending |-> NoNav, failed |-> NoNav,
            cache |-> <<>>, wire |-> [c \in Chapters |-> "idle"],
            highlight |-> NoChapter, timer |-> NoTimer, back |-> "no",
            held |-> <<>>, queued |-> <<>>, out |-> <<>>]

Blank == [seq |-> 0, place |-> Place(NoChapter, "top"), chapter |-> NoChapter,
          swap |-> NoNav, token |-> 0, reveal |-> [seq |-> 0, token |-> 0, at |-> "none"],
          restoring |-> FALSE, ready |-> FALSE, search |-> NoChapter, marks |-> NoChapter,
          out |-> <<>>]

ReaderInit ==
    /\ tab = TabInit /\ fr = Blank
    /\ used = [navs |-> 0, upsets |-> 0]
    /\ want = NoChapter /\ landed = NoLanding

(***************************************************************************)
(* The bridge                                                              *)
(***************************************************************************)

Coalesced == {"load"}
Relative(m) == m.type = "turn"

(* Latest-wins state keeps its slot; the cap drops the oldest stray.       *)
Enqueue(q, m) ==
    LET at == {i \in DOMAIN q : q[i].type = m.type}
        strays == {i \in DOMAIN q : q[i].type \notin Coalesced}
    IN  IF m.type \in Coalesced /\ at # {} THEN [q EXCEPT ![CHOOSE i \in at : TRUE] = m]
        ELSE IF Len(q) < MaxQueued THEN Append(q, m)
        ELSE IF strays # {} THEN Append(RemoveAt(q, CHOOSE i \in strays : \A j \in strays : i <= j), m)
        ELSE IF m.type \notin Coalesced THEN q ELSE Append(Tail(q), m)

SendToFrame(t, m) == IF t.ready THEN [t EXCEPT !.out = Append(@, m)]
                     ELSE [t EXCEPT !.held = Enqueue(@, m)]

(* Chapter commands wait for the load to settle; page turns never wait.    *)
SendChapterCommand(t, m) ==
    IF m.seq # t.seq THEN t
    ELSE IF t.loaded THEN SendToFrame(t, m)
    ELSE IF Relative(m) THEN t
    ELSE [t EXCEPT !.queued = Enqueue(@, m)]

Msg(type, seq, aim, at) == [type |-> type, seq |-> seq, aim |-> aim, at |-> at]

(* discard.  One highlight waits at most: another is asked for only after  *)
(* the one before has been discarded or has been sent.                     *)
DiscardHighlight(q) ==
    LET at == {i \in DOMAIN q : q[i].type = "highlight"}
    IN  IF at = {} THEN q ELSE RemoveAt(q, CHOOSE i \in at : TRUE)

ClearHighlights(t) ==
    SendToFrame([t EXCEPT !.queued = DiscardHighlight(@)], Msg("clear", 0, t.chapter, "none"))

(***************************************************************************)
(* Loading a chapter                                                       *)
(***************************************************************************)

Cached(t, c) == Contains(t.cache, c)

(* Only a direct load, or a neighbour of the current chapter, is kept.     *)
Admit(t, c) ==
    IF t.wire[c] = "nav" \/ c \in {t.chapter, t.chapter + 1} \/ c + 1 = t.chapter
    THEN Append(IF Len(t.cache) >= MaxCached THEN Tail(t.cache) ELSE t.cache, c)
    ELSE t.cache

Requested(t, c, how) == IF c \notin Chapters \/ Cached(t, c) \/ t.wire[c] # "idle" THEN t
                        ELSE [t EXCEPT !.wire[c] = how]

Prefetched(t) == IF t.chapter = 0 THEN Requested(t, t.chapter + 1, "prefetch")
                 ELSE Requested(Requested(t, t.chapter + 1, "prefetch"), t.chapter - 1, "prefetch")

(* The chapter is in hand: swap the frame and the position together.       *)
HandOver(t) ==
    LET nav == t.load
        swapped == [t EXCEPT !.seq = @ + 1, !.loaded = FALSE, !.settled = FALSE, !.queued = <<>>,
                             !.chapter = nav.chapter, !.save = Place(nav.chapter, nav.at),
                             !.failed = NoNav, !.load = NoNav]
    IN  Prefetched(SendToFrame(swapped, Msg("load", t.seq + 1, nav.chapter, nav.at)))

(* loadChapter: one at a time, the latest kept for when this one has been  *)
(* aborted; a chapter in the cache is handed over at once.                 *)
LoadChapter(t, nav) ==
    IF t.load # NoNav THEN [t EXCEPT !.pending = nav, !.aborted = TRUE]
    ELSE LET begun == [t EXCEPT !.load = nav, !.aborted = FALSE, !.error = "none", !.timer = NoTimer]
         IN  IF Cached(t, nav.chapter)
             THEN HandOver([begun EXCEPT !.cache = Append(Remove(@, nav.chapter), nav.chapter)])
             ELSE Requested(begun, nav.chapter, "nav")

(* Faulty Drained: the navigation that waited is dropped.                  *)
DrainedForgets(t) == [t EXCEPT !.pending = NoNav]

(* The finally block drains the pending navigation.                        *)
Drained(t) == IF t.pending = NoNav THEN t
              ELSE LoadChapter([t EXCEPT !.pending = NoNav], t.pending)

WaitsFor(t, c) == t.load.chapter = c /\ ~t.aborted

Present == tab.back # "gone"
TabStep(t) == tab' = t
FrameIdle == UNCHANGED <<fr, used, want, landed>>

ChapterArrives(c) ==
    /\ Present /\ tab.wire[c] # "idle"
    /\ LET got == [tab EXCEPT !.wire[c] = "idle", !.cache = Admit(tab, c)]
       IN  TabStep(IF WaitsFor(tab, c) THEN HandOver(got) ELSE got)
    /\ FrameIdle

(* loadChapter's catch: the chapter on the screen stays under an error.    *)
LoadFailed(t) == [t EXCEPT !.load = NoNav, !.failed = t.load, !.error = "chapter"]

(* requestWithRetry gives up, after however many attempts.                 *)
ChapterFails(c) ==
    /\ Present /\ tab.wire[c] # "idle"
    /\ LET lost == [tab EXCEPT !.wire[c] = "idle"]
       IN  TabStep(IF WaitsFor(tab, c) THEN LoadFailed(lost) ELSE lost)
    /\ FrameIdle

AbortLands ==
    /\ Present /\ tab.load # NoNav /\ tab.aborted
    /\ LET c == tab.load.chapter
       IN  TabStep(Drained([tab EXCEPT !.load = NoNav,
                                       !.wire[c] = IF @ = "nav" THEN "idle" ELSE @]))
    /\ FrameIdle

(***************************************************************************)
(* What the reader asks for                                                *)
(***************************************************************************)

Asked == /\ tab.back = "no" /\ used.navs < MaxNavs
         /\ used' = [used EXCEPT !.navs = @ + 1]

(* tryInitialLoad, from the position boot chose.                           *)
OpenAt(c, at) ==
    /\ Present /\ want = NoChapter
    /\ TabStep(LoadChapter([tab EXCEPT !.chapter = c, !.save = Place(c, at)], [chapter |-> c, at |-> at]))
    /\ want' = c
    /\ UNCHANGED <<fr, used, landed>>

(* The contents, a link, a bookmark: another chapter is loaded, a place in *)
(* this one is a command to the frame.                                     *)
GoTo(c, at) ==
    /\ Asked /\ want # NoChapter
    /\ TabStep(IF c # tab.chapter THEN LoadChapter(tab, [chapter |-> c, at |-> at])
               ELSE SendChapterCommand(tab, Msg("scroll", tab.seq, c, at)))
    /\ want' = IF c # tab.chapter THEN c ELSE want
    /\ UNCHANGED <<fr, landed>>

TurnPage(at) ==
    /\ Asked /\ want # NoChapter
    /\ TabStep(SendChapterCommand(tab, Msg("turn", tab.seq, tab.chapter, at)))
    /\ UNCHANGED <<fr, want, landed>>

(* navigateToResult: while a chapter is loading the highlight waits.       *)
GoToResult(c) ==
    /\ Asked /\ want # NoChapter
    /\ LET cleared == ClearHighlights([tab EXCEPT !.highlight = NoChapter, !.timer = NoTimer])
           waiting == [cleared EXCEPT !.highlight = c]
       IN  TabStep(IF c # tab.chapter THEN LoadChapter(waiting, [chapter |-> c, at |-> "top"])
                   ELSE IF tab.load # NoNav THEN waiting
                   ELSE SendChapterCommand(cleared, Msg("highlight", tab.seq, c, "mid")))
    /\ want' = IF c # tab.chapter THEN c ELSE want
    /\ UNCHANGED <<fr, landed>>

(* Retry takes the navigation that failed, or the current chapter.         *)
RetryFailed ==
    /\ Asked /\ tab.error # "none" /\ tab.load = NoNav
    /\ LET nav == IF tab.failed = NoNav THEN [chapter |-> tab.chapter, at |-> "top"] ELSE tab.failed
       IN  TabStep(LoadChapter(tab, nav)) /\ want' = nav.chapter
    /\ UNCHANGED <<fr, landed>>

HighlightTimer ==
    /\ Present /\ tab.timer # NoTimer
    /\ TabStep(SendChapterCommand([tab EXCEPT !.timer = NoTimer],
                                  Msg("highlight", tab.timer.seq, tab.timer.aim, "mid")))
    /\ FrameIdle

(* handleBack asks a settled frame where it is, and leaves on the first    *)
(* report or the timeout, saving.                                          *)
Leave == /\ tab' = [TabInit EXCEPT !.save = tab.save, !.back = "gone"]
         /\ fr' = Blank /\ want' = NoChapter /\ landed' = NoLanding
         /\ UNCHANGED used

PressBack ==
    /\ tab.back = "no" /\ want # NoChapter
    /\ IF tab.load # NoNav \/ ~tab.settled THEN Leave
       ELSE /\ TabStep([SendChapterCommand(tab, Msg("ask", tab.seq, tab.chapter, "none"))
                         EXCEPT !.back = "asking"])
            /\ FrameIdle

BackTimesOut == tab.back = "asking" /\ Leave

(* READY_TIMEOUT_MS: the frame never spoke.  An error raised while a       *)
(* chapter is being fetched is taken for the outgoing chapter's.           *)
FrameErrorShown(t) == IF t.load # NoNav THEN t
                      ELSE [t EXCEPT !.settled = FALSE, !.error = "frame"]

ReadyTimeout ==
    /\ Present /\ ~tab.ready /\ ~tab.deaf
    /\ TabStep([FrameErrorShown(tab) EXCEPT !.deaf = TRUE])
    /\ FrameIdle

(***************************************************************************)
(* The frame                                                               *)
(***************************************************************************)

Post(f, m) == [f EXCEPT !.out = Append(@, m)]

(* Faulty FrameReports: a place that is about to change is reported too.   *)
ReportWhileRestoring(f) ==
    Post(f, [type |-> "position", seq |-> f.seq, chapter |-> f.chapter, place |-> f.place])

FrameReports(f) ==
    IF f.restoring THEN f
    ELSE Post(f, [type |-> "position", seq |-> f.seq, chapter |-> f.chapter, place |-> f.place])

FrameReady ==
    /\ Present /\ ~fr.ready
    /\ fr' = Post([fr EXCEPT !.ready = TRUE], [type |-> "ready"])
    /\ UNCHANGED <<tab, used, want, landed>>

(* The document reloads: a message on its way is lost with it.             *)
FrameRestarts ==
    /\ fr.ready /\ used.upsets < MaxUpsets
    /\ fr' = [Blank EXCEPT !.out = fr.out]
    /\ tab' = [tab EXCEPT !.out = <<>>]
    /\ used' = [used EXCEPT !.upsets = @ + 1]
    /\ UNCHANGED <<want, landed>>

(* The swap-out starts now; the outgoing chapter's reveal is disarmed by   *)
(* the new token, and an earlier swap by its timer.                        *)
TakeLoad(f, m) == [f EXCEPT !.swap = m, !.token = @ + 1]

IsStaleCommand(f, m) == m.seq # f.seq

Obey(f, m) ==
    CASE m.type = "load" -> TakeLoad(f, m)
      [] m.type \in {"scroll", "turn"} /\ ~IsStaleCommand(f, m) ->
           IF f.restoring THEN [f EXCEPT !.reveal.at = m.at]
           ELSE FrameReports([f EXCEPT !.place = Place(f.chapter, m.at)])
      [] m.type = "highlight" /\ ~IsStaleCommand(f, m) ->
           IF f.restoring THEN [f EXCEPT !.search = m.aim]
           ELSE [f EXCEPT !.marks = m.aim, !.place = Place(f.chapter, m.at)]
      [] m.type = "clear" -> [f EXCEPT !.search = NoChapter, !.marks = NoChapter]
      [] m.type = "ask" -> FrameReports(f)
      [] OTHER -> f

FrameHandles ==
    /\ fr.ready /\ tab.out # <<>>
    /\ LET m == Head(tab.out)
       IN  /\ fr' = Obey(fr, m)
           /\ landed' = IF m.type \in {"scroll", "turn", "highlight"} /\ ~IsStaleCommand(fr, m)
                        THEN [aim |-> m.aim, on |-> fr.chapter] ELSE NoLanding
    /\ tab' = [tab EXCEPT !.out = Tail(@)]
    /\ UNCHANGED <<used, want>>

(* commitLoad: the document is replaced, its scroll offset is not; the     *)
(* restore waits for the fonts.                                            *)
CommitLoad ==
    /\ fr.swap # NoNav
    /\ fr' = [fr EXCEPT !.swap = NoNav, !.seq = fr.swap.seq, !.chapter = fr.swap.aim,
                        !.restoring = TRUE, !.search = NoChapter, !.marks = NoChapter,
                        !.reveal = [seq |-> fr.swap.seq, token |-> fr.token, at |-> fr.swap.at]]
    /\ UNCHANGED <<tab, used, want, landed>>

IsStale(f) == f.reveal.token # f.token \/ f.reveal.seq # f.seq

(* performInitialRestore: restore, reveal, drain the highlight, "loaded".  *)
Reveal ==
    /\ fr.reveal.seq # 0
    /\ LET done == [fr EXCEPT !.reveal = Blank.reveal]
           shown == [done EXCEPT !.restoring = FALSE, !.place = Place(fr.chapter, fr.reveal.at),
                                 !.marks = fr.search, !.search = NoChapter]
       IN  fr' = IF IsStale(fr) THEN done ELSE FrameReports(Post(shown, [type |-> "loaded", seq |-> fr.seq]))
    /\ UNCHANGED <<tab, used, want, landed>>

(* A scroll or a turn by hand, and the throttled report of it.             *)
ScrollTo(at) ==
    /\ fr.seq # 0 /\ used.upsets < MaxUpsets
    /\ fr' = FrameReports([fr EXCEPT !.place.spot = at])
    /\ used' = [used EXCEPT !.upsets = @ + 1]
    /\ UNCHANGED <<tab, want, landed>>

(* A pull or a key at the chapter's edge; the keys do not wait for the     *)
(* restore.                                                                *)
PullPast(edge) ==
    /\ fr.seq # 0 /\ used.upsets < MaxUpsets
    /\ fr' = Post(fr, [type |-> "edge", seq |-> fr.seq, edge |-> edge])
    /\ used' = [used EXCEPT !.upsets = @ + 1]
    /\ UNCHANGED <<tab, want, landed>>

(***************************************************************************)
(* What the frame says                                                     *)
(***************************************************************************)

(* A second "ready" is a second document, holding no chapter.              *)
OnReady(t) ==
    LET restarted == [t EXCEPT !.loaded = FALSE, !.queued = <<>>]
        flushed == [(IF t.ready THEN restarted ELSE t)
                      EXCEPT !.ready = TRUE, !.out = @ \o t.held, !.held = <<>>]
    IN  IF t.ready THEN FrameErrorShown(flushed) ELSE flushed

(* The cooldown and the grace after a swap may make the tab ignore a pull. *)
OnEdge(t, m, heed) ==
    IF t.load # NoNav \/ ~heed THEN t
    ELSE IF m.edge = "end" /\ t.chapter < LastChapter
         THEN LoadChapter(t, [chapter |-> t.chapter + 1, at |-> "top"])
    ELSE IF m.edge = "start" /\ t.chapter > 0
         THEN LoadChapter(t, [chapter |-> t.chapter - 1, at |-> "end"])
    ELSE t

(* "loaded" releases the waiting commands, and arms a waiting highlight.   *)
OnLoaded(t) ==
    LET released == [t EXCEPT !.loaded = TRUE, !.settled = TRUE, !.queued = <<>>, !.highlight = NoChapter,
                              !.out = IF t.ready THEN @ \o t.queued ELSE @]
    IN  IF t.highlight = NoChapter THEN released
        ELSE [released EXCEPT !.timer = IF t.highlight = t.chapter
                                          THEN [seq |-> t.seq, aim |-> t.highlight] ELSE NoTimer]

OnPosition(t, m) ==
    [t EXCEPT !.save = Place(m.chapter, m.place.spot)]

(* Everything but "ready" must carry the load's own sequence number.       *)
FromThisLoad(t, m) == m.seq = t.seq

Heard(t, m, heed) ==
    CASE m.type = "ready" -> OnReady(t)
      [] m.type = "loaded" /\ FromThisLoad(t, m) -> OnLoaded(t)
      [] m.type = "position" /\ FromThisLoad(t, m) -> OnPosition(t, m)
      [] m.type = "edge" /\ FromThisLoad(t, m) -> OnEdge(t, m, heed)
      [] OTHER -> t

(* The first report back after Back was pressed lets the reader go.        *)
TabHandles ==
    /\ fr.out # <<>>
    /\ \E heed \in BOOLEAN :
         LET m == Head(fr.out)
             t == Heard(tab, m, heed)
         IN  IF tab.back = "asking" /\ m.type = "position" /\ FromThisLoad(tab, m) THEN Leave
             ELSE /\ TabStep(t)
                  /\ fr' = [fr EXCEPT !.out = Tail(@)]
                  /\ want' = IF m.type = "edge" /\ (t.load # tab.load \/ t.seq # tab.seq)
                             THEN IF t.load = NoNav THEN t.chapter ELSE t.load.chapter
                             ELSE want
                  /\ landed' = IF m.type = "position" /\ FromThisLoad(tab, m)
                               THEN [aim |-> m.chapter, on |-> m.place.chapter] ELSE NoLanding
    /\ UNCHANGED used

ReaderNext ==
    \/ \E c \in Chapters : ChapterArrives(c) \/ ChapterFails(c)
    \/ AbortLands \/ FrameHandles \/ CommitLoad \/ Reveal \/ TabHandles
    \/ HighlightTimer \/ ReadyTimeout \/ BackTimesOut
    \/ PressBack \/ RetryFailed \/ FrameReady \/ FrameRestarts
    \/ \E c \in Chapters : OpenAt(c, "mid") \/ GoTo(c, "top") \/ GoToResult(c)
    \/ TurnPage("end") \/ ScrollTo("mid") \/ PullPast("start") \/ PullPast("end")

ReaderSpec == ReaderInit /\ [][ReaderNext]_readerVars

(***************************************************************************)
(* Properties                                                              *)
(***************************************************************************)

(* A command moves the chapter it was aimed at and no other, and a report  *)
(* the reader takes is of the chapter it names: never an offset left over  *)
(* from the chapter before, which the next save would keep.                *)
LandsWhereAimed == landed.aim = landed.on

(* A search mark is only ever on the chapter it was found in.              *)
MarksBelong == fr.marks \in {NoChapter, fr.chapter}

(* Commands, reports and highlights never reach another chapter.           *)
NothingStrays == LandsWhereAimed /\ MarksBelong

Settled == /\ fr.ready /\ tab.load = NoNav /\ tab.out = <<>> /\ fr.out = <<>> /\ fr.swap = NoNav
           /\ ~fr.restoring /\ tab.settled /\ tab.error = "none"

(* When everything has come to rest, the frame shows the chapter of the    *)
(* last load that was asked for, however many were superseded on the way.  *)
LatestLoadWins == Settled => fr.chapter = want /\ tab.chapter = want
=============================================================================
