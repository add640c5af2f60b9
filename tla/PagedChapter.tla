---------------------------- MODULE PagedChapter ----------------------------
(* The pages of one chapter in the frame: iframe/pagination.ts with the    *)
(* parts of iframe/frame.ts that switch modes, apply settings, restore a   *)
(* position and report one.                                                *)
(*                                                                         *)
(* The chapter is Lines lines.  A layout [w, per] puts per lines in each   *)
(* column of width w; the paged scroller shows one column at a time, the   *)
(* scroll mode a window of lines.  dom is the scroller's offset, positive  *)
(* in reading order (toDOMScrollLeft only flips its sign).  The layout can *)
(* change before the controller measures it again.                         *)
EXTENDS Naturals, Integers, FiniteSets

CONSTANTS
    Lines,     \* lines of the chapter
    Widths,    \* viewport widths
    PerPages,  \* lines per page, by font size
    MaxTurns,  \* bound: turns, jumps and scrolls
    MaxLayouts \* bound: layout changes, mode switches and reloads

ASSUME PagesAssumption ==
    /\ Lines \in Nat \ {0} /\ Widths \subseteq Nat \ {0} /\ PerPages \subseteq Nat \ {0}
    /\ MaxTurns \in Nat /\ MaxLayouts \in Nat

VARIABLES
    pg,     \* the controller, the document and the mode
    said,   \* the last position reported
    acts,   \* bounded steps taken
    missed  \* history: the text changed since the last pagination, and the
            \* queued check finds the viewport as that pagination saw it

pageVars == <<pg, said, acts, missed>>

NoLine == Lines
Layouts == [w : Widths, per : PerPages]
LeastOf(a, b) == IF a < b THEN a ELSE b
MostOf(a, b) == IF a > b THEN a ELSE b

(***************************************************************************)
(* Page geometry                                                           *)
(***************************************************************************)

PageCountFrom(maxScroll, stride) == (2 * maxScroll + stride) \div (2 * stride) + 1
ClampPage(page, total) == MostOf(0, LeastOf(total - 1, page))
LogicalOffsetForPage(page, stride, maxScroll) == LeastOf(page * stride, maxScroll)
PageAtOffset(x, stride, total) == ClampPage(x \div stride, total)

(* A position is the ratio num/den, 0 when there is one page or none.      *)
PagePercent(page, total) == IF total > 1 THEN [num |-> page, den |-> total - 1]
                            ELSE [num |-> 0, den |-> 1]
PageForRatio(r, total) ==
    IF total <= 1 THEN 0
    ELSE ClampPage((2 * r.num * (total - 1) + r.den) \div (2 * r.den), total)

Columns(lay) == (Lines + lay.per - 1) \div lay.per
MaxScroll(lay) == (Columns(lay) - 1) * lay.w
LineX(line, lay) == (line \div lay.per) * lay.w
FirstVisible(dom, lay) == LeastOf(Lines - 1, (dom \div lay.w) * lay.per)

(* calculateTotalPages and refreshPageMetrics.                             *)
MeasuredPages(p) == [p EXCEPT !.stride = p.lay.w, !.max = MaxScroll(p.lay),
                         !.total = PageCountFrom(MaxScroll(p.lay), p.lay.w)]
FreshlyMeasured(p) == p.stride = p.lay.w /\ p.max = MaxScroll(p.lay)
PageOfLine(p, line) == PageAtOffset(LineX(line, p.lay), p.stride, p.total)

(* The last line that can be at the top in scroll mode is the last.        *)
ScrollPercent(top) == [num |-> top, den |-> MostOf(1, Lines - 1)]
TopForRatio(r) == (r.num * (Lines - 1)) \div r.den

(***************************************************************************)
(* Reports                                                                 *)
(***************************************************************************)

(* During a fade the page on the screen is not yet the one reported, so    *)
(* the report carries no anchor.                                           *)
AnchorForReport(p) == IF p.turn = "none" THEN FirstVisible(p.dom, p.lay) ELSE NoLine

Position(p) ==
    IF p.mode = "paged"
    THEN [line |-> AnchorForReport(p), at |-> PagePercent(p.page, p.total),
          page |-> p.page, per |-> p.lay.per, fresh |-> FreshlyMeasured(p)]
    ELSE [line |-> p.top, at |-> ScrollPercent(p.top), page |-> 0, per |-> Lines, fresh |-> FALSE]

Report(p) == said' = IF p.restoring THEN said ELSE Position(p)

(***************************************************************************)
(* Moving to a page                                                        *)
(***************************************************************************)

Still(p, target) == [p EXCEPT !.dom = LeastOf(target, MaxScroll(p.lay)), !.target = target,
                              !.turn = "none", !.promoted = FALSE]

(* Faulty Retarget: the running fade goes on to its own target.            *)
RetargetKeepsTheFirst(p, target) ==
    IF p.turn = "out" /\ target = p.dom THEN [p EXCEPT !.turn = "none", !.promoted = FALSE]
    ELSE [p EXCEPT !.turn = "out"]

(* A running fade takes the new target; one that has not swapped yet and   *)
(* is back where it began is given up.                                     *)
Retarget(p, target) ==
    IF p.turn = "out" /\ target = p.dom
    THEN [p EXCEPT !.turn = "none", !.promoted = FALSE, !.target = target]
    ELSE [p EXCEPT !.turn = "out", !.target = target]

ApplyPageScroll(p, page, animated) ==
    LET target == LogicalOffsetForPage(page, p.stride, p.max)
    IN  IF ~animated THEN Still(p, target)
        ELSE IF p.turn # "none" THEN Retarget(p, target)
        ELSE IF target = p.dom THEN Still(p, target)
        ELSE [p EXCEPT !.target = target, !.turn = "out", !.promoted = TRUE]

(* An explicit change of page gives the restore's anchor up.               *)
GoToPage(p, page, animated) ==
    LET to == ClampPage(page, p.total)
    IN  ApplyPageScroll([p EXCEPT !.anchor = NoLine, !.page = to], to, animated)

(***************************************************************************)
(* The reader turns, jumps and scrolls                                     *)
(***************************************************************************)

Paged == pg.mode = "paged" /\ ~pg.restoring
Acting == acts.turns < MaxTurns /\ acts' = [acts EXCEPT !.turns = @ + 1]
PagesBecome(p) == pg' = p /\ Report(p)

(* nextPage and prevPage; past the edge the boundary is told instead.      *)
TurnPages(by) ==
    /\ Paged /\ pg.total > 0 /\ pg.page + by \in 0 .. pg.total - 1 /\ Acting
    /\ \E animated \in BOOLEAN : PagesBecome(GoToPage(pg, pg.page + by, animated))
    /\ UNCHANGED missed

JumpToLine(line) ==
    /\ ~pg.restoring /\ Acting
    /\ IF pg.mode = "scroll" THEN PagesBecome([pg EXCEPT !.top = line])
       ELSE LET p == MeasuredPages(pg)
            IN  \E animated \in BOOLEAN : PagesBecome(GoToPage(p, PageOfLine(p, line), animated))
    /\ UNCHANGED missed

JumpToEnd ==
    /\ ~pg.restoring /\ Acting
    /\ IF pg.mode = "scroll" THEN PagesBecome([pg EXCEPT !.top = Lines - 1])
       ELSE PagesBecome(GoToPage(pg, PageForRatio([num |-> 1, den |-> 1], pg.total), FALSE))
    /\ UNCHANGED missed

(* The fade: out, the swap while nothing shows, in, and the report.        *)
FadeSwaps ==
    /\ pg.turn = "out"
    /\ pg' = [pg EXCEPT !.turn = "in", !.dom = LeastOf(pg.target, MaxScroll(pg.lay))]
    /\ UNCHANGED <<said, acts, missed>>

FadeEnds ==
    /\ pg.turn = "in"
    /\ PagesBecome([pg EXCEPT !.turn = "none", !.dom = LeastOf(pg.target, MaxScroll(pg.lay))])
    /\ UNCHANGED <<acts, missed>>

TurnSettles ==
    /\ pg.promoted /\ pg.turn = "none"
    /\ pg' = [pg EXCEPT !.promoted = FALSE]
    /\ UNCHANGED <<said, acts, missed>>

(***************************************************************************)
(* Layout changes                                                          *)
(***************************************************************************)

Changing == acts.layouts < MaxLayouts /\ acts' = [acts EXCEPT !.layouts = @ + 1]

(* The browser lays the text out anew and clamps the offset.               *)
Reflowed(lay) == [pg EXCEPT !.lay = lay, !.dom = LeastOf(@, MaxScroll(lay))]
OtherLines(lay) == lay.w = pg.lay.w /\ lay.per # pg.lay.per

(* A check of the viewport and the relayout for late media share one       *)
(* timer, pagedResizeDebounce: the one queued last takes the other's       *)
(* place.  The first pagination of a chapter attaches the listeners.       *)
Debounced == {"viewport", "media"}
Reasons == Debounced \cup {"settings", "fonts"}

QueuePagedRelayout(p, why) ==
    [p EXCEPT !.due = IF p.mode = "paged" /\ p.seen # 0 THEN (@ \ Debounced) \cup {why} ELSE @]

(* applySettings in the mode as it is: more or fewer lines go on a page,   *)
(* and a relayout with its own frames is due.                              *)
ApplySettings(lay) ==
    /\ OtherLines(lay) /\ Changing
    /\ pg' = [Reflowed(lay) EXCEPT !.due = IF pg.mode = "paged" THEN @ \cup {"settings"} ELSE @]
    /\ UNCHANGED <<said, missed>>

(* An image loads late.                                                    *)
LateMedia(lay) ==
    /\ OtherLines(lay) /\ Changing
    /\ pg' = QueuePagedRelayout(Reflowed(lay), "media")
    /\ UNCHANGED <<said, missed>>

(* The check takes the place of the relayout that late media wanted, or    *)
(* the viewport is back as the last pagination saw it.                     *)
ViewportEvent(lay) ==
    /\ pg' = QueuePagedRelayout(Reflowed(lay), "viewport")
    /\ missed' = (missed \/ (Paged /\ lay.w = pg.seen /\ ("media" \in pg.due \/ lay # pg.lay)))
    /\ UNCHANGED said

(* A resize, which may change the lines of a page as well.                 *)
Resizes(lay) == lay.w # pg.lay.w /\ Changing /\ ViewportEvent(lay)

(* The observer's first call, a scroll bar or the visual viewport: an      *)
(* event that changes no layout.                                           *)
Churn == pg.mode = "paged" /\ ViewportEvent(pg.lay) /\ UNCHANGED acts

(* relayoutPagedContentPreservingPosition: the anchor while there is one.  *)
PreservingPosition(p) ==
    LET r == PagePercent(p.page, p.total)
        q == [MeasuredPages(p) EXCEPT !.seen = p.lay.w]
        page == IF p.anchor # NoLine THEN PageOfLine(q, p.anchor) ELSE PageForRatio(r, q.total)
    IN  ApplyPageScroll([q EXCEPT !.page = page], page, FALSE)

(* A check that finds the viewport of the last pagination is all there is; *)
(* settings relayouts run once more when the fonts are in.                 *)
Relayout(why) ==
    /\ pg.mode = "paged" /\ why \in pg.due
    /\ LET p == [pg EXCEPT !.due = (@ \ {why}) \cup (IF why = "settings" THEN {"fonts"} ELSE {})]
       IN  IF why = "viewport" /\ pg.lay.w = pg.seen THEN pg' = p /\ UNCHANGED <<said, missed>>
           ELSE PagesBecome(PreservingPosition(p)) /\ missed' = FALSE
    /\ UNCHANGED acts

(* applySettings with another mode: the spot on the screen is captured     *)
(* before the reflow and found again in the new layout.                    *)
EnterPaged(p) ==
    LET q == [MeasuredPages(p) EXCEPT !.mode = "paged", !.seen = p.lay.w, !.anchor = p.top, !.promoted = FALSE]
        page == PageOfLine(q, p.top)
    IN  ApplyPageScroll([q EXCEPT !.page = page], page, FALSE)

LeavePaged(p) ==
    [p EXCEPT !.mode = "scroll", !.due = {}, !.turn = "none", !.promoted = FALSE,
              !.top = FirstVisible(p.dom, p.lay)]

(* Only a settled chapter has a spot to capture; a load under way restores *)
(* into whatever mode it finds.                                            *)
IsModeSwitch(p) == ~p.restoring

SwitchMode ==
    /\ Changing
    /\ IF IsModeSwitch(pg)
       THEN /\ PagesBecome(IF pg.mode = "paged" THEN LeavePaged(pg) ELSE EnterPaged(pg))
            /\ missed' = FALSE
       ELSE /\ pg' = IF pg.mode = "paged" THEN [pg EXCEPT !.mode = "scroll", !.due = {}]
                     ELSE [pg EXCEPT !.mode = "paged", !.due = @ \cup {"settings"}]
            /\ UNCHANGED <<said, missed>>

(***************************************************************************)
(* Loading                                                                 *)
(***************************************************************************)

Wishes == {[kind |-> k, line |-> NoLine, at |-> [num |-> 0, den |-> 1]] : k \in {"top", "end"}}

(* A relayout that settings asked for runs on, in the new chapter.         *)
ResetForLoad(p, wish) ==
    [p EXCEPT !.restoring = TRUE, !.wish = wish, !.page = 0, !.total = 0, !.stride = 1, !.max = 0,
              !.seen = 0, !.turn = "none", !.promoted = FALSE, !.target = 0, !.anchor = NoLine,
              !.due = @ \cap {"settings"}]

ReloadChapter ==
    /\ Changing /\ ~pg.restoring
    /\ \E wish \in Wishes \cup {[kind |-> "saved", line |-> said.line, at |-> said.at]} :
         pg' = ResetForLoad(pg, wish)
    /\ UNCHANGED <<said, missed>>

(* performInitialRestore, in the mode of the moment: the anchor before the *)
(* ratio, the ratio before the chapter's end or start.                     *)
RestorePaged(p) ==
    LET q == [MeasuredPages(p) EXCEPT !.restoring = FALSE, !.seen = p.lay.w, !.anchor = p.wish.line,
                                 !.due = @ \cup {"fonts"}]
        page == CASE p.wish.line # NoLine -> PageOfLine(q, p.wish.line)
                  [] p.wish.line = NoLine /\ p.wish.kind = "saved" -> PageForRatio(p.wish.at, q.total)
                  [] p.wish.kind = "end" -> MostOf(0, q.total - 1)
                  [] p.wish.kind = "top" -> 0
    IN  ApplyPageScroll([q EXCEPT !.page = page], page, FALSE)

RestoreScroll(p) ==
    [p EXCEPT !.restoring = FALSE,
              !.top = CASE p.wish.line # NoLine -> p.wish.line
                        [] p.wish.line = NoLine /\ p.wish.kind = "saved" -> TopForRatio(p.wish.at)
                        [] p.wish.kind = "end" -> Lines - 1
                        [] p.wish.kind = "top" -> 0]

RestorePosition ==
    /\ pg.restoring
    /\ PagesBecome(IF pg.mode = "paged" THEN RestorePaged(pg) ELSE RestoreScroll(pg))
    /\ missed' = FALSE /\ UNCHANGED acts

PagesInit ==
    /\ \E lay \in Layouts, mode \in {"paged", "scroll"}, wish \in Wishes :
         pg = [mode |-> mode, restoring |-> TRUE, wish |-> wish, lay |-> lay, seen |-> 0,
               stride |-> 1, max |-> 0, total |-> 0, page |-> 0, dom |-> 0, target |-> 0,
               turn |-> "none", promoted |-> FALSE, anchor |-> NoLine, due |-> {}, top |-> 0]
    /\ said = [line |-> NoLine, at |-> [num |-> 0, den |-> 1], page |-> 0, per |-> Lines, fresh |-> FALSE]
    /\ acts = [turns |-> 0, layouts |-> 0] /\ missed = FALSE

PagesNext ==
    \/ TurnPages(1) \/ TurnPages(-1) \/ JumpToEnd
    \/ \E line \in 0 .. Lines - 1 : JumpToLine(line)
    \/ FadeSwaps \/ FadeEnds \/ TurnSettles
    \/ \E lay \in Layouts : ApplySettings(lay) \/ LateMedia(lay) \/ Resizes(lay)
    \/ Churn \/ \E why \in Reasons : Relayout(why)
    \/ SwitchMode \/ ReloadChapter \/ RestorePosition

PagesSpec == PagesInit /\ [][PagesNext]_pageVars

(***************************************************************************)
(* Properties                                                              *)
(***************************************************************************)

(* Nothing but the last pass for the fonts is due, and no relayout that   *)
(* was wanted has been dropped by a check of the viewport.                 *)
LaidOut == Paged /\ pg.due \subseteq {"fonts"} /\ ~missed

(* Once no fade runs and no relayout is due, the column on the screen is   *)
(* the page the controller believes in, and that page exists: however      *)
(* turns were retargeted, cut short, or overtaken by layout changes.       *)
ShownIsCurrent ==
    LaidOut /\ pg.turn = "none" => pg.page < Columns(pg.lay) /\ pg.dom = pg.page * pg.lay.w

(* The line a restore or a mode switch landed on stays on the screen       *)
(* through any number of relayouts, until the reader turns a page.         *)
AnchorKept ==
    LaidOut /\ pg.anchor # NoLine => pg.page = pg.anchor \div pg.lay.per

(* A report that carries an anchor anchors the page whose percent it       *)
(* carries, so a book reopened by either lands on the same page.           *)
ReportsAgree ==
    said.fresh /\ said.line # NoLine => said.page = said.line \div said.per

(* What is shown, believed, anchored and reported is one page.             *)
OnePage == ShownIsCurrent /\ AnchorKept /\ ReportsAgree
=============================================================================
