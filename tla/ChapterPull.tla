----------------------------- MODULE ChapterPull -----------------------------
(* The pull past a chapter's edge (iframe/boundary.ts) and the wheel and   *)
(* touch handlers of iframe/frame.ts that feed it.                         *)
(*                                                                         *)
(* Distances are whole steps along the reading direction, forward          *)
(* positive.  Timers are the set of those armed and fire in any order; a   *)
(* handler queues its work for the next animation frame.                   *)
EXTENDS Integers, FiniteSets

CONSTANTS
    TouchThreshold, \* TOUCH_THRESHOLD, in steps
    WheelThreshold, \* WHEEL_THRESHOLD, in steps
    Reach           \* bound: how far a finger goes

ASSUME PullAssumption ==
    TouchThreshold \in Nat \ {0} /\ WheelThreshold \in Nat \ {0} /\ Reach \in Nat

VARIABLES
    pull,      \* the controller: boundary.ts
    frameView, \* the frame: mode, scroll position, neighbours
    touch,     \* the gesture being tracked
    wheel,     \* the wheel's sums
    handed     \* history: pulls handed off since the finger came down (2: more)

pullVars == <<pull, frameView, touch, wheel, handed>>

Directions == {"start", "end"}
AtRest == [dir |-> "none", accum |-> 0, sent |-> FALSE, timers |-> {}, latched |-> FALSE]
Abs(n) == IF n < 0 THEN -n ELSE n
Capped(n, most) == IF n > most THEN most ELSE n

AtTop == frameView.at \in {"top", "both"}
AtBottom == frameView.at \in {"bottom", "both"}
HasAdjacent(dir) == IF dir = "start" THEN frameView.prev ELSE frameView.next
ForwardDir(n) == IF n < 0 THEN "start" ELSE "end"

(***************************************************************************)
(* The controller                                                          *)
(***************************************************************************)

(* reset() takes the pill down and leaves the gesture's latch alone.       *)
ResetPull(p) == [AtRest EXCEPT !.latched = p.latched]

ScheduleReset(p) == [p EXCEPT !.timers = @ \cup {"reset"}]

(* fire(): the message goes, the pill stays until its own timer.           *)
Fire(p) == [p EXCEPT !.sent = TRUE, !.timers = @ \cup {"hide"}]
Fires(p, q) == ~p.sent /\ q.sent

Accumulate(p, delta, dir) ==
    LET from == IF p.dir = dir THEN p.accum ELSE 0
        q == ScheduleReset([p EXCEPT !.dir = dir, !.accum = Capped(from + Abs(delta), WheelThreshold)])
    IN  IF p.sent THEN p
        ELSE IF HasAdjacent(dir) /\ q.accum >= WheelThreshold THEN Fire(q) ELSE q

(* Faulty ProcessTouch: the finger may fire again.                         *)
ProcessTouchUnlatched(p, dir, distance) ==
    LET q == ScheduleReset([p EXCEPT !.dir = dir, !.accum = distance])
    IN  IF p.sent THEN p
        ELSE IF HasAdjacent(dir) /\ distance >= TouchThreshold THEN Fire(q) ELSE q

ProcessTouch(p, dir, distance) ==
    LET q == ScheduleReset([p EXCEPT !.dir = dir, !.accum = distance])
    IN  IF p.sent \/ p.latched THEN p
        ELSE IF HasAdjacent(dir) /\ distance >= TouchThreshold THEN Fire([q EXCEPT !.latched = TRUE])
        ELSE q

FlashEdge(p, dir) ==
    IF HasAdjacent(dir) THEN p ELSE [ResetPull(p) EXCEPT !.dir = dir, !.timers = {"flash"}]

EndGesture(p) == [p EXCEPT !.latched = FALSE]

TimerFires ==
    /\ pull.timers # {}
    /\ pull' = ResetPull(pull)
    /\ UNCHANGED <<frameView, touch, wheel, handed>>

(***************************************************************************)
(* The wheel                                                               *)
(***************************************************************************)

PullIsLive == frameView.mode # "restoring"
PullTick(mode) == PullIsLive /\ frameView.mode = mode

(* The events of one frame, below the threshold, are summed, then flushed. *)
HandleWheel(delta) ==
    /\ PullTick("scroll") /\ Abs(wheel.sum + delta) < WheelThreshold
    /\ wheel' = [wheel EXCEPT !.sum = @ + delta, !.frame = TRUE]
    /\ UNCHANGED <<pull, frameView, touch, handed>>

FlushWheelPull ==
    /\ wheel.frame
    /\ wheel' = [wheel EXCEPT !.sum = 0, !.frame = FALSE]
    /\ pull' = IF ~PullTick("scroll") THEN pull
               ELSE IF AtTop /\ wheel.sum < 0 THEN Accumulate(pull, wheel.sum, "start")
               ELSE IF AtBottom /\ wheel.sum > 0 THEN Accumulate(pull, wheel.sum, "end")
               ELSE IF pull.dir # "none" THEN ResetPull(pull) ELSE pull
    /\ UNCHANGED <<frameView, touch, handed>>

(* A page turn; past the last page an end-stop flashes, or the chapter is  *)
(* handed off by the pages.                                                *)
TurnPast(p, dir) == IF frameView.at \in {"both", IF dir = "start" THEN "top" ELSE "bottom"}
                    THEN FlashEdge(p, dir) ELSE p

HandlePagedWheel(delta) ==
    /\ PullTick("paged") /\ delta # 0
    /\ LET from == IF wheel.paged * delta < 0 THEN 0 ELSE wheel.paged
           sum == from + delta
           turns == Abs(sum) >= WheelThreshold
       IN  /\ wheel' = [wheel EXCEPT !.paged = IF turns THEN 0 ELSE sum]
           /\ pull' = IF turns THEN TurnPast(pull, ForwardDir(delta)) ELSE pull
    /\ UNCHANGED <<frameView, touch, handed>>

PagedWheelRests ==
    /\ wheel.paged # 0
    /\ wheel' = [wheel EXCEPT !.paged = 0]
    /\ UNCHANGED <<pull, frameView, touch, handed>>

(***************************************************************************)
(* The finger                                                              *)
(***************************************************************************)

Lifted == [down |-> FALSE, along |-> 0, base |-> 0, edge |-> FALSE, frame |-> FALSE]

HandleTouchStart ==
    /\ PullIsLive
    /\ touch' = [Lifted EXCEPT !.down = TRUE, !.edge = AtTop \/ AtBottom, !.frame = touch.frame]
    /\ pull' = EndGesture(pull) /\ handed' = 0
    /\ UNCHANGED <<frameView, wheel>>

HandleTouchMove(along) ==
    /\ PullIsLive /\ touch.down /\ along # touch.along
    /\ touch' = [touch EXCEPT !.along = along, !.frame = @ \/ frameView.mode = "scroll"]
    /\ UNCHANGED <<pull, frameView, wheel, handed>>

(* The pull is measured from where the finger first met the edge; a touch  *)
(* that began at the edge is measured from the start.                      *)
FlushTouchPull ==
    LET dir == ForwardDir(touch.along)
        meets == touch.along # 0 /\ (IF dir = "end" THEN AtBottom ELSE AtTop)
        base == IF touch.base # 0 THEN touch.base ELSE IF touch.edge THEN 0 ELSE touch.along
        distance == IF dir = "end" THEN touch.along - base ELSE Abs(touch.along - base)
        pulled == IF meets /\ distance > 0 THEN ProcessTouch(pull, dir, distance) ELSE pull
        asleep == ~touch.down \/ ~PullTick("scroll")
    IN  /\ touch.frame
        /\ touch' = [touch EXCEPT !.frame = FALSE,
                                  !.base = IF asleep THEN @ ELSE IF meets THEN base ELSE 0]
        /\ pull' = IF asleep THEN pull ELSE pulled
        /\ handed' = IF ~asleep /\ Fires(pull, pulled) THEN Capped(handed + 1, 2) ELSE handed
        /\ UNCHANGED <<frameView, wheel>>

(* A lift in paged mode is a swipe when it went far enough.                *)
HandleTouchEnd ==
    /\ touch.down
    /\ IF frameView.mode = "paged"
       THEN /\ touch' = [touch EXCEPT !.down = FALSE]
            /\ pull' = IF touch.along # 0 THEN TurnPast(pull, ForwardDir(touch.along)) ELSE pull
       ELSE /\ touch' = [touch EXCEPT !.down = FALSE, !.base = 0, !.edge = FALSE]
            /\ pull' = IF pull.sent THEN EndGesture(pull) ELSE ResetPull(EndGesture(pull))
    /\ UNCHANGED <<frameView, wheel, handed>>

HandleTouchCancel ==
    /\ touch.down
    /\ touch' = [touch EXCEPT !.down = FALSE, !.base = 0, !.edge = FALSE]
    /\ pull' = IF pull.sent THEN EndGesture(pull) ELSE ResetPull(EndGesture(pull))
    /\ UNCHANGED <<frameView, wheel, handed>>

(***************************************************************************)
(* The frame around it                                                     *)
(***************************************************************************)

Places == {"top", "mid", "bottom", "both"}

(* handleScroll: away from both edges a pull is abandoned.                 *)
ScrollsTo(at) ==
    /\ PullIsLive /\ frameView.at # "both" /\ at \in Places \ {"both", frameView.at}
    /\ frameView' = [frameView EXCEPT !.at = at]
    /\ pull' = IF frameView.mode = "scroll" /\ at = "mid" /\ pull.dir # "none" THEN ResetPull(pull) ELSE pull
    /\ UNCHANGED <<touch, wheel, handed>>

(* An arrow key at the end of the book.                                    *)
KeyAtEdge(dir) ==
    /\ PullIsLive /\ pull' = FlashEdge(pull, dir)
    /\ UNCHANGED <<frameView, touch, wheel, handed>>

(* beginChapterSwapOut and commitLoad, under the finger or not.            *)
SwapChapter ==
    /\ \E at \in Places, prev, next \in BOOLEAN :
         frameView' = [mode |-> "restoring", at |-> at, prev |-> prev, next |-> next]
    /\ pull' = ResetPull(pull) /\ wheel' = [wheel EXCEPT !.paged = 0]
    /\ UNCHANGED <<touch, handed>>

(* The restore ends, or the settings change the mode.                      *)
EnterMode(mode) ==
    /\ frameView.mode # mode
    /\ frameView' = [frameView EXCEPT !.mode = mode] /\ pull' = ResetPull(pull)
    /\ UNCHANGED <<touch, wheel, handed>>

PullInit ==
    /\ pull = AtRest
    /\ frameView \in [mode : {"scroll", "paged"}, at : Places, prev : BOOLEAN, next : BOOLEAN]
    /\ touch = Lifted /\ wheel = [sum |-> 0, paged |-> 0, frame |-> FALSE] /\ handed = 0

Steps == -Reach .. Reach

PullNext ==
    \/ TimerFires \/ FlushWheelPull \/ PagedWheelRests
    \/ HandleTouchStart \/ FlushTouchPull \/ HandleTouchEnd \/ HandleTouchCancel
    \/ \E n \in Steps : HandleTouchMove(n)
    \/ \E n \in {-1, 1} : HandleWheel(n) \/ HandlePagedWheel(n)
    \/ \E at \in Places : ScrollsTo(at)
    \/ \E dir \in Directions : KeyAtEdge(dir)
    \/ SwapChapter
    \/ \E mode \in {"scroll", "paged"} : EnterMode(mode)

PullSpec == PullInit /\ [][PullNext]_pullVars

(***************************************************************************)
(* Properties                                                              *)
(***************************************************************************)

(* One hand-off per gesture: a finger held past the threshold leaves one   *)
(* chapter, whatever the pill's timers do, and however many chapters come  *)
(* in under it (boundary.ts, INVARIANTS).                                  *)
OneHandOff == handed <= 1

(* A pill on the screen, and the block a sent pull puts on the next one,   *)
(* always have a timer that ends them: no chain of pulls, flashes, swaps   *)
(* and lifted fingers leaves the edge dead.                                *)
PillEnds == pull.dir # "none" \/ pull.sent => pull.timers # {}

(* A pull leads to one chapter and is over after it.                       *)
PullsEnd == OneHandOff /\ PillEnds
=============================================================================
