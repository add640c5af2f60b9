----------------------------- MODULE Bookmarks -----------------------------
(* The reader's bookmarks of one book: the list Read.tsx shows, the toggle *)
(* with its one queued press, removal and editing from the panel, and the  *)
(* list the server keeps.  A bookmark is [id, place, text]; places are far *)
(* enough apart that isBookmarkAtPosition tells them apart, and text       *)
(* stands for the label and the note.                                      *)
EXTENDS Naturals, FiniteSets

CONSTANTS
    Spots,          \* positions the reader presses the toggle at
    MaxIds,         \* bound: bookmarks ever created
    MaxPresses,     \* bound: presses of the toggle
    MaxMarkChanges, \* bound: removals and edits from the panel
    MaxReads        \* bound: reads of the list: boot's, and one for each Retry

ASSUME BookmarkAssumption == {MaxIds, MaxPresses, MaxMarkChanges, MaxReads} \subseteq Nat

VARIABLES
    kept,   \* the server's bookmarks
    shown,  \* the signal bookmarks()
    memo,   \* what currentBookmarkId scans: the list before this continuation
    here,   \* where the reader is
    toggle, \* bookmarkOpInFlight and bookmarkToggleQueued
    calls,  \* requests in flight
    counts, \* ids given and bounded steps taken
    unsure  \* history: places whose requests failed, overlapped, or were
              \*          decided on a list the server's answer had overtaken

bookmarkVars == <<kept, shown, memo, here, toggle, calls, counts, unsure>>

Idle == [busy |-> FALSE, queued |-> FALSE]
At(set, p) == {b \in set : b.place = p}
ById(set, id) == {b \in set : b.id = id}
OpOn(p) == \E c \in calls : c.kind # "read" /\ c.bm.place = p
ListUnread == counts.reads = 0 \/ \E c \in calls : c.kind = "read"

BookmarksInit ==
    /\ kept \in {{[id |-> n, place |-> p, text |-> 0]} : n \in {1}, p \in Spots} \cup {{}}
    /\ shown = {} /\ memo = {}
    /\ here \in Spots /\ toggle = Idle /\ calls = {}
    /\ counts = [ids |-> 1, presses |-> 0, changes |-> 0, reads |-> 0]
    /\ unsure = {}

(* served is "no" until the server has acted on the request.               *)
Call(kind, bm, prior) == [kind |-> kind, bm |-> bm, prior |-> prior, served |-> "no", got |-> {}]
Nobody == [id |-> 0, place |-> 0, text |-> 0]

Shown(list) == shown' = list /\ memo' = list
Send(c) == calls' = calls \cup {c}

(***************************************************************************)
(* The list                                                                *)
(***************************************************************************)

RefreshBookmarks ==
    /\ counts.reads < MaxReads /\ ~\E c \in calls : c.kind = "read"
    /\ Send(Call("read", Nobody, Nobody))
    /\ counts' = [counts EXCEPT !.reads = @ + 1]
    /\ UNCHANGED <<kept, shown, memo, here, toggle, unsure>>

MoveTo(p) ==
    /\ here # p
    /\ here' = p
    /\ UNCHANGED <<kept, shown, memo, toggle, calls, counts, unsure>>

(***************************************************************************)
(* The toggle                                                              *)
(***************************************************************************)

(* Deletes the bookmark at this position, or creates one there.            *)
ToggleStarts(seen, list, rest) ==
    IF At(seen, here) = {}
    THEN /\ calls' = rest \cup {Call("add", [id |-> 0, place |-> here, text |-> 0], Nobody)}
         /\ Shown(list)
    ELSE \E b \in At(seen, here) :
            calls' = rest \cup {Call("del", b, b)} /\ Shown(list \ ById(list, b.id))

(* Faulty PressAgain: a second toggle runs beside the first.               *)
PressStartsAnother == toggle' = toggle /\ ToggleStarts(memo, shown, calls)

PressAgain == /\ toggle' = [toggle EXCEPT !.queued = ~@]
              /\ UNCHANGED <<shown, memo, calls>>

PressToggle ==
    /\ counts.presses < MaxPresses
    /\ IF toggle.busy THEN PressAgain
       ELSE toggle' = [Idle EXCEPT !.busy = TRUE] /\ ToggleStarts(memo, shown, calls)
    /\ unsure' = unsure \cup (IF ListUnread \/ (~toggle.busy /\ OpOn(here)) THEN {here} ELSE {})
    /\ counts' = [counts EXCEPT !.presses = @ + 1]
    /\ UNCHANGED <<kept, here>>

(* The finally block: a press still queued toggles again, by the memo that *)
(* this continuation's own changes have not reached yet.                   *)
ToggleEnds(list, rest) ==
    IF toggle.queued THEN /\ toggle' = [Idle EXCEPT !.busy = TRUE]
                          /\ ToggleStarts(memo, list, rest)
    ELSE toggle' = Idle /\ calls' = rest /\ Shown(list)

(* A press queued meanwhile undoes what was just done.                     *)
UndoneBy(c, list, rest) ==
    /\ toggle.queued
    /\ toggle' = [toggle EXCEPT !.queued = FALSE]
    /\ calls' = rest \cup {c}
    /\ Shown(list)

ToggleAnswered(c) ==
    LET rest == calls \ {c}
        bm == [c.bm EXCEPT !.id = c.prior.id]
    IN  CASE c.kind = "del" /\ c.served = "ok" ->
               \/ UndoneBy(Call("readd", [c.bm EXCEPT !.id = 0, !.text = 0], Nobody), shown, rest)
               \/ ~toggle.queued /\ ToggleEnds(shown, rest)
          [] c.kind = "add" /\ c.served = "ok" ->
               \/ UndoneBy(Call("undo", bm, bm), shown, rest)
               \/ ~toggle.queued /\ ToggleEnds(shown \cup {bm}, rest)
          [] c.kind \in {"readd"} /\ c.served = "ok" -> ToggleEnds(shown \cup {bm}, rest)
          [] c.kind \in {"del", "undo"} /\ c.served = "failed" -> ToggleEnds(shown \cup {c.prior}, rest)
          [] OTHER -> ToggleEnds(shown, rest)

(***************************************************************************)
(* The panel                                                               *)
(***************************************************************************)

FromPanel(b) == /\ counts.changes < MaxMarkChanges /\ b \in shown
                /\ unsure' = unsure \cup (IF OpOn(b.place) THEN {b.place} ELSE {})
                /\ counts' = [counts EXCEPT !.changes = @ + 1]
                /\ UNCHANGED <<kept, here, toggle>>

RemoveBookmark(b) ==
    /\ FromPanel(b)
    /\ Shown(shown \ {b}) /\ Send(Call("remove", b, b))

EditBookmark(b) ==
    /\ FromPanel(b)
    /\ LET edited == [b EXCEPT !.text = counts.changes + 1]
       IN  Shown((shown \ {b}) \cup {edited}) /\ Send(Call("edit", edited, b))

WithRow(b) == IF ById(shown, b.id) = {} THEN shown ELSE (shown \ ById(shown, b.id)) \cup {b}
PanelAnswered(c) ==
    /\ calls' = calls \ {c}
    /\ Shown(CASE c.kind = "remove" /\ c.served = "failed" -> shown \cup {c.prior}
               [] c.kind = "edit" /\ c.served = "ok" -> WithRow(c.bm)
               [] c.kind = "edit" /\ c.served = "failed" -> WithRow(c.prior)
               [] OTHER -> shown)
    /\ UNCHANGED toggle

(* An answer to a read is dropped while the toggle owns the newer state.   *)
ListAnswered(c) ==
    /\ calls' = calls \ {c}
    /\ IF c.served = "ok" /\ ~toggle.busy THEN Shown(c.got) ELSE UNCHANGED <<shown, memo>>
    /\ UNCHANGED toggle

(***************************************************************************)
(* The server and its answers                                              *)
(***************************************************************************)

Done(c, id) ==
    CASE c.kind \in {"add", "readd"} -> kept \cup {[c.bm EXCEPT !.id = id]}
      [] c.kind \in {"del", "undo", "remove"} -> kept \ ById(kept, c.bm.id)
      [] c.kind = "edit" /\ ById(kept, c.bm.id) # {} -> (kept \ ById(kept, c.bm.id)) \cup {c.bm}
      [] OTHER -> kept

Creates(c) == c.kind \in {"add", "readd"}

ServeBookmarks(c) ==
    /\ c.served = "no" /\ (Creates(c) => counts.ids < MaxIds)
    /\ \E outcome \in {"ok", "failed"}, acted \in BOOLEAN :
         /\ outcome = "ok" => acted
         /\ kept' = IF acted THEN Done(c, counts.ids + 1) ELSE kept
         /\ calls' = (calls \ {c}) \cup
                     {[c EXCEPT !.served = outcome, !.got = IF c.kind = "read" THEN kept ELSE {},
                                !.prior.id = IF Creates(c) /\ acted THEN counts.ids + 1 ELSE @]}
         /\ counts' = IF Creates(c) /\ acted THEN [counts EXCEPT !.ids = @ + 1] ELSE counts
         \* a failed edit or removal that did nothing is rolled back exactly
         /\ unsure' = IF outcome = "failed" /\ (acted \/ toggle.queued) /\ c.kind # "read"
                       THEN unsure \cup {c.bm.place} ELSE unsure
    /\ UNCHANGED <<shown, memo, here, toggle>>

BookmarkAnswer(c) ==
    /\ c.served # "no"
    /\ CASE c.kind = "read" -> ListAnswered(c)
         [] c.kind \in {"remove", "edit"} -> PanelAnswered(c)
         [] OTHER -> ToggleAnswered(c)
    /\ unsure' = IF c.kind = "read"
                  THEN IF c.served = "failed" \/ toggle.busy \/ c.got # kept \/ calls # {c}
                       THEN Spots ELSE unsure
                  ELSE IF toggle.queued /\ (\/ c.kind = "readd" \/ c.served = "failed" \/ ListUnread
                                         \/ \E d \in calls \ {c} : d.bm.place = here)
                       THEN unsure \cup {c.bm.place, here} ELSE unsure
    /\ UNCHANGED <<kept, here, counts>>

BookmarksNext ==
    \/ RefreshBookmarks \/ PressToggle
    \/ \E p \in Spots : MoveTo(p)
    \/ \E b \in shown : RemoveBookmark(b) \/ EditBookmark(b)
    \/ \E c \in calls : ServeBookmarks(c) \/ BookmarkAnswer(c)

BookmarksSpec == BookmarksInit /\ [][BookmarksNext]_bookmarkVars

(***************************************************************************)
(* Properties                                                              *)
(***************************************************************************)

(* Once the list has been read and nothing is in flight, it shows what the *)
(* server keeps, and no place has two bookmarks: however presses, removals *)
(* and edits were interleaved, save where the history says a request       *)
(* failed half-way, overlapped another of its place, or met a late list.   *)
BookmarksAgree ==
    calls = {} /\ counts.reads > 0 =>
      \A p \in Spots \ unsure : At(shown, p) = At(kept, p) /\ Cardinality(At(kept, p)) <= 1
=============================================================================
