------------------------------ MODULE Overlays ------------------------------
(***************************************************************************)
(* What is open over the reading view, and who gets a key.  The global     *)
(* sheets (lib/ui.ts) and the ringing alarm sit over everything, a panel   *)
(* or the overflow menu over the book, the custom-theme dialog over the    *)
(* settings panel.  A key pressed in the parent document runs the capture  *)
(* listeners of the open layers in the order they attached, then the       *)
(* handlers of the focused panel or menu, then the shell's and the         *)
(* reader's window listeners; a key pressed in the book arrives later, as  *)
(* a message (App.tsx, routes/Read.tsx, components/).  Writes to the       *)
(* shared flags are seen by the next task, so every handler of one key     *)
(* reads the view as it stood at the press.                                *)
(***************************************************************************)
EXTENDS Integers, Sequences, FiniteSets, SequencesExt

CONSTANT MaxPosted      \* keys of the book frame on their way at once

VARIABLES
    view,    \* what is open
    capture, \* the layers listening for Escape at the window, oldest first
    posted   \* keys the frame has forwarded and the route not yet handled

overlayVars == <<view, capture, posted>>

Sheets == {"palette", "shortcuts", "about", "alarm"}
Panels == {"settings", "toc", "search", "bookmarks"}
BookPanels == Panels \ {"settings"}
PanelKey == [t |-> "toc", s |-> "settings", f |-> "search", B |-> "bookmarks"]
Keys == {"Escape", "chord", "?", "a"} \cup DOMAIN PanelKey

Layers(v) == v.sheets \cup (IF v.theme = "none" THEN {} ELSE {"theme"})
                      \cup (IF v.ringing THEN {"ring"} ELSE {})
Covered(v) == Layers(v) # {} \/ v.panel # "none"

(* The effects of the layers attach and detach their listeners.            *)
Relistened(v) ==
    LET stay == SelectSeq(capture, LAMBDA l : l \in Layers(v))
    IN  stay \o SetToSeq(Layers(v) \ ToSet(stay))

Becomes(v) == view' = v /\ capture' = Relistened(v)

-----------------------------------------------------------------------------
(* lib/ui.ts: opening one sheet closes the others.                         *)

Open(v, sheet) == [v EXCEPT !.sheets = {sheet}]
CloseOverlays(v) == [v EXCEPT !.sheets = {}]
TogglePalette(v) ==
    IF "palette" \in v.sheets THEN [v EXCEPT !.sheets = @ \ {"palette"}] ELSE Open(v, "palette")

-----------------------------------------------------------------------------
(* The reader's panels and menu (Read.tsx).                                *)

SetPanel(v, p) == [v EXCEPT !.panel = p, !.draft = FALSE, !.theme = "none"]

(* The contents and the search panel need the book; a refusal is a toast.  *)
TogglePanel(v, p) ==
    IF v.panel = p THEN SetPanel(v, "none")
    ELSE IF p \in {"toc", "search"} /\ ~v.loaded THEN v
    ELSE SetPanel(v, p)

CloseMore(v) == [v EXCEPT !.more = FALSE]

(* Faulty MenuOwnsKeys: an open menu is not looked at.                     *)
MenuIgnored(v) == FALSE

MenuOwnsKeys(v) == v.more

(* handleKeyAction: the chord first, then the stand-downs, then the        *)
(* reader's own shortcuts.                                                 *)
HandleKeyAction(v, key) ==
    CASE key = "chord" -> TogglePalette(v)
      [] key # "chord" /\ v.sheets # {} -> v
      [] key # "chord" /\ v.sheets = {} /\ MenuOwnsKeys(v) ->
            IF key = "Escape" THEN CloseMore(v) ELSE v
      [] OTHER ->
            IF key = "?" THEN Open(v, "shortcuts")
            ELSE IF key = "a" THEN Open(v, "alarm")
            ELSE IF key = "Escape"
            THEN IF v.panel # "none" THEN SetPanel(v, "none") ELSE [v EXCEPT !.leaving = TRUE]
            ELSE IF v.specimen /\ PanelKey[key] \in BookPanels THEN v
            ELSE TogglePanel(v, PanelKey[key])

(* handleFrameKey: an Escape from the book closes the sheet above it, and  *)
(* only that.                                                              *)
HandleFrameKey(v, key) ==
    IF key = "Escape" /\ v.sheets # {} THEN CloseOverlays(v) ELSE HandleKeyAction(v, key)

(* The capture listener of one layer closes it and consumes the key.  The  *)
(* theme dialog stands down while it saves, and still consumes.            *)
Dismissed(v) == [v EXCEPT !.ringing = FALSE]
CloseTheme(v) == IF v.theme = "saving" THEN v ELSE [v EXCEPT !.theme = "none"]
CaptureEscape(v, layer) ==
    CASE layer \in Sheets -> CloseOverlays(v)
      [] layer = "ring" -> Dismissed(v)
      [] OTHER -> CloseTheme(v)

(* A panel's own Escape: drop what is being typed, then close.             *)
DropDraft(v) == [v EXCEPT !.draft = FALSE]
PanelEscape(v) == IF v.draft THEN DropDraft(v) ELSE SetPanel(v, "none")

(* A key in the parent document, with focus on a control or the body       *)
(* ("page"), in a field, or inside the menu (onWindowKey, handleWindowKey, *)
(* keyboardEventIsOwnedByTarget, onMoreKeydown).                           *)
ShellKey(v, key, focused) ==
    IF key = "Escape" /\ capture # <<>> THEN CaptureEscape(v, Head(capture))
    ELSE IF key = "Escape" /\ focused = "menu" THEN CloseMore(v)
    ELSE IF key = "Escape" /\ focused = "field" THEN IF v.panel = "none" THEN v ELSE PanelEscape(v)
    ELSE IF key = "chord" THEN TogglePalette(v)
    ELSE IF focused = "field" THEN v
    ELSE IF key = "?" THEN Open(v, "shortcuts")
    ELSE IF v.inBook THEN HandleKeyAction(v, key)
    ELSE v

FocusIn(v) == {"page"} \cup (IF Covered(v) THEN {"field"} ELSE {})
                       \cup (IF v.more /\ ~Covered(v) THEN {"menu"} ELSE {})

-----------------------------------------------------------------------------

Entered(v, specimen) ==
    [v EXCEPT !.inBook = TRUE, !.specimen = specimen, !.loaded = FALSE, !.leaving = FALSE]
Left(v) == [v EXCEPT !.inBook = FALSE, !.leaving = FALSE, !.loaded = FALSE, !.panel = "none",
                     !.draft = FALSE, !.theme = "none", !.more = FALSE, !.ringing = FALSE]

OverlaysInit ==
    /\ view = [inBook |-> FALSE, specimen |-> FALSE, loaded |-> FALSE, leaving |-> FALSE,
               sheets |-> {}, panel |-> "none", draft |-> FALSE, theme |-> "none",
               more |-> FALSE, ringing |-> FALSE, alarm |-> FALSE]
    /\ capture = <<>> /\ posted = <<>>

EnterBook == ~view.inBook /\ \E s \in BOOLEAN : Becomes(Entered(view, s)) /\ posted' = <<>>

BookArrives == view.inBook /\ ~view.loaded /\ Becomes([view EXCEPT !.loaded = TRUE])
               /\ UNCHANGED posted

(* handleBack has its position, or its time is up: the route changes.      *)
Depart == view.leaving /\ Becomes(Left(view)) /\ posted' = <<>>

PressInShell ==
    /\ \E key \in Keys : \E f \in FocusIn(view) : Becomes(ShellKey(view, key, f))
    /\ UNCHANGED posted

(* The stage is inert under a panel, and an open layer takes focus.        *)
PressInBook ==
    /\ view.inBook /\ ~Covered(view) /\ Len(posted) < MaxPosted
    /\ \E key \in Keys : posted' = Append(posted, key)
    /\ UNCHANGED <<view, capture>>

FrameKeyArrives ==
    /\ posted # <<>>
    /\ posted' = Tail(posted)
    /\ Becomes(HandleFrameKey(view, Head(posted)))

(* Clicks on the chrome, which nothing covers.                             *)
ClickChrome ==
    /\ view.inBook /\ ~Covered(view)
    /\ \/ Becomes([view EXCEPT !.more = ~@])
       \/ view.more /\ Becomes(CloseMore(view))
       \/ \E p \in Panels : (view.specimen => p = "settings")
                            /\ Becomes(TogglePanel(CloseMore(view), p))
       \/ Becomes(Open(CloseMore(view), "alarm"))
       \/ ~view.more /\ Becomes([view EXCEPT !.leaving = TRUE])
    /\ UNCHANGED posted

(* Clicks in a panel with nothing over it: type, close, edit a theme.      *)
ClickPanel ==
    /\ view.panel # "none" /\ Layers(view) = {}
    /\ \/ Becomes(SetPanel(view, "none"))
       \/ view.panel # "search" /\ Becomes([view EXCEPT !.draft = TRUE])
       \/ view.panel = "settings" /\ Becomes([view EXCEPT !.theme = "open"])
       \/ view.panel = "settings" /\ Becomes(Open(view, "alarm"))
    /\ UNCHANGED posted

(* The theme dialog saves, or closes; an operation ends in success, which  *)
(* closes it, or in failure, which re-arms the form.                       *)
ClickTheme ==
    /\ \/ /\ view.theme = "open" /\ view.sheets = {} /\ ~view.ringing
          /\ \E t \in {"none", "saving"} : Becomes([view EXCEPT !.theme = t])
       \/ /\ view.theme = "saving"
          /\ \E t \in {"none", "open"} : Becomes([view EXCEPT !.theme = t])
    /\ UNCHANGED posted

(* Clicks in a sheet.  A command of the palette closes it and runs: another *)
(* sheet opens, or the route changes.                                      *)
OnSheet(sheet) == sheet \in view.sheets /\ ~view.ringing
Choose ==
    /\ OnSheet("palette")
    /\ \/ \E s \in {"shortcuts", "about"} : Becomes(Open(CloseOverlays(view), s))
       \/ view.inBook /\ Becomes(Left(CloseOverlays(view)))
    /\ posted' = IF view'.inBook THEN posted ELSE <<>>

(* The alarm sheet arms or clears the alarm and closes.                    *)
SubmitAlarm ==
    /\ OnSheet("alarm")
    /\ \E a \in BOOLEAN : Becomes([CloseOverlays(view) EXCEPT !.alarm = a])
    /\ UNCHANGED posted

AboutToShortcuts ==
    /\ OnSheet("about") /\ Becomes(Open(view, "shortcuts"))
    /\ UNCHANGED posted

CloseSheet ==
    /\ view.sheets # {} /\ ~view.ringing
    /\ Becomes(CloseOverlays(view))
    /\ UNCHANGED posted

(* The layer of the sheets fails to draw: every flag of it stands down.    *)
OverlayFailure ==
    /\ view.sheets # {}
    /\ Becomes(CloseOverlays(view))
    /\ UNCHANGED posted

(* The clock pill's tick finds the alarm due; the sheet is turned off or   *)
(* snoozed, which arms the alarm again.                                    *)
Ring == /\ view.inBook /\ view.alarm
        /\ Becomes([view EXCEPT !.alarm = FALSE, !.ringing = TRUE])
        /\ UNCHANGED posted
ClickRing == /\ view.ringing
             /\ \E a \in {view.alarm, TRUE} :
                   Becomes([view EXCEPT !.ringing = FALSE, !.alarm = a])
             /\ UNCHANGED posted

(* The session ends: the shell closes the sheets and the route is gone.    *)
SignedOut == view.inBook /\ Becomes(Left(CloseOverlays(view))) /\ posted' = <<>>

OverlaysNext ==
    \/ EnterBook \/ BookArrives \/ Depart \/ PressInShell \/ PressInBook \/ FrameKeyArrives
    \/ ClickChrome \/ ClickPanel \/ ClickTheme \/ Choose \/ SubmitAlarm \/ AboutToShortcuts
    \/ CloseSheet \/ OverlayFailure \/ Ring \/ ClickRing \/ SignedOut

OverlaysSpec == OverlaysInit /\ [][OverlaysNext]_overlayVars

-----------------------------------------------------------------------------

(* The reader starts to leave the book only with no sheet, panel, dialog   *)
(* or menu open: whatever the order of keys from the page and from the     *)
(* book, an Escape meant for something open never also leaves              *)
(* (Read.tsx, handleKeyAction's stand-downs and handleFrameKey).           *)
LeavesFromThePage ==
    [][(~view.leaving /\ view'.leaving) =>
          /\ view.sheets = {} /\ view.theme = "none"
          /\ view.panel = "none" /\ ~view.more]_overlayVars
=============================================================================
