----------------------------- MODULE FocusTraps -----------------------------
(***************************************************************************)
(* The focus traps and the scroll lock of the dialogs over one document    *)
(* (lib/focusTrap.ts, lib/scrollLock.ts).  Both keep a registry outside    *)
(* the components: the trap list of a document and its lock state are heap *)
(* objects, replaced when the last dialog closes, and every dialog holds   *)
(* the object it found when it opened.  A teardown may run again.          *)
(***************************************************************************)
EXTENDS Integers, Sequences, FiniteSets, SequencesExt

CONSTANTS
    Dialogs, \* the dialogs that may open, each once
    Offsets  \* places the page can be scrolled to

ASSUME DialogsAssumption == IsFiniteSet(Dialogs)

VARIABLES
    dialog,       \* per dialog: its stage, the list and lock it holds, where focus came from
    lists,        \* the trap lists ever made, by identity
    trapRegistry, \* ACTIVE_TRAPS: the list of this document, 0 when there is none
    locks,        \* the lock states ever made, by identity
    locked,       \* DOCUMENT_LOCKS: the lock of this document, 0 when there is none
    ground,       \* is the page frozen, and where does it stand
    focus,        \* "body", "page" (a control of the page), or a dialog
    left          \* history: where the reader left the page before it froze

trapVars == <<dialog, lists, trapRegistry, locks, locked, ground, focus, left>>

Live == {d \in Dialogs : dialog[d].stage = "live"}
Topmost(d) == LET l == lists[dialog[d].list] IN l # <<>> /\ Last(l) = d
Unopened == [stage |-> "new", list |-> 0, lock |-> 0, came |-> "body", settled |-> FALSE,
             released |-> FALSE]

FocusTrapsInit ==
    /\ dialog = [d \in Dialogs |-> Unopened]
    /\ lists = <<>> /\ trapRegistry = 0
    /\ locks = <<>> /\ locked = 0
    /\ ground \in [frozen : {FALSE}, at : Offsets]
    /\ left = ground.at
    /\ focus \in {"body", "page"}

-----------------------------------------------------------------------------

(* lockDocumentScroll: the first owner freezes the page at the top of a    *)
(* fixed body and remembers its place; another only counts itself in.      *)
LockDocumentScroll ==
    IF locked # 0
    THEN /\ locks' = [locks EXCEPT ![locked].owners = @ + 1]
         /\ UNCHANGED <<locked, ground>>
    ELSE /\ locks' = Append(locks, [owners |-> 1, scroll |-> ground.at])
         /\ locked' = Len(locks) + 1
         /\ ground' = [frozen |-> TRUE, at |-> 0]

StaleRelease(d) == dialog[d].released \/ locked # dialog[d].lock

(* releaseOwner for a holder: once, only on the document's current lock,   *)
(* and the last owner puts the page back.                                  *)
ReleaseOwner(d) ==
    LET k == dialog[d].lock
    IN  IF StaleRelease(d) THEN UNCHANGED <<locks, locked, ground>>
        ELSE /\ locks' = [locks EXCEPT ![k].owners = @ - 1]
             /\ IF locks[k].owners > 1 THEN UNCHANGED <<locked, ground>>
                ELSE locked' = 0 /\ ground' = [frozen |-> FALSE, at |-> locks[k].scroll]

(* focusTrap mounts: it joins the document's list, or founds one.          *)
OpenTrap(d) ==
    /\ dialog[d].stage = "new"
    /\ LockDocumentScroll
    /\ LET mine == IF trapRegistry = 0 THEN Len(lists) + 1 ELSE trapRegistry
       IN  /\ lists' = IF trapRegistry = 0 THEN Append(lists, <<d>>)
                       ELSE [lists EXCEPT ![trapRegistry] = Append(@, d)]
           /\ trapRegistry' = mine
           /\ dialog' = [dialog EXCEPT ![d] = [stage |-> "live", list |-> mine, lock |-> locked',
                                               came |-> focus, settled |-> FALSE,
                                               released |-> FALSE]]
    /\ UNCHANGED <<focus, left>>

(* The microtask that moves focus inside, if the trap is still topmost.    *)
MoveFocusIn(d) ==
    /\ dialog[d].stage = "live" /\ ~dialog[d].settled
    /\ dialog' = [dialog EXCEPT ![d].settled = TRUE]
    /\ focus' = IF Topmost(d) THEN d ELSE focus
    /\ UNCHANGED <<lists, trapRegistry, locks, locked, ground, left>>

(* onKeydown: every live trap hears Tab; the one that reads itself topmost *)
(* keeps focus in its ring or brings it back.                              *)
Tab ==
    /\ Live # {}
    /\ \E d \in Live : Topmost(d) /\ focus' = d
    /\ UNCHANGED <<dialog, lists, trapRegistry, locks, locked, ground, left>>

WithoutLast(list, d) ==
    IF d \notin ToSet(list) THEN list
    ELSE LET i == CHOOSE i \in DOMAIN list : list[i] = d /\ \A j \in i + 1..Len(list) : list[j] # d
         IN  RemoveAt(list, i)

(* Faulty DropsRegistry: whatever list stands in it.                       *)
DropsAnyRegistry(l, rest) == rest = <<>>

DropsRegistry(l, rest) == rest = <<>> /\ trapRegistry = l

Connected(place) == place = "page" \/ place \in Live

(* The teardown focusTrap returns, run when the dialog closes and possibly *)
(* again: leave the list, drop the registry only while it still holds this *)
(* list, give focus back if this dialog still owns it, unlock.             *)
Teardown(d) ==
    /\ dialog[d].stage \in {"live", "gone"}
    /\ LET l == dialog[d].list
           rest == WithoutLast(lists[l], d)
           owns == focus \in {"body", d}
           came == dialog[d].came
       IN  /\ lists' = [lists EXCEPT ![l] = rest]
           /\ trapRegistry' = IF DropsRegistry(l, rest) THEN 0 ELSE trapRegistry
           /\ focus' = IF owns /\ came # d /\ Connected(came) THEN came
                       ELSE IF focus = d THEN "body" ELSE focus
    /\ ReleaseOwner(d)
    /\ dialog' = [dialog EXCEPT ![d].stage = "gone", ![d].released = TRUE]
    /\ UNCHANGED left

(* The reader scrolls a page that is not frozen, and moves focus about.    *)
Scroll ==
    /\ ~ground.frozen
    /\ \E at \in Offsets : at # ground.at /\ ground' = [ground EXCEPT !.at = at] /\ left' = at
    /\ UNCHANGED <<dialog, lists, trapRegistry, locks, locked, focus>>

Click ==
    /\ focus' \in (IF Live = {} THEN {"page", "body"} ELSE Live \cup {"body"}) \ {focus}
    /\ UNCHANGED <<dialog, lists, trapRegistry, locks, locked, ground, left>>

FocusTrapsNext ==
    \/ \E d \in Dialogs : OpenTrap(d) \/ MoveFocusIn(d) \/ Teardown(d)
    \/ Tab \/ Scroll \/ Click

FocusTrapsSpec == FocusTrapsInit /\ [][FocusTrapsNext]_trapVars

-----------------------------------------------------------------------------

(* While dialogs are open exactly one of them answers Tab, and it is one   *)
(* that is still open: never two that both cancel the key, never a closed  *)
(* dialog that swallows it (focusTrap.ts, onKeydown and the teardown).     *)
OneTrapActs ==
    Live # {} =>
        /\ Cardinality({d \in Live : Topmost(d)}) = 1
        /\ \A d \in Dialogs \ Live : dialog[d].stage = "gone" => ~Topmost(d)

(* The page is frozen exactly while a dialog is open, and once the last    *)
(* one has closed it stands where the reader left it                       *)
(* (scrollLock.ts, the owners' count and releaseOwner).                    *)
PageComesBack ==
    /\ ground.frozen <=> Live # {}
    /\ ~ground.frozen => ground.at = left

(* Dialogs that open and close in any order, over each other or while one  *)
(* leaves, share Tab and the page's scroll, and give both back.            *)
DialogsOwnThePage == OneTrapActs /\ PageComesBack
=============================================================================
