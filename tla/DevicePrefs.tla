---------------------------- MODULE DevicePrefs ----------------------------
(***************************************************************************)
(* What a device keeps for itself, in the browser's storage and not on the *)
(* server: the reader's clock with its alarm (lib/clock.ts, ClockPill,     *)
(* AlarmSetDialog, AlarmDialog) and the card size of the shelf             *)
(* (lib/cardSize.ts).  Every tab reads the storage once, when its page     *)
(* loads, and no tab hears of another's writes.                            *)
(***************************************************************************)
EXTENDS Naturals, FiniteSets

CONSTANTS
    Tabs,
    AlarmNames,  \* what an alarm is for
    CardSizes,   \* sizes the slider can choose; 0 is Auto
    Day,         \* hours of a day
    MaxHours,    \* bounds: how long the clock runs,
    MaxChoices   \* and what the users of all tabs do

ASSUME PrefsAssumption ==
    /\ 0 \notin CardSizes
    /\ Day \in Nat \ {0}
    /\ {MaxHours, MaxChoices} \subseteq Nat

VARIABLES
    hour,    \* Date.now()
    stored,  \* localStorage: the clock's blob and the card size
    pages,   \* the page each tab has loaded
    armed,   \* history: the alarms armed so far
    sizing,  \* history: the tab that wrote the size last, and those that owe a write
    late,    \* history: an hour went by over an alarm that was due
    choices  \* bounded steps taken

prefsVars == <<hour, stored, pages, armed, sizing, late, choices>>

-----------------------------------------------------------------------------
Unnamed == ""
NoAlarm == [at |-> 0, name |-> Unnamed, n |-> 0]
ClockDefaults == [show |-> TRUE, alarm |-> NoAlarm]
NoPage == [open |-> FALSE, born |-> 0, clock |-> ClockDefaults, inReader |-> FALSE,
           ringing |-> NoAlarm, rung |-> {}, size |-> 0, pendingPx |-> 0]

(* read(): an alarm is honoured only while it is in the future; the name   *)
(* stays.                                                                  *)
ReadClock(blob) ==
    IF blob.alarm.at > hour THEN blob
    ELSE [blob EXCEPT !.alarm = [NoAlarm EXCEPT !.name = blob.alarm.name]]

PrefsInit ==
    /\ hour = 0 /\ choices = 0 /\ late = FALSE
    /\ stored = [clock |-> ClockDefaults, size |-> 0]
    /\ pages = [t \in Tabs |-> NoPage]
    /\ armed = {NoAlarm}
    /\ sizing = [by |-> {}, owing |-> {}]

Chooses == choices < MaxChoices /\ choices' = choices + 1

(* patch(): onto what this tab believes, and all of it to the storage.     *)
Patch(t, clock) ==
    /\ pages' = [pages EXCEPT ![t].clock = clock]
    /\ stored' = [stored EXCEPT !.clock = clock]

-----------------------------------------------------------------------------
(* Pages                                                                   *)

LoadPage(t) ==
    /\ ~pages[t].open /\ Chooses
    /\ pages' = [pages EXCEPT ![t] = [NoPage EXCEPT !.open = TRUE, !.born = hour,
                    !.clock = ReadClock(stored.clock), !.size = stored.size]]
    /\ UNCHANGED <<hour, stored, armed, sizing, late>>

(* The pill is the reader's: leaving drops a sheet that rings.             *)
EnterReader(t) ==
    /\ pages[t].open /\ ~pages[t].inReader
    /\ pages' = [pages EXCEPT ![t].inReader = TRUE]
    /\ UNCHANGED <<hour, stored, armed, sizing, late, choices>>

LeaveReader(t) ==
    /\ pages[t].inReader
    /\ pages' = [pages EXCEPT ![t].inReader = FALSE, ![t].ringing = NoAlarm]
    /\ UNCHANGED <<hour, stored, armed, sizing, late, choices>>

-----------------------------------------------------------------------------
(* The clock and its alarm                                                 *)

(* The preferences of the settings panel.                                  *)
SetShow(t) ==
    /\ pages[t].inReader /\ Chooses
    /\ Patch(t, [pages[t].clock EXCEPT !.show = ~@])
    /\ UNCHANGED <<hour, armed, sizing, late>>

(* A time of day means the next instant it is that time, never now: today, *)
(* or tomorrow if that is past.                                            *)
AlarmTargetFrom(from, h) ==
    LET today == (from - (from % Day)) + h IN IF today <= from THEN today + Day ELSE today

SetAlarm(t, at, name) ==
    LET alarm == [at |-> at, name |-> name, n |-> Cardinality(armed)] IN
    /\ Chooses
    /\ armed' = armed \cup {alarm}
    /\ Patch(t, [pages[t].clock EXCEPT !.alarm = alarm])

Submit(t) ==
    /\ pages[t].inReader
    /\ \E h \in 0 .. Day - 1, name \in AlarmNames : SetAlarm(t, AlarmTargetFrom(hour, h), name)
    /\ UNCHANGED <<hour, sizing, late>>

Clear(t) ==
    /\ pages[t].inReader /\ pages[t].clock.alarm.at # 0
    /\ Patch(t, [pages[t].clock EXCEPT !.alarm = NoAlarm])
    /\ UNCHANGED <<hour, armed, sizing, late, choices>>

(* Faulty Ticking: switching the clock off stops its interval.             *)
TicksIfShown(page) == page.inReader /\ page.clock.show

(* The interval of the pill.                                               *)
Ticking(page) == page.inReader /\ (page.clock.show \/ page.clock.alarm.at # 0)

Due(page) == page.clock.alarm.at # 0 /\ page.clock.alarm.at <= hour

(* A tick finds the alarm due: cleared first, then the sheet.              *)
RingDue(t) ==
    LET due == pages[t].clock.alarm
        clock == [pages[t].clock EXCEPT !.alarm = NoAlarm] IN
    /\ Ticking(pages[t]) /\ Due(pages[t])
    /\ pages' = [pages EXCEPT ![t].clock = clock, ![t].ringing = due, ![t].rung = @ \cup {due.n}]
    /\ stored' = [stored EXCEPT !.clock = clock]
    /\ UNCHANGED <<hour, armed, sizing, late, choices>>

Dismiss(t) ==
    /\ pages[t].ringing # NoAlarm
    /\ pages' = [pages EXCEPT ![t].ringing = NoAlarm]
    /\ UNCHANGED <<hour, stored, armed, sizing, late, choices>>

(* The same alarm, some minutes later.                                     *)
Snooze(t) ==
    LET alarm == [at |-> hour + 1, name |-> pages[t].ringing.name, n |-> Cardinality(armed)]
        clock == [pages[t].clock EXCEPT !.alarm = alarm] IN
    /\ pages[t].ringing # NoAlarm /\ Chooses
    /\ armed' = armed \cup {alarm}
    /\ pages' = [pages EXCEPT ![t].clock = clock, ![t].ringing = NoAlarm]
    /\ stored' = [stored EXCEPT !.clock = clock]
    /\ UNCHANGED <<hour, sizing, late>>

(* Time passes, many hours at once when the machine sleeps; a running      *)
(* interval ticks before it passes again.                                  *)
TimePasses ==
    /\ \A t \in Tabs : Ticking(pages[t]) => ~Due(pages[t])
    /\ hour' \in hour + 1 .. MaxHours
    /\ late' = (late \/ \E t \in Tabs : pages[t].inReader /\ Due(pages[t]))
    /\ UNCHANGED <<stored, pages, armed, sizing, choices>>

-----------------------------------------------------------------------------
(* The card size: shown at once, written when the drag has settled         *)

Written(t, px) ==
    /\ stored' = [stored EXCEPT !.size = px]
    /\ sizing' = [by |-> {t}, owing |-> sizing.owing \ {t}]

SetSize(t, px) ==
    /\ pages[t].open /\ Chooses
    /\ pages' = [pages EXCEPT ![t].size = px, ![t].pendingPx = px]
    /\ sizing' = [sizing EXCEPT !.owing = @ \cup {t}]
    /\ UNCHANGED <<hour, stored, armed, late>>

PersistTimer(t) ==
    /\ pages[t].pendingPx # 0
    /\ pages' = [pages EXCEPT ![t].pendingPx = 0]
    /\ Written(t, pages[t].pendingPx)
    /\ UNCHANGED <<hour, armed, late, choices>>

(* Auto drops a write that waits.                                          *)
ResetSize(t) ==
    /\ pages[t].open /\ pages[t].size # 0 /\ Chooses
    /\ pages' = [pages EXCEPT ![t].size = 0, ![t].pendingPx = 0]
    /\ Written(t, 0)
    /\ UNCHANGED <<hour, armed, late>>

(* pagehide writes what waits; the page may come back, or be gone.         *)
FlushPendingWrite(t) ==
    IF pages[t].pendingPx = 0 THEN UNCHANGED <<stored, sizing>> ELSE Written(t, pages[t].pendingPx)

PageHides(t) ==
    /\ pages[t].open
    /\ FlushPendingWrite(t)
    /\ \E gone \in BOOLEAN :
          pages' = [pages EXCEPT ![t] = [(IF gone THEN NoPage ELSE @) EXCEPT
                       !.size = pages[t].size, !.pendingPx = 0]]
    /\ UNCHANGED <<hour, armed, late, choices>>

(* The browser is killed: nothing is written, and what was shown is over.  *)
PageDies(t) ==
    /\ pages[t].open
    /\ pages' = [pages EXCEPT ![t] = NoPage]
    /\ sizing' = [by |-> sizing.by \ {t}, owing |-> sizing.owing \ {t}]
    /\ UNCHANGED <<hour, stored, armed, late, choices>>

PrefsNext ==
    \/ TimePasses
    \/ \E t \in Tabs :
         \/ LoadPage(t) \/ EnterReader(t) \/ LeaveReader(t) \/ PageHides(t) \/ PageDies(t)
         \/ SetShow(t) \/ Submit(t) \/ Clear(t) \/ RingDue(t) \/ Dismiss(t) \/ Snooze(t)
         \/ PersistTimer(t) \/ ResetSize(t) \/ \E px \in CardSizes : SetSize(t, px)

PrefsSpec == PrefsInit /\ [][PrefsNext]_prefsVars

(***************************************************************************)
(* Properties                                                              *)
(***************************************************************************)

(* In the reader an alarm that is due rings at the next tick, with the     *)
(* clock shown or hidden and after any sleep; it rings once in a page,     *)
(* under the name it was armed or snoozed with; and a page never rings for *)
(* an instant that was past when it loaded, whatever another tab has put   *)
(* back into the storage.                                                  *)
AlarmsRing ==
    /\ ~late
    /\ \A t \in Tabs : LET page == pages[t] IN
          /\ page.clock.alarm.at # 0 => page.clock.alarm.n \notin page.rung
          /\ \A alarm \in {page.clock.alarm, page.ringing} :
                alarm.at # 0 => alarm \in armed /\ alarm.at > page.born
          /\ page.ringing.at <= hour

(* A size chosen reaches the storage even if the tab closes on the drag,   *)
(* and Auto is not undone by a size that was waiting: with nothing left to *)
(* write, the storage holds what the last tab to write shows.              *)
SizeKept ==
    \A t \in sizing.by \cup sizing.owing :
        pages[t].pendingPx = 0 => stored.size = pages[t].size

(* The device keeps its alarms and its size.                               *)
DeviceRemembers == AlarmsRing /\ SizeKept
=============================================================================
