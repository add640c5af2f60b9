-------------------------- MODULE ReadingPosition --------------------------
(* One book's position, as a reader tab (routes/Read.tsx, lib/progress.ts) *)
(* keeps it: in memory, on the server, and in the browser's page-hide      *)
(* cache.  Another device reads the same book, the book's file may be      *)
(* replaced, requests may be lost or overtake each other, and the page may *)
(* be killed while it is hidden.                                           *)
(*                                                                         *)
(* A position is [mark, file]: mark counts the places this tab's reader    *)
(* has been to, file is the generation whose spine its chapter indexes.    *)
(* The start of the book is the same place in every file.                  *)
EXTENDS Naturals, FiniteSets

CONSTANTS
    MaxMarks,    \* bound: places the reader goes to
    MaxMounts,   \* bound: times the book is opened
    MaxReplaces, \* bound: replacements of the file
    MaxOther,    \* bound: saves by the other device
    MaxClock,    \* bound: the server's clock, in seconds
    MaxAir       \* bound: messages in flight

ASSUME PositionAssumption ==
    {MaxMarks, MaxMounts, MaxReplaces, MaxOther, MaxClock, MaxAir} \subseteq Nat

VARIABLES
    server,    \* the stored position, who saved it and when; the file installed
    reader,    \* the mounted reader
    hideCache, \* localStorage's page-hide copy
    air,       \* requests and answers on their way
    spent,     \* bounded steps taken
    blind      \* history: a boot could not read the position

positionVars == <<server, reader, hideCache, air, spent, blind>>

Start == [mark |-> 0, file |-> 0]
Unset == [mark |-> 0, file |-> 99]   \* PROGRESS_UNSET
NoCache == [pos |-> Unset, base |-> 0, file |-> 0, wrote |-> 0]
Closed == [phase |-> "closed", read |-> NoCache, pos |-> Start, last |-> Unset,
           base |-> 0, file |-> 0, book |-> 0, stale |-> FALSE, hidden |-> FALSE]

(* A base or file of 0 is an absent timestamp or generation.               *)
PositionInit ==
    /\ server = [pos |-> Start, by |-> "nobody", at |-> 0, file |-> 1, clock |-> 1]
    /\ reader = Closed /\ hideCache = NoCache /\ air = {}
    /\ spent = [marks |-> 0, mounts |-> 0, replaces |-> 0, other |-> 0]
    /\ blind = FALSE

(***************************************************************************)
(* Opening the book                                                        *)
(***************************************************************************)

(* boot: getProgress was answered, or failed.                              *)
Boot ==
    /\ reader.phase = "closed" /\ spent.mounts < MaxMounts
    /\ reader' \in {[Closed EXCEPT !.phase = "read", !.base = server.at, !.file = server.file,
                                   !.last = server.pos,
                                   !.read = [pos |-> server.pos, base |-> server.at, file |-> server.file,
                                             wrote |-> 0]],
                    [Closed EXCEPT !.phase = "read", !.read = [NoCache EXCEPT !.pos = Start]]}
    /\ blind' = (blind \/ reader'.file = 0)
    /\ spent' = [spent EXCEPT !.mounts = @ + 1]
    /\ UNCHANGED <<server, hideCache, air>>

(* Faulty ChooseBootProgress: of whichever file; and always the cache.     *)
ChooseBootProgressByTimeAlone(got, cached) ==
    IF cached.base # 0 /\ got.base > cached.base THEN got.pos ELSE cached.pos

TheCacheAlwaysWins(got, cached) == cached.pos

(* The cache, unless it is of another file or the server has moved on.     *)
ChooseBootProgress(got, cached) ==
    IF \/ cached.file # 0 /\ got.file # 0 /\ cached.file # got.file
       \/ cached.base # 0 /\ got.base > cached.base
    THEN got.pos ELSE cached.pos

(* openBook: the book's details arrive, from the file then installed, or   *)
(* fail; Retry opens at the position chosen first.                         *)
OpenBook ==
    /\ reader.phase \in {"read", "failed"}
    /\ LET saved == IF reader.phase = "failed" THEN reader.pos
                    ELSE IF hideCache = NoCache THEN reader.read.pos
                    ELSE ChooseBootProgress(reader.read, hideCache)
       IN  reader' \in {[reader EXCEPT !.phase = "open", !.pos = saved, !.book = server.file],
                        [reader EXCEPT !.phase = "failed", !.pos = saved]}
    /\ UNCHANGED <<server, hideCache, air, spent, blind>>

(***************************************************************************)
(* Reading and saving                                                      *)
(***************************************************************************)

Reading == reader.phase = "open"
MaySave == Reading /\ ~reader.stale
SavePayload(kind) == [kind |-> kind, pos |-> reader.pos, file |-> reader.file, mount |-> spent.mounts, at |-> 0]
CacheEntry == [pos |-> reader.pos, base |-> reader.base, file |-> reader.file, wrote |-> server.clock]
Room == Cardinality(air) < MaxAir

ReadOn ==
    /\ Reading /\ ~reader.hidden /\ spent.marks < MaxMarks
    /\ reader' = [reader EXCEPT !.pos = [mark |-> spent.marks + 1, file |-> reader.book]]
    /\ spent' = [spent EXCEPT !.marks = @ + 1]
    /\ UNCHANGED <<server, hideCache, air, blind>>

(* flushProgress, from the timer, a chapter load, or Back, which forces it *)
(* past the duplicate test; the throttle only delays it.                   *)
FlushProgress(force) ==
    /\ MaySave /\ ~reader.hidden /\ Room
    /\ force \/ reader.pos # reader.last
    /\ air' = air \cup {SavePayload("put")}
    /\ UNCHANGED <<server, reader, hideCache, spent, blind>>

(* The page is hidden, or the reader unmounts: cache and beacon.           *)
LeavePage(next) ==
    /\ reader' = next
    /\ IF MaySave THEN hideCache' = CacheEntry /\ air' = air \cup {SavePayload("beacon")}
       ELSE UNCHANGED <<hideCache, air>>
    /\ UNCHANGED <<server, spent, blind>>

PageHidden == Reading /\ ~reader.hidden /\ Room /\ LeavePage([reader EXCEPT !.hidden = TRUE])
Unmount == reader.phase # "closed" /\ ~reader.hidden /\ Room /\ LeavePage(Closed)

PageShown ==
    /\ Reading /\ reader.hidden
    /\ reader' = [reader EXCEPT !.hidden = FALSE]
    /\ UNCHANGED <<server, hideCache, air, spent, blind>>

(* The browser discards the page: what it sent may still arrive, and the   *)
(* answer finds nobody.                                                    *)
PageKilled ==
    /\ reader.phase # "closed" /\ reader.hidden
    /\ reader' = Closed
    /\ air' = {[m EXCEPT !.kind = "beacon"] : m \in {m \in air : m.kind \in {"put", "beacon"}}}
    /\ UNCHANGED <<server, hideCache, spent, blind>>

(***************************************************************************)
(* The server, and what comes back                                         *)
(***************************************************************************)

StaleGeneration(file) == file # 0 /\ file # server.file

(* PUT is answered, a beacon is not.                                       *)
Serve(m) ==
    /\ m \in air /\ m.kind \in {"put", "beacon"}
    /\ server' = IF StaleGeneration(m.file) THEN server
                 ELSE [server EXCEPT !.pos = m.pos, !.by = "reader", !.at = server.clock]
    /\ air' = (air \ {m}) \cup
              IF m.kind = "beacon" THEN {}
              ELSE {[m EXCEPT !.kind = IF StaleGeneration(m.file) THEN "refused" ELSE "saved",
                              !.at = server.clock]}
    /\ UNCHANGED <<reader, hideCache, spent, blind>>

(* Lost: a failed save is retried by the interval, a lost beacon is not.   *)
Lose(m) ==
    /\ m \in air
    /\ air' = air \ {m}
    /\ UNCHANGED <<server, reader, hideCache, spent, blind>>

Answer(m) ==
    /\ m \in air /\ m.kind \in {"saved", "refused"}
    /\ air' = air \ {m}
    /\ hideCache' = NoCache
    /\ reader' = IF m.mount # spent.mounts \/ reader.phase = "closed" THEN reader
                 ELSE IF m.kind = "saved" THEN [reader EXCEPT !.last = m.pos, !.base = m.at]
                 ELSE [reader EXCEPT !.stale = TRUE]
    /\ UNCHANGED <<server, spent, blind>>

(* Another device opened the installed file, and saves.                    *)
OtherSaves ==
    /\ spent.other < MaxOther
    /\ server' = [server EXCEPT !.pos = [mark |-> 0, file |-> server.file], !.by = "other", !.at = server.clock]
    /\ spent' = [spent EXCEPT !.other = @ + 1]
    /\ UNCHANGED <<reader, hideCache, air, blind>>

(* The file is replaced and the stored position moved to its spine.        *)
ReplaceFile ==
    /\ spent.replaces < MaxReplaces
    /\ server' = [server EXCEPT !.file = @ + 1, !.pos.file = IF @ = 0 THEN 0 ELSE server.file + 1]
    /\ spent' = [spent EXCEPT !.replaces = @ + 1]
    /\ UNCHANGED <<reader, hideCache, air, blind>>

Tick ==
    /\ server.clock < MaxClock
    /\ server' = [server EXCEPT !.clock = @ + 1]
    /\ UNCHANGED <<reader, hideCache, air, spent, blind>>

PositionNext ==
    \/ Boot \/ OpenBook \/ ReadOn \/ PageHidden \/ PageShown \/ PageKilled \/ Unmount
    \/ OtherSaves \/ ReplaceFile \/ Tick
    \/ \E force \in BOOLEAN : FlushProgress(force)
    \/ \E m \in air : Serve(m) \/ Lose(m) \/ Answer(m)

PositionSpec == PositionInit /\ [][PositionNext]_positionVars

(***************************************************************************)
(* Properties                                                              *)
(***************************************************************************)

(* The stored chapter is always one of the installed file's: neither a tab *)
(* nor a cache left over from before a replacement brings the old          *)
(* numbering back, unless a boot was never told which file it had.         *)
RowOfThisFile == blind \/ server.pos.file \in {0, server.file}

(* What another device saved after this browser wrote its cache is where   *)
(* the book opens: a cache that carries a baseline never rewinds a session *)
(* it cannot know of.                                                      *)
NoRewind ==
    [][reader.phase = "read" /\ reader'.phase = "open"
       /\ hideCache.base # 0 /\ reader.read.base > hideCache.wrote
         => reader'.pos = reader.read.pos]_positionVars

(* "The cache is the crash-guard copy when the beacon never lands ... the  *)
(* newest position THIS tab knows" (Read.tsx, unmount): a book reopened    *)
(* before any other device read it opens at the last place reached while a *)
(* page was open to leave it.                                              *)
LastPlace == [mark |-> spent.marks, file |-> 1]
CrashGuardHolds ==
    reader.phase = "closed" /\ spent.mounts > 0 /\ spent.marks > 0 /\ spent.other = 0 /\ spent.replaces = 0 /\ ~blind
      => \/ hideCache.pos = LastPlace
         \/ server.pos = LastPlace
         \/ \E m \in air : m.kind \in {"put", "beacon"} /\ m.pos = LastPlace
=============================================================================
