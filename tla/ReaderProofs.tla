---------------------------- MODULE ReaderProofs ----------------------------
(***************************************************************************)
(* Proofs about the reader's own machines.  ReadingPosition: stored        *)
(* positions number the chapters of the installed file, and a cache never  *)
(* rewinds another device's session.  BookSearch: the search panel is      *)
(* honest for any words, any number of pages, and any number of requests   *)
(* in flight.  ReaderFrame: the reader and its frame agree on the chapter, *)
(* for any chapters, queues, navigations and restarts.  Bookmarks: the     *)
(* list shown and the list kept agree once everything has been answered.   *)
(* ChapterPull: a pull leaves one chapter and ends.  PagedChapter: what a  *)
(* chapter shows, believes, anchors and reports is one page.               *)
(***************************************************************************)
EXTENDS BookSearch, ReadingPosition, ReaderFrame, Bookmarks, ChapterPull,
        PagedChapter, FiniteSetTheorems, SequenceTheorems, WellFoundedInduction, TLAPS

(* Reading positions.                                                      *)
Positions == [mark : Nat, file : Nat]
Caches    == [pos : Positions, base : Nat, file : Nat, wrote : Nat]
Mounts    == [phase : {"closed", "read", "failed", "open"}, read : Caches, pos : Positions,
              last : Positions, base : Nat, file : Nat, book : Nat, stale : BOOLEAN, hidden : BOOLEAN]
Servers   == [pos : Positions, by : {"nobody", "reader", "other"}, at : Nat, file : Nat \ {0}, clock : Nat]
Messages  == [kind : {"put", "beacon", "saved", "refused"}, pos : Positions, file : Nat,
              mount : Nat, at : Nat]

PositionTypeOK ==
    /\ server \in Servers /\ reader \in Mounts /\ hideCache \in Caches /\ air \subseteq Messages
    /\ spent \in [marks : Nat, mounts : Nat, replaces : Nat, other : Nat]
    /\ blind \in BOOLEAN

(* Nobody knows a time that is still to come.                              *)
TimesPast ==
    /\ server.at <= server.clock /\ reader.base <= server.clock
    /\ hideCache.base <= hideCache.wrote
    /\ \A m \in air : m.at <= server.clock

(* A position sent or kept for a generation counts the chapters of that    *)
(* one or of a later one, which the server will not take it for.           *)
Fits(pos, file) == /\ 0 < file /\ file <= server.file
                   /\ pos.file = 0 \/ (file <= pos.file /\ pos.file <= server.file)

ServerFits == server.pos.file \in {0, server.file}
ReaderFits == reader.phase # "closed" =>
    /\ Fits(reader.pos, reader.file)
    /\ reader.phase = "read" => reader.read.file = reader.file /\ Fits(reader.read.pos, reader.file)
    /\ reader.phase = "open" => reader.file <= reader.book /\ reader.book <= server.file
CacheFits == hideCache # NoCache => Fits(hideCache.pos, hideCache.file)
AirFits == \A m \in air : Fits(m.pos, m.file)

AllFit == ServerFits /\ ReaderFits /\ CacheFits /\ AirFits

PositionInv == PositionTypeOK /\ TimesPast /\ (~blind => AllFit)

-----------------------------------------------------------------------------

LEMMA NothingType == /\ Start \in Positions /\ Unset \in Positions
                     /\ NoCache \in Caches /\ Closed \in Mounts
  BY DEF Start, Unset, NoCache, Closed, Positions, Caches, Mounts

(* A later file leaves what fitted fitting.                                *)
LEMMA FitsGrow ==
  ASSUME PositionTypeOK, PositionTypeOK', server.file <= server'.file,
         NEW pos \in Positions, NEW file \in Nat, Fits(pos, file)
  PROVE  /\ 0 < file /\ file <= server'.file
         /\ pos.file = 0 \/ (file <= pos.file /\ pos.file <= server'.file)
  BY DEF Fits, PositionTypeOK, Servers, Positions

LEMMA PositionInitInv == PositionInit => PositionInv
<1> SUFFICES ASSUME PositionInit PROVE PositionInv
  OBVIOUS
<1>1. PositionTypeOK
  <2>1. server \in Servers
    BY NothingType DEF PositionInit, Servers
  <2>2. reader \in Mounts /\ hideCache \in Caches
    BY NothingType DEF PositionInit
  <2>3. air \subseteq Messages /\ blind \in BOOLEAN
    BY DEF PositionInit
  <2>4. spent \in [marks : Nat, mounts : Nat, replaces : Nat, other : Nat]
    BY DEF PositionInit
  <2> QED BY <2>1, <2>2, <2>3, <2>4 DEF PositionTypeOK
<1>2. TimesPast
  BY DEF PositionInit, TimesPast, Closed, NoCache
<1>3. AllFit
  BY DEF PositionInit, AllFit, ServerFits, ReaderFits, CacheFits, AirFits, Closed, Start
<1> QED BY <1>1, <1>2, <1>3 DEF PositionInv

LEMMA BootKeeps == PositionInv /\ Boot => PositionInv'
<1> SUFFICES ASSUME PositionInv, Boot PROVE PositionInv'
  OBVIOUS
<1> DEFINE got == [pos |-> server.pos, base |-> server.at, file |-> server.file, wrote |-> 0]
           told == [Closed EXCEPT !.phase = "read", !.base = server.at, !.file = server.file,
                                  !.last = server.pos, !.read = got]
           dark == [NoCache EXCEPT !.pos = Start]
           untold == [Closed EXCEPT !.phase = "read", !.read = dark]
<1>1. /\ server.pos \in Positions /\ server.at \in Nat /\ server.file \in Nat \ {0}
      /\ server.clock \in Nat
  BY DEF PositionInv, PositionTypeOK, Servers
<1>2. got \in Caches /\ dark \in Caches
  BY <1>1, NothingType DEF Caches
<1> HIDE DEF got, dark
<1>3. told \in Mounts /\ untold \in Mounts
  BY <1>1, <1>2, NothingType DEF Mounts
<1>4. reader' \in {told, untold}
  BY DEF Boot, got, dark
<1>5. PositionTypeOK'
  BY <1>3, <1>4 DEF Boot, PositionInv, PositionTypeOK
<1>6. told.base = server.at /\ untold.base = 0
  BY NothingType DEF Mounts, Closed
<1>7. TimesPast'
  <2>1. UNCHANGED <<server, hideCache, air>>
    BY DEF Boot
  <2>2. reader'.base <= server.clock
    <3> HIDE DEF told, untold
    <3> QED BY <1>1, <1>4, <1>6 DEF PositionInv, TimesPast
  <2> QED BY <2>1, <2>2 DEF PositionInv, TimesPast
<1>8. ASSUME ~blind' PROVE AllFit'
  <2>1. ~blind /\ reader'.file # 0
    BY <1>8 DEF Boot, PositionInv, PositionTypeOK
  <2>2. untold.file = 0
    BY DEF Closed
  <2>3. reader' = told
    BY <2>1, <2>2, <1>4
  <2>4. /\ told.phase = "read" /\ told.pos = Start /\ told.file = server.file
        /\ told.read = got
    BY DEF Closed
  <2>5. got.file = server.file /\ got.pos = server.pos
    BY DEF got
  <2>6. ServerFits /\ CacheFits /\ AirFits
    BY <2>1 DEF PositionInv, AllFit
  <2>7. ServerFits' /\ CacheFits' /\ AirFits'
    BY <2>6 DEF Boot, ServerFits, CacheFits, AirFits, Fits
  <2>8. ReaderFits'
    BY <2>3, <2>4, <2>5, <2>6, <1>1 DEF Boot, ReaderFits, ServerFits, Fits, Start
  <2> QED BY <2>7, <2>8 DEF AllFit
<1> QED BY <1>5, <1>7, <1>8 DEF PositionInv

(* What the boot chooses fits the file the reader was told of: a cache of  *)
(* another file is not looked at.                                          *)
LEMMA ChosenFits ==
  ASSUME PositionInv, hideCache # NoCache
  PROVE  /\ ChooseBootProgress(reader.read, hideCache) \in {reader.read.pos, hideCache.pos}
         /\ ~blind /\ reader.phase = "read" =>
               Fits(ChooseBootProgress(reader.read, hideCache), reader.file)
<1>1. ChooseBootProgress(reader.read, hideCache) \in {reader.read.pos, hideCache.pos}
  BY DEF ChooseBootProgress
<1>2. ASSUME ~blind, reader.phase = "read"
      PROVE  Fits(ChooseBootProgress(reader.read, hideCache), reader.file)
  <2>1. /\ Fits(hideCache.pos, hideCache.file) /\ Fits(reader.read.pos, reader.file)
        /\ reader.read.file = reader.file
    BY <1>2 DEF PositionInv, AllFit, ReaderFits, CacheFits
  <2>2. hideCache.file # 0 /\ reader.read.file # 0
    BY <2>1 DEF Fits
  <2>3. CASE ChooseBootProgress(reader.read, hideCache) = reader.read.pos
    BY <2>1, <2>3
  <2>4. CASE ChooseBootProgress(reader.read, hideCache) # reader.read.pos
    <3>1. hideCache.file = reader.read.file
      BY <2>2, <2>4 DEF ChooseBootProgress
    <3> QED BY <3>1, <2>1, <2>4, <1>1
  <2> QED BY <2>3, <2>4
<1> QED BY <1>1, <1>2

LEMMA OpenBookKeeps == PositionInv /\ OpenBook => PositionInv'
<1> SUFFICES ASSUME PositionInv, OpenBook PROVE PositionInv'
  OBVIOUS
<1> DEFINE saved == IF reader.phase = "failed" THEN reader.pos
                    ELSE IF hideCache = NoCache THEN reader.read.pos
                    ELSE ChooseBootProgress(reader.read, hideCache)
           opened == [reader EXCEPT !.phase = "open", !.pos = saved, !.book = server.file]
           failed == [reader EXCEPT !.phase = "failed", !.pos = saved]
<1>1. /\ reader \in Mounts /\ reader.pos \in Positions /\ reader.read.pos \in Positions
      /\ hideCache.pos \in Positions /\ server.file \in Nat /\ reader.file \in Nat
  BY DEF PositionInv, PositionTypeOK, Servers, Mounts, Caches
<1>2. saved \in Positions
  BY <1>1, ChosenFits
<1>3. ~blind => Fits(saved, reader.file)
  BY ChosenFits DEF OpenBook, PositionInv, AllFit, ReaderFits
<1> HIDE DEF saved
<1>4. opened \in Mounts /\ failed \in Mounts
  BY <1>1, <1>2 DEF Mounts
<1>5. reader' \in {opened, failed}
  BY DEF OpenBook, saved
<1>6. PositionTypeOK'
  BY <1>4, <1>5 DEF OpenBook, PositionInv, PositionTypeOK
<1>7. /\ opened.base = reader.base /\ failed.base = reader.base
      /\ opened.file = reader.file /\ failed.file = reader.file
      /\ opened.pos = saved /\ failed.pos = saved
      /\ opened.book = server.file /\ opened.phase = "open" /\ failed.phase = "failed"
  BY <1>1 DEF Mounts
<1> HIDE DEF opened, failed
<1>8. TimesPast'
  BY <1>5, <1>7 DEF OpenBook, PositionInv, TimesPast
<1>9. ASSUME ~blind' PROVE AllFit'
  <2>1. ~blind
    BY <1>9 DEF OpenBook
  <2>2. ServerFits' /\ CacheFits' /\ AirFits'
    BY <2>1 DEF OpenBook, PositionInv, AllFit, ServerFits, CacheFits, AirFits, Fits
  <2>3. reader.file <= server.file
    BY <2>1, <1>3 DEF Fits
  <2>4. ReaderFits'
    BY <2>1, <2>3, <1>1, <1>3, <1>5, <1>7 DEF OpenBook, ReaderFits, Fits
  <2> QED BY <2>2, <2>4 DEF AllFit
<1> QED BY <1>6, <1>8, <1>9 DEF PositionInv

LEMMA ReadOnKeeps == PositionInv /\ ReadOn => PositionInv'
<1> SUFFICES ASSUME PositionInv, ReadOn PROVE PositionInv'
  OBVIOUS
<1> DEFINE place == [mark |-> spent.marks + 1, file |-> reader.book]
           moved == [reader EXCEPT !.pos = place]
<1>1. /\ reader \in Mounts /\ reader.book \in Nat /\ spent.marks \in Nat /\ reader.file \in Nat
      /\ server.file \in Nat
  BY DEF PositionInv, PositionTypeOK, Mounts, Servers
<1>2. place \in Positions /\ place.file = reader.book
  BY <1>1 DEF Positions
<1> HIDE DEF place
<1>3. moved \in Mounts
  BY <1>1, <1>2 DEF Mounts
<1>4. /\ moved.base = reader.base /\ moved.file = reader.file /\ moved.pos = place
      /\ moved.book = reader.book /\ moved.phase = reader.phase
  BY <1>1 DEF Mounts
<1>5. reader' = moved
  BY DEF ReadOn, place
<1> HIDE DEF moved
<1>6. spent' \in [marks : Nat, mounts : Nat, replaces : Nat, other : Nat]
  BY DEF ReadOn, PositionInv, PositionTypeOK
<1>7. PositionTypeOK'
  BY <1>3, <1>5, <1>6 DEF ReadOn, PositionInv, PositionTypeOK
<1>8. TimesPast'
  BY <1>4, <1>5 DEF ReadOn, PositionInv, TimesPast
<1>9. ASSUME ~blind' PROVE AllFit'
  <2>1. ~blind /\ reader.phase = "open"
    BY <1>9 DEF ReadOn, Reading
  <2>2. ServerFits' /\ CacheFits' /\ AirFits'
    BY <2>1 DEF ReadOn, PositionInv, AllFit, ServerFits, CacheFits, AirFits, Fits
  <2>3. ReaderFits
    BY <2>1 DEF PositionInv, AllFit
  <2>4. ReaderFits'
    BY <2>1, <2>3, <1>1, <1>2, <1>4, <1>5 DEF ReadOn, ReaderFits, Fits
  <2> QED BY <2>2, <2>4 DEF AllFit
<1> QED BY <1>7, <1>8, <1>9 DEF PositionInv

-----------------------------------------------------------------------------

(* What an open reader sends fits the generation it names.                 *)
LEMMA PayloadFits ==
  ASSUME PositionInv, NEW kind \in {"put", "beacon"}
  PROVE  /\ SavePayload(kind) \in Messages
         /\ SavePayload(kind).at <= server.clock
         /\ ~blind /\ Reading => Fits(SavePayload(kind).pos, SavePayload(kind).file)
<1>1. reader.pos \in Positions /\ reader.file \in Nat /\ spent.mounts \in Nat /\ server.clock \in Nat
  BY DEF PositionInv, PositionTypeOK, Mounts, Servers
<1> QED BY <1>1 DEF SavePayload, Messages, Reading, PositionInv, AllFit, ReaderFits

LEMMA FlushKeeps == PositionInv /\ (\E force \in BOOLEAN : FlushProgress(force)) => PositionInv'
<1> SUFFICES ASSUME PositionInv, NEW force \in BOOLEAN, FlushProgress(force) PROVE PositionInv'
  OBVIOUS
<1> DEFINE put == SavePayload("put")
<1>1. put \in Messages /\ put.at <= server.clock /\ (~blind => Fits(put.pos, put.file))
  BY PayloadFits DEF FlushProgress, MaySave
<1>2. air' = air \cup {put} /\ UNCHANGED <<server, reader, hideCache, spent, blind>>
  BY DEF FlushProgress
<1> HIDE DEF put
<1>3. PositionTypeOK'
  BY <1>1, <1>2 DEF PositionInv, PositionTypeOK
<1>4. TimesPast'
  BY <1>1, <1>2 DEF PositionInv, TimesPast
<1>5. ~blind => AllFit'
  BY <1>1, <1>2 DEF PositionInv, AllFit, ServerFits, ReaderFits, CacheFits, AirFits, Fits
<1> QED BY <1>2, <1>3, <1>4, <1>5 DEF PositionInv

(* Leaving, with a reader that is closed or sits where it sat.             *)
LEMMA LeaveKeeps ==
  ASSUME PositionInv, NEW next \in Mounts, LeavePage(next), next.base <= server.clock,
         \/ next.phase = "closed"
         \/ /\ next.phase = reader.phase /\ next.pos = reader.pos /\ next.file = reader.file
            /\ next.read = reader.read /\ next.book = reader.book
  PROVE  PositionInv'
<1> DEFINE beacon == SavePayload("beacon")
<1>1. beacon \in Messages /\ beacon.at <= server.clock /\ (~blind /\ Reading => Fits(beacon.pos, beacon.file))
  BY PayloadFits
<1>2. /\ CacheEntry \in Caches /\ CacheEntry.base <= CacheEntry.wrote
      /\ ~blind /\ Reading => Fits(CacheEntry.pos, CacheEntry.file)
  <2>1. reader.pos \in Positions /\ reader.base \in Nat /\ reader.file \in Nat /\ server.clock \in Nat
    BY DEF PositionInv, PositionTypeOK, Mounts, Servers
  <2> QED BY <2>1 DEF CacheEntry, Caches, PositionInv, TimesPast, Reading, AllFit,
     ReaderFits
<1>3. /\ reader' = next /\ UNCHANGED <<server, spent, blind>>
      /\ \/ MaySave /\ hideCache' = CacheEntry /\ air' = air \cup {beacon}
         \/ UNCHANGED <<hideCache, air>>
  BY DEF LeavePage
<1> HIDE DEF beacon
<1>4. PositionTypeOK'
  BY <1>1, <1>2, <1>3 DEF PositionInv, PositionTypeOK
<1>5. TimesPast'
  BY <1>1, <1>2, <1>3 DEF PositionInv, TimesPast
<1>6. ASSUME ~blind PROVE AllFit'
  <2>1. ServerFits' /\ ReaderFits'
    BY <1>3, <1>6 DEF PositionInv, AllFit, ServerFits, ReaderFits, Fits
  <2>2. CacheFits' /\ AirFits'
    BY <1>1, <1>2, <1>3, <1>6 DEF PositionInv, AllFit, CacheFits, AirFits, Fits, MaySave
  <2> QED BY <2>1, <2>2 DEF AllFit
<1> QED BY <1>3, <1>4, <1>5, <1>6 DEF PositionInv

LEMMA PageHiddenKeeps == PositionInv /\ PageHidden => PositionInv'
<1> SUFFICES ASSUME PositionInv, PageHidden PROVE PositionInv'
  OBVIOUS
<1> DEFINE next == [reader EXCEPT !.hidden = TRUE]
<1>1. reader \in Mounts /\ reader.base <= server.clock
  BY DEF PositionInv, PositionTypeOK, TimesPast
<1>2. next \in Mounts
  BY <1>1 DEF Mounts
<1>3. /\ next.phase = reader.phase /\ next.pos = reader.pos /\ next.file = reader.file
      /\ next.read = reader.read /\ next.book = reader.book /\ next.base = reader.base
  BY <1>1 DEF Mounts
<1>4. LeavePage(next)
  BY DEF PageHidden
<1> HIDE DEF next
<1> QED BY <1>1, <1>2, <1>3, <1>4, LeaveKeeps

LEMMA UnmountKeeps == PositionInv /\ Unmount => PositionInv'
<1> SUFFICES ASSUME PositionInv, Unmount PROVE PositionInv'
  OBVIOUS
<1>1. server.clock \in Nat
  BY DEF PositionInv, PositionTypeOK, Servers
<1>2. Closed.phase = "closed" /\ Closed.base = 0
  BY DEF Closed
<1>3. LeavePage(Closed)
  BY DEF Unmount
<1> QED BY <1>1, <1>2, <1>3, NothingType, LeaveKeeps

LEMMA PageShownKeeps == PositionInv /\ PageShown => PositionInv'
<1> SUFFICES ASSUME PositionInv, PageShown PROVE PositionInv'
  OBVIOUS
<1> DEFINE next == [reader EXCEPT !.hidden = FALSE]
<1>1. reader \in Mounts
  BY DEF PositionInv, PositionTypeOK
<1>2. next \in Mounts
  BY <1>1 DEF Mounts
<1>3. /\ next.phase = reader.phase /\ next.pos = reader.pos /\ next.file = reader.file
      /\ next.read = reader.read /\ next.book = reader.book /\ next.base = reader.base
  BY <1>1 DEF Mounts
<1>4. reader' = next /\ UNCHANGED <<server, hideCache, air, spent, blind>>
  BY DEF PageShown
<1> HIDE DEF next
<1>5. PositionTypeOK' /\ TimesPast'
  BY <1>2, <1>3, <1>4 DEF PositionInv, PositionTypeOK, TimesPast
<1>6. ~blind => AllFit'
  BY <1>3, <1>4 DEF PositionInv, AllFit, ServerFits, ReaderFits, CacheFits, AirFits, Fits
<1> QED BY <1>4, <1>5, <1>6 DEF PositionInv

LEMMA PageKilledKeeps == PositionInv /\ PageKilled => PositionInv'
<1> SUFFICES ASSUME PositionInv, PageKilled PROVE PositionInv'
  OBVIOUS
<1>1. \A n \in air' : \E m \in air : /\ n = [m EXCEPT !.kind = "beacon"]
                                     /\ m \in Messages
  BY DEF PageKilled, PositionInv, PositionTypeOK
<1>2. ASSUME NEW n \in air'
      PROVE  n \in Messages /\ \E m \in air : n.pos = m.pos /\ n.file = m.file /\ n.at = m.at
  <2>1. PICK m \in air : n = [m EXCEPT !.kind = "beacon"] /\ m \in Messages
    BY <1>1, <1>2
  <2> QED BY <2>1 DEF Messages
<1>3. server.clock \in Nat /\ Closed.base = 0 /\ Closed.phase = "closed"
  BY DEF PositionInv, PositionTypeOK, Servers, Closed
<1>4. reader' = Closed /\ UNCHANGED <<server, hideCache, spent, blind>>
  BY DEF PageKilled
<1>5. PositionTypeOK'
  BY <1>2, <1>4, NothingType DEF PositionInv, PositionTypeOK
<1>6. TimesPast'
  BY <1>2, <1>3, <1>4 DEF PositionInv, TimesPast
<1>7. ~blind => AllFit'
  BY <1>2, <1>3, <1>4 DEF PositionInv, AllFit, ServerFits, ReaderFits, CacheFits, AirFits,
     Fits
<1> QED BY <1>4, <1>5, <1>6, <1>7 DEF PositionInv

-----------------------------------------------------------------------------

LEMMA LoseKeeps == PositionInv /\ (\E m \in air : Lose(m)) => PositionInv'
<1> SUFFICES ASSUME PositionInv, NEW m \in air, Lose(m) PROVE PositionInv'
  OBVIOUS
<1>1. air' \subseteq air /\ UNCHANGED <<server, reader, hideCache, spent, blind>>
  BY DEF Lose
<1>2. PositionTypeOK' /\ TimesPast'
  BY <1>1 DEF PositionInv, PositionTypeOK, TimesPast
<1>3. ~blind => AllFit'
  BY <1>1 DEF PositionInv, AllFit, ServerFits, ReaderFits, CacheFits, AirFits, Fits
<1> QED BY <1>1, <1>2, <1>3 DEF PositionInv

(* A save is taken for the installed file only, and then it counts that    *)
(* file's chapters: a later file does not exist yet.                       *)
LEMMA ServeKeeps == PositionInv /\ (\E m \in air : Serve(m)) => PositionInv'
<1> SUFFICES ASSUME PositionInv, NEW m \in air, Serve(m) PROVE PositionInv'
  OBVIOUS
<1> DEFINE stored == [server EXCEPT !.pos = m.pos, !.by = "reader", !.at = server.clock]
           answer == [m EXCEPT !.kind = IF StaleGeneration(m.file) THEN "refused" ELSE "saved",
                               !.at = server.clock]
<1>1. /\ server \in Servers /\ m \in Messages /\ m.pos \in Positions /\ m.file \in Nat
      /\ server.clock \in Nat /\ server.file \in Nat
  BY DEF PositionInv, PositionTypeOK, Servers, Messages
<1>2. stored \in Servers /\ answer \in Messages
  BY <1>1 DEF Servers, Messages
<1>3. /\ stored.pos = m.pos /\ stored.at = server.clock /\ stored.clock = server.clock
      /\ stored.file = server.file
      /\ answer.pos = m.pos /\ answer.file = m.file /\ answer.at = server.clock
  BY <1>1 DEF Servers, Messages
<1>4. /\ \/ server' = server
         \/ server' = stored /\ ~StaleGeneration(m.file)
      /\ air' \subseteq air \cup {answer}
      /\ UNCHANGED <<reader, hideCache, spent, blind>>
  BY DEF Serve
<1> HIDE DEF stored, answer
<1>5. PositionTypeOK'
  BY <1>2, <1>4 DEF PositionInv, PositionTypeOK
<1>6. TimesPast'
  BY <1>1, <1>3, <1>4 DEF PositionInv, TimesPast
<1>7. ASSUME ~blind PROVE AllFit'
  <2>1. Fits(m.pos, m.file)
    BY <1>7 DEF PositionInv, AllFit, AirFits
  <2>2. server'.file = server.file
    BY <1>3, <1>4
  <2>3. AirFits'
    BY <2>1, <2>2, <1>3, <1>4, <1>7 DEF PositionInv, AllFit, AirFits, Fits
  <2>4. ReaderFits' /\ CacheFits'
    BY <2>2, <1>4, <1>7 DEF PositionInv, AllFit, ReaderFits, CacheFits, Fits
  <2>5. ServerFits'
    <3>1. CASE server' = server
      BY <3>1, <1>7 DEF PositionInv, AllFit, ServerFits
    <3>2. CASE server' = stored /\ ~StaleGeneration(m.file)
      <4>1. m.file = server.file
        BY <3>2, <2>1 DEF StaleGeneration, Fits
      <4>2. m.pos.file \in {0, server.file}
        BY <4>1, <2>1, <1>1 DEF Fits, Positions
      <4> QED BY <3>2, <4>2, <1>3 DEF ServerFits
    <3> QED BY <3>1, <3>2, <1>4
  <2> QED BY <2>3, <2>4, <2>5 DEF AllFit
<1> QED BY <1>4, <1>5, <1>6, <1>7 DEF PositionInv

LEMMA AnswerKeeps == PositionInv /\ (\E m \in air : Answer(m)) => PositionInv'
<1> SUFFICES ASSUME PositionInv, NEW m \in air, Answer(m) PROVE PositionInv'
  OBVIOUS
<1> DEFINE done == [reader EXCEPT !.last = m.pos, !.base = m.at]
           refused == [reader EXCEPT !.stale = TRUE]
<1>1. reader \in Mounts /\ m.pos \in Positions /\ m.at \in Nat /\ m.at <= server.clock
  BY DEF PositionInv, PositionTypeOK, Messages, TimesPast
<1>2. done \in Mounts /\ refused \in Mounts
  BY <1>1 DEF Mounts
<1>3. /\ done.base = m.at /\ refused.base = reader.base
      /\ \A r \in {done, refused} :
            /\ r.phase = reader.phase /\ r.pos = reader.pos /\ r.file = reader.file
            /\ r.read = reader.read /\ r.book = reader.book
  BY <1>1 DEF Mounts
<1>4. /\ reader' \in {reader, done, refused} /\ air' \subseteq air
      /\ hideCache' = NoCache /\ UNCHANGED <<server, spent, blind>>
  BY DEF Answer
<1> HIDE DEF done, refused
<1>5. PositionTypeOK'
  BY <1>2, <1>4, NothingType DEF PositionInv, PositionTypeOK
<1>6. NoCache.base <= NoCache.wrote
  BY DEF NoCache
<1>7. TimesPast'
  BY <1>1, <1>3, <1>4, <1>6 DEF PositionInv, TimesPast
<1>8. ASSUME ~blind PROVE AllFit'
  <2>1. ReaderFits'
    BY <1>3, <1>4, <1>8 DEF PositionInv, AllFit, ReaderFits, Fits
  <2>2. ServerFits' /\ CacheFits' /\ AirFits'
    BY <1>4, <1>8 DEF PositionInv, AllFit, ServerFits, CacheFits, AirFits, Fits
  <2> QED BY <2>1, <2>2 DEF AllFit
<1> QED BY <1>4, <1>5, <1>7, <1>8 DEF PositionInv

-----------------------------------------------------------------------------

(* The server on its own: its file and clock only grow, and its row counts *)
(* the installed file's chapters.                                          *)
LEMMA ServerStep ==
  ASSUME PositionInv, server' \in Servers, UNCHANGED <<reader, hideCache, air, blind>>,
         spent' \in [marks : Nat, mounts : Nat, replaces : Nat, other : Nat],
         server.file <= server'.file, server.clock <= server'.clock, server'.at <= server'.clock,
         ~blind => server'.pos.file \in {0, server'.file}
  PROVE  PositionInv'
<1>1. PositionTypeOK'
  BY DEF PositionInv, PositionTypeOK
<1>2. /\ server.clock \in Nat /\ server'.clock \in Nat /\ reader.base \in Nat
      /\ \A m \in air : m.at \in Nat /\ m.pos \in Positions /\ m.file \in Nat
      /\ reader.pos \in Positions /\ reader.file \in Nat /\ reader.read.pos \in Positions
      /\ hideCache.pos \in Positions /\ hideCache.file \in Nat /\ reader.book \in Nat
      /\ server.file \in Nat /\ server'.file \in Nat
  BY DEF PositionInv, PositionTypeOK, Servers, Mounts, Caches, Messages
<1>3. TimesPast'
  BY <1>2 DEF PositionInv, TimesPast
<1>4. ASSUME ~blind PROVE AllFit'
  <2>1. \A pos \in Positions, file \in Nat : Fits(pos, file) =>
           /\ 0 < file /\ file <= server'.file
           /\ pos.file = 0 \/ (file <= pos.file /\ pos.file <= server'.file)
    BY <1>1, FitsGrow DEF PositionInv
  <2>2. AirFits'
    BY <2>1, <1>2, <1>4 DEF PositionInv, AllFit, AirFits, Fits
  <2>3. CacheFits'
    BY <2>1, <1>2, <1>4 DEF PositionInv, AllFit, CacheFits, Fits
  <2>4. ReaderFits'
    BY <2>1, <1>2, <1>4 DEF PositionInv, AllFit, ReaderFits, Fits
  <2>5. ServerFits'
    BY <1>4 DEF ServerFits
  <2> QED BY <2>2, <2>3, <2>4, <2>5 DEF AllFit
<1> QED BY <1>1, <1>3, <1>4 DEF PositionInv

LEMMA OtherSavesKeeps == PositionInv /\ OtherSaves => PositionInv'
<1> SUFFICES ASSUME PositionInv, OtherSaves PROVE PositionInv'
  OBVIOUS
<1> DEFINE there == [mark |-> 0, file |-> server.file]
           stored == [server EXCEPT !.pos = there, !.by = "other", !.at = server.clock]
<1>1. server \in Servers /\ server.file \in Nat /\ server.clock \in Nat
  BY DEF PositionInv, PositionTypeOK, Servers
<1>2. there \in Positions /\ there.file = server.file
  BY <1>1 DEF Positions
<1> HIDE DEF there
<1>3. stored \in Servers
  BY <1>1, <1>2 DEF Servers
<1>4. /\ stored.pos = there /\ stored.at = server.clock /\ stored.clock = server.clock
      /\ stored.file = server.file
  BY <1>1 DEF Servers
<1>5. server' = stored /\ UNCHANGED <<reader, hideCache, air, blind>>
  BY DEF OtherSaves, there
<1>6. spent' \in [marks : Nat, mounts : Nat, replaces : Nat, other : Nat]
  BY DEF OtherSaves, PositionInv, PositionTypeOK
<1> HIDE DEF stored
<1> QED BY <1>1, <1>2, <1>3, <1>4, <1>5, <1>6, ServerStep

LEMMA ReplaceFileKeeps == PositionInv /\ ReplaceFile => PositionInv'
<1> SUFFICES ASSUME PositionInv, ReplaceFile PROVE PositionInv'
  OBVIOUS
<1> DEFINE moved == [server.pos EXCEPT !.file = IF @ = 0 THEN 0 ELSE server.file + 1]
           stored == [server EXCEPT !.file = @ + 1, !.pos = moved]
<1>1. /\ server \in Servers /\ server.pos \in Positions /\ server.file \in Nat \ {0}
      /\ server.clock \in Nat /\ server.at <= server.clock
  BY DEF PositionInv, PositionTypeOK, Servers, TimesPast
<1>2. moved \in Positions /\ moved.file \in {0, server.file + 1}
  BY <1>1 DEF Positions
<1>3. server' = stored
  BY <1>1 DEF ReplaceFile, Servers
<1> HIDE DEF moved
<1>4. stored \in Servers
  <2>1. server.file + 1 \in Nat \ {0}
    BY <1>1
  <2> QED BY <1>1, <1>2, <2>1 DEF Servers
<1>5. /\ stored.pos = moved /\ stored.at = server.at /\ stored.clock = server.clock
      /\ stored.file = server.file + 1
  BY <1>1 DEF Servers
<1>6. UNCHANGED <<reader, hideCache, air, blind>>
  BY DEF ReplaceFile
<1>7. spent' \in [marks : Nat, mounts : Nat, replaces : Nat, other : Nat]
  BY DEF ReplaceFile, PositionInv, PositionTypeOK
<1> HIDE DEF stored
<1> QED BY <1>1, <1>2, <1>3, <1>4, <1>5, <1>6, <1>7, ServerStep

LEMMA TickKeeps == PositionInv /\ Tick => PositionInv'
<1> SUFFICES ASSUME PositionInv, Tick PROVE PositionInv'
  OBVIOUS
<1> DEFINE later == [server EXCEPT !.clock = @ + 1]
<1>1. /\ server \in Servers /\ server.file \in Nat /\ server.clock \in Nat /\ server.at \in Nat
      /\ server.at <= server.clock
      /\ spent \in [marks : Nat, mounts : Nat, replaces : Nat, other : Nat]
  BY DEF PositionInv, PositionTypeOK, Servers, TimesPast
<1>2. later \in Servers
  BY <1>1 DEF Servers
<1>3. /\ later.pos = server.pos /\ later.at = server.at /\ later.clock = server.clock + 1
      /\ later.file = server.file
  BY <1>1 DEF Servers
<1>4. server' = later /\ UNCHANGED <<reader, hideCache, air, spent, blind>>
  BY DEF Tick
<1>5. ~blind => server.pos.file \in {0, server.file}
  BY DEF PositionInv, AllFit, ServerFits
<1> HIDE DEF later
<1> QED BY <1>1, <1>2, <1>3, <1>4, <1>5, ServerStep

-----------------------------------------------------------------------------

LEMMA PositionNextInv == PositionInv /\ [PositionNext]_positionVars => PositionInv'
<1> SUFFICES ASSUME PositionInv, [PositionNext]_positionVars PROVE PositionInv'
  OBVIOUS
<1>1. CASE UNCHANGED positionVars
  BY <1>1 DEF positionVars, PositionInv, PositionTypeOK, TimesPast, AllFit, ServerFits,
     ReaderFits,
              CacheFits, AirFits, Fits
<1>2. CASE Boot \/ OpenBook \/ ReadOn
  BY <1>2, BootKeeps, OpenBookKeeps, ReadOnKeeps
<1>3. CASE PageHidden \/ PageShown \/ PageKilled \/ Unmount
  BY <1>3, PageHiddenKeeps, PageShownKeeps, PageKilledKeeps, UnmountKeeps
<1>4. CASE OtherSaves \/ ReplaceFile \/ Tick
  BY <1>4, OtherSavesKeeps, ReplaceFileKeeps, TickKeeps
<1>5. CASE \E force \in BOOLEAN : FlushProgress(force)
  BY <1>5, FlushKeeps
<1>6. CASE \E m \in air : Serve(m) \/ Lose(m) \/ Answer(m)
  BY <1>6, ServeKeeps, LoseKeeps, AnswerKeeps
<1> QED BY <1>1, <1>2, <1>3, <1>4, <1>5, <1>6 DEF PositionNext

LEMMA PositionInvariance == PositionSpec => []PositionInv
<1> QED BY PositionInitInv, PositionNextInv, PTL DEF PositionSpec

(* However saves, beacons, caches, mounts and replacements of the file are *)
(* interleaved or lost (Read.tsx, lib/progress.ts), the stored position    *)
(* counts the chapters of the installed file, unless a boot could not read *)
(* the position and so was not told which file it had.                     *)
THEOREM RowsOfThisFile == PositionSpec => []RowOfThisFile
<1>1. PositionInv => RowOfThisFile
  BY DEF PositionInv, PositionTypeOK, AllFit, ServerFits, RowOfThisFile
<1> QED BY PositionInvariance, <1>1, PTL

(* A cache with a baseline never opens the book before a place that was    *)
(* saved after it was written (chooseBootProgress).                        *)
THEOREM NeverRewinds == PositionSpec => NoRewind
<1> DEFINE Kept == reader.phase = "read" /\ reader'.phase = "open"
                   /\ hideCache.base # 0 /\ reader.read.base > hideCache.wrote
                     => reader'.pos = reader.read.pos
<1>1. ASSUME PositionInv, [PositionNext]_positionVars PROVE [Kept]_positionVars
  <2> SUFFICES ASSUME reader.phase = "read", reader'.phase = "open",
                      hideCache.base # 0, reader.read.base > hideCache.wrote
               PROVE  reader'.pos = reader.read.pos
    OBVIOUS
  <2>1. OpenBook
    <3>1. reader' # reader /\ reader' # Closed
      BY DEF Closed
    <3>2. ~(UNCHANGED positionVars) /\ ~Tick /\ ~ReplaceFile /\ ~OtherSaves
      BY <3>1 DEF positionVars, Tick, ReplaceFile, OtherSaves
    <3>3. ~Boot /\ ~ReadOn /\ ~PageHidden /\ ~PageShown
      BY DEF Boot, ReadOn, PageHidden, PageShown, Reading
    <3>4. ~PageKilled /\ ~Unmount
      BY <3>1 DEF PageKilled, Unmount, LeavePage
    <3>5. ~\E force \in BOOLEAN : FlushProgress(force)
      BY <3>1 DEF FlushProgress
    <3>6. ASSUME NEW m \in air PROVE ~Serve(m) /\ ~Lose(m) /\ ~Answer(m)
      <4>1. /\ [reader EXCEPT !.last = m.pos, !.base = m.at].phase = reader.phase
            /\ [reader EXCEPT !.stale = TRUE].phase = reader.phase
        BY <1>1 DEF PositionInv, PositionTypeOK, Mounts
      <4> QED BY <3>1, <4>1 DEF Serve, Lose, Answer
    <3> QED BY <1>1, <3>2, <3>3, <3>4, <3>5, <3>6 DEF PositionNext
  <2>2. hideCache # NoCache
    BY DEF NoCache
  <2>3. hideCache.base \in Nat /\ hideCache.wrote \in Nat /\ reader.read.base \in Nat
    BY <1>1 DEF PositionInv, PositionTypeOK, Mounts, Caches
  <2>4. reader.read.base > hideCache.base
    BY <1>1, <2>3 DEF PositionInv, TimesPast
  <2>5. ChooseBootProgress(reader.read, hideCache) = reader.read.pos
    BY <2>4 DEF ChooseBootProgress
  <2> QED BY <2>1, <2>2, <2>5, <1>1 DEF OpenBook, PositionInv, PositionTypeOK, Mounts
<1>2. PositionSpec => [][Kept]_positionVars
  BY PositionInvariance, <1>1, PTL DEF PositionSpec
<1> QED BY <1>2 DEF NoRewind

-----------------------------------------------------------------------------
(* The search panel.                                                       *)
Sayings == Words \cup {NoText}
Answers == [query : Sayings, page : Nat, rows : 0..1]

BoxTyped ==
    box \in [field : Fields, status : {"idle", "loading", "error", "done"},
             debounce : Sayings, token : Nat, last : Sayings, composing : BOOLEAN]

ListTyped ==
    list \in [pages : Seq(Answers), more : BOOLEAN, cursor : Nat, at : Nat,
              moreError : BOOLEAN, adding : BOOLEAN]

FlyingTyped == flying \subseteq [token : Nat, kind : {"run", "more"}, q : Sayings, page : Nat]

SearchTypeOK == BoxTyped /\ ListTyped /\ FlyingTyped

(* At most one request counts: tokens are handed out once.                 *)
TokensDiffer ==
    \A r \in flying : /\ r.token <= box.token
                      /\ \A s \in flying : s.token = r.token => s = r

(* While the timer runs no request counts, and it will search for the field.*)
TimerAlone ==
    box.debounce # NoText =>
        /\ box.status = "loading" /\ box.debounce = box.field.says
        /\ \A r \in flying : ~IsCurrent(r)

(* What was found, or was not, is what the field says.                     *)
AnswersField == box.status \in {"done", "error"} => box.last = box.field.says

(* A first page that counts is waited for.                                 *)
RunWaited ==
    \A r \in flying : IsCurrent(r) /\ r.kind = "run" =>
        /\ box.status = "loading" /\ r.q = box.field.says /\ r.q = box.last /\ r.page = 1

(* A further page that counts is the next one of what is shown.            *)
MoreWaited ==
    \A r \in flying : IsCurrent(r) /\ r.kind = "more" =>
        /\ box.status = "done" /\ list.adding /\ list.more
        /\ r.q = box.field.says /\ r.page = list.cursor

(* Only a search that has ended shows anything.                            *)
ShownWhenDone ==
    box.status # "done" =>
        list.pages = <<>> /\ ~list.more /\ list.at = 0 /\ ~list.adding

SearchInv == /\ SearchTypeOK /\ TokensDiffer /\ TimerAlone /\ AnswersField
        /\ RunWaited /\ MoreWaited /\ ShownWhenDone /\ SearchIsHonest

-----------------------------------------------------------------------------

(* How many of some pages have a row to show.                              *)
Hits(pages) == Cardinality({k \in DOMAIN pages : pages[k].rows = 1})

LEMMA HitsNatural ==
    ASSUME NEW pages \in Seq(Answers)
    PROVE  Hits(pages) \in Nat
<1>1. IsFiniteSet(1..Len(pages))
  BY FS_Interval
<1>2. {k \in DOMAIN pages : pages[k].rows = 1} \in SUBSET (1..Len(pages))
  OBVIOUS
<1>3. IsFiniteSet({k \in DOMAIN pages : pages[k].rows = 1})
  BY <1>1, <1>2, FS_Subset
<1> QED
  BY <1>3, FS_CardinalityType DEF Hits

(* A further page hides no row.                                            *)
LEMMA HitsGrow ==
    ASSUME NEW pages \in Seq(Answers), NEW a \in Answers
    PROVE  Hits(pages) <= Hits(Append(pages, a))
<1> DEFINE more == Append(pages, a)
           S == {k \in DOMAIN pages : pages[k].rows = 1}
           T == {k \in DOMAIN more : more[k].rows = 1}
<1>1. more \in Seq(Answers) /\ IsFiniteSet(1..Len(more))
  BY FS_Interval
<1>2. T \in SUBSET (1..Len(more)) /\ S \in SUBSET T
  OBVIOUS
<1>3. IsFiniteSet(T)
  BY <1>1, <1>2, FS_Subset
<1>4. Cardinality(S) <= Cardinality(T)
  BY <1>2, <1>3, FS_Subset
<1> QED
  BY <1>4 DEF Hits

LEMMA TotalIsHits == Total = Hits(list.pages)
  BY DEF Total, Hits

LEMMA NoTextIsSaid == NoText \in Sayings
  BY DEF Sayings

LEMMA SearchInitInv == SearchInit => SearchInv
<1> SUFFICES ASSUME SearchInit PROVE SearchInv
  OBVIOUS
<1> USE DEF SearchInit, NoList, Fields
<1>1. SearchTypeOK
  <2>1. BoxTyped
    BY DEF SearchTypeOK, BoxTyped, Sayings
  <2>2. ListTyped
    BY DEF SearchTypeOK, ListTyped, Sayings
  <2>3. FlyingTyped
    BY DEF SearchTypeOK, FlyingTyped, Sayings
  <2> QED
    BY <2>1, <2>2, <2>3 DEF SearchTypeOK
<1>2. TokensDiffer /\ TimerAlone /\ AnswersField /\ RunWaited /\ MoreWaited /\ ShownWhenDone
  BY DEF TokensDiffer, TimerAlone, AnswersField, RunWaited, MoreWaited, ShownWhenDone
<1>3. SearchIsHonest
  BY DEF SearchIsHonest, ListIsTheFields, NeverWaitsForNothing
<1> QED
  BY <1>1, <1>2, <1>3 DEF SearchInv

(* Typing, or composing, makes every request in flight count for nothing,  *)
(* unless the text it leaves is the one whose results are shown.           *)
LEMMA InputKeeps ==
    ASSUME SearchInv, NEW field \in Fields, NEW composes \in BOOLEAN, NEW defer \in BOOLEAN,
           OnInput([box EXCEPT !.composing = composes], field, defer),
           flying' = flying
    PROVE  SearchInv'
<1> DEFINE b == [box EXCEPT !.composing = composes]
           same == ~defer /\ field.says # NoText /\ field.says = b.last /\ b.status = "done"
<1> USE DEF SearchInv, Fields
<1>1. CASE same
  <2>1. /\ box' = [b EXCEPT !.field = field, !.debounce = NoText]
        /\ list' = list
    BY <1>1 DEF OnInput
  <2>2. box.last = box.field.says
    BY <1>1 DEF AnswersField, SearchTypeOK, BoxTyped, ListTyped, FlyingTyped
  <2>3. /\ box'.field.says = box.field.says /\ box'.status = box.status
        /\ box'.token = box.token /\ box'.last = box.last /\ box'.debounce = NoText
    BY <1>1, <2>1, <2>2 DEF SearchTypeOK, BoxTyped, ListTyped, FlyingTyped
  <2>4. SearchTypeOK'
    <3>1. BoxTyped'
      BY <2>1 DEF SearchTypeOK, BoxTyped, Sayings
    <3>2. ListTyped'
      BY <2>1 DEF SearchTypeOK, ListTyped, Sayings
    <3>3. FlyingTyped'
      BY <2>1 DEF SearchTypeOK, FlyingTyped, Sayings
    <3> QED
      BY <3>1, <3>2, <3>3 DEF SearchTypeOK
  <2>5. (TokensDiffer /\ TimerAlone /\ AnswersField /\ RunWaited /\ MoreWaited /\ ShownWhenDone)'
    BY <2>1, <2>3 DEF TokensDiffer, TimerAlone, AnswersField, RunWaited, MoreWaited,
       ShownWhenDone, IsCurrent
  <2>6. SearchIsHonest'
    BY <1>1, <2>1, <2>3 DEF SearchIsHonest, ListIsTheFields, NeverWaitsForNothing,
       IsCurrent, Total
  <2> QED
    BY <2>4, <2>5, <2>6
<1>2. CASE ~same
  <2>1. /\ box' = [b EXCEPT !.field = field, !.token = @ + 1,
                            !.status = IF field.says = NoText \/ defer THEN "idle" ELSE "loading",
                            !.debounce = IF defer THEN NoText ELSE field.says]
        /\ list' = NoList
    BY <1>2 DEF OnInput, SearchTypeOK, BoxTyped, ListTyped, FlyingTyped
  <2>2. SearchTypeOK'
    <3> HIDE DEF Fields
    <3>1. BoxTyped'
      <4> DEFINE st == IF field.says = NoText \/ defer THEN "idle" ELSE "loading"
                 db == IF defer THEN NoText ELSE field.says
      <4>1. st \in {"idle", "loading"} /\ db \in Sayings
        BY NoTextIsSaid DEF Fields, Sayings
      <4>2. box' = [field |-> field, status |-> st, debounce |-> db, token |-> box.token + 1,
                    last |-> box.last, composing |-> composes]
        BY <2>1 DEF SearchTypeOK, BoxTyped
      <4>3. box.token + 1 \in Nat /\ box.last \in Sayings
        BY DEF SearchTypeOK, BoxTyped
      <4> HIDE DEF st, db
      <4> QED
        BY <4>1, <4>2, <4>3 DEF BoxTyped
    <3>2. ListTyped'
      BY <2>1 DEF SearchTypeOK, ListTyped, NoList
    <3>3. FlyingTyped'
      BY <2>1 DEF SearchTypeOK, FlyingTyped, Sayings, NoList
    <3> QED
      BY <3>1, <3>2, <3>3 DEF SearchTypeOK
  <2>3. \A r \in flying' : ~IsCurrent(r)'
    BY <2>1 DEF TokensDiffer, SearchTypeOK, BoxTyped, ListTyped, FlyingTyped, IsCurrent
  <2>4. TokensDiffer'
    BY <2>1 DEF TokensDiffer, SearchTypeOK, BoxTyped, ListTyped, FlyingTyped
  <2>5. (TimerAlone /\ AnswersField /\ RunWaited /\ MoreWaited /\ ShownWhenDone)'
    BY <2>1, <2>3 DEF TimerAlone, AnswersField, RunWaited, MoreWaited, ShownWhenDone,
       NoList, SearchTypeOK, BoxTyped, ListTyped, FlyingTyped
  <2>6. SearchIsHonest'
    BY <2>1 DEF SearchIsHonest, ListIsTheFields, NeverWaitsForNothing, NoList,
       SearchTypeOK, BoxTyped, ListTyped, FlyingTyped, Sayings
  <2> QED
    BY <2>2, <2>4, <2>5, <2>6
<1> QED
  BY <1>1, <1>2

(* A first request, from the timer or the Retry button.                    *)
LEMMA RunKeeps ==
    ASSUME SearchInv, NEW q \in Sayings, q = box.field.says, box.status \in {"loading", "error"},
           Run([box EXCEPT !.debounce = NoText], q)
    PROVE  SearchInv'
<1> DEFINE r == [token |-> box.token + 1, kind |-> "run", q |-> q, page |-> 1]
<1> USE DEF SearchInv
<1>1. /\ box' = [field |-> box.field, status |-> "loading", debounce |-> NoText,
                 token |-> box.token + 1, last |-> q, composing |-> box.composing]
      /\ list' = [list EXCEPT !.at = 0, !.adding = FALSE, !.moreError = FALSE]
      /\ flying' = flying \cup {r}
  BY DEF Run, SearchTypeOK, BoxTyped
<1>2. /\ box.token \in Nat /\ box.token + 1 \in Nat
      /\ box.field \in Fields /\ box.composing \in BOOLEAN
      /\ \A s \in flying : s.token \in Nat
  BY DEF SearchTypeOK, BoxTyped, FlyingTyped
<1>3. SearchTypeOK'
  <2>1. BoxTyped'
    BY <1>1, <1>2, NoTextIsSaid DEF BoxTyped
  <2>2. ListTyped'
    BY <1>1 DEF SearchTypeOK, ListTyped
  <2>3. r \in [token : Nat, kind : {"run", "more"}, q : Sayings, page : Nat]
    BY <1>2
  <2>4. FlyingTyped'
    BY <1>1, <2>3 DEF SearchTypeOK, FlyingTyped
  <2> QED
    BY <2>1, <2>2, <2>4 DEF SearchTypeOK
<1>4. /\ box'.token = box.token + 1 /\ box'.status = "loading" /\ box'.debounce = NoText
      /\ box'.last = q /\ box'.field = box.field
      /\ r.token = box.token + 1 /\ r.kind = "run" /\ r.q = q /\ r.page = 1
  BY <1>1
<1>5. list'.pages = <<>> /\ ~list'.more /\ list'.at = 0 /\ ~list'.adding
  BY <1>1 DEF ShownWhenDone, SearchTypeOK, ListTyped
<1>6. flying' = flying \cup {r}
  BY <1>1
<1> HIDE DEF r
<1>7. \A s \in flying : s.token < box.token + 1
  BY <1>2 DEF TokensDiffer
<1>8. \A s \in flying' : IsCurrent(s)' <=> s = r
  BY <1>2, <1>4, <1>6, <1>7 DEF IsCurrent
<1>9. TokensDiffer'
  BY <1>2, <1>4, <1>6, <1>7 DEF TokensDiffer
<1>10. (TimerAlone /\ AnswersField /\ RunWaited /\ MoreWaited /\ ShownWhenDone)'
  BY <1>4, <1>5, <1>8 DEF TimerAlone, AnswersField, RunWaited, MoreWaited, ShownWhenDone
<1>11. SearchIsHonest'
  BY <1>4, <1>5, <1>6, <1>8 DEF SearchIsHonest, ListIsTheFields, NeverWaitsForNothing
<1> QED
  BY <1>3, <1>9, <1>10, <1>11

LEMMA LoadMoreKeeps == SearchInv /\ LoadMore => SearchInv'
<1> SUFFICES ASSUME SearchInv, LoadMore PROVE SearchInv'
  OBVIOUS
<1> DEFINE r == [token |-> box.token + 1, kind |-> "more", q |-> box.field.says, page |-> list.cursor]
<1> USE DEF SearchInv
<1>1. /\ list.more /\ ~list.adding
      /\ box' = [box EXCEPT !.token = @ + 1]
      /\ list' = [list EXCEPT !.adding = TRUE, !.moreError = FALSE]
      /\ flying' = flying \cup {r}
  BY DEF LoadMore
<1>2. box.status = "done" /\ box.debounce = NoText
  BY <1>1 DEF ShownWhenDone, TimerAlone
<1>3. /\ box.token \in Nat /\ box.token + 1 \in Nat /\ box.field.says \in Sayings
      /\ list.cursor \in Nat /\ \A s \in flying : s.token \in Nat
  BY DEF SearchTypeOK, BoxTyped, ListTyped, FlyingTyped, Fields, Sayings
<1>4. SearchTypeOK'
  <2>1. BoxTyped'
    BY <1>1 DEF SearchTypeOK, BoxTyped
  <2>2. ListTyped'
    BY <1>1 DEF SearchTypeOK, ListTyped
  <2>3. r \in [token : Nat, kind : {"run", "more"}, q : Sayings, page : Nat]
    BY <1>3
  <2>4. FlyingTyped'
    BY <1>1, <2>3 DEF SearchTypeOK, FlyingTyped
  <2> QED
    BY <2>1, <2>2, <2>4 DEF SearchTypeOK
<1>5. /\ box'.token = box.token + 1 /\ box'.status = "done" /\ box'.debounce = NoText
      /\ box'.last = box.last /\ box'.field = box.field
      /\ list'.pages = list.pages /\ list'.more /\ list'.cursor = list.cursor
      /\ list'.at = list.at /\ list'.adding
  BY <1>1, <1>2 DEF SearchTypeOK, BoxTyped, ListTyped
<1>6. /\ r.token = box.token + 1 /\ r.kind = "more"
      /\ r.q = box.field.says /\ r.page = list.cursor
      /\ flying' = flying \cup {r}
  BY <1>1
<1> HIDE DEF r
<1>7. \A s \in flying : s.token < box.token + 1
  BY <1>3 DEF TokensDiffer
<1>8. \A s \in flying' : IsCurrent(s)' <=> s = r
  BY <1>3, <1>5, <1>6, <1>7 DEF IsCurrent
<1>9. TokensDiffer'
  BY <1>3, <1>5, <1>6, <1>7 DEF TokensDiffer
<1>10. (TimerAlone /\ AnswersField /\ RunWaited /\ MoreWaited /\ ShownWhenDone)'
  BY <1>2, <1>5, <1>6, <1>8 DEF TimerAlone, AnswersField, RunWaited, MoreWaited,
     ShownWhenDone
<1>11. ListIsTheFields'
  BY <1>1, <1>5 DEF SearchIsHonest, ListIsTheFields, Total
<1>12. NeverWaitsForNothing'
  BY <1>5, <1>6, <1>8 DEF NeverWaitsForNothing
<1> QED
  BY <1>4, <1>9, <1>10, <1>11, <1>12 DEF SearchIsHonest

(* An answer, or a failure, that no longer counts is forgotten.            *)
LEMMA SupersededKeeps ==
    ASSUME SearchInv, NEW r \in flying, ~IsCurrent(r),
           flying' = flying \ {r}, box' = box, list' = list
    PROVE  SearchInv'
<1> USE DEF SearchInv
<1>1. SearchTypeOK'
  <2>1. BoxTyped'
    BY DEF SearchTypeOK, BoxTyped
  <2>2. ListTyped'
    BY DEF SearchTypeOK, ListTyped
  <2>3. FlyingTyped'
    BY DEF SearchTypeOK, FlyingTyped
  <2> QED
    BY <2>1, <2>2, <2>3 DEF SearchTypeOK
<1>2. (TokensDiffer /\ TimerAlone /\ AnswersField /\ RunWaited /\ MoreWaited /\ ShownWhenDone)'
  BY DEF TokensDiffer, TimerAlone, AnswersField, RunWaited, MoreWaited, ShownWhenDone,
     IsCurrent
<1>3. ListIsTheFields'
  BY DEF SearchIsHonest, ListIsTheFields, Total
<1>4. NeverWaitsForNothing'
  BY DEF SearchIsHonest, NeverWaitsForNothing, IsCurrent
<1> QED
  BY <1>1, <1>2, <1>3, <1>4 DEF SearchIsHonest

(* Once the request that counts has come back, none does.                  *)
LEMMA NoneLeft ==
    ASSUME SearchInv, NEW r \in flying, IsCurrent(r), flying' = flying \ {r},
           box'.token = box.token
    PROVE  /\ \A s \in flying' : ~IsCurrent(s)'
           /\ TokensDiffer'
           /\ box.debounce = NoText
<1> USE DEF SearchInv
<1>1. \A s \in flying' : ~IsCurrent(s)'
  BY DEF TokensDiffer, IsCurrent
<1>2. TokensDiffer'
  BY DEF TokensDiffer
<1>3. box.debounce = NoText
  BY DEF TimerAlone
<1> QED
  BY <1>1, <1>2, <1>3

LEMMA FirstPageKeeps ==
    ASSUME SearchInv, NEW r \in flying, IsCurrent(r), r.kind = "run", flying' = flying \ {r},
           NEW rows \in 0..1, NEW more \in BOOLEAN, AppliedAsFirst(r, rows, more)
    PROVE  SearchInv'
<1> DEFINE p == [query |-> r.q, page |-> 1, rows |-> rows]
<1> USE DEF SearchInv
<1>1. /\ box.status = "loading" /\ r.q = box.field.says /\ r.q = box.last /\ r.page = 1
      /\ r.q \in Sayings
  BY DEF RunWaited, SearchTypeOK, BoxTyped, ListTyped, FlyingTyped
<1>2. /\ list' = [list EXCEPT !.pages = <<p>>, !.more = more, !.cursor = IF more THEN 2 ELSE 0]
      /\ box' = [box EXCEPT !.status = "done"]
  BY <1>1 DEF AppliedAsFirst, Page
<1>3. list.at = 0 /\ ~list.adding
  BY <1>1 DEF ShownWhenDone
<1>4. /\ box'.token = box.token /\ box'.field = box.field /\ box'.last = box.last
      /\ box'.debounce = box.debounce /\ box'.status = "done"
      /\ list'.pages = <<p>> /\ list'.more = more /\ list'.cursor = (IF more THEN 2 ELSE 0)
      /\ list'.at = 0 /\ ~list'.adding
  BY <1>2, <1>3 DEF SearchTypeOK, BoxTyped, ListTyped, FlyingTyped
<1>5. p \in Answers
  BY <1>1 DEF Answers
<1>6. SearchTypeOK'
  <2>1. BoxTyped'
    BY <1>2 DEF SearchTypeOK, BoxTyped
  <2>2. ListTyped'
    <3> DEFINE c == IF more THEN 2 ELSE 0
    <3>1. <<p>> \in Seq(Answers) /\ c \in Nat
      BY <1>5
    <3>2. list' = [pages |-> <<p>>, more |-> more, cursor |-> c, at |-> list.at,
                   moreError |-> list.moreError, adding |-> list.adding]
      BY <1>2 DEF SearchTypeOK, ListTyped
    <3>3. list.at \in Nat /\ list.moreError \in BOOLEAN /\ list.adding \in BOOLEAN
      BY DEF SearchTypeOK, ListTyped
    <3> HIDE DEF p, c
    <3> QED
      BY <3>1, <3>2, <3>3 DEF ListTyped
  <2>3. FlyingTyped'
    BY DEF SearchTypeOK, FlyingTyped
  <2> QED
    BY <2>1, <2>2, <2>3 DEF SearchTypeOK
<1>7. /\ \A s \in flying' : ~IsCurrent(s)'
      /\ TokensDiffer' /\ box.debounce = NoText
  BY <1>4, NoneLeft
<1>8. (TimerAlone /\ AnswersField /\ RunWaited /\ MoreWaited /\ ShownWhenDone)'
  BY <1>1, <1>4, <1>7 DEF TimerAlone, AnswersField, RunWaited, MoreWaited, ShownWhenDone
<1>9. SearchIsHonest'
  <2>1. /\ DOMAIN list'.pages = {1} /\ Len(list'.pages) = 1
        /\ list'.pages[1].query = box'.field.says /\ list'.pages[1].page = 1
    <3>1. p.query = box'.field.says /\ p.page = 1
      BY <1>1, <1>4
    <3>2. list'.pages = <<p>>
      BY <1>4
    <3> HIDE DEF p
    <3>3. DOMAIN <<p>> = {1} /\ Len(<<p>>) = 1 /\ <<p>>[1] = p
      OBVIOUS
    <3> QED
      BY <3>1, <3>2, <3>3
  <2>2. list'.more => list'.cursor = Len(list'.pages) + 1
    BY <1>4, <2>1
  <2> QED
    BY <1>4, <2>1, <2>2 DEF SearchIsHonest, ListIsTheFields, NeverWaitsForNothing
<1> QED
  BY <1>6, <1>7, <1>8, <1>9

LEMMA FurtherPageKeeps ==
    ASSUME SearchInv, NEW r \in flying, IsCurrent(r), r.kind = "more", flying' = flying \ {r},
           NEW rows \in 0..1, NEW more \in BOOLEAN, AppliedAsMore(r, rows, more)
    PROVE  SearchInv'
<1> DEFINE p == Page(r, rows)
<1> USE DEF SearchInv
<1>1. /\ box.status = "done" /\ r.q = box.field.says /\ r.page = list.cursor /\ list.more
      /\ r.q \in Sayings /\ r.page \in Nat
  BY DEF MoreWaited, SearchTypeOK, BoxTyped, ListTyped, FlyingTyped
<1>2. list.cursor = Len(list.pages) + 1
  BY <1>1 DEF SearchIsHonest, ListIsTheFields
<1>3. p \in Answers /\ p.query = box.field.says /\ p.page = Len(list.pages) + 1
  BY <1>1, <1>2 DEF Answers, Page
<1>4. /\ list' = [list EXCEPT !.pages = Append(@, p), !.more = more, !.adding = FALSE,
                              !.cursor = IF more THEN r.page + 1 ELSE 0]
      /\ box' = box
  BY DEF AppliedAsMore
<1> HIDE DEF p
<1>5. /\ list'.pages = Append(list.pages, p) /\ list'.more = more
      /\ list'.cursor = (IF more THEN r.page + 1 ELSE 0)
      /\ list'.at = list.at /\ ~list'.adding
  BY <1>4 DEF SearchTypeOK, BoxTyped, ListTyped, FlyingTyped
<1>6. SearchTypeOK'
  <2>1. BoxTyped'
    BY <1>4 DEF SearchTypeOK, BoxTyped
  <2>2. ListTyped'
    <3> DEFINE c == IF more THEN r.page + 1 ELSE 0
               ps == Append(list.pages, p)
    <3>1. ps \in Seq(Answers) /\ c \in Nat
      BY <1>1, <1>3 DEF SearchTypeOK, ListTyped
    <3>2. list' = [pages |-> ps, more |-> more, cursor |-> c, at |-> list.at,
                   moreError |-> list.moreError, adding |-> FALSE]
      BY <1>4 DEF SearchTypeOK, ListTyped
    <3>3. list.at \in Nat /\ list.moreError \in BOOLEAN
      BY DEF SearchTypeOK, ListTyped
    <3> HIDE DEF c, ps
    <3> QED
      BY <3>1, <3>2, <3>3 DEF ListTyped
  <2>3. FlyingTyped'
    BY DEF SearchTypeOK, FlyingTyped
  <2> QED
    BY <2>1, <2>2, <2>3 DEF SearchTypeOK
<1>7. /\ \A s \in flying' : ~IsCurrent(s)'
      /\ TokensDiffer' /\ box.debounce = NoText
  BY <1>4, NoneLeft
<1>8. (TimerAlone /\ AnswersField /\ RunWaited /\ MoreWaited /\ ShownWhenDone)'
  BY <1>1, <1>4, <1>7 DEF TimerAlone, AnswersField, RunWaited, MoreWaited, ShownWhenDone
<1>9. ListIsTheFields'
  <2>1. \A k \in DOMAIN list'.pages :
          list'.pages[k].query = box'.field.says /\ list'.pages[k].page = k
    BY <1>3, <1>4, <1>5 DEF SearchIsHonest, ListIsTheFields, SearchTypeOK, BoxTyped,
       ListTyped, FlyingTyped
  <2>2. list'.more => list'.cursor = Len(list'.pages) + 1
    BY <1>1, <1>2, <1>3, <1>5 DEF SearchTypeOK, BoxTyped, ListTyped, FlyingTyped
  <2>3. /\ Hits(list.pages) \in Nat /\ Hits(list'.pages) \in Nat
        /\ Hits(list.pages) <= Hits(list'.pages)
    BY <1>3, <1>5, <1>6, HitsNatural, HitsGrow DEF SearchTypeOK, BoxTyped, ListTyped,
       FlyingTyped
  <2>4. Total' = Hits(list'.pages)
    BY DEF Total, Hits
  <2>5. list'.at = 0 \/ list'.at < Total'
    BY <1>5, <2>3, <2>4, TotalIsHits DEF SearchIsHonest, ListIsTheFields, SearchTypeOK,
       BoxTyped, ListTyped, FlyingTyped
  <2> QED
    BY <2>1, <2>2, <2>5 DEF ListIsTheFields
<1>10. NeverWaitsForNothing'
  BY <1>1, <1>4, <1>5 DEF NeverWaitsForNothing
<1> QED
  BY <1>6, <1>7, <1>8, <1>9, <1>10 DEF SearchIsHonest

LEMMA AnsweredKeeps == SearchInv /\ (\E r \in flying : Answered(r)) => SearchInv'
<1> SUFFICES ASSUME SearchInv, NEW r \in flying, Answered(r) PROVE SearchInv'
  OBVIOUS
<1>1. PICK rows \in 0..1, more \in {r.page < Pages, FALSE} :
        IF ~IsCurrent(r) THEN UNCHANGED <<box, list>>
        ELSE IF r.kind = "run" THEN AppliedAsFirst(r, rows, more) ELSE AppliedAsMore(r, rows, more)
  BY DEF Answered
<1>2. more \in BOOLEAN
  <2>1. (r.page < Pages) \in BOOLEAN
    OBVIOUS
  <2> QED
    BY <2>1, Zenon
<1>3. flying' = flying \ {r} /\ r.kind \in {"run", "more"}
  BY DEF Answered, SearchInv, SearchTypeOK, FlyingTyped
<1>4. CASE ~IsCurrent(r)
  BY <1>1, <1>3, <1>4, SupersededKeeps
<1>5. CASE IsCurrent(r) /\ r.kind = "run"
  BY <1>1, <1>2, <1>3, <1>5, FirstPageKeeps
<1>6. CASE IsCurrent(r) /\ r.kind = "more"
  BY <1>1, <1>2, <1>3, <1>6, FurtherPageKeeps
<1> QED
  BY <1>3, <1>4, <1>5, <1>6

LEMMA FailedKeeps == SearchInv /\ (\E r \in flying : Failed(r)) => SearchInv'
<1> SUFFICES ASSUME SearchInv, NEW r \in flying, Failed(r) PROVE SearchInv'
  OBVIOUS
<1>1. flying' = flying \ {r} /\ r.kind \in {"run", "more"}
  BY DEF Failed, SearchInv, SearchTypeOK, BoxTyped, ListTyped, FlyingTyped
<1>2. CASE ~IsCurrent(r)
  BY <1>1, <1>2, SupersededKeeps DEF Failed
<1>3. CASE IsCurrent(r) /\ r.kind = "run"
  <2> USE DEF SearchInv
  <2>1. box' = [box EXCEPT !.status = "error"] /\ list' = list
    BY <1>3 DEF Failed
  <2>2. box.status = "loading" /\ r.q = box.field.says /\ r.q = box.last
    BY <1>3 DEF RunWaited
  <2>3. /\ box'.token = box.token /\ box'.field = box.field /\ box'.last = box.last
        /\ box'.debounce = box.debounce /\ box'.status = "error"
    BY <2>1 DEF SearchTypeOK, BoxTyped, ListTyped, FlyingTyped
  <2>4. /\ \A s \in flying' : ~IsCurrent(s)'
        /\ TokensDiffer' /\ box.debounce = NoText
    BY <1>1, <1>3, <2>3, NoneLeft
  <2>5. SearchTypeOK'
    <3>1. BoxTyped'
      BY <1>1, <2>1 DEF SearchTypeOK, BoxTyped
    <3>2. ListTyped'
      BY <1>1, <2>1 DEF SearchTypeOK, ListTyped
    <3>3. FlyingTyped'
      BY <1>1, <2>1 DEF SearchTypeOK, FlyingTyped
    <3> QED
      BY <3>1, <3>2, <3>3 DEF SearchTypeOK
  <2>6. (TimerAlone /\ AnswersField /\ RunWaited /\ MoreWaited /\ ShownWhenDone)'
    BY <2>1, <2>2, <2>3, <2>4 DEF TimerAlone, AnswersField, RunWaited, MoreWaited,
       ShownWhenDone
  <2>7. list'.pages = <<>> /\ ~list'.more /\ list'.at = 0 /\ ~list'.adding
    BY <2>1, <2>2 DEF ShownWhenDone
  <2>8. SearchIsHonest'
    BY <2>3, <2>7 DEF SearchIsHonest, ListIsTheFields, NeverWaitsForNothing
  <2> QED
    BY <2>4, <2>5, <2>6, <2>8
<1>4. CASE IsCurrent(r) /\ r.kind = "more"
  <2> USE DEF SearchInv
  <2>1. box' = box /\ list' = [list EXCEPT !.adding = FALSE, !.moreError = TRUE]
    BY <1>4 DEF Failed
  <2>2. box.status = "done"
    BY <1>4 DEF MoreWaited
  <2>3. /\ list'.pages = list.pages /\ list'.more = list.more /\ list'.cursor = list.cursor
        /\ list'.at = list.at /\ ~list'.adding
    BY <2>1 DEF SearchTypeOK, BoxTyped, ListTyped, FlyingTyped
  <2>4. /\ \A s \in flying' : ~IsCurrent(s)'
        /\ TokensDiffer' /\ box.debounce = NoText
    BY <1>1, <1>4, <2>1, NoneLeft
  <2>5. SearchTypeOK'
    <3>1. BoxTyped'
      BY <1>1, <2>1 DEF SearchTypeOK, BoxTyped
    <3>2. ListTyped'
      BY <1>1, <2>1 DEF SearchTypeOK, ListTyped
    <3>3. FlyingTyped'
      BY <1>1, <2>1 DEF SearchTypeOK, FlyingTyped
    <3> QED
      BY <3>1, <3>2, <3>3 DEF SearchTypeOK
  <2>6. (TimerAlone /\ AnswersField /\ RunWaited /\ MoreWaited /\ ShownWhenDone)'
    BY <2>1, <2>2, <2>4 DEF TimerAlone, AnswersField, RunWaited, MoreWaited, ShownWhenDone
  <2>7. SearchIsHonest'
    BY <2>1, <2>2, <2>3 DEF SearchIsHonest, ListIsTheFields, NeverWaitsForNothing, Total
  <2> QED
    BY <2>4, <2>5, <2>6, <2>7
<1> QED
  BY <1>1, <1>2, <1>3, <1>4

(* The arrow keys go round the rows there are.                             *)
LEMMA SearchStepKeeps ==
    ASSUME SearchInv, NEW by \in {1, -1}, Step(by)
    PROVE  SearchInv'
<1> DEFINE at == (list.at + by + Total) % Total
<1> USE DEF SearchInv
<1>1. Total \in Nat /\ Total > 0
  BY HitsNatural, TotalIsHits DEF Step, SearchTypeOK, BoxTyped, ListTyped, FlyingTyped
<1>2. box' = box /\ flying' = flying /\ list' = [list EXCEPT !.at = at]
  BY DEF Step
<1>3. list.at \in Nat
  BY DEF SearchTypeOK, BoxTyped, ListTyped, FlyingTyped
<1>4. at \in 0..(Total - 1)
  <2> DEFINE n == Total
             x == list.at + by + n
  <2>1. n \in Nat /\ n > 0 /\ x \in Int
    BY <1>1, <1>3
  <2> HIDE DEF n, x
  <2>2. x % n \in 0..(n - 1)
    BY <2>1
  <2> QED
    BY <2>2 DEF n, x
<1> HIDE DEF at
<1>5. /\ list'.pages = list.pages /\ list'.more = list.more /\ list'.cursor = list.cursor
      /\ list'.at = at /\ list'.adding = list.adding
  BY <1>2 DEF SearchTypeOK, BoxTyped, ListTyped, FlyingTyped
<1>6. box.status = "done"
  <2>1. ASSUME list.pages = <<>> PROVE FALSE
    <3>1. {k \in DOMAIN list.pages : list.pages[k].rows = 1} = {}
      BY <2>1
    <3> QED
      BY <1>1, <3>1, FS_EmptySet DEF Total
  <2> QED
    BY <2>1 DEF ShownWhenDone
<1>7. SearchTypeOK'
  <2>1. BoxTyped'
    BY <1>1, <1>2, <1>4 DEF SearchTypeOK, BoxTyped
  <2>2. ListTyped'
    BY <1>1, <1>2, <1>4 DEF SearchTypeOK, ListTyped
  <2>3. FlyingTyped'
    BY <1>1, <1>2, <1>4 DEF SearchTypeOK, FlyingTyped
  <2> QED
    BY <2>1, <2>2, <2>3 DEF SearchTypeOK
<1>8. (TokensDiffer /\ TimerAlone /\ AnswersField /\ RunWaited /\ MoreWaited /\ ShownWhenDone)'
  BY <1>2, <1>5, <1>6 DEF TokensDiffer, TimerAlone, AnswersField, RunWaited, MoreWaited,
     ShownWhenDone, IsCurrent
<1>9. Total' = Total
  BY <1>5 DEF Total
<1>10. SearchIsHonest'
  BY <1>1, <1>2, <1>4, <1>5, <1>9 DEF SearchIsHonest, ListIsTheFields,
     NeverWaitsForNothing, IsCurrent
<1> QED
  BY <1>7, <1>8, <1>10

LEMMA SearchNextInv == SearchInv /\ [SearchNext]_searchVars => SearchInv'
<1> SUFFICES ASSUME SearchInv, [SearchNext]_searchVars PROVE SearchInv'
  OBVIOUS
<1>1. ASSUME NEW f \in Fields, Type(f) PROVE SearchInv'
  <2>1. box = [box EXCEPT !.composing = box.composing] /\ box.composing \in BOOLEAN
    BY DEF SearchInv, SearchTypeOK, BoxTyped, ListTyped, FlyingTyped
  <2>2. OnInput([box EXCEPT !.composing = box.composing], f, FALSE) /\ flying' = flying
    BY <1>1, <2>1 DEF Type
  <2> QED
    BY <2>1, <2>2, InputKeeps
<1>2. ASSUME NEW f \in Fields, ComposeEnd(f) PROVE SearchInv'
  BY <1>2, InputKeeps DEF ComposeEnd
<1>3. CASE ComposeStart
  <2>1. box.field \in Fields
    BY DEF SearchInv, SearchTypeOK, BoxTyped, ListTyped, FlyingTyped
  <2> QED
    BY <1>3, <2>1, InputKeeps DEF ComposeStart
<1>4. CASE DebounceEnds
  <2>1. /\ box.debounce \in Sayings /\ box.debounce = box.field.says /\ box.status = "loading"
    BY <1>4 DEF DebounceEnds, SearchInv, SearchTypeOK, BoxTyped, ListTyped, FlyingTyped,
       TimerAlone
  <2> QED
    BY <1>4, <2>1, RunKeeps DEF DebounceEnds
<1>5. CASE RetrySearch
  <2>1. /\ box.status = "error" /\ box.last = box.field.says /\ box.last \in Sayings
    BY <1>5 DEF RetrySearch, SearchInv, SearchTypeOK, BoxTyped, ListTyped, FlyingTyped,
       AnswersField
  <2>2. box.debounce = NoText
    BY <2>1 DEF SearchInv, TimerAlone
  <2>3. box = [box EXCEPT !.debounce = NoText]
    BY <2>2 DEF SearchInv, SearchTypeOK, BoxTyped, ListTyped, FlyingTyped
  <2>4. Run([box EXCEPT !.debounce = NoText], box.last)
    BY <1>5, <2>3 DEF RetrySearch
  <2> QED
    BY <2>1, <2>4, RunKeeps
<1>6. CASE LoadMore
  BY <1>6, LoadMoreKeeps
<1>7. CASE \E r \in flying : Answered(r) \/ Failed(r)
  BY <1>7, AnsweredKeeps, FailedKeeps
<1>8. CASE Step(1) \/ Step(-1)
  BY <1>8, SearchStepKeeps
<1>9. CASE UNCHANGED searchVars
  <2>1. box' = box /\ list' = list /\ flying' = flying
    BY <1>9 DEF searchVars
  <2> QED
    BY <2>1 DEF SearchInv, SearchTypeOK, BoxTyped, ListTyped, FlyingTyped, TokensDiffer,
       TimerAlone, AnswersField, RunWaited, MoreWaited,
       ShownWhenDone, SearchIsHonest, ListIsTheFields, NeverWaitsForNothing, IsCurrent, Total
<1> QED
  BY <1>1, <1>2, <1>3, <1>4, <1>5, <1>6, <1>7, <1>8, <1>9 DEF SearchNext

(* Whatever is typed, composed, retried or paged, and in whatever order    *)
(* answers come, the panel shows pages of what its field says and waits    *)
(* only for a request that still counts (SearchPanel.tsx, requestToken).   *)
THEOREM SearchHonest == SearchSpec => []SearchIsHonest
<1>1. SearchInv => SearchIsHonest
  BY DEF SearchInv
<1> QED
  BY SearchInitInv, SearchNextInv, <1>1, PTL DEF SearchSpec

-----------------------------------------------------------------------------
(***************************************************************************)
(* ReaderFrame.  The loads so far are a history that the invariant only    *)
(* says to exist: their chapters, in order.  Everything on its way names a *)
(* load of it and, with it, the chapter.                                   *)
(***************************************************************************)
AnyChapter == Chapters \cup {NoChapter}
FrameSpots    == {"top", "mid", "end", "none"}
Navs     == [chapter : Chapters, at : FrameSpots]
MayNav   == Navs \cup {NoNav}
Commands == {"scroll", "turn", "highlight"}
ToFrames ==
    [type : {"load", "clear", "ask"} \cup Commands, seq : Nat, aim : AnyChapter, at : FrameSpots]
AnyPlace == [chapter : AnyChapter, spot : FrameSpots]

Reports == {[type |-> "ready"]}
             \cup [type : {"loaded"}, seq : Nat]
             \cup [type : {"position"}, seq : Nat, chapter : AnyChapter, place : AnyPlace]
             \cup [type : {"edge"}, seq : Nat, edge : {"start", "end"}]

(* What is cached and on the wire is of no account here.                   *)
Tabs(t) ==
    [chapter : Chapters, seq : Nat, loaded : BOOLEAN, settled : BOOLEAN, ready : BOOLEAN,
     deaf : BOOLEAN, error : {"none", "chapter", "frame"}, save : AnyPlace, load : MayNav,
     aborted : BOOLEAN, pending : MayNav, failed : MayNav, cache : {t.cache}, wire : {t.wire},
     highlight : AnyChapter, timer : [seq : Nat, aim : AnyChapter], back : {"no", "asking", "gone"},
     held : Seq(ToFrames), queued : Seq(ToFrames), out : Seq(ToFrames)]

Documents ==
    [seq : Nat, place : AnyPlace, chapter : AnyChapter, swap : ToFrames \cup {NoNav}, token : Nat,
     reveal : [seq : Nat, token : Nat, at : FrameSpots], restoring : BOOLEAN, ready : BOOLEAN,
     search : AnyChapter, marks : AnyChapter, out : Seq(Reports)]

(* loads[s] is the chapter of load s, so far.                              *)
LoadOf(loads, s, c) == s \in 1 .. Len(loads) /\ loads[s] = c

(* What the tab sends names the load it is of, and its chapter.            *)
Sendable(loads) == {m \in ToFrames : IF m.type = "clear" THEN m.seq = 0
                                     ELSE LoadOf(loads, m.seq, m.aim)}
Waitable(t) == {m \in ToFrames : /\ m.type \notin {"load", "clear"}
                                 /\ m.seq = t.seq /\ m.aim = t.chapter}
Sayable(loads) == {m \in Reports :
    /\ m.type = "position" => m.seq \in 0 .. Len(loads)
    /\ m.type \in {"loaded", "edge"} => m.seq \in 1 .. Len(loads)
    /\ m.type = "position" => m.chapter = m.place.chapter}

IsLoad(q, i) == i \in 1 .. Len(q) /\ q[i].type = "load"
Has(q, ty)   == \E i \in 1 .. Len(q) : q[i].type = ty
OneOf(q, ty) == \A i, j \in 1 .. Len(q) : q[i].type = ty /\ q[j].type = ty => i = j
LoadsInOrder(q) == \A i, j \in 1 .. Len(q) : i < j /\ IsLoad(q, i) /\ IsLoad(q, j) => q[i].seq <= q[j].seq

QueuesOK(t, loads) ==
    /\ t.out \in Seq(Sendable(loads)) /\ t.held \in Seq(Sendable(loads))
    /\ t.queued \in Seq(Waitable(t))
    /\ LoadsInOrder(t.out) /\ OneOf(t.held, "load")
    /\ t.ready => t.held = <<>>
    /\ ~t.ready => t.out = <<>>

WaitingHighlight(t) ==
    /\ OneOf(t.queued, "highlight")
    /\ t.highlight # NoChapter \/ t.timer # NoTimer =>
          ~Has(t.queued, "highlight")
    /\ t.highlight # NoChapter => t.timer = NoTimer

TabOK(t, loads) ==
    /\ t \in Tabs(t) /\ Len(loads) = t.seq
    /\ t.seq # 0 => loads[t.seq] = t.chapter
    /\ t.loaded \/ t.settled => t.seq # 0 /\ t.ready
    /\ t.timer # NoTimer => LoadOf(loads, t.timer.seq, t.timer.aim)
    /\ t.pending # NoNav <=> t.load # NoNav /\ t.aborted
    /\ QueuesOK(t, loads)

FrameOK(f, loads) ==
    /\ f \in Documents /\ f.out \in Seq(Sayable(loads))
    /\ IF f.seq = 0 THEN f.chapter = NoChapter ELSE LoadOf(loads, f.seq, f.chapter)
    /\ f.swap # NoNav => f.swap \in Sendable(loads) /\ f.swap.type = "load" /\ f.seq <= f.swap.seq
    /\ f.reveal.seq # 0 => f.seq # 0
    /\ ~f.restoring => f.place.chapter = f.chapter
    /\ {f.search, f.marks} \subseteq {NoChapter, f.chapter}

Says(f, type, seq) == \E i \in 1 .. Len(f.out) : f.out[i].type = type /\ f.out[i].seq = seq
SaysReady(f) == Has(f.out, "ready")

(* The tab believes the frame has its chapter: it has, or the tab will     *)
(* learn otherwise, or something else is about to be loaded.               *)
Broken(t, f) == ~f.ready \/ SaysReady(f) \/ t.error # "none" \/ t.load # NoNav

(* No load on its way is older than what the frame has; a frame that has   *)
(* not spoken to the tab has nothing.                                      *)
Ahead(t, f) ==
    /\ \A i \in 1 .. Len(t.out) : IsLoad(t.out, i) =>
          f.seq <= t.out[i].seq /\ (f.swap # NoNav => f.swap.seq <= t.out[i].seq)
    /\ ~t.ready => /\ f.seq = 0 /\ f.swap = NoNav
                   /\ \A i \in 1 .. Len(f.out) : f.out[i].type = "ready"

Believes(t, f) ==
    t.settled \/ Says(f, "loaded", t.seq) => f.seq = t.seq \/ Broken(t, f)

Meets(t, f) == Ahead(t, f) /\ Believes(t, f)

Target(t) == IF t.pending # NoNav THEN t.pending.chapter
             ELSE IF t.load # NoNav THEN t.load.chapter ELSE t.chapter

Wanted(t, w) ==
    /\ w \in AnyChapter
    /\ w = NoChapter => t.load = NoNav /\ t.seq = 0 /\ t.queued = <<>> /\ t.timer = NoTimer
    /\ w # NoChapter => w = Target(t) \/ (t.load = NoNav /\ t.error # "none")


TabFits(t, f, loads) == TabOK(t, loads) /\ WaitingHighlight(t) /\ Meets(t, f)

(* Fit to load a chapter: one that has just given up another is.           *)
Loadable(t, f, loads) == /\ TabOK(t, loads) /\ WaitingHighlight(t) /\ Ahead(t, f)
                         /\ t.load # NoNav => Believes(t, f)

(* Only what is on its way to the frame differs.                           *)
OnlyQueues(s, t) ==
    /\ s.chapter = t.chapter /\ s.seq = t.seq /\ s.loaded = t.loaded /\ s.settled = t.settled
    /\ s.ready = t.ready /\ s.error = t.error /\ s.load = t.load /\ s.aborted = t.aborted
    /\ s.pending = t.pending /\ s.failed = t.failed /\ s.highlight = t.highlight
    /\ s.timer = t.timer

(* Only what is of no account here differs.                                *)
Aside(s, t) == /\ s \in Tabs(s) /\ OnlyQueues(s, t)
               /\ s.out = t.out /\ s.held = t.held /\ s.queued = t.queued

ReaderOK(loads) == /\ TabFits(tab, fr, loads) /\ FrameOK(fr, loads)
                   /\ Wanted(tab, want) /\ LandsWhereAimed

ReaderInv == \E loads \in Seq(Chapters) : ReaderOK(loads)

-----------------------------------------------------------------------------
(* Sequences.                                                              *)
LEMMA InSeq ==
  ASSUME NEW S, NEW R, NEW q \in Seq(S), \A i \in 1 .. Len(q) : q[i] \in R
  PROVE  q \in Seq(R)
OBVIOUS

LEMMA RemoveAtShape ==
  ASSUME NEW S, NEW q \in Seq(S), NEW k \in 1 .. Len(q)
  PROVE  /\ RemoveAt(q, k) \in Seq(S) /\ Len(RemoveAt(q, k)) = Len(q) - 1
         /\ \A i \in 1 .. Len(q) - 1 : RemoveAt(q, k)[i] = IF i < k THEN q[i] ELSE q[i + 1]
<1> DEFINE a == SubSeq(q, 1, k - 1)
           b == SubSeq(q, k + 1, Len(q))
<1>0. Len(q) \in Nat /\ k \in Nat /\ k >= 1 /\ k <= Len(q)
  OBVIOUS
<1>1. a \in Seq(S) /\ Len(a) = k - 1 /\ \A i \in 1 .. (k - 1) : a[i] = q[i]
  OBVIOUS
<1>2. /\ b \in Seq(S) /\ Len(b) = Len(q) - k
      /\ \A i \in 1 .. (Len(q) - k) : b[i] = q[k + i]
  OBVIOUS
<1>3. RemoveAt(q, k) = a \o b
  BY DEF RemoveAt
<1> HIDE DEF a, b
<1>4. a \o b \in Seq(S) /\ Len(a \o b) = Len(q) - 1
  <2>1. a \o b \in Seq(S) /\ Len(a \o b) = Len(a) + Len(b)
    BY <1>1, <1>2, ConcatProperties
  <2> QED BY <1>0, <1>1, <1>2, <2>1
<1>5. ASSUME NEW i \in 1 .. Len(q) - 1
      PROVE  (a \o b)[i] = IF i < k THEN q[i] ELSE q[i + 1]
  <2>1. CASE i < k
    BY <1>1, <1>2, <1>4, <2>1
  <2>2. CASE i >= k
    <3>1. (a \o b)[i] = b[i - Len(a)] /\ i - Len(a) = i - k + 1
      BY <1>1, <1>2, <1>4, <2>2
    <3>2. i - k + 1 \in 1 .. (Len(q) - k) /\ k + (i - k + 1) = i + 1
      BY <1>4, <2>2
    <3>3. (a \o b)[i] = q[i + 1]
      BY <1>2, <3>1, <3>2
    <3>4. ~(i < k)
      BY <1>0, <2>2
    <3> QED BY <3>3, <3>4
  <2>3. i < k \/ i >= k
    BY <1>0
  <2>4. i < k <=> ~(i >= k)
    BY <1>0
  <2> QED BY <2>1, <2>2, <2>3, <2>4
<1> QED BY <1>3, <1>4, <1>5

(* Joining and taking apart keep what is waiting, in order.                *)
LEMMA AppendShape ==
  ASSUME NEW S, NEW q \in Seq(S), NEW m \in S
  PROVE  /\ Append(q, m) \in Seq(S) /\ Len(Append(q, m)) = Len(q) + 1
         /\ Append(q, m)[Len(q) + 1] = m
         /\ \A i \in 1 .. Len(q) : Append(q, m)[i] = q[i]
OBVIOUS

LEMMA TailShape ==
  ASSUME NEW S, NEW q \in Seq(S), q # <<>>
  PROVE  /\ Head(q) \in S /\ Head(q) = q[1] /\ Len(q) >= 1
         /\ Tail(q) \in Seq(S) /\ Len(Tail(q)) = Len(q) - 1
         /\ \A i \in 1 .. Len(q) - 1 : Tail(q)[i] = q[i + 1]
OBVIOUS

(* A set of indices has a least one.                                       *)
LEMMA LeastIndex ==
  ASSUME NEW n \in Nat, NEW I \in SUBSET (1 .. n), I # {}
  PROVE  \E i \in I : \A j \in I : i <= j
<1>1. I \subseteq Nat
  OBVIOUS
<1>2. PICK i \in I : \A j \in I : <<j, i>> \notin OpToRel(<, Nat)
  <2> DEFINE Less == OpToRel(<, Nat)
  <2>1. IsWellFoundedOn(Less, Nat)
    BY NatLessThanWellFounded DEF Less
  <2>2. Less = OpToRel(<, Nat)
    OBVIOUS
  <2> HIDE DEF Less
  <2>3. \E i \in I : \A j \in I : <<j, i>> \notin Less
    BY <1>1, <2>1, WFMin
  <2> QED BY <2>2, <2>3
<1>3. \A j \in I : ~(j < i)
  BY <1>1, <1>2 DEF OpToRel
<1> QED BY <1>1, <1>3

(* What a full queue keeps, and that it keeps one load.                    *)
LEMMA RemoveAtOnce ==
  ASSUME NEW S, NEW q \in Seq(S), NEW k \in 1 .. Len(q), NEW ty
  PROVE  /\ OneOf(q, ty) => OneOf(RemoveAt(q, k), ty)
         /\ Has(RemoveAt(q, k), ty) => Has(q, ty)
         /\ OneOf(q, ty) /\ q[k].type = ty => ~Has(RemoveAt(q, k), ty)
<1> DEFINE r == RemoveAt(q, k)
           g(i) == IF i < k THEN i ELSE i + 1
<1>1. /\ Len(r) = Len(q) - 1
      /\ \A i \in 1 .. Len(r) : g(i) \in 1 .. Len(q) /\ g(i) # k /\ r[i] = q[g(i)]
  <2>1. Len(q) \in Nat /\ k \in Nat /\ k >= 1 /\ k <= Len(q)
    OBVIOUS
  <2>2. Len(r) = Len(q) - 1 /\ \A i \in 1 .. Len(q) - 1 : r[i] = IF i < k THEN q[i] ELSE q[i + 1]
    BY RemoveAtShape
  <2> HIDE DEF r
  <2>3. ASSUME NEW i \in 1 .. Len(r) PROVE g(i) \in 1 .. Len(q) /\ g(i) # k
    BY <2>1, <2>2
  <2>4. ASSUME NEW i \in 1 .. Len(r) PROVE r[i] = q[g(i)]
    BY <2>1, <2>2
  <2> QED BY <2>2, <2>3, <2>4
<1> HIDE DEF r
<1>2. \A i, j \in 1 .. Len(r) : g(i) = g(j) => i = j
  BY <1>1
<1> HIDE DEF g
<1>3. OneOf(q, ty) => OneOf(r, ty)
  BY <1>1, <1>2 DEF OneOf
<1>4. Has(r, ty) => Has(q, ty)
  BY <1>1 DEF Has
<1>5. OneOf(q, ty) /\ q[k].type = ty => ~Has(r, ty)
  BY <1>1 DEF OneOf, Has
<1> QED BY <1>3, <1>4, <1>5 DEF r

LEMMA AppendOnce ==
  ASSUME NEW S, NEW q \in Seq(S), NEW m \in S, NEW ty
  PROVE  /\ OneOf(q, ty) /\ (m.type = ty => ~Has(q, ty)) => OneOf(Append(q, m), ty)
         /\ Has(Append(q, m), ty) => m.type = ty \/ Has(q, ty)
<1> DEFINE r == Append(q, m)
<1>1. /\ Len(r) = Len(q) + 1 /\ r[Len(q) + 1] = m /\ Len(q) \in Nat
      /\ \A i \in 1 .. Len(q) : r[i] = q[i]
  OBVIOUS
<1> HIDE DEF r
<1>2. \A i \in 1 .. Len(r) : i \in 1 .. Len(q) \/ i = Len(q) + 1
  BY <1>1
<1>3. OneOf(q, ty) /\ (m.type = ty => ~Has(q, ty)) => OneOf(r, ty)
  <2> SUFFICES ASSUME OneOf(q, ty), m.type = ty => ~Has(q, ty),
                      NEW i \in 1 .. Len(r), NEW j \in 1 .. Len(r), r[i].type = ty, r[j].type = ty
               PROVE  i = j
    BY DEF OneOf
  <2>1. CASE i \in 1 .. Len(q) /\ j \in 1 .. Len(q)
    BY <1>1, <2>1 DEF OneOf
  <2>2. CASE i = Len(q) + 1 /\ j \in 1 .. Len(q)
    BY <1>1, <2>2 DEF Has
  <2>3. CASE j = Len(q) + 1 /\ i \in 1 .. Len(q)
    BY <1>1, <2>3 DEF Has
  <2> QED BY <1>2, <2>1, <2>2, <2>3
<1>4. Has(r, ty) => m.type = ty \/ Has(q, ty)
  BY <1>1, <1>2 DEF Has
<1> QED BY <1>3, <1>4 DEF r

LEMMA TailOnce ==
  ASSUME NEW S, NEW q \in Seq(S), q # <<>>, NEW ty
  PROVE  /\ OneOf(q, ty) => OneOf(Tail(q), ty)
         /\ Has(Tail(q), ty) => Has(q, ty)
<1> DEFINE r == Tail(q)
<1>1. /\ Len(r) = Len(q) - 1 /\ Len(q) \in Nat
      /\ \A i \in 1 .. Len(r) : r[i] = q[i + 1] /\ i + 1 \in 1 .. Len(q)
  BY TailShape
<1> HIDE DEF r
<1>2. OneOf(q, ty) => OneOf(r, ty)
  <2> SUFFICES ASSUME OneOf(q, ty), NEW i \in 1 .. Len(r), NEW j \in 1 .. Len(r),
                      r[i].type = ty, r[j].type = ty
               PROVE  i = j
    BY DEF OneOf
  <2>1. i + 1 = j + 1
    BY <1>1 DEF OneOf
  <2> QED BY <2>1
<1>3. Has(r, ty) => Has(q, ty)
  BY <1>1 DEF Has
<1> QED BY <1>2, <1>3 DEF r

LEMMA EnqueueShape ==
  ASSUME NEW S, NEW q \in Seq(S), NEW m \in S
  PROVE  /\ Enqueue(q, m) \in Seq(S)
         /\ \A ty : OneOf(q, ty) /\ (m.type = ty => ty = "load" \/ ~Has(q, ty)) => OneOf(Enqueue(q, m), ty)
         /\ \A ty : Has(Enqueue(q, m), ty) => m.type = ty \/ Has(q, ty)
<1> DEFINE at == {i \in 1 .. Len(q) : q[i].type = m.type}
           strays == {i \in 1 .. Len(q) : q[i].type \notin Coalesced}
           e == Enqueue(q, m)
<1>1. DOMAIN q = 1 .. Len(q) /\ Len(q) \in Nat
  OBVIOUS
<1>2. CASE m.type \in Coalesced /\ at # {}
  <2>1. PICK k \in at : k = CHOOSE i \in at : TRUE
    BY <1>2
  <2>2. e = [q EXCEPT ![k] = m]
    BY <1>1, <1>2, <2>1 DEF Enqueue
  <2>3. /\ e \in Seq(S) /\ Len(e) = Len(q)
        /\ \A i \in 1 .. Len(q) : e[i].type = q[i].type
    BY <2>1, <2>2
  <2> QED BY <2>3 DEF OneOf, Has
<1>3. CASE ~(m.type \in Coalesced /\ at # {}) /\ Len(q) < MaxQueued
  <2>1. e = Append(q, m)
    BY <1>1, <1>3 DEF Enqueue
  <2>2. m.type = "load" => ~Has(q, "load")
    BY <1>3 DEF Has, Coalesced
  <2> QED BY <2>1, <2>2, AppendOnce, AppendShape
<1>4. CASE ~(m.type \in Coalesced /\ at # {}) /\ ~(Len(q) < MaxQueued) /\ strays # {}
  <2>1. PICK k \in strays : k = CHOOSE i \in strays : \A j \in strays : i <= j
    <3>1. \E i \in strays : \A j \in strays : i <= j
      BY <1>1, <1>4, LeastIndex
    <3> QED BY <3>1
  <2>2. e = Append(RemoveAt(q, k), m)
    BY <1>1, <1>4, <2>1 DEF Enqueue
  <2> DEFINE r == RemoveAt(q, k)
  <2>3. r \in Seq(S)
    BY <2>1, RemoveAtShape
  <2>4. \A ty : /\ OneOf(q, ty) => OneOf(r, ty)
                /\ Has(r, ty) => Has(q, ty)
    BY <2>1, RemoveAtOnce
  <2> HIDE DEF r
  <2>5. m.type = "load" => ~Has(q, "load")
    BY <1>4 DEF Has, Coalesced
  <2> QED BY <2>2, <2>3, <2>4, <2>5, AppendOnce, AppendShape DEF r
<1>5. CASE ~(m.type \in Coalesced /\ at # {}) /\ ~(Len(q) < MaxQueued) /\ strays = {}
  <2>1. CASE m.type \notin Coalesced
    BY <1>1, <1>5, <2>1 DEF Enqueue
  <2>2. CASE m.type \in Coalesced
    <3>1. e = Append(Tail(q), m)
      BY <1>1, <1>5, <2>2 DEF Enqueue
    <3>2. q # <<>>
      BY <1>5, ReaderAssumption
    <3>3. m.type = "load" => ~Has(q, "load")
      BY <1>5 DEF Has, Coalesced
    <3>4. Tail(q) \in Seq(S)
      BY <3>2
    <3> DEFINE r == Tail(q)
    <3>5. \A ty : /\ OneOf(q, ty) => OneOf(r, ty)
                  /\ Has(r, ty) => Has(q, ty)
      BY <3>2, TailOnce
    <3>6. r \in Seq(S) /\ e = Append(r, m)
      BY <3>1, <3>4
    <3> HIDE DEF r, e
    <3>7. e \in Seq(S)
      BY <3>6
    <3>8. \A ty : /\ OneOf(r, ty) /\ (m.type = ty => ~Has(r, ty)) => OneOf(e, ty)
                  /\ Has(e, ty) => m.type = ty \/ Has(r, ty)
      BY <3>6, AppendOnce
    <3> QED BY <3>3, <3>5, <3>7, <3>8 DEF e
  <2> QED BY <2>1, <2>2
<1> QED BY <1>2, <1>3, <1>4, <1>5

-----------------------------------------------------------------------------
(* The tab.                                                                *)
LEMMA Nothings ==
  /\ NoNav \in MayNav /\ NoNav \notin Navs /\ NoNav.chapter \notin Chapters
  /\ NoChapter \in AnyChapter /\ NoChapter \notin Chapters /\ Chapters \subseteq AnyChapter
  /\ NoTimer \in [seq : Nat, aim : AnyChapter] /\ 0 \in Chapters
BY ReaderAssumption DEF NoNav, NoChapter, NoTimer, MayNav, Navs, AnyChapter, Chapters, FrameSpots

LEMMA ClearSendable ==
  ASSUME NEW loads, NEW c \in Chapters
  PROVE  Msg("clear", 0, c, "none") \in Sendable(loads)
BY Nothings DEF Msg, Sendable, ToFrames, FrameSpots

LEMMA ToFrame ==
  ASSUME NEW loads \in Seq(Chapters), NEW t, NEW f, TabFits(t, f, loads),
         NEW m \in Sendable(loads), m.type # "load"
  PROVE  LET s == SendToFrame(t, m)
         IN  TabFits(s, f, loads) /\ OnlyQueues(s, t) /\ s.queued = t.queued
<1> DEFINE s == SendToFrame(t, m)
<1>1. t \in Tabs(t) /\ QueuesOK(t, loads)
  BY DEF TabFits, TabOK
<1>2. CASE t.ready
  <2> DEFINE o == Append(t.out, m)
  <2>1. s = [t EXCEPT !.out = o]
    BY <1>2 DEF SendToFrame
  <2>2. /\ o \in Seq(Sendable(loads)) /\ Len(o) = Len(t.out) + 1 /\ Len(t.out) \in Nat
        /\ o[Len(t.out) + 1] = m
        /\ \A i \in 1 .. Len(t.out) : o[i] = t.out[i]
    BY <1>1, AppendShape DEF QueuesOK
  <2>3. \A i \in 1 .. Len(o) : IsLoad(o, i) => i \in 1 .. Len(t.out) /\ IsLoad(t.out, i) /\ o[i] = t.out[i]
    BY <2>2 DEF IsLoad
  <2>4. LoadsInOrder(o)
    BY <1>1, <2>2, <2>3 DEF LoadsInOrder, QueuesOK
  <2>5. o \in Seq(ToFrames)
    BY <2>2, InSeq DEF Sendable
  <2> HIDE DEF o
  <2>6. OnlyQueues(s, t) /\ s.queued = t.queued /\ s.held = t.held /\ s.out = o
    BY <1>1, <2>1 DEF OnlyQueues, Tabs
  <2>7. s \in Tabs(s)
    BY <1>1, <2>1, <2>5 DEF Tabs
  <2>8. QueuesOK(s, loads)
    BY <1>1, <1>2, <2>2, <2>4, <2>6 DEF QueuesOK, OnlyQueues, Waitable
  <2>9. TabOK(s, loads)
    BY <2>6, <2>7, <2>8 DEF TabOK, TabFits, OnlyQueues
  <2>10. WaitingHighlight(s)
    BY <2>6 DEF WaitingHighlight, TabFits, OnlyQueues
  <2>11. Meets(s, f)
    <3>1. \A i \in 1 .. Len(s.out) : IsLoad(s.out, i) =>
            f.seq <= s.out[i].seq /\ (f.swap # NoNav => f.swap.seq <= s.out[i].seq)
      BY <2>3, <2>6 DEF Meets, Ahead, Believes, TabFits
    <3> QED BY <1>2, <2>6, <3>1 DEF Meets, Ahead, Believes, TabFits, OnlyQueues, Broken
  <2> QED BY <2>6, <2>9, <2>10, <2>11 DEF TabFits
<1>3. CASE ~t.ready
  <2> DEFINE h == Enqueue(t.held, m)
  <2>1. s = [t EXCEPT !.held = h]
    BY <1>3 DEF SendToFrame
  <2>2. h \in Seq(Sendable(loads)) /\ OneOf(h, "load")
    BY <1>1, EnqueueShape DEF QueuesOK
  <2>5. h \in Seq(ToFrames)
    BY <2>2, InSeq DEF Sendable
  <2> HIDE DEF h
  <2>6. OnlyQueues(s, t) /\ s.queued = t.queued /\ s.out = t.out /\ s.held = h
    BY <1>1, <2>1 DEF OnlyQueues, Tabs
  <2>7. s \in Tabs(s)
    BY <1>1, <2>1, <2>5 DEF Tabs
  <2>8. QueuesOK(s, loads)
    BY <1>1, <1>3, <2>2, <2>6 DEF QueuesOK, OnlyQueues, Waitable
  <2>9. TabOK(s, loads)
    BY <2>6, <2>7, <2>8 DEF TabOK, TabFits, OnlyQueues
  <2>10. WaitingHighlight(s)
    BY <2>6 DEF WaitingHighlight, TabFits, OnlyQueues
  <2>11. Meets(s, f)
    BY <2>6 DEF Meets, Ahead, Believes, TabFits, OnlyQueues, Broken
  <2> QED BY <2>6, <2>9, <2>10, <2>11 DEF TabFits
<1> QED BY <1>2, <1>3

LEMMA CommandSent ==
  ASSUME NEW loads \in Seq(Chapters), NEW t, NEW f, TabFits(t, f, loads),
         NEW m \in ToFrames, m.type \in Commands \cup {"ask"}, m.seq = t.seq => m.aim = t.chapter,
         m.type = "highlight" => ~Has(t.queued, "highlight") /\ t.highlight = NoChapter
                                   /\ t.timer = NoTimer
  PROVE  LET s == SendChapterCommand(t, m)
         IN  TabFits(s, f, loads) /\ OnlyQueues(s, t) /\ (m.seq # t.seq => s = t)
<1> DEFINE s == SendChapterCommand(t, m)
<1>1. t \in Tabs(t) /\ QueuesOK(t, loads)
  BY DEF TabFits, TabOK
<1>2. CASE m.seq # t.seq \/ (~t.loaded /\ Relative(m))
  <2>1. s = t
    BY <1>2 DEF SendChapterCommand
  <2> QED BY <2>1 DEF OnlyQueues
<1>3. CASE m.seq = t.seq /\ t.loaded
  <2>1. m \in Sendable(loads) /\ m.type # "load"
    <3>1. t.seq # 0 /\ t.seq \in Nat /\ Len(loads) = t.seq /\ loads[t.seq] = t.chapter
      BY <1>1, <1>3 DEF TabFits, TabOK, Tabs
    <3>2. LoadOf(loads, m.seq, m.aim)
      BY <1>3, <3>1 DEF LoadOf
    <3> QED BY <3>2 DEF Sendable, Commands
  <2>2. s = SendToFrame(t, m)
    BY <1>3 DEF SendChapterCommand
  <2> QED BY <1>3, <2>1, <2>2, ToFrame
<1>4. CASE m.seq = t.seq /\ ~t.loaded /\ ~Relative(m)
  <2> DEFINE q == Enqueue(t.queued, m)
  <2>1. s = [t EXCEPT !.queued = q]
    BY <1>4 DEF SendChapterCommand
  <2>2. m \in Waitable(t) /\ t.queued \in Seq(Waitable(t))
    BY <1>1, <1>4 DEF Waitable, Commands, QueuesOK
  <2>3. q \in Seq(Waitable(t)) /\ OneOf(q, "highlight") /\ (Has(q, "highlight") => m.type = "highlight" \/ Has(t.queued, "highlight"))
    BY <2>2, EnqueueShape DEF TabFits, WaitingHighlight
  <2>4. q \in Seq(ToFrames)
    BY <2>3, InSeq DEF Waitable
  <2> HIDE DEF q
  <2>6. OnlyQueues(s, t) /\ s.queued = q /\ s.out = t.out /\ s.held = t.held
    BY <1>1, <2>1 DEF OnlyQueues, Tabs
  <2>7. s \in Tabs(s)
    BY <1>1, <2>1, <2>4 DEF Tabs
  <2>8. QueuesOK(s, loads)
    BY <1>1, <2>3, <2>6 DEF QueuesOK, OnlyQueues, Waitable
  <2>9. TabOK(s, loads)
    BY <2>6, <2>7, <2>8 DEF TabOK, TabFits, OnlyQueues
  <2>10. WaitingHighlight(s)
    BY <2>3, <2>6 DEF WaitingHighlight, TabFits, OnlyQueues
  <2>11. Meets(s, f)
    BY <2>6 DEF Meets, Ahead, Believes, TabFits, OnlyQueues, Broken
  <2> QED BY <1>4, <2>6, <2>9, <2>10, <2>11 DEF TabFits
<1> QED BY <1>2, <1>3, <1>4

(* discard leaves no highlight waiting.                                    *)
LEMMA Discarded ==
  ASSUME NEW S, NEW q \in Seq(S), OneOf(q, "highlight")
  PROVE  DiscardHighlight(q) \in Seq(S) /\ ~Has(DiscardHighlight(q), "highlight")
<1> DEFINE at == {i \in 1 .. Len(q) : q[i].type = "highlight"}
<1>1. DOMAIN q = 1 .. Len(q)
  OBVIOUS
<1>2. CASE at = {}
  BY <1>1, <1>2 DEF DiscardHighlight, Has
<1>3. CASE at # {}
  <2>1. PICK k \in at : k = CHOOSE i \in at : TRUE
    BY <1>3
  <2>2. DiscardHighlight(q) = RemoveAt(q, k)
    BY <1>1, <1>3, <2>1 DEF DiscardHighlight
  <2>3. RemoveAt(q, k) \in Seq(S)
    BY <2>1, RemoveAtShape
  <2>4. ~Has(RemoveAt(q, k), "highlight")
    BY <2>1, RemoveAtOnce
  <2> QED BY <2>2, <2>3, <2>4
<1> QED BY <1>2, <1>3

LEMMA Cleared ==
  ASSUME NEW loads \in Seq(Chapters), NEW t, NEW f, TabFits(t, f, loads)
  PROVE  LET s == ClearHighlights(t)
         IN  TabFits(s, f, loads) /\ OnlyQueues(s, t) /\ ~Has(s.queued, "highlight")
<1> DEFINE q == DiscardHighlight(t.queued)
           u == [t EXCEPT !.queued = q]
           m == Msg("clear", 0, t.chapter, "none")
<1>1. t \in Tabs(t) /\ QueuesOK(t, loads)
  BY DEF TabFits, TabOK
<1>2. q \in Seq(Waitable(t)) /\ ~Has(q, "highlight")
  BY <1>1, Discarded DEF QueuesOK, TabFits, WaitingHighlight
<1>3. q \in Seq(ToFrames) /\ OneOf(q, "highlight")
  BY <1>2, InSeq DEF Waitable, Has, OneOf
<1> HIDE DEF q
<1>4. OnlyQueues(u, t) /\ u.queued = q /\ u.out = t.out /\ u.held = t.held
  BY <1>1 DEF OnlyQueues, Tabs
<1>5. u \in Tabs(u)
  BY <1>1, <1>3 DEF Tabs
<1> HIDE DEF u
<1>6. QueuesOK(u, loads)
  BY <1>1, <1>2, <1>4 DEF QueuesOK, OnlyQueues, Waitable
<1>7. TabOK(u, loads)
  BY <1>4, <1>5, <1>6 DEF TabOK, TabFits, OnlyQueues
<1>8. WaitingHighlight(u)
  BY <1>2, <1>3, <1>4 DEF WaitingHighlight, TabFits, OnlyQueues
<1>9. Meets(u, f)
  BY <1>4 DEF Meets, Ahead, Believes, TabFits, OnlyQueues, Broken
<1>10. m \in Sendable(loads) /\ m.type # "load"
  BY <1>1, ClearSendable DEF Tabs, Msg
<1>11. ClearHighlights(t) = SendToFrame(u, m)
  BY DEF ClearHighlights, u, q
<1> HIDE DEF m
<1>12. TabFits(u, f, loads)
  BY <1>7, <1>8, <1>9 DEF TabFits
<1> QED BY <1>2, <1>4, <1>10, <1>11, <1>12, ToFrame DEF OnlyQueues

LEMMA AsideFits ==
  ASSUME NEW loads, NEW t, NEW f, NEW s, TabFits(t, f, loads), Aside(s, t)
  PROVE  TabFits(s, f, loads)
<1>1. QueuesOK(s, loads)
  BY DEF TabFits, TabOK, QueuesOK, Aside, OnlyQueues, Waitable
<1>2. TabOK(s, loads)
  BY <1>1 DEF TabFits, TabOK, Aside, OnlyQueues
<1>3. WaitingHighlight(s)
  BY DEF TabFits, WaitingHighlight, Aside, OnlyQueues
<1>4. Meets(s, f)
  BY DEF TabFits, Meets, Ahead, Believes, Aside, OnlyQueues, Broken
<1> QED BY <1>2, <1>3, <1>4 DEF TabFits

LEMMA RequestedAside ==
  ASSUME NEW t, t \in Tabs(t), NEW c, NEW how
  PROVE  Aside(Requested(t, c, how), t)
<1>1. CASE Requested(t, c, how) = t
  BY <1>1 DEF Aside, OnlyQueues
<1>2. CASE Requested(t, c, how) = [t EXCEPT !.wire[c] = how]
  BY <1>2 DEF Aside, OnlyQueues, Tabs
<1> QED BY <1>1, <1>2 DEF Requested

LEMMA PrefetchedAside == ASSUME NEW t, t \in Tabs(t) PROVE Aside(Prefetched(t), t)
<1> DEFINE r == Requested(t, t.chapter + 1, "prefetch")
<1>1. Aside(r, t)
  BY RequestedAside
<1> HIDE DEF r
<1>2. r \in Tabs(r)
  BY <1>1 DEF Aside
<1>3. Aside(Requested(r, t.chapter - 1, "prefetch"), r)
  BY <1>2, RequestedAside
<1>4. Aside(Requested(r, t.chapter - 1, "prefetch"), t)
  BY <1>1, <1>3 DEF Aside, OnlyQueues
<1> QED BY <1>1, <1>4 DEF Prefetched, r

(* One more load: what was said of the loads so far stays so.              *)
LEMMA MoreLoads ==
  ASSUME NEW loads \in Seq(Chapters), NEW c \in Chapters
  PROVE  LET ls == Append(loads, c)
         IN  /\ ls \in Seq(Chapters) /\ Len(ls) = Len(loads) + 1 /\ LoadOf(ls, Len(loads) + 1, c)
             /\ \A s, x : LoadOf(loads, s, x) => LoadOf(ls, s, x)
             /\ Sendable(loads) \subseteq Sendable(ls) /\ Sayable(loads) \subseteq Sayable(ls)
<1> DEFINE ls == Append(loads, c)
<1>1. /\ ls \in Seq(Chapters) /\ Len(ls) = Len(loads) + 1 /\ Len(loads) \in Nat
      /\ ls[Len(loads) + 1] = c
      /\ \A i \in 1 .. Len(loads) : ls[i] = loads[i]
  BY AppendShape
<1> HIDE DEF ls
<1>2. LoadOf(ls, Len(loads) + 1, c) /\ \A s, x : LoadOf(loads, s, x) => LoadOf(ls, s, x)
  BY <1>1 DEF LoadOf
<1>3. Sendable(loads) \subseteq Sendable(ls)
  BY <1>2 DEF Sendable
<1>4. Sayable(loads) \subseteq Sayable(ls)
  BY <1>1 DEF Sayable
<1> QED BY <1>1, <1>2, <1>3, <1>4 DEF ls

LEMMA FrameGrows ==
  ASSUME NEW loads \in Seq(Chapters), NEW c \in Chapters, NEW f, FrameOK(f, loads)
  PROVE  FrameOK(f, Append(loads, c))
<1> DEFINE ls == Append(loads, c)
<1>1. /\ Sendable(loads) \subseteq Sendable(ls) /\ Sayable(loads) \subseteq Sayable(ls)
      /\ \A s, x : LoadOf(loads, s, x) => LoadOf(ls, s, x)
  BY MoreLoads
<1> HIDE DEF ls
<1>2. f.out \in Seq(Sayable(ls))
  BY <1>1, InSeq DEF FrameOK
<1>3. FrameOK(f, ls)
  BY <1>1, <1>2 DEF FrameOK
<1> QED BY <1>3 DEF ls

(* The frame and the position are swapped together.                        *)
LEMMA HandOverFits ==
  ASSUME NEW loads \in Seq(Chapters), NEW t, NEW f, TabFits(t, f, loads), FrameOK(f, loads),
         t.load # NoNav, ~t.aborted
  PROVE  LET s == HandOver(t)
         IN  /\ TabFits(s, f, Append(loads, t.load.chapter))
             /\ s.load = NoNav /\ s.pending = NoNav
             /\ s.chapter = t.load.chapter /\ s.seq = t.seq + 1
<1> DEFINE nav == t.load
           ls == Append(loads, nav.chapter)
           m == Msg("load", t.seq + 1, nav.chapter, nav.at)
           u == [t EXCEPT !.seq = @ + 1, !.loaded = FALSE, !.settled = FALSE, !.queued = <<>>,
                          !.chapter = nav.chapter, !.save = Place(nav.chapter, nav.at),
                          !.failed = NoNav, !.load = NoNav]
           s == SendToFrame(u, m)
<1>1. t \in Tabs(t) /\ QueuesOK(t, loads) /\ t.seq \in Nat /\ Len(loads) = t.seq /\ t.pending = NoNav
  BY DEF TabFits, TabOK, Tabs
<1>2. nav \in Navs /\ nav.chapter \in Chapters /\ nav.at \in FrameSpots
  BY <1>1 DEF Tabs, MayNav, Navs
<1>3. HandOver(t) = Prefetched(s)
  BY DEF HandOver
<1>4. /\ ls \in Seq(Chapters) /\ Len(ls) = t.seq + 1 /\ LoadOf(ls, t.seq + 1, nav.chapter)
      /\ \A i, x : LoadOf(loads, i, x) => LoadOf(ls, i, x)
      /\ Sendable(loads) \subseteq Sendable(ls)
  BY <1>1, <1>2, MoreLoads
<1> HIDE DEF ls
<1>5. m \in Sendable(ls) /\ m.type = "load" /\ m.seq = t.seq + 1
  BY <1>1, <1>2, <1>4, Nothings DEF Msg, Sendable, ToFrames
<1>6. /\ u.seq = t.seq + 1 /\ ~u.loaded /\ ~u.settled /\ u.queued = <<>> /\ u.chapter = nav.chapter
      /\ u.load = NoNav /\ u.pending = NoNav /\ u.ready = t.ready /\ u.error = t.error
      /\ u.highlight = t.highlight /\ u.timer = t.timer /\ u.out = t.out /\ u.held = t.held
  BY <1>1 DEF Tabs
<1>7. u \in Tabs(u)
  <2>1. Place(nav.chapter, nav.at) \in AnyPlace /\ NoNav \in MayNav
    BY <1>2, Nothings DEF Place, AnyPlace
  <2>2. <<>> \in Seq(ToFrames) /\ t.seq + 1 \in Nat
    BY <1>1
  <2> QED BY <1>1, <1>2, <2>1, <2>2 DEF Tabs
<1> HIDE DEF u, m, nav
<1>8. /\ s \in Tabs(s) /\ OnlyQueues(s, u) /\ s.queued = <<>>
      /\ QueuesOK(s, ls)
      /\ \A i \in 1 .. Len(s.out) : IsLoad(s.out, i) =>
           s.out[i].seq = t.seq + 1 \/ (i \in 1 .. Len(t.out) /\ IsLoad(t.out, i) /\ s.out[i] = t.out[i])
  <2>1. t.out \in Seq(Sendable(ls)) /\ t.held \in Seq(Sendable(ls))
    BY <1>1, <1>4, InSeq DEF QueuesOK
  <2>2. CASE t.ready
    <3> DEFINE o == Append(t.out, m)
    <3>1. s = [u EXCEPT !.out = o]
      BY <1>6, <2>2 DEF SendToFrame
    <3>2. /\ o \in Seq(Sendable(ls)) /\ Len(o) = Len(t.out) + 1 /\ Len(t.out) \in Nat
          /\ o[Len(t.out) + 1] = m
          /\ \A i \in 1 .. Len(t.out) : o[i] = t.out[i]
      BY <1>5, <2>1, AppendShape
    <3>3. \A i \in 1 .. Len(t.out) : IsLoad(t.out, i) => t.out[i].seq \in Nat /\ t.out[i].seq <= t.seq
      BY <1>1 DEF QueuesOK, Sendable, IsLoad, LoadOf
    <3>4. \A i \in 1 .. Len(o) : IsLoad(o, i) =>
             \/ i = Len(t.out) + 1 /\ o[i].seq = t.seq + 1
             \/ i \in 1 .. Len(t.out) /\ IsLoad(t.out, i) /\ o[i] = t.out[i]
      BY <1>5, <3>2 DEF IsLoad
    <3>5. LoadsInOrder(o)
      <4> SUFFICES ASSUME NEW i \in 1 .. Len(o), NEW j \in 1 .. Len(o), i < j, IsLoad(o, i), IsLoad(o, j)
                   PROVE  o[i].seq <= o[j].seq
        BY DEF LoadsInOrder
      <4>1. i \in 1 .. Len(t.out) /\ IsLoad(t.out, i) /\ o[i] = t.out[i]
        BY <3>2, <3>4
      <4>2. CASE j = Len(t.out) + 1 /\ o[j].seq = t.seq + 1
        BY <1>1, <3>3, <4>1, <4>2
      <4>3. CASE j \in 1 .. Len(t.out) /\ IsLoad(t.out, j) /\ o[j] = t.out[j]
        BY <1>1, <4>1, <4>3 DEF QueuesOK, LoadsInOrder
      <4> QED BY <3>4, <4>2, <4>3
    <3>6. o \in Seq(ToFrames)
      BY <3>2, InSeq DEF Sendable
    <3> HIDE DEF o
    <3>7. OnlyQueues(s, u) /\ s.queued = <<>> /\ s.out = o /\ s.held = t.held
      BY <1>6, <1>7, <3>1 DEF OnlyQueues, Tabs
    <3>8. s \in Tabs(s)
      BY <1>7, <3>1, <3>6 DEF Tabs
    <3>9. QueuesOK(s, ls)
      BY <1>1, <1>6, <2>1, <2>2, <3>2, <3>5, <3>7 DEF QueuesOK, OnlyQueues
    <3> QED BY <3>4, <3>7, <3>8, <3>9
  <2>3. CASE ~t.ready
    <3> DEFINE h == Enqueue(t.held, m)
    <3>1. s = [u EXCEPT !.held = h]
      BY <1>6, <2>3 DEF SendToFrame
    <3>2. h \in Seq(Sendable(ls)) /\ OneOf(h, "load")
      BY <1>1, <1>5, <2>1, EnqueueShape DEF QueuesOK
    <3>3. h \in Seq(ToFrames)
      BY <3>2, InSeq DEF Sendable
    <3> HIDE DEF h
    <3>4. OnlyQueues(s, u) /\ s.queued = <<>> /\ s.out = t.out /\ s.held = h
      BY <1>6, <1>7, <3>1 DEF OnlyQueues, Tabs
    <3>5. s \in Tabs(s)
      BY <1>7, <3>1, <3>3 DEF Tabs
    <3>6. QueuesOK(s, ls)
      BY <1>1, <1>6, <2>1, <2>3, <3>2, <3>4 DEF QueuesOK, OnlyQueues
    <3> QED BY <3>4, <3>5, <3>6
  <2> QED BY <2>2, <2>3
<1> HIDE DEF s
<1>9. TabOK(s, ls)
  <2>1. s.timer # NoTimer => LoadOf(ls, s.timer.seq, s.timer.aim)
    BY <1>4, <1>6, <1>8 DEF OnlyQueues, TabFits, TabOK
  <2>2. ls[s.seq] = s.chapter
    BY <1>4, <1>6, <1>8 DEF OnlyQueues, LoadOf
  <2> QED BY <1>4, <1>6, <1>8, <2>1, <2>2 DEF OnlyQueues, TabOK
<1>10. WaitingHighlight(s)
  <2>1. OneOf(<<>>, "highlight") /\ ~Has(<<>>, "highlight")
    BY DEF OneOf, Has
  <2> QED BY <1>6, <1>8, <2>1 DEF OnlyQueues, TabFits, WaitingHighlight
<1>11. Meets(s, f)
  <2>1. f.seq \in Nat /\ f.seq <= t.seq /\ (f.swap # NoNav => f.swap.seq \in Nat /\ f.swap.seq <= t.seq)
    <3>1. f.seq \in Nat /\ (f.seq # 0 => f.seq \in 1 .. Len(loads))
      BY DEF FrameOK, Documents, LoadOf
    <3>2. f.swap # NoNav => f.swap.seq \in 1 .. Len(loads)
      BY DEF FrameOK, Sendable, LoadOf
    <3> QED BY <1>1, <3>1, <3>2
  <2>2. ~Says(f, "loaded", t.seq + 1)
    BY <1>1 DEF Says, FrameOK, Sayable
  <2>3. \A i \in 1 .. Len(s.out) : IsLoad(s.out, i) =>
          f.seq <= s.out[i].seq /\ (f.swap # NoNav => f.swap.seq <= s.out[i].seq)
    BY <1>1, <1>8, <2>1 DEF TabFits, Meets, Ahead, Believes
  <2>4. ~s.ready => /\ f.seq = 0 /\ f.swap = NoNav
                    /\ \A i \in 1 .. Len(f.out) : f.out[i].type = "ready"
    BY <1>6, <1>8 DEF TabFits, Meets, Ahead, Believes, OnlyQueues
  <2> QED BY <1>6, <1>8, <2>2, <2>3, <2>4 DEF Meets, Ahead, Believes, OnlyQueues
<1>12. TabFits(s, f, ls)
  BY <1>9, <1>10, <1>11 DEF TabFits
<1>13. Aside(Prefetched(s), s)
  BY <1>8, PrefetchedAside
<1>14. TabFits(Prefetched(s), f, ls)
  BY <1>12, <1>13, AsideFits
<1> QED BY <1>3, <1>6, <1>8, <1>13, <1>14 DEF Aside, OnlyQueues, ls, nav

(* What a load leads to: the tab and the frame still agree, and the        *)
(* chapter asked for is the one that is coming.                            *)
Leads(s, f, c) ==
    /\ \E ls \in Seq(Chapters) : TabFits(s, f, ls) /\ FrameOK(f, ls)
    /\ Target(s) = c

LEMMA LoadChapterLeads ==
  ASSUME NEW loads \in Seq(Chapters), NEW t, NEW f, Loadable(t, f, loads), FrameOK(f, loads),
         NEW nav \in Navs
  PROVE  LET s == LoadChapter(t, nav)
         IN  /\ Leads(s, f, nav.chapter)
             /\ t.load = NoNav => s.pending = NoNav /\ (s.load # NoNav \/ s.seq = t.seq + 1)
<1> DEFINE s == LoadChapter(t, nav)
<1>1. t \in Tabs(t) /\ QueuesOK(t, loads) /\ nav # NoNav /\ nav \in MayNav /\ nav.chapter \in Chapters
  BY Nothings DEF TabFits, Loadable, TabOK, Navs, MayNav
<1>2. CASE t.load # NoNav
  <2>1. s = [t EXCEPT !.pending = nav, !.aborted = TRUE]
    BY <1>2 DEF LoadChapter
  <2>2. /\ s.chapter = t.chapter /\ s.seq = t.seq /\ s.loaded = t.loaded /\ s.settled = t.settled
        /\ s.ready = t.ready /\ s.error = t.error /\ s.load = t.load /\ s.aborted
        /\ s.pending = nav /\ s.highlight = t.highlight /\ s.timer = t.timer
        /\ s.out = t.out /\ s.held = t.held /\ s.queued = t.queued
    BY <1>1, <2>1 DEF Tabs
  <2>3. s \in Tabs(s)
    BY <1>1, <2>1 DEF Tabs
  <2> HIDE DEF s
  <2>4. QueuesOK(s, loads)
    BY <1>1, <2>2 DEF QueuesOK, Waitable
  <2>5. TabOK(s, loads)
    BY <1>1, <1>2, <2>2, <2>3, <2>4 DEF TabOK, TabFits, Loadable
  <2>6. WaitingHighlight(s)
    BY <2>2 DEF WaitingHighlight, TabFits, Loadable
  <2>7. Meets(s, f)
    <3>1. Ahead(t, f) /\ Believes(t, f)
      BY <1>2 DEF Loadable
    <3>2. Ahead(s, f)
      BY <2>2, <3>1 DEF Ahead
    <3>3. Believes(s, f)
      BY <2>2, <3>1 DEF Believes, Broken
    <3> QED BY <3>2, <3>3 DEF Meets
  <2>8. Target(s) = nav.chapter
    BY <1>1, <2>2 DEF Target
  <2> QED BY <1>2, <2>5, <2>6, <2>7, <2>8 DEF TabFits, Loadable, Leads, s
<1>3. CASE t.load = NoNav
  <2> DEFINE b == [t EXCEPT !.load = nav, !.aborted = FALSE, !.error = "none", !.timer = NoTimer]
  <2>1. /\ Cached(t, nav.chapter) =>
               s = HandOver([b EXCEPT !.cache = Append(Remove(@, nav.chapter), nav.chapter)])
        /\ ~Cached(t, nav.chapter) => s = Requested(b, nav.chapter, "nav")
    BY <1>3 DEF LoadChapter
  <2>2. /\ b.chapter = t.chapter /\ b.seq = t.seq /\ b.loaded = t.loaded /\ b.settled = t.settled
        /\ b.ready = t.ready /\ b.load = nav /\ ~b.aborted
        /\ b.pending = t.pending /\ b.highlight = t.highlight /\ b.timer = NoTimer
        /\ b.out = t.out /\ b.held = t.held /\ b.queued = t.queued
    BY <1>1 DEF Tabs
  <2>3. b \in Tabs(b)
    BY <1>1, Nothings DEF Tabs
  <2>4. t.pending = NoNav
    BY <1>3 DEF TabFits, Loadable, TabOK
  <2> HIDE DEF b
  <2>5. QueuesOK(b, loads)
    BY <1>1, <2>2 DEF QueuesOK, Waitable
  <2>6. TabOK(b, loads)
    BY <2>2, <2>3, <2>4, <2>5 DEF TabOK, TabFits, Loadable
  <2>7. WaitingHighlight(b)
    BY <2>2 DEF WaitingHighlight, TabFits, Loadable
  <2>8. Meets(b, f)
    BY <1>1, <2>2 DEF Meets, Ahead, Believes, TabFits, Loadable, Broken
  <2>9. TabFits(b, f, loads)
    BY <2>6, <2>7, <2>8 DEF TabFits, Loadable
  <2>10. CASE Cached(t, nav.chapter)
    <3> DEFINE k == [b EXCEPT !.cache = Append(Remove(@, nav.chapter), nav.chapter)]
               ls == Append(loads, nav.chapter)
    <3>1. Aside(k, b) /\ k.load = nav /\ ~k.aborted
      BY <2>2, <2>3 DEF Aside, OnlyQueues, Tabs
    <3>2. s = HandOver(k)
      BY <2>1, <2>10
    <3> HIDE DEF k, s
    <3>3. TabFits(k, f, loads) /\ k.seq = t.seq
      BY <2>2, <2>9, <3>1, AsideFits DEF Aside, OnlyQueues
    <3>4. /\ TabFits(s, f, ls) /\ s.load = NoNav /\ s.pending = NoNav
          /\ s.chapter = nav.chapter /\ s.seq = t.seq + 1
      BY <1>1, <3>1, <3>2, <3>3, HandOverFits
    <3>5. FrameOK(f, ls) /\ ls \in Seq(Chapters)
      BY <1>1, FrameGrows, MoreLoads
    <3>6. Target(s) = nav.chapter
      BY <3>4 DEF Target
    <3> QED BY <3>4, <3>5, <3>6 DEF Leads, s
  <2>11. CASE ~Cached(t, nav.chapter)
    <3>1. s = Requested(b, nav.chapter, "nav")
      BY <2>1, <2>11
    <3> HIDE DEF s
    <3>2. Aside(s, b)
      BY <2>3, <3>1, RequestedAside
    <3>3. TabFits(s, f, loads)
      BY <2>9, <3>2, AsideFits
    <3>4. Target(s) = nav.chapter /\ s.pending = NoNav /\ s.load # NoNav
      BY <1>1, <2>2, <2>4, <3>2 DEF Target, Aside, OnlyQueues
    <3> QED BY <3>3, <3>4 DEF Leads, s
  <2> QED BY <2>10, <2>11
<1> QED BY <1>2, <1>3

(* FrameErrorShown and the second "ready".                                 *)
LEMMA ErrorShownFits ==
  ASSUME NEW loads \in Seq(Chapters), NEW t, NEW f, TabFits(t, f, loads)
  PROVE  LET s == FrameErrorShown(t)
         IN  /\ TabFits(s, f, loads)
             /\ s.load = t.load /\ s.pending = t.pending /\ s.chapter = t.chapter
             /\ s.seq = t.seq /\ s.timer = t.timer /\ s.queued = t.queued
             /\ t.error # "none" => s.error # "none"
             /\ s.error # "none" \/ s.load # NoNav
<1> DEFINE s == FrameErrorShown(t)
<1>1. t \in Tabs(t) /\ QueuesOK(t, loads)
  BY DEF TabFits, TabOK
<1>2. CASE t.load # NoNav
  BY <1>2 DEF FrameErrorShown
<1>3. CASE t.load = NoNav
  <2>1. s = [t EXCEPT !.settled = FALSE, !.error = "frame"]
    BY <1>3 DEF FrameErrorShown
  <2>2. /\ s.chapter = t.chapter /\ s.seq = t.seq /\ s.loaded = t.loaded /\ ~s.settled
        /\ s.ready = t.ready /\ s.load = t.load /\ s.aborted = t.aborted /\ s.error = "frame"
        /\ s.pending = t.pending /\ s.highlight = t.highlight /\ s.timer = t.timer
        /\ s.out = t.out /\ s.held = t.held /\ s.queued = t.queued
    BY <1>1, <2>1 DEF Tabs
  <2>3. s \in Tabs(s)
    BY <1>1, <2>1 DEF Tabs
  <2> HIDE DEF s
  <2>4. QueuesOK(s, loads)
    BY <1>1, <2>2 DEF QueuesOK, Waitable
  <2>5. TabOK(s, loads)
    BY <2>2, <2>3, <2>4 DEF TabOK, TabFits
  <2>6. WaitingHighlight(s)
    BY <2>2 DEF WaitingHighlight, TabFits
  <2>7. Meets(s, f)
    BY <2>2 DEF Meets, Ahead, Believes, TabFits, Broken
  <2> QED BY <2>2, <2>5, <2>6, <2>7 DEF TabFits, s
<1> QED BY <1>2, <1>3

-----------------------------------------------------------------------------
(* What the frame says.                                                    *)

(* With a message heard, the tab still expects what it did.                *)
LEMMA HeardFits ==
  ASSUME NEW loads \in Seq(Chapters), NEW s, NEW f, NEW g, TabFits(s, f, loads),
         FrameOK(f, loads), f.out # <<>>, g = [f EXCEPT !.out = Tail(@)],
         \/ f.out[1].type # "ready" \/ s.error # "none" \/ s.load # NoNav
         \/ ~s.settled /\ ~Says(f, "loaded", s.seq)
  PROVE  TabFits(s, g, loads)
<1>1. /\ g.seq = f.seq /\ g.swap = f.swap /\ g.ready = f.ready
      /\ Len(g.out) = Len(f.out) - 1 /\ Len(f.out) \in Nat
      /\ \A i \in 1 .. Len(g.out) : g.out[i] = f.out[i + 1] /\ i + 1 \in 1 .. Len(f.out)
  <2>1. f \in Documents /\ f.out \in Seq(Sayable(loads))
    BY DEF FrameOK
  <2>2. /\ Len(Tail(f.out)) = Len(f.out) - 1 /\ Len(f.out) \in Nat
        /\ \A i \in 1 .. Len(f.out) - 1 : Tail(f.out)[i] = f.out[i + 1] /\ i + 1 \in 1 .. Len(f.out)
    BY <2>1, TailShape
  <2>3. g.seq = f.seq /\ g.swap = f.swap /\ g.ready = f.ready /\ g.out = Tail(f.out)
    BY <2>1 DEF Documents
  <2> QED BY <2>2, <2>3
<1>2. ~s.ready => /\ g.seq = 0 /\ g.swap = NoNav
                  /\ \A i \in 1 .. Len(g.out) : g.out[i].type = "ready"
  BY <1>1 DEF TabFits, Meets, Ahead, Believes
<1>3. Says(g, "loaded", s.seq) => Says(f, "loaded", s.seq)
  BY <1>1 DEF Says
<1>4. SaysReady(f) => SaysReady(g) \/ f.out[1].type = "ready"
  <2> SUFFICES ASSUME NEW i \in 1 .. Len(f.out), f.out[i].type = "ready", f.out[1].type # "ready"
               PROVE  Has(g.out, "ready")
    BY DEF SaysReady, Has
  <2>1. i - 1 \in 1 .. Len(g.out) /\ (i - 1) + 1 = i
    BY <1>1
  <2> QED BY <1>1, <2>1 DEF Has
<1>5. s.settled \/ Says(g, "loaded", s.seq) => g.seq = s.seq \/ Broken(s, g)
  BY <1>1, <1>3, <1>4 DEF TabFits, Meets, Ahead, Believes, Broken
<1>6. Meets(s, g)
  BY <1>1, <1>2, <1>5 DEF TabFits, Meets, Ahead, Believes
<1> QED BY <1>6 DEF TabFits

LEMMA TailOK ==
  ASSUME NEW loads, NEW f, FrameOK(f, loads), f.out # <<>>
  PROVE  /\ FrameOK([f EXCEPT !.out = Tail(@)], loads)
         /\ Head(f.out) = f.out[1] /\ f.out[1] \in Sayable(loads) /\ 1 \in 1 .. Len(f.out)
<1> DEFINE g == [f EXCEPT !.out = Tail(@)]
<1>1. f \in Documents /\ f.out \in Seq(Sayable(loads))
  BY DEF FrameOK
<1>2. /\ Tail(f.out) \in Seq(Sayable(loads)) /\ Head(f.out) = f.out[1] /\ f.out[1] \in Sayable(loads)
      /\ 1 \in 1 .. Len(f.out)
  BY <1>1, TailShape
<1>3. Tail(f.out) \in Seq(Reports)
  BY <1>2, InSeq DEF Sayable
<1>4. /\ g.seq = f.seq /\ g.place = f.place /\ g.chapter = f.chapter /\ g.swap = f.swap
      /\ g.reveal = f.reveal /\ g.restoring = f.restoring /\ g.search = f.search
      /\ g.marks = f.marks /\ g.out = Tail(f.out)
  BY <1>1 DEF Documents
<1>5. g \in Documents
  BY <1>1, <1>3 DEF Documents
<1> HIDE DEF g
<1>6. FrameOK(g, loads)
  BY <1>2, <1>4, <1>5 DEF FrameOK
<1> QED BY <1>2, <1>6 DEF g

LEMMA ConcatShape ==
  ASSUME NEW S, NEW q \in Seq(S), NEW r \in Seq(S)
  PROVE  /\ q \o r \in Seq(S) /\ Len(q) \in Nat
         /\ \A i \in 1 .. Len(q \o r) : \/ i \in 1 .. Len(q) /\ (q \o r)[i] = q[i]
                                        \/ i - Len(q) \in 1 .. Len(r) /\ (q \o r)[i] = r[i - Len(q)]
OBVIOUS

(* The first "ready" sends what was held; another tells of a new document. *)
LEMMA OnReadyFits ==
  ASSUME NEW loads \in Seq(Chapters), NEW t, NEW f, TabFits(t, f, loads), FrameOK(f, loads),
         f.out # <<>>, f.out[1].type = "ready"
  PROVE  LET s == OnReady(t)
         IN  /\ TabFits(s, [f EXCEPT !.out = Tail(@)], loads)
             /\ s.load = t.load /\ s.pending = t.pending /\ s.chapter = t.chapter
             /\ s.seq = t.seq /\ s.timer = t.timer
             /\ t.error # "none" => s.error # "none"
             /\ t.queued = <<>> => s.queued = <<>>
<1> DEFINE s == OnReady(t)
           r == [t EXCEPT !.loaded = FALSE, !.queued = <<>>]
           o == t.out \o t.held
<1>1. t \in Tabs(t) /\ QueuesOK(t, loads)
  BY DEF TabFits, TabOK
<1>2. 1 \in 1 .. Len(f.out)
  BY TailOK
<1>3. o \in Seq(Sendable(loads))
  BY <1>1, ConcatShape DEF QueuesOK
<1>4. o \in Seq(ToFrames)
  BY <1>3, InSeq DEF Sendable
<1>5. CASE t.ready
  <2> DEFINE u == [t EXCEPT !.loaded = FALSE, !.queued = <<>>, !.ready = TRUE, !.out = o, !.held = <<>>]
  <2>1. s = FrameErrorShown(u)
    <3>1. r.out = t.out /\ r.held = t.held
      BY <1>1 DEF Tabs
    <3>2. [r EXCEPT !.ready = TRUE, !.out = @ \o t.held, !.held = <<>>] = u
      BY <1>1, <3>1 DEF Tabs
    <3> QED BY <1>5, <3>2 DEF OnReady
  <2>2. o = t.out
    BY <1>1, <1>5, ConcatEmptySeq DEF QueuesOK
  <2>3. /\ u.chapter = t.chapter /\ u.seq = t.seq /\ ~u.loaded /\ u.settled = t.settled
        /\ u.ready /\ u.load = t.load /\ u.aborted = t.aborted /\ u.error = t.error
        /\ u.pending = t.pending /\ u.highlight = t.highlight /\ u.timer = t.timer
        /\ u.out = t.out /\ u.held = <<>> /\ u.queued = <<>>
    BY <1>1, <2>2 DEF Tabs
  <2>4. u \in Tabs(u)
    <3>1. <<>> \in Seq(ToFrames)
      OBVIOUS
    <3> QED BY <1>1, <1>4, <3>1 DEF Tabs
  <2> HIDE DEF u, o, s
  <2>5. QueuesOK(u, loads)
    <3>1. <<>> \in Seq(Waitable(u)) /\ <<>> \in Seq(Sendable(loads)) /\ OneOf(<<>>, "load")
      BY DEF OneOf
    <3> QED BY <1>1, <2>3, <3>1 DEF QueuesOK
  <2>6. TabOK(u, loads)
    BY <1>5, <2>3, <2>4, <2>5 DEF TabOK, TabFits
  <2>7. WaitingHighlight(u)
    <3>1. OneOf(<<>>, "highlight") /\ ~Has(<<>>, "highlight")
      BY DEF OneOf, Has
    <3> QED BY <2>3, <3>1 DEF WaitingHighlight, TabFits
  <2>8. Meets(u, f)
    BY <1>5, <2>3 DEF Meets, Ahead, Believes, TabFits, Broken
  <2>9. /\ TabFits(s, f, loads)
        /\ s.load = t.load /\ s.pending = t.pending /\ s.chapter = t.chapter
        /\ s.seq = t.seq /\ s.timer = t.timer /\ s.queued = <<>>
        /\ t.error # "none" => s.error # "none"
        /\ s.error # "none" \/ s.load # NoNav
    BY <2>1, <2>3, <2>6, <2>7, <2>8, ErrorShownFits DEF TabFits
  <2>10. TabFits(s, [f EXCEPT !.out = Tail(@)], loads)
    BY <2>9, HeardFits
  <2> QED BY <2>9, <2>10 DEF s
<1>6. CASE ~t.ready
  <2>1. s = [t EXCEPT !.ready = TRUE, !.out = o, !.held = <<>>]
    BY <1>6 DEF OnReady
  <2>2. o = t.held /\ ~t.settled /\ ~t.loaded
    <3>1. o = t.held
      BY <1>1, <1>6, ConcatEmptySeq DEF QueuesOK
    <3> QED BY <1>6, <3>1 DEF TabFits, TabOK
  <2>3. /\ s.chapter = t.chapter /\ s.seq = t.seq /\ ~s.loaded /\ ~s.settled
        /\ s.ready /\ s.load = t.load /\ s.aborted = t.aborted /\ s.error = t.error
        /\ s.pending = t.pending /\ s.highlight = t.highlight /\ s.timer = t.timer
        /\ s.out = t.held /\ s.held = <<>> /\ s.queued = t.queued
    BY <1>1, <2>1, <2>2 DEF Tabs
  <2>4. s \in Tabs(s)
    <3>1. <<>> \in Seq(ToFrames)
      OBVIOUS
    <3> QED BY <1>1, <1>4, <2>1, <3>1 DEF Tabs
  <2> HIDE DEF o, s
  <2>5. QueuesOK(s, loads)
    <3>1. <<>> \in Seq(Sendable(loads)) /\ OneOf(<<>>, "load")
      BY DEF OneOf
    <3>2. LoadsInOrder(t.held)
      <4>1. \A i, j \in 1 .. Len(t.held) : i < j => i # j
        OBVIOUS
      <4> QED BY <1>1, <4>1 DEF QueuesOK, LoadsInOrder, OneOf, IsLoad
    <3> QED BY <1>1, <2>3, <3>1, <3>2 DEF QueuesOK, Waitable
  <2>6. TabOK(s, loads)
    BY <2>3, <2>4, <2>5 DEF TabOK, TabFits
  <2>7. WaitingHighlight(s)
    BY <2>3 DEF WaitingHighlight, TabFits
  <2>8. f.seq = 0 /\ f.swap = NoNav /\ ~Says(f, "loaded", s.seq)
    BY <1>6 DEF Meets, Ahead, Believes, TabFits, Says
  <2>9. Meets(s, f)
    <3>1. \A i \in 1 .. Len(s.out) : IsLoad(s.out, i) => s.out[i].seq \in Nat
      BY <1>1, <2>3 DEF QueuesOK, Sendable, ToFrames, IsLoad
    <3> QED BY <2>3, <2>8, <3>1 DEF Meets, Ahead, Believes
  <2>10. TabFits(s, [f EXCEPT !.out = Tail(@)], loads)
    <3>1. TabFits(s, f, loads)
      BY <2>6, <2>7, <2>9 DEF TabFits
    <3> QED BY <2>3, <2>8, <3>1, HeardFits
  <2> QED BY <2>3, <2>10 DEF s
<1> QED BY <1>5, <1>6

(* "loaded": the frame has the load it speaks of, or has restarted since.  *)
LEMMA OnLoadedFits ==
  ASSUME NEW loads \in Seq(Chapters), NEW t, NEW f, TabFits(t, f, loads), FrameOK(f, loads),
         f.out # <<>>, f.out[1].type = "loaded", f.out[1].seq = t.seq
  PROVE  LET s == OnLoaded(t)
         IN  /\ TabFits(s, [f EXCEPT !.out = Tail(@)], loads)
             /\ s.load = t.load /\ s.pending = t.pending /\ s.chapter = t.chapter
             /\ s.seq = t.seq /\ s.seq # 0 /\ s.error = t.error
<1> DEFINE s == OnLoaded(t)
           o == t.out \o t.queued
           n == IF t.highlight = NoChapter THEN t.timer
                ELSE IF t.highlight = t.chapter THEN [seq |-> t.seq, aim |-> t.highlight] ELSE NoTimer
<1>1. t \in Tabs(t) /\ QueuesOK(t, loads)
  BY DEF TabFits, TabOK
<1>2. f.out[1] \in Sayable(loads) /\ 1 \in 1 .. Len(f.out)
  BY TailOK
<1>3. t.seq \in 1 .. Len(loads) /\ Says(f, "loaded", t.seq)
  BY <1>2 DEF Sayable, Says
<1>4. t.seq # 0 /\ LoadOf(loads, t.seq, t.chapter)
  BY <1>1, <1>3 DEF TabFits, TabOK, LoadOf
<1>5. t.ready
  <2>1. ~(\A i \in 1 .. Len(f.out) : f.out[i].type = "ready")
    BY <1>2
  <2> QED BY <2>1 DEF TabFits, Meets, Ahead, Believes
<1>6. Waitable(t) \subseteq Sendable(loads)
  BY <1>4 DEF Waitable, Sendable
<1>7. t.queued \in Seq(Sendable(loads))
  BY <1>1, <1>6, InSeq DEF QueuesOK
<1>8. /\ o \in Seq(Sendable(loads)) /\ Len(t.out) \in Nat
      /\ \A i \in 1 .. Len(o) : \/ i \in 1 .. Len(t.out) /\ o[i] = t.out[i]
                                \/ i - Len(t.out) \in 1 .. Len(t.queued) /\ o[i] = t.queued[i - Len(t.out)]
  <2>1. t.out \in Seq(Sendable(loads))
    BY <1>1 DEF QueuesOK
  <2> QED BY <1>7, <2>1, ConcatShape
<1>9. \A i \in 1 .. Len(o) : IsLoad(o, i) => i \in 1 .. Len(t.out) /\ IsLoad(t.out, i) /\ o[i] = t.out[i]
  <2>1. \A i \in 1 .. Len(t.queued) : t.queued[i].type # "load"
    BY <1>1 DEF QueuesOK, Waitable
  <2> QED BY <1>8, <2>1 DEF IsLoad
<1>10. LoadsInOrder(o)
  BY <1>1, <1>9 DEF QueuesOK, LoadsInOrder
<1>11. o \in Seq(ToFrames)
  BY <1>8, InSeq DEF Sendable
<1>12. s = [t EXCEPT !.loaded = TRUE, !.settled = TRUE, !.queued = <<>>, !.highlight = NoChapter,
                     !.out = o, !.timer = n]
  <2> DEFINE r == [t EXCEPT !.loaded = TRUE, !.settled = TRUE, !.queued = <<>>, !.highlight = NoChapter,
                            !.out = IF t.ready THEN @ \o t.queued ELSE @]
  <2>1. r = [t EXCEPT !.loaded = TRUE, !.settled = TRUE, !.queued = <<>>, !.highlight = NoChapter,
                      !.out = o]
    BY <1>1, <1>5 DEF Tabs
  <2>2. CASE t.highlight = NoChapter
    <3>1. s = r
      BY <2>2 DEF OnLoaded
    <3>2. n = t.timer
      BY <2>2
    <3> HIDE DEF r, n, o
    <3> QED BY <1>1, <2>1, <3>1, <3>2 DEF Tabs
  <2>3. CASE t.highlight # NoChapter
    <3>1. s = [r EXCEPT !.timer = n]
      BY <2>3 DEF OnLoaded
    <3> HIDE DEF r, n, o
    <3> QED BY <1>1, <2>1, <3>1 DEF Tabs
  <2> QED BY <2>2, <2>3
<1>13. /\ n \in [seq : Nat, aim : AnyChapter]
       /\ n # NoTimer => LoadOf(loads, n.seq, n.aim)
  BY <1>1, <1>4, Nothings DEF Tabs, TabFits, TabOK
<1> HIDE DEF o, n
<1>14. /\ s.chapter = t.chapter /\ s.seq = t.seq /\ s.loaded /\ s.settled
       /\ s.ready = t.ready /\ s.load = t.load /\ s.aborted = t.aborted /\ s.error = t.error
       /\ s.pending = t.pending /\ s.highlight = NoChapter /\ s.timer = n
       /\ s.out = o /\ s.held = t.held /\ s.queued = <<>>
  BY <1>1, <1>12 DEF Tabs
<1>15. s \in Tabs(s)
  <2>1. <<>> \in Seq(ToFrames)
    OBVIOUS
  <2>2. NoChapter \in AnyChapter
    BY Nothings
  <2> QED BY <1>1, <1>11, <1>12, <1>13, <2>1, <2>2 DEF Tabs
<1> HIDE DEF s
<1>16. QueuesOK(s, loads)
  <2>1. <<>> \in Seq(Waitable(s))
    OBVIOUS
  <2> QED BY <1>1, <1>5, <1>8, <1>10, <1>14, <2>1 DEF QueuesOK
<1>17. TabOK(s, loads)
  BY <1>4, <1>5, <1>13, <1>14, <1>15, <1>16 DEF TabOK, TabFits
<1>18. WaitingHighlight(s)
  <2>1. OneOf(<<>>, "highlight") /\ ~Has(<<>>, "highlight")
    BY DEF OneOf, Has
  <2> QED BY <1>14, <2>1 DEF WaitingHighlight
<1>19. Meets(s, f)
  <2>1. \A i \in 1 .. Len(s.out) : IsLoad(s.out, i) =>
          f.seq <= s.out[i].seq /\ (f.swap # NoNav => f.swap.seq <= s.out[i].seq)
    BY <1>9, <1>14 DEF TabFits, Meets, Ahead, Believes
  <2>2. f.seq = s.seq \/ Broken(s, f)
    BY <1>3, <1>14 DEF TabFits, Meets, Ahead, Believes, Broken
  <2> QED BY <1>5, <1>14, <2>1, <2>2 DEF Meets, Ahead, Believes
<1>20. TabFits(s, [f EXCEPT !.out = Tail(@)], loads)
  <2>1. TabFits(s, f, loads)
    BY <1>17, <1>18, <1>19 DEF TabFits
  <2> QED BY <2>1, HeardFits
<1> QED BY <1>4, <1>14, <1>20 DEF s

-----------------------------------------------------------------------------
(* The frame.                                                              *)
FrameAside(g, f) == g.seq = f.seq /\ g.swap = f.swap /\ g.ready = f.ready /\ g.out = f.out

LEMMA FrameAsideFits ==
  ASSUME NEW loads, NEW t, NEW f, NEW g, TabFits(t, f, loads), FrameAside(g, f)
  PROVE  TabFits(t, g, loads)
<1>1. Meets(t, g)
  BY DEF TabFits, Meets, Ahead, Believes, FrameAside, Broken, Says, SaysReady
<1> QED BY <1>1 DEF TabFits

LEMMA PostFits ==
  ASSUME NEW loads \in Seq(Chapters), NEW t, NEW f, TabFits(t, f, loads), FrameOK(f, loads),
         NEW m \in Sayable(loads), m.type # "ready" => t.ready,
         m.type = "loaded" => m.seq = f.seq
  PROVE  TabFits(t, Post(f, m), loads) /\ FrameOK(Post(f, m), loads)
<1> DEFINE g == Post(f, m)
           o == Append(f.out, m)
<1>1. f \in Documents /\ f.out \in Seq(Sayable(loads))
  BY DEF FrameOK
<1>2. g = [f EXCEPT !.out = o]
  BY DEF Post
<1>3. /\ o \in Seq(Sayable(loads)) /\ Len(o) = Len(f.out) + 1 /\ Len(f.out) \in Nat
      /\ o[Len(f.out) + 1] = m
      /\ \A i \in 1 .. Len(f.out) : o[i] = f.out[i]
  BY <1>1, AppendShape
<1>4. o \in Seq(Reports)
  BY <1>3, InSeq DEF Sayable
<1> HIDE DEF o
<1>5. /\ g.seq = f.seq /\ g.place = f.place /\ g.chapter = f.chapter /\ g.swap = f.swap
      /\ g.reveal = f.reveal /\ g.restoring = f.restoring /\ g.search = f.search
      /\ g.marks = f.marks /\ g.out = o /\ g.ready = f.ready
  BY <1>1, <1>2 DEF Documents
<1>6. g \in Documents
  BY <1>1, <1>2, <1>4 DEF Documents
<1> HIDE DEF g
<1>7. FrameOK(g, loads)
  BY <1>3, <1>5, <1>6 DEF FrameOK
<1>8. \A i \in 1 .. Len(o) : i \in 1 .. Len(f.out) \/ o[i] = m
  BY <1>3
<1>9. ~t.ready => \A i \in 1 .. Len(o) : o[i].type = "ready"
  BY <1>3, <1>8 DEF TabFits, Meets, Ahead, Believes
<1>10. \A s : Says(g, "loaded", s) => Says(f, "loaded", s) \/ f.seq = s
  BY <1>3, <1>5, <1>8 DEF Says
<1>11. SaysReady(f) => SaysReady(g)
  BY <1>3, <1>5 DEF SaysReady, Has
<1>12. t.settled \/ Says(g, "loaded", t.seq) => g.seq = t.seq \/ Broken(t, g)
  BY <1>5, <1>10, <1>11 DEF TabFits, Meets, Ahead, Believes, Broken
<1>13. Meets(t, g)
  BY <1>5, <1>9, <1>12 DEF TabFits, Meets, Ahead, Believes
<1> QED BY <1>7, <1>13 DEF TabFits, g

LEMMA ReportsFit ==
  ASSUME NEW loads \in Seq(Chapters), NEW t, NEW f, TabFits(t, f, loads), FrameOK(f, loads), t.ready
  PROVE  /\ TabFits(t, FrameReports(f), loads) /\ FrameOK(FrameReports(f), loads)
         /\ FrameReports(f).chapter = f.chapter
<1> DEFINE m == [type |-> "position", seq |-> f.seq, chapter |-> f.chapter, place |-> f.place]
<1>1. CASE f.restoring
  BY <1>1 DEF FrameReports
<1>2. CASE ~f.restoring
  <2>1. f \in Documents /\ f.place.chapter = f.chapter /\ f.seq \in 0 .. Len(loads)
    <3>1. Len(loads) \in Nat
      OBVIOUS
    <3> QED BY <1>2, <3>1 DEF FrameOK, LoadOf, Documents
  <2>2. m \in Reports
    BY <2>1 DEF Reports, Documents
  <2>3. m \in Sayable(loads)
    BY <2>1, <2>2 DEF Sayable
  <2>4. FrameReports(f) = Post(f, m)
    BY <1>2 DEF FrameReports
  <2>5. Post(f, m).chapter = f.chapter
    BY <2>1 DEF Post, Documents
  <2> HIDE DEF m
  <2>6. m.type = "position"
    BY DEF m
  <2> QED BY <2>3, <2>4, <2>5, <2>6, PostFits
<1> QED BY <1>1, <1>2

LEMMA FrameReadyKeeps == ASSUME ReaderInv, FrameReady PROVE ReaderInv'
<1> DEFINE f == [fr EXCEPT !.ready = TRUE]
           m == [type |-> "ready"]
           g == Post(f, m)
           o == Append(fr.out, m)
<1>1. PICK loads \in Seq(Chapters) : ReaderOK(loads)
  BY DEF ReaderInv
<1>2. fr' = g /\ tab' = tab /\ want' = want /\ landed' = landed
  BY DEF FrameReady
<1>3. fr \in Documents /\ fr.out \in Seq(Sayable(loads))
  BY <1>1 DEF ReaderOK, FrameOK
<1>4. m \in Sayable(loads)
  BY DEF Sayable, Reports
<1>5. /\ o \in Seq(Sayable(loads)) /\ Len(o) = Len(fr.out) + 1 /\ Len(fr.out) \in Nat
      /\ o[Len(fr.out) + 1].type = "ready"
      /\ \A i \in 1 .. Len(fr.out) : o[i] = fr.out[i]
  BY <1>3, <1>4, AppendShape
<1>6. o \in Seq(Reports)
  BY <1>5, InSeq DEF Sayable
<1>7. g = [fr EXCEPT !.ready = TRUE, !.out = o]
  BY <1>3 DEF Post, Documents
<1> HIDE DEF o
<1>8. /\ g.seq = fr.seq /\ g.place = fr.place /\ g.chapter = fr.chapter /\ g.swap = fr.swap
      /\ g.reveal = fr.reveal /\ g.restoring = fr.restoring /\ g.search = fr.search
      /\ g.marks = fr.marks /\ g.out = o
  BY <1>3, <1>7 DEF Documents
<1>9. g \in Documents
  BY <1>3, <1>6, <1>7 DEF Documents
<1> HIDE DEF g
<1>10. FrameOK(g, loads)
  BY <1>1, <1>5, <1>8, <1>9 DEF ReaderOK, FrameOK
<1>11. SaysReady(g)
  BY <1>5, <1>8 DEF SaysReady, Has
<1>12. \A i \in 1 .. Len(o) : i \in 1 .. Len(fr.out) \/ i = Len(fr.out) + 1
  BY <1>5
<1>13. ~tab.ready => \A i \in 1 .. Len(o) : o[i].type = "ready"
  BY <1>1, <1>5, <1>12 DEF ReaderOK, TabFits, Meets, Ahead, Believes
<1>14. Meets(tab, g)
  BY <1>1, <1>8, <1>11, <1>13 DEF ReaderOK, TabFits, Meets, Ahead, Believes, Broken
<1> QED BY <1>1, <1>2, <1>10, <1>14 DEF ReaderInv, ReaderOK, TabFits, LandsWhereAimed

LEMMA FrameRestartsKeeps == ASSUME ReaderInv, FrameRestarts PROVE ReaderInv'
<1> DEFINE g == [Blank EXCEPT !.out = fr.out]
           t == [tab EXCEPT !.out = <<>>]
<1>1. PICK loads \in Seq(Chapters) : ReaderOK(loads)
  BY DEF ReaderInv
<1>2. fr' = g /\ tab' = t /\ want' = want /\ landed' = landed
  BY DEF FrameRestarts
<1>3. fr \in Documents /\ fr.out \in Seq(Sayable(loads))
  BY <1>1 DEF ReaderOK, FrameOK
<1>4. tab \in Tabs(tab) /\ QueuesOK(tab, loads)
  BY <1>1 DEF ReaderOK, TabFits, TabOK
<1>5. /\ g.seq = 0 /\ g.place.chapter = NoChapter /\ g.chapter = NoChapter /\ g.swap = NoNav
      /\ g.reveal.seq = 0 /\ g.search = NoChapter /\ g.marks = NoChapter /\ g.out = fr.out /\ ~g.ready
  BY DEF Blank, Place
<1>6. g \in Documents
  BY <1>3, Nothings DEF Documents, Blank, Place, AnyPlace, FrameSpots
<1> HIDE DEF g
<1>7. FrameOK(g, loads)
  BY <1>3, <1>5, <1>6 DEF FrameOK
<1>8. OnlyQueues(t, tab) /\ t.out = <<>> /\ t.held = tab.held /\ t.queued = tab.queued
  BY <1>4 DEF Tabs, OnlyQueues
<1>9. t \in Tabs(t)
  <2>1. <<>> \in Seq(ToFrames)
    OBVIOUS
  <2> QED BY <1>4, <2>1 DEF Tabs
<1> HIDE DEF t
<1>10. QueuesOK(t, loads)
  <2>1. <<>> \in Seq(Sendable(loads)) /\ LoadsInOrder(<<>>)
    BY DEF LoadsInOrder
  <2> QED BY <1>4, <1>8, <2>1 DEF QueuesOK, OnlyQueues, Waitable
<1>11. TabOK(t, loads)
  BY <1>1, <1>8, <1>9, <1>10 DEF ReaderOK, TabFits, TabOK, OnlyQueues
<1>12. WaitingHighlight(t)
  BY <1>1, <1>8 DEF ReaderOK, TabFits, WaitingHighlight, OnlyQueues
<1>13. Meets(t, g)
  <2>1. \A i \in 1 .. Len(t.out) : ~IsLoad(t.out, i)
    BY <1>8
  <2>2. ~t.ready => \A i \in 1 .. Len(g.out) : g.out[i].type = "ready"
    BY <1>1, <1>5, <1>8 DEF ReaderOK, TabFits, Meets, Ahead, Believes, OnlyQueues
  <2> QED BY <1>5, <2>1, <2>2 DEF Meets, Ahead, Believes, Broken
<1>14. Wanted(t, want)
  BY <1>1, <1>8 DEF ReaderOK, Wanted, Target, OnlyQueues
<1> QED BY <1>1, <1>2, <1>7, <1>11, <1>12, <1>13, <1>14 DEF ReaderInv, ReaderOK, TabFits,
   LandsWhereAimed

(* What the frame does with a message, once it has left the queue.         *)
LEMMA ObeyFits ==
  ASSUME NEW loads \in Seq(Chapters), NEW t, NEW f, TabFits(t, f, loads), FrameOK(f, loads), t.ready,
         NEW m \in Sendable(loads),
         m.type = "load" => f.seq <= m.seq
                            /\ \A i \in 1 .. Len(t.out) : IsLoad(t.out, i) => m.seq <= t.out[i].seq
  PROVE  TabFits(t, Obey(f, m), loads) /\ FrameOK(Obey(f, m), loads)
<1>1. f \in Documents /\ m \in ToFrames
  BY DEF FrameOK, Sendable
<1>2. CASE m.type = "load"
  <2> DEFINE g == [f EXCEPT !.swap = m, !.token = @ + 1]
  <2>1. Obey(f, m) = g
    BY <1>2 DEF Obey, TakeLoad
  <2>2. /\ g.seq = f.seq /\ g.place = f.place /\ g.chapter = f.chapter /\ g.swap = m
        /\ g.reveal = f.reveal /\ g.restoring = f.restoring /\ g.search = f.search
        /\ g.marks = f.marks /\ g.out = f.out /\ g.ready = f.ready
    BY <1>1 DEF Documents
  <2>3. g \in Documents
    <3>1. f.token + 1 \in Nat /\ m \in ToFrames \cup {NoNav}
      BY <1>1 DEF Documents
    <3> QED BY <1>1, <3>1 DEF Documents
  <2> HIDE DEF g
  <2>4. FrameOK(g, loads)
    BY <1>2, <2>2, <2>3 DEF FrameOK
  <2>5. Meets(t, g)
    BY <1>2, <2>2 DEF TabFits, Meets, Ahead, Believes, Broken, Says, SaysReady
  <2> QED BY <2>1, <2>4, <2>5 DEF TabFits
<1>3. CASE m.type # "load" /\ m.type # "clear" /\ IsStaleCommand(f, m) /\ m.type # "ask"
  BY <1>3 DEF Obey
<1>4. ASSUME m.type \in Commands, ~IsStaleCommand(f, m)
      PROVE  m.aim = f.chapter /\ f.chapter \in AnyChapter /\ m.at \in FrameSpots
  BY <1>1, <1>4 DEF IsStaleCommand, Sendable, LoadOf, FrameOK, Commands, ToFrames, Documents
<1>5. CASE m.type \in {"scroll", "turn"} /\ ~IsStaleCommand(f, m) /\ f.restoring
  <2> DEFINE g == [f EXCEPT !.reveal.at = m.at]
  <2>1. Obey(f, m) = g
    BY <1>5 DEF Obey
  <2>2. /\ g.seq = f.seq /\ g.place = f.place /\ g.chapter = f.chapter /\ g.swap = f.swap
        /\ g.reveal.seq = f.reveal.seq /\ g.restoring = f.restoring /\ g.search = f.search
        /\ g.marks = f.marks /\ g.out = f.out /\ g.ready = f.ready
    BY <1>1 DEF Documents
  <2>3. g \in Documents
    <3>1. [f.reveal EXCEPT !.at = m.at] \in [seq : Nat, token : Nat, at : FrameSpots]
      BY <1>1 DEF Documents, ToFrames
    <3> QED BY <1>1, <3>1 DEF Documents
  <2> HIDE DEF g
  <2>4. FrameOK(g, loads)
    BY <2>2, <2>3 DEF FrameOK
  <2>5. FrameAside(g, f)
    BY <2>2 DEF FrameAside
  <2> QED BY <2>1, <2>4, <2>5, FrameAsideFits
<1>6. CASE m.type \in {"scroll", "turn"} /\ ~IsStaleCommand(f, m) /\ ~f.restoring
  <2> DEFINE g == [f EXCEPT !.place = Place(f.chapter, m.at)]
  <2>1. Obey(f, m) = FrameReports(g)
    BY <1>6 DEF Obey
  <2>2. /\ g.seq = f.seq /\ g.place.chapter = f.chapter /\ g.chapter = f.chapter /\ g.swap = f.swap
        /\ g.reveal = f.reveal /\ g.restoring = f.restoring /\ g.search = f.search
        /\ g.marks = f.marks /\ g.out = f.out /\ g.ready = f.ready
    BY <1>1 DEF Documents, Place
  <2>3. g \in Documents
    BY <1>1, <1>4, <1>6 DEF Documents, Place, AnyPlace, Commands
  <2> HIDE DEF g
  <2>4. FrameOK(g, loads)
    BY <2>2, <2>3 DEF FrameOK
  <2>5. FrameAside(g, f)
    BY <2>2 DEF FrameAside
  <2>6. TabFits(t, g, loads)
    BY <2>5, FrameAsideFits
  <2> QED BY <2>1, <2>4, <2>6, ReportsFit
<1>7. CASE m.type = "highlight" /\ ~IsStaleCommand(f, m) /\ f.restoring
  <2> DEFINE g == [f EXCEPT !.search = m.aim]
  <2>1. Obey(f, m) = g
    BY <1>7 DEF Obey
  <2>2. /\ g.seq = f.seq /\ g.place = f.place /\ g.chapter = f.chapter /\ g.swap = f.swap
        /\ g.reveal = f.reveal /\ g.restoring = f.restoring /\ g.search = f.chapter
        /\ g.marks = f.marks /\ g.out = f.out /\ g.ready = f.ready
    BY <1>1, <1>4, <1>7 DEF Documents, Commands
  <2>3. g \in Documents
    BY <1>1, <1>4, <1>7 DEF Documents, Commands
  <2> HIDE DEF g
  <2>4. FrameOK(g, loads)
    BY <2>2, <2>3 DEF FrameOK
  <2>5. FrameAside(g, f)
    BY <2>2 DEF FrameAside
  <2> QED BY <2>1, <2>4, <2>5, FrameAsideFits
<1>8. CASE m.type = "highlight" /\ ~IsStaleCommand(f, m) /\ ~f.restoring
  <2> DEFINE g == [f EXCEPT !.marks = m.aim, !.place = Place(f.chapter, m.at)]
  <2>1. Obey(f, m) = g
    BY <1>8 DEF Obey
  <2>2. /\ g.seq = f.seq /\ g.place.chapter = f.chapter /\ g.chapter = f.chapter /\ g.swap = f.swap
        /\ g.reveal = f.reveal /\ g.restoring = f.restoring /\ g.search = f.search
        /\ g.marks = f.chapter /\ g.out = f.out /\ g.ready = f.ready
    BY <1>1, <1>4, <1>8 DEF Documents, Commands, Place
  <2>3. g \in Documents
    <3>1. Place(f.chapter, m.at) \in AnyPlace /\ m.aim \in AnyChapter
      BY <1>4, <1>8 DEF Place, AnyPlace, Commands
    <3> QED BY <1>1, <3>1 DEF Documents
  <2> HIDE DEF g
  <2>4. FrameOK(g, loads)
    BY <2>2, <2>3 DEF FrameOK
  <2>5. FrameAside(g, f)
    BY <2>2 DEF FrameAside
  <2> QED BY <2>1, <2>4, <2>5, FrameAsideFits
<1>9. CASE m.type = "clear"
  <2> DEFINE g == [f EXCEPT !.search = NoChapter, !.marks = NoChapter]
  <2>1. Obey(f, m) = g
    BY <1>9 DEF Obey
  <2>2. /\ g.seq = f.seq /\ g.place = f.place /\ g.chapter = f.chapter /\ g.swap = f.swap
        /\ g.reveal = f.reveal /\ g.restoring = f.restoring /\ g.search = NoChapter
        /\ g.marks = NoChapter /\ g.out = f.out /\ g.ready = f.ready
    BY <1>1 DEF Documents
  <2>3. g \in Documents
    BY <1>1, Nothings DEF Documents
  <2> HIDE DEF g
  <2>4. FrameOK(g, loads)
    BY <2>2, <2>3 DEF FrameOK
  <2>5. FrameAside(g, f)
    BY <2>2 DEF FrameAside
  <2> QED BY <2>1, <2>4, <2>5, FrameAsideFits
<1>10. CASE m.type = "ask"
  <2>1. Obey(f, m) = FrameReports(f)
    BY <1>10 DEF Obey
  <2> QED BY <2>1, ReportsFit
<1>11. m.type \in {"load", "clear", "ask", "scroll", "turn", "highlight"}
  BY <1>1 DEF ToFrames, Commands
<1> QED BY <1>2, <1>3, <1>5, <1>6, <1>7, <1>8, <1>9, <1>10, <1>11

LEMMA FrameHandlesKeeps == ASSUME ReaderInv, FrameHandles PROVE ReaderInv'
<1> DEFINE m == Head(tab.out)
           t == [tab EXCEPT !.out = Tail(@)]
           o == Tail(tab.out)
<1>1. PICK loads \in Seq(Chapters) : ReaderOK(loads)
  BY DEF ReaderInv
<1>2. /\ fr' = Obey(fr, m) /\ tab' = t /\ want' = want
      /\ landed' = IF m.type \in {"scroll", "turn", "highlight"} /\ ~IsStaleCommand(fr, m)
                   THEN [aim |-> m.aim, on |-> fr.chapter] ELSE NoLanding
      /\ tab.out # <<>>
  BY DEF FrameHandles
<1>3. tab \in Tabs(tab) /\ QueuesOK(tab, loads)
  BY <1>1 DEF ReaderOK, TabFits, TabOK
<1>4. tab.ready
  BY <1>2, <1>3 DEF QueuesOK
<1>5. /\ m \in Sendable(loads) /\ m = tab.out[1] /\ Len(tab.out) \in Nat /\ Len(tab.out) >= 1
      /\ o \in Seq(Sendable(loads)) /\ Len(o) = Len(tab.out) - 1
      /\ \A i \in 1 .. Len(o) : o[i] = tab.out[i + 1] /\ i + 1 \in 1 .. Len(tab.out)
  <2>1. tab.out \in Seq(Sendable(loads)) /\ tab.out # <<>>
    BY <1>2, <1>3 DEF QueuesOK
  <2>2. /\ m \in Sendable(loads) /\ m = tab.out[1] /\ Len(tab.out) >= 1
        /\ o \in Seq(Sendable(loads)) /\ Len(o) = Len(tab.out) - 1
        /\ \A i \in 1 .. Len(tab.out) - 1 : o[i] = tab.out[i + 1]
    BY <2>1, TailShape
  <2>3. Len(tab.out) \in Nat
    BY <2>1
  <2> QED BY <2>2, <2>3
<1>6. o \in Seq(ToFrames)
  BY <1>5, InSeq DEF Sendable
<1> HIDE DEF m, o
<1>7. t = [tab EXCEPT !.out = o]
  BY DEF o
<1>8. OnlyQueues(t, tab) /\ t.out = o /\ t.held = tab.held /\ t.queued = tab.queued
  BY <1>3, <1>7 DEF Tabs, OnlyQueues
<1>9. t \in Tabs(t)
  BY <1>3, <1>6, <1>7 DEF Tabs
<1> HIDE DEF t
<1>10. \A i \in 1 .. Len(o) : IsLoad(o, i) =>
          i + 1 \in 1 .. Len(tab.out) /\ IsLoad(tab.out, i + 1) /\ o[i] = tab.out[i + 1]
  BY <1>5 DEF IsLoad
<1>11. LoadsInOrder(o)
  <2> SUFFICES ASSUME NEW i \in 1 .. Len(o), NEW j \in 1 .. Len(o), i < j, IsLoad(o, i), IsLoad(o, j)
               PROVE  o[i].seq <= o[j].seq
    BY DEF LoadsInOrder
  <2>1. i + 1 < j + 1
    OBVIOUS
  <2> QED BY <1>3, <1>10, <2>1 DEF QueuesOK, LoadsInOrder
<1>12. QueuesOK(t, loads)
  BY <1>3, <1>4, <1>5, <1>8, <1>11 DEF QueuesOK, OnlyQueues, Waitable
<1>13. TabOK(t, loads)
  BY <1>1, <1>8, <1>9, <1>12 DEF ReaderOK, TabFits, TabOK, OnlyQueues
<1>14. WaitingHighlight(t)
  BY <1>1, <1>8 DEF ReaderOK, TabFits, WaitingHighlight, OnlyQueues
<1>15. Meets(t, fr)
  <2>1. \A i \in 1 .. Len(t.out) : IsLoad(t.out, i) =>
          fr.seq <= t.out[i].seq /\ (fr.swap # NoNav => fr.swap.seq <= t.out[i].seq)
    BY <1>1, <1>8, <1>10 DEF ReaderOK, TabFits, Meets, Ahead, Believes
  <2> QED BY <1>1, <1>8, <2>1 DEF ReaderOK, TabFits, Meets, Ahead, Believes, OnlyQueues,
     Broken
<1>16. m.type = "load" => fr.seq <= m.seq
                          /\ \A i \in 1 .. Len(t.out) : IsLoad(t.out, i) => m.seq <= t.out[i].seq
  <2> SUFFICES ASSUME m.type = "load"
               PROVE  fr.seq <= m.seq /\ \A i \in 1 .. Len(o) : IsLoad(o, i) => m.seq <= o[i].seq
    BY <1>8
  <2>1. 1 \in 1 .. Len(tab.out) /\ IsLoad(tab.out, 1)
    BY <1>5 DEF IsLoad
  <2>2. fr.seq <= m.seq
    BY <1>1, <1>5, <2>1 DEF ReaderOK, TabFits, Meets, Ahead, Believes
  <2>3. ASSUME NEW i \in 1 .. Len(o), IsLoad(o, i) PROVE m.seq <= o[i].seq
    <3>1. 1 < i + 1
      OBVIOUS
    <3> QED BY <1>3, <1>5, <1>10, <2>1, <2>3, <3>1 DEF QueuesOK, LoadsInOrder
  <2> QED BY <2>2, <2>3
<1>17. TabFits(t, fr, loads) /\ FrameOK(fr, loads) /\ t.ready
  BY <1>1, <1>4, <1>8, <1>13, <1>14, <1>15 DEF TabFits, ReaderOK, OnlyQueues
<1>18. TabFits(t, Obey(fr, m), loads) /\ FrameOK(Obey(fr, m), loads)
  BY <1>5, <1>16, <1>17, ObeyFits
<1>19. Wanted(t, want)
  BY <1>1, <1>8 DEF ReaderOK, Wanted, Target, OnlyQueues
<1>20. landed'.aim = landed'.on
  <2>1. ASSUME m.type \in {"scroll", "turn", "highlight"}, ~IsStaleCommand(fr, m)
        PROVE  m.aim = fr.chapter
    BY <1>5, <1>17, <2>1 DEF IsStaleCommand, Sendable, LoadOf, FrameOK
  <2> QED BY <1>2, <2>1 DEF NoLanding
<1> QED BY <1>2, <1>18, <1>19, <1>20 DEF ReaderInv, ReaderOK, LandsWhereAimed

LEMMA CommitLoadKeeps == ASSUME ReaderInv, CommitLoad PROVE ReaderInv'
<1> DEFINE w == fr.swap
           g == [fr EXCEPT !.swap = NoNav, !.seq = w.seq, !.chapter = w.aim,
                           !.restoring = TRUE, !.search = NoChapter, !.marks = NoChapter,
                           !.reveal = [seq |-> w.seq, token |-> fr.token, at |-> w.at]]
<1>1. PICK loads \in Seq(Chapters) : ReaderOK(loads)
  BY DEF ReaderInv
<1>2. fr' = g /\ tab' = tab /\ want' = want /\ landed' = landed /\ w # NoNav
  BY DEF CommitLoad
<1>3. fr \in Documents /\ w \in Sendable(loads) /\ w.type = "load" /\ fr.seq <= w.seq
  BY <1>1, <1>2 DEF ReaderOK, FrameOK
<1>4. /\ w.seq \in Nat /\ w.aim \in AnyChapter /\ w.at \in FrameSpots /\ LoadOf(loads, w.seq, w.aim)
      /\ w.seq # 0 /\ w.seq <= Len(loads) /\ fr.seq \in Nat
  BY <1>3 DEF Sendable, ToFrames, LoadOf, Documents
<1> HIDE DEF w
<1>5. /\ g.seq = w.seq /\ g.place = fr.place /\ g.chapter = w.aim /\ g.swap = NoNav
      /\ g.reveal = [seq |-> w.seq, token |-> fr.token, at |-> w.at] /\ g.restoring
      /\ g.search = NoChapter /\ g.marks = NoChapter /\ g.out = fr.out /\ g.ready = fr.ready
  BY <1>3 DEF Documents
<1>6. g \in Documents
  <2>1. [seq |-> w.seq, token |-> fr.token, at |-> w.at] \in [seq : Nat, token : Nat, at : FrameSpots]
    BY <1>3, <1>4 DEF Documents
  <2>2. NoChapter \in AnyChapter
    BY Nothings
  <2> HIDE DEF w
  <2> QED BY <1>3, <1>4, <2>1, <2>2 DEF Documents
<1> HIDE DEF g
<1>7. FrameOK(g, loads)
  BY <1>1, <1>4, <1>5, <1>6 DEF ReaderOK, FrameOK
<1>8. Meets(tab, g)
  <2>1. tab.ready
    BY <1>1, <1>2 DEF ReaderOK, TabFits, Meets, Ahead, Believes, w
  <2>2. \A i \in 1 .. Len(tab.out) : IsLoad(tab.out, i) => g.seq <= tab.out[i].seq
    BY <1>1, <1>2, <1>5 DEF ReaderOK, TabFits, Meets, Ahead, Believes, w
  <2>3. fr.seq = tab.seq => g.seq = tab.seq
    BY <1>1, <1>3, <1>4, <1>5 DEF ReaderOK, TabFits, TabOK
  <2>4. Says(g, "loaded", tab.seq) <=> Says(fr, "loaded", tab.seq)
    BY <1>5 DEF Says
  <2>5. Broken(tab, g) <=> Broken(tab, fr)
    BY <1>5 DEF Broken, SaysReady
  <2> QED BY <1>1, <1>5, <2>1, <2>2, <2>3, <2>4, <2>5 DEF ReaderOK, TabFits, Meets, Ahead,
     Believes
<1> QED BY <1>1, <1>2, <1>7, <1>8 DEF ReaderInv, ReaderOK, TabFits, LandsWhereAimed

LEMMA RevealKeeps == ASSUME ReaderInv, Reveal PROVE ReaderInv'
<1> DEFINE d == [fr EXCEPT !.reveal = Blank.reveal]
           g == [d EXCEPT !.restoring = FALSE, !.place = Place(fr.chapter, fr.reveal.at),
                          !.marks = fr.search, !.search = NoChapter]
           m == [type |-> "loaded", seq |-> fr.seq]
<1>1. PICK loads \in Seq(Chapters) : ReaderOK(loads)
  BY DEF ReaderInv
<1>2. /\ fr' = IF IsStale(fr) THEN d ELSE FrameReports(Post(g, m))
      /\ tab' = tab /\ want' = want /\ landed' = landed /\ fr.reveal.seq # 0
  BY DEF Reveal
<1>3. fr \in Documents /\ TabFits(tab, fr, loads) /\ FrameOK(fr, loads)
  BY <1>1 DEF ReaderOK, FrameOK
<1>4. fr.seq # 0 /\ fr.seq \in 1 .. Len(loads) /\ tab.ready
  BY <1>2, <1>3 DEF FrameOK, LoadOf, TabFits, Meets, Ahead, Believes
<1>5. Blank.reveal = [seq |-> 0, token |-> 0, at |-> "none"]
  BY DEF Blank
<1>6. CASE IsStale(fr)
  <2>1. /\ d.seq = fr.seq /\ d.place = fr.place /\ d.chapter = fr.chapter /\ d.swap = fr.swap
        /\ d.reveal.seq = 0 /\ d.restoring = fr.restoring /\ d.search = fr.search
        /\ d.marks = fr.marks /\ d.out = fr.out /\ d.ready = fr.ready
    BY <1>3, <1>5 DEF Documents
  <2>2. d \in Documents
    BY <1>3, <1>5 DEF Documents, FrameSpots
  <2> HIDE DEF d
  <2>3. FrameOK(d, loads)
    BY <1>3, <2>1, <2>2 DEF FrameOK
  <2>4. FrameAside(d, fr)
    BY <2>1 DEF FrameAside
  <2>5. TabFits(tab, d, loads)
    BY <1>3, <2>4, FrameAsideFits
  <2> QED BY <1>1, <1>2, <1>6, <2>3, <2>5 DEF ReaderInv, ReaderOK, LandsWhereAimed
<1>7. CASE ~IsStale(fr)
  <2>1. g = [fr EXCEPT !.reveal = Blank.reveal, !.restoring = FALSE,
                       !.place = Place(fr.chapter, fr.reveal.at),
                       !.marks = fr.search, !.search = NoChapter]
    BY <1>3 DEF Documents
  <2>2. Place(fr.chapter, fr.reveal.at) \in AnyPlace /\ Place(fr.chapter, fr.reveal.at).chapter = fr.chapter
    BY <1>3 DEF Documents, Place, AnyPlace
  <2> HIDE DEF g
  <2>3. /\ g.seq = fr.seq /\ g.place.chapter = fr.chapter /\ g.chapter = fr.chapter
        /\ g.swap = fr.swap /\ g.reveal.seq = 0 /\ ~g.restoring /\ g.search = NoChapter
        /\ g.marks = fr.search /\ g.out = fr.out /\ g.ready = fr.ready
    BY <1>3, <1>5, <2>1, <2>2 DEF Documents
  <2>4. g \in Documents
    <3>1. Blank.reveal \in [seq : Nat, token : Nat, at : FrameSpots]
      BY <1>5 DEF FrameSpots
    <3>2. NoChapter \in AnyChapter
      BY Nothings
    <3> QED BY <1>3, <2>1, <2>2, <3>1, <3>2 DEF Documents
  <2>5. FrameOK(g, loads)
    BY <1>3, <2>3, <2>4 DEF FrameOK
  <2>6. FrameAside(g, fr)
    BY <2>3 DEF FrameAside
  <2>7. TabFits(tab, g, loads)
    BY <1>3, <2>6, FrameAsideFits
  <2>8. m \in Sayable(loads) /\ m.type = "loaded" /\ m.seq = g.seq
    BY <1>4, <2>3 DEF Sayable, Reports
  <2> HIDE DEF m
  <2>9. TabFits(tab, Post(g, m), loads) /\ FrameOK(Post(g, m), loads)
    BY <1>4, <2>5, <2>7, <2>8, PostFits
  <2>10. TabFits(tab, FrameReports(Post(g, m)), loads) /\ FrameOK(FrameReports(Post(g, m)), loads)
    BY <1>4, <2>9, ReportsFit
  <2> QED BY <1>1, <1>2, <1>7, <2>10 DEF ReaderInv, ReaderOK, LandsWhereAimed
<1> QED BY <1>6, <1>7

LEMMA ScrollToKeeps == ASSUME ReaderInv, NEW at \in FrameSpots, ScrollTo(at) PROVE ReaderInv'
<1> DEFINE g == [fr EXCEPT !.place.spot = at]
<1>1. PICK loads \in Seq(Chapters) : ReaderOK(loads)
  BY DEF ReaderInv
<1>2. fr' = FrameReports(g) /\ tab' = tab /\ want' = want /\ landed' = landed /\ fr.seq # 0
  BY DEF ScrollTo
<1>3. fr \in Documents /\ TabFits(tab, fr, loads) /\ FrameOK(fr, loads)
  BY <1>1 DEF ReaderOK, FrameOK
<1>4. tab.ready
  BY <1>2, <1>3 DEF TabFits, Meets, Ahead, Believes
<1>5. [fr.place EXCEPT !.spot = at] \in AnyPlace /\ [fr.place EXCEPT !.spot = at].chapter = fr.place.chapter
  BY <1>3 DEF Documents, AnyPlace
<1>6. /\ g.seq = fr.seq /\ g.place.chapter = fr.place.chapter /\ g.chapter = fr.chapter
      /\ g.swap = fr.swap /\ g.reveal = fr.reveal /\ g.restoring = fr.restoring
      /\ g.search = fr.search /\ g.marks = fr.marks /\ g.out = fr.out /\ g.ready = fr.ready
  BY <1>3, <1>5 DEF Documents
<1>7. g \in Documents
  BY <1>3, <1>5 DEF Documents
<1> HIDE DEF g
<1>8. FrameOK(g, loads)
  BY <1>3, <1>6, <1>7 DEF FrameOK
<1>9. FrameAside(g, fr)
  BY <1>6 DEF FrameAside
<1>10. TabFits(tab, g, loads)
  BY <1>3, <1>9, FrameAsideFits
<1>11. TabFits(tab, FrameReports(g), loads) /\ FrameOK(FrameReports(g), loads)
  BY <1>4, <1>8, <1>10, ReportsFit
<1> QED BY <1>1, <1>2, <1>11 DEF ReaderInv, ReaderOK, LandsWhereAimed

LEMMA PullPastKeeps ==
  ASSUME ReaderInv, NEW edge \in {"start", "end"}, PullPast(edge)
  PROVE ReaderInv'
<1> DEFINE m == [type |-> "edge", seq |-> fr.seq, edge |-> edge]
<1>1. PICK loads \in Seq(Chapters) : ReaderOK(loads)
  BY DEF ReaderInv
<1>2. fr' = Post(fr, m) /\ tab' = tab /\ want' = want /\ landed' = landed /\ fr.seq # 0
  BY DEF PullPast
<1>3. TabFits(tab, fr, loads) /\ FrameOK(fr, loads)
  BY <1>1 DEF ReaderOK
<1>4. tab.ready /\ fr.seq \in 1 .. Len(loads)
  BY <1>2, <1>3 DEF TabFits, Meets, Ahead, Believes, FrameOK, LoadOf
<1>5. m \in Sayable(loads) /\ m.type = "edge"
  BY <1>4 DEF Sayable, Reports
<1> HIDE DEF m
<1>6. TabFits(tab, Post(fr, m), loads) /\ FrameOK(Post(fr, m), loads)
  BY <1>3, <1>4, <1>5, PostFits
<1> QED BY <1>1, <1>2, <1>6 DEF ReaderInv, ReaderOK, LandsWhereAimed

-----------------------------------------------------------------------------
(* The reader.                                                             *)
LEMMA BlankFits ==
  /\ TabFits(TabInit, Blank, <<>>) /\ FrameOK(Blank, <<>>) /\ Wanted(TabInit, NoChapter)
  /\ <<>> \in Seq(Chapters) /\ TabInit \in Tabs(TabInit)
<1> DEFINE t == TabInit
<1>1. /\ t.chapter = 0 /\ t.seq = 0 /\ ~t.loaded /\ ~t.settled /\ ~t.ready /\ t.error = "none"
      /\ t.load = NoNav /\ ~t.aborted /\ t.pending = NoNav /\ t.highlight = NoChapter
      /\ t.timer = NoTimer /\ t.held = <<>> /\ t.queued = <<>> /\ t.out = <<>>
  BY DEF TabInit
<1>2. t \in Tabs(t)
  <2>1. <<>> \in Seq(ToFrames)
    OBVIOUS
  <2>2. Place(0, "top") \in AnyPlace
    BY Nothings DEF Place, AnyPlace, FrameSpots
  <2>3. NoNav \in MayNav /\ NoChapter \in AnyChapter /\ NoTimer \in [seq : Nat, aim : AnyChapter] /\ 0 \in Chapters
    BY Nothings
  <2> QED BY <2>1, <2>2, <2>3 DEF Tabs, TabInit
<1>3. /\ Blank.seq = 0 /\ Blank.chapter = NoChapter /\ Blank.swap = NoNav /\ Blank.reveal.seq = 0
      /\ Blank.place.chapter = NoChapter /\ Blank.search = NoChapter /\ Blank.marks = NoChapter
      /\ Blank.out = <<>> /\ ~Blank.ready
  BY DEF Blank, Place
<1>4. Blank \in Documents
  <2>1. <<>> \in Seq(Reports)
    OBVIOUS
  <2>2. Place(NoChapter, "top") \in AnyPlace /\ NoChapter \in AnyChapter
    BY Nothings DEF Place, AnyPlace, FrameSpots
  <2> QED BY <2>1, <2>2 DEF Documents, Blank, FrameSpots
<1> HIDE DEF t
<1>5. QueuesOK(t, <<>>)
  <2>1. <<>> \in Seq(Sendable(<<>>)) /\ <<>> \in Seq(Waitable(t)) /\ LoadsInOrder(<<>>) /\ OneOf(<<>>, "load")
    BY DEF LoadsInOrder, OneOf
  <2> QED BY <1>1, <2>1 DEF QueuesOK
<1>6. TabOK(t, <<>>)
  BY <1>1, <1>2, <1>5 DEF TabOK
<1>7. WaitingHighlight(t)
  BY <1>1 DEF WaitingHighlight, OneOf, Has
<1>8. Meets(t, Blank)
  BY <1>1, <1>3 DEF Meets, Ahead, Believes, IsLoad, Broken
<1>9. FrameOK(Blank, <<>>)
  <2>1. <<>> \in Seq(Sayable(<<>>))
    OBVIOUS
  <2> QED BY <1>3, <1>4, <2>1 DEF FrameOK
<1>10. Wanted(t, NoChapter)
  BY <1>1, Nothings DEF Wanted
<1>11. <<>> \in Seq(Chapters)
  OBVIOUS
<1> QED BY <1>2, <1>6, <1>7, <1>8, <1>9, <1>10, <1>11 DEF TabFits, t

LEMMA LeaveBookKeeps == ASSUME ReaderInv, Leave PROVE ReaderInv'
<1> DEFINE t == [TabInit EXCEPT !.save = tab.save, !.back = "gone"]
<1>1. PICK loads \in Seq(Chapters) : ReaderOK(loads)
  BY DEF ReaderInv
<1>2. tab' = t /\ fr' = Blank /\ want' = NoChapter /\ landed' = NoLanding
  BY DEF Leave
<1>3. tab.save \in AnyPlace
  BY <1>1 DEF ReaderOK, TabFits, TabOK, Tabs
<1>4. Aside(t, TabInit)
  <2>1. TabInit \in Tabs(TabInit)
    BY BlankFits
  <2>2. t \in Tabs(t)
    BY <1>3, <2>1 DEF Tabs
  <2>3. OnlyQueues(t, TabInit) /\ t.out = TabInit.out /\ t.held = TabInit.held /\ t.queued = TabInit.queued
    BY <2>1 DEF Tabs, OnlyQueues
  <2> QED BY <2>2, <2>3 DEF Aside
<1> HIDE DEF t
<1>5. TabFits(t, Blank, <<>>)
  BY <1>4, BlankFits, AsideFits
<1>6. Wanted(t, NoChapter)
  BY <1>4, BlankFits DEF Wanted, Aside, OnlyQueues, Target
<1> QED BY <1>2, <1>5, <1>6, BlankFits DEF ReaderInv, ReaderOK, LandsWhereAimed, NoLanding

LEMMA ReaderInitInv == ReaderInit => ReaderInv
<1> SUFFICES ASSUME ReaderInit PROVE ReaderOK(<<>>)
  BY BlankFits DEF ReaderInv
<1>1. tab = TabInit /\ fr = Blank /\ want = NoChapter /\ LandsWhereAimed
  BY DEF ReaderInit, LandsWhereAimed, NoLanding
<1> QED BY <1>1, BlankFits DEF ReaderOK

(* What is wanted stays so while only what is on its way differs.          *)
LEMMA StillWanted ==
  ASSUME NEW t, NEW s, NEW w, Wanted(t, w), OnlyQueues(s, t), w = NoChapter => s.queued = <<>>
  PROVE  Wanted(s, w)
BY DEF Wanted, OnlyQueues, Target

LEMMA LeadsKeeps ==
  ASSUME NEW c \in Chapters, Leads(tab', fr', c), want' = c, landed' = landed, ReaderInv
  PROVE  ReaderInv'
<1>1. Wanted(tab', c)
  BY Nothings DEF Leads, Wanted
<1> QED BY <1>1 DEF Leads, ReaderInv, ReaderOK, LandsWhereAimed

LEMMA ChapterArrivesKeeps ==
  ASSUME ReaderInv, NEW c \in Chapters, ChapterArrives(c) PROVE ReaderInv'
<1> DEFINE g == [tab EXCEPT !.wire[c] = "idle", !.cache = Admit(tab, c)]
<1>1. PICK loads \in Seq(Chapters) : ReaderOK(loads)
  BY DEF ReaderInv
<1>2. /\ tab' = IF WaitsFor(tab, c) THEN HandOver(g) ELSE g
      /\ fr' = fr /\ want' = want /\ landed' = landed
  BY DEF ChapterArrives, TabStep, FrameIdle
<1>3. tab \in Tabs(tab) /\ TabFits(tab, fr, loads) /\ FrameOK(fr, loads) /\ Wanted(tab, want)
  BY <1>1 DEF ReaderOK, TabFits, TabOK
<1>4. Aside(g, tab)
  BY <1>3 DEF Aside, OnlyQueues, Tabs
<1> HIDE DEF g
<1>5. TabFits(g, fr, loads)
  BY <1>3, <1>4, AsideFits
<1>6. CASE WaitsFor(tab, c)
  <2> DEFINE s == HandOver(g)
  <2>1. g.load # NoNav /\ ~g.aborted /\ g.load.chapter = c /\ g.pending = NoNav
    BY <1>4, <1>5, <1>6, Nothings DEF WaitsFor, Aside, OnlyQueues, TabFits, TabOK
  <2>2. /\ TabFits(s, fr, Append(loads, c)) /\ s.load = NoNav /\ s.pending = NoNav
        /\ s.chapter = c /\ s.seq = g.seq + 1
    BY <1>3, <1>5, <2>1, HandOverFits
  <2>3. FrameOK(fr, Append(loads, c)) /\ Append(loads, c) \in Seq(Chapters)
    BY <1>3, FrameGrows, MoreLoads
  <2> HIDE DEF s
  <2>4. Wanted(s, want)
    <3>1. tab.load # NoNav /\ tab.pending = NoNav /\ tab.load.chapter = c
      BY <1>4, <2>1 DEF Aside, OnlyQueues
    <3>2. want = c
      BY <1>3, <3>1 DEF Wanted, Target
    <3> QED BY <2>2, <3>2, Nothings DEF Wanted, Target
  <2> QED BY <1>1, <1>2, <1>6, <2>2, <2>3, <2>4 DEF s, ReaderInv, ReaderOK, LandsWhereAimed
<1>7. CASE ~WaitsFor(tab, c)
  <2>1. Wanted(g, want)
    BY <1>3, <1>4, StillWanted DEF Aside, Wanted
  <2> QED BY <1>1, <1>2, <1>3, <1>5, <1>7, <2>1 DEF ReaderInv, ReaderOK, LandsWhereAimed
<1> QED BY <1>6, <1>7

LEMMA ChapterFailsKeeps ==
  ASSUME ReaderInv, NEW c \in Chapters, ChapterFails(c) PROVE ReaderInv'
<1> DEFINE g == [tab EXCEPT !.wire[c] = "idle"]
<1>1. PICK loads \in Seq(Chapters) : ReaderOK(loads)
  BY DEF ReaderInv
<1>2. /\ tab' = IF WaitsFor(tab, c) THEN LoadFailed(g) ELSE g
      /\ fr' = fr /\ want' = want /\ landed' = landed
  BY DEF ChapterFails, TabStep, FrameIdle
<1>3. tab \in Tabs(tab) /\ TabFits(tab, fr, loads) /\ FrameOK(fr, loads) /\ Wanted(tab, want)
  BY <1>1 DEF ReaderOK, TabFits, TabOK
<1>4. Aside(g, tab)
  BY <1>3 DEF Aside, OnlyQueues, Tabs
<1> HIDE DEF g
<1>5. TabFits(g, fr, loads)
  BY <1>3, <1>4, AsideFits
<1>6. CASE WaitsFor(tab, c)
  <2> DEFINE s == [g EXCEPT !.load = NoNav, !.failed = g.load, !.error = "chapter"]
  <2>1. LoadFailed(g) = s
    BY DEF LoadFailed
  <2>2. g.load # NoNav /\ ~g.aborted /\ g.pending = NoNav /\ g \in Tabs(g) /\ QueuesOK(g, loads)
    BY <1>4, <1>5, <1>6, Nothings DEF WaitsFor, Aside, OnlyQueues, TabFits, TabOK
  <2>3. /\ s.chapter = g.chapter /\ s.seq = g.seq /\ s.loaded = g.loaded /\ s.settled = g.settled
        /\ s.ready = g.ready /\ s.error = "chapter" /\ s.load = NoNav
        /\ s.pending = NoNav /\ s.highlight = g.highlight /\ s.timer = g.timer
        /\ s.out = g.out /\ s.held = g.held /\ s.queued = g.queued
    BY <2>2 DEF Tabs
  <2>4. s \in Tabs(s)
    BY <2>2, Nothings DEF Tabs
  <2> HIDE DEF s
  <2>5. QueuesOK(s, loads)
    BY <2>2, <2>3 DEF QueuesOK, Waitable
  <2>6. TabOK(s, loads)
    BY <1>5, <2>3, <2>4, <2>5 DEF TabFits, TabOK
  <2>7. WaitingHighlight(s)
    BY <1>5, <2>3 DEF TabFits, WaitingHighlight
  <2>8. Meets(s, fr)
    BY <1>5, <2>3 DEF TabFits, Meets, Ahead, Believes, Broken
  <2>9. Wanted(s, want)
    <3>1. want # NoChapter
      BY <1>3, <1>4, <2>2 DEF Wanted, Aside, OnlyQueues
    <3> QED BY <1>3, <2>3, <3>1 DEF Wanted
  <2> QED BY <1>1, <1>2, <1>3, <1>6, <2>1, <2>6, <2>7, <2>8, <2>9 DEF ReaderInv, ReaderOK,
     TabFits, LandsWhereAimed
<1>7. CASE ~WaitsFor(tab, c)
  <2>1. Wanted(g, want)
    BY <1>3, <1>4, StillWanted DEF Aside, Wanted
  <2> QED BY <1>1, <1>2, <1>3, <1>5, <1>7, <2>1 DEF ReaderInv, ReaderOK, LandsWhereAimed
<1> QED BY <1>6, <1>7

LEMMA AbortLandsKeeps == ASSUME ReaderInv, AbortLands PROVE ReaderInv'
<1> DEFINE c == tab.load.chapter
           p == tab.pending
           g == [tab EXCEPT !.load = NoNav, !.wire[c] = IF @ = "nav" THEN "idle" ELSE @]
           s == [tab EXCEPT !.load = NoNav, !.wire[c] = IF @ = "nav" THEN "idle" ELSE @,
                            !.pending = NoNav]
<1>1. PICK loads \in Seq(Chapters) : ReaderOK(loads)
  BY DEF ReaderInv
<1>2. /\ tab' = Drained(g) /\ tab.load # NoNav /\ tab.aborted
      /\ fr' = fr /\ want' = want /\ landed' = landed
  BY DEF AbortLands, TabStep, FrameIdle
<1>3. /\ tab \in Tabs(tab) /\ TabFits(tab, fr, loads) /\ FrameOK(fr, loads) /\ Wanted(tab, want)
      /\ QueuesOK(tab, loads)
  BY <1>1 DEF ReaderOK, TabFits, TabOK
<1>4. p # NoNav /\ p \in Navs
  BY <1>2, <1>3 DEF TabFits, TabOK, Tabs, MayNav
<1>5. g.pending = p /\ [g EXCEPT !.pending = NoNav] = s
  BY <1>3 DEF Tabs
<1>6. tab' = LoadChapter(s, p)
  BY <1>2, <1>4, <1>5 DEF Drained
<1>7. /\ s.chapter = tab.chapter /\ s.seq = tab.seq /\ s.loaded = tab.loaded /\ s.settled = tab.settled
      /\ s.ready = tab.ready /\ s.error = tab.error /\ s.load = NoNav /\ s.pending = NoNav
      /\ s.highlight = tab.highlight /\ s.timer = tab.timer
      /\ s.out = tab.out /\ s.held = tab.held /\ s.queued = tab.queued
  BY <1>3 DEF Tabs
<1>8. s \in Tabs(s)
  BY <1>3, Nothings DEF Tabs
<1> HIDE DEF g, s, p
<1>9. QueuesOK(s, loads)
  BY <1>3, <1>7 DEF QueuesOK, Waitable
<1>10. TabOK(s, loads)
  BY <1>3, <1>7, <1>8, <1>9 DEF TabFits, TabOK
<1>11. WaitingHighlight(s)
  BY <1>3, <1>7 DEF TabFits, WaitingHighlight
<1>12. Ahead(s, fr)
  BY <1>3, <1>7 DEF TabFits, Meets, Ahead
<1>13. Loadable(s, fr, loads)
  BY <1>7, <1>10, <1>11, <1>12 DEF Loadable
<1>14. Leads(tab', fr', p.chapter)
  BY <1>2, <1>3, <1>4, <1>6, <1>13, LoadChapterLeads
<1>15. want = p.chapter /\ p.chapter \in Chapters
  BY <1>2, <1>3, <1>4 DEF Wanted, Target, p, Navs
<1> QED BY <1>2, <1>14, <1>15, LeadsKeeps

LEMMA FitsLoadable ==
  ASSUME NEW loads, NEW t, NEW f, TabFits(t, f, loads)
  PROVE  Loadable(t, f, loads) /\ t \in Tabs(t) /\ QueuesOK(t, loads)
BY DEF TabFits, Loadable, Meets, TabOK

LEMMA OpenAtKeeps ==
  ASSUME ReaderInv, NEW c \in Chapters, NEW at \in FrameSpots, OpenAt(c, at) PROVE ReaderInv'
<1> DEFINE s == [tab EXCEPT !.chapter = c, !.save = Place(c, at)]
           nav == [chapter |-> c, at |-> at]
<1>1. PICK loads \in Seq(Chapters) : ReaderOK(loads)
  BY DEF ReaderInv
<1>2. /\ tab' = LoadChapter(s, nav) /\ want = NoChapter
      /\ fr' = fr /\ want' = c /\ landed' = landed
  BY DEF OpenAt, TabStep
<1>3. /\ tab \in Tabs(tab) /\ TabFits(tab, fr, loads) /\ FrameOK(fr, loads) /\ Wanted(tab, want)
      /\ QueuesOK(tab, loads)
  BY <1>1, FitsLoadable DEF ReaderOK
<1>4. tab.seq = 0 /\ tab.load = NoNav /\ tab.queued = <<>> /\ tab.timer = NoTimer
  BY <1>2, <1>3 DEF Wanted
<1>5. /\ s.chapter = c /\ s.seq = tab.seq /\ s.loaded = tab.loaded /\ s.settled = tab.settled
      /\ s.ready = tab.ready /\ s.error = tab.error /\ s.load = NoNav /\ s.pending = tab.pending
      /\ s.highlight = tab.highlight /\ s.timer = tab.timer /\ s.aborted = tab.aborted
      /\ s.out = tab.out /\ s.held = tab.held /\ s.queued = tab.queued
  BY <1>3, <1>4 DEF Tabs
<1>6. s \in Tabs(s)
  <2>1. Place(c, at) \in AnyPlace
    BY Nothings DEF Place, AnyPlace
  <2> QED BY <1>3, <2>1 DEF Tabs
<1> HIDE DEF s
<1>7. QueuesOK(s, loads)
  <2>1. <<>> \in Seq(Waitable(s))
    OBVIOUS
  <2> QED BY <1>3, <1>4, <1>5, <2>1 DEF QueuesOK
<1>8. TabOK(s, loads)
  BY <1>3, <1>4, <1>5, <1>6, <1>7 DEF TabFits, TabOK
<1>9. WaitingHighlight(s)
  BY <1>3, <1>5 DEF TabFits, WaitingHighlight
<1>10. Ahead(s, fr)
  BY <1>3, <1>5 DEF TabFits, Meets, Ahead
<1>11. Loadable(s, fr, loads)
  BY <1>5, <1>8, <1>9, <1>10 DEF Loadable
<1>12. nav \in Navs /\ nav.chapter = c
  BY DEF Navs
<1> HIDE DEF nav
<1>13. Leads(tab', fr', c)
  BY <1>2, <1>3, <1>11, <1>12, LoadChapterLeads
<1> QED BY <1>2, <1>13, LeadsKeeps

(* A navigation leads where it says.                                       *)
LEMMA NavigationKeeps ==
  ASSUME ReaderInv, NEW nav \in Navs, tab' = LoadChapter(tab, nav), want' = nav.chapter,
         fr' = fr, landed' = landed
  PROVE  ReaderInv'
<1>1. PICK loads \in Seq(Chapters) : ReaderOK(loads)
  BY DEF ReaderInv
<1>2. Loadable(tab, fr, loads) /\ FrameOK(fr, loads)
  BY <1>1, FitsLoadable DEF ReaderOK
<1>3. Leads(tab', fr', nav.chapter)
  BY <1>2, LoadChapterLeads
<1>4. nav.chapter \in Chapters
  BY DEF Navs
<1> QED BY <1>3, <1>4, LeadsKeeps

(* A command for the chapter of the tab goes out or waits.                 *)
LEMMA CommandKeeps ==
  ASSUME ReaderInv, NEW m \in ToFrames, m.type \in {"scroll", "turn", "ask"}, m.aim = tab.chapter,
         NEW s, s = SendChapterCommand(tab, m), Aside(tab', s),
         want # NoChapter, want' = want, fr' = fr, landed' = landed
  PROVE  ReaderInv'
<1>1. PICK loads \in Seq(Chapters) : ReaderOK(loads)
  BY DEF ReaderInv
<1>2. TabFits(tab, fr, loads) /\ FrameOK(fr, loads) /\ Wanted(tab, want)
  BY <1>1 DEF ReaderOK
<1>3. TabFits(s, fr, loads) /\ OnlyQueues(s, tab)
  BY <1>2, CommandSent DEF Commands
<1>4. TabFits(tab', fr, loads)
  BY <1>3, AsideFits
<1>5. OnlyQueues(tab', tab)
  BY <1>3 DEF Aside, OnlyQueues
<1>6. Wanted(tab', want)
  BY <1>2, <1>5, StillWanted
<1> QED BY <1>1, <1>2, <1>4, <1>6 DEF ReaderInv, ReaderOK, LandsWhereAimed

LEMMA SelfAside == ASSUME NEW t, t \in Tabs(t) PROVE Aside(t, t)
BY DEF Aside, OnlyQueues

LEMMA SentTyped ==
  ASSUME NEW loads \in Seq(Chapters), TabFits(tab, fr, loads),
         NEW m \in ToFrames, m.type \in {"scroll", "turn", "ask"}, m.aim = tab.chapter
  PROVE  LET s == SendChapterCommand(tab, m) IN s \in Tabs(s)
<1>1. TabFits(SendChapterCommand(tab, m), fr, loads)
  BY CommandSent DEF Commands
<1> QED BY <1>1, FitsLoadable

LEMMA GoToKeeps ==
  ASSUME ReaderInv, NEW c \in Chapters, NEW at \in FrameSpots, GoTo(c, at) PROVE ReaderInv'
<1>1. PICK loads \in Seq(Chapters) : ReaderOK(loads)
  BY DEF ReaderInv
<1>2. fr' = fr /\ landed' = landed /\ want # NoChapter
  BY DEF GoTo
<1>3. tab \in Tabs(tab) /\ TabFits(tab, fr, loads)
  BY <1>1, FitsLoadable DEF ReaderOK
<1>4. CASE c # tab.chapter
  <2> DEFINE nav == [chapter |-> c, at |-> at]
  <2>1. nav \in Navs /\ nav.chapter = c /\ tab' = LoadChapter(tab, nav) /\ want' = c
    BY <1>4 DEF GoTo, TabStep, Navs
  <2> HIDE DEF nav
  <2> QED BY <1>2, <2>1, NavigationKeeps
<1>5. CASE c = tab.chapter
  <2> DEFINE m == Msg("scroll", tab.seq, c, at)
             s == SendChapterCommand(tab, m)
  <2>1. m \in ToFrames /\ m.type = "scroll" /\ m.aim = tab.chapter
    BY <1>3, <1>5, Nothings DEF Msg, ToFrames, Commands, Tabs
  <2>2. tab' = s /\ want' = want
    BY <1>5 DEF GoTo, TabStep
  <2> HIDE DEF m
  <2>3. Aside(s, s)
    BY <1>3, <2>1, SentTyped, SelfAside
  <2> HIDE DEF s
  <2> QED BY <1>2, <2>1, <2>2, <2>3, CommandKeeps DEF s
<1> QED BY <1>4, <1>5

LEMMA TurnPageKeeps ==
  ASSUME ReaderInv, NEW at \in FrameSpots, TurnPage(at) PROVE ReaderInv'
<1> DEFINE m == Msg("turn", tab.seq, tab.chapter, at)
           s == SendChapterCommand(tab, m)
<1>1. PICK loads \in Seq(Chapters) : ReaderOK(loads)
  BY DEF ReaderInv
<1>2. fr' = fr /\ landed' = landed /\ want # NoChapter /\ tab' = s /\ want' = want
  BY DEF TurnPage, TabStep
<1>3. tab \in Tabs(tab) /\ TabFits(tab, fr, loads)
  BY <1>1, FitsLoadable DEF ReaderOK
<1>4. m \in ToFrames /\ m.type = "turn" /\ m.aim = tab.chapter
  BY <1>3, Nothings DEF Msg, ToFrames, Commands, Tabs
<1> HIDE DEF m
<1>5. Aside(s, s)
  BY <1>3, <1>4, SentTyped, SelfAside
<1> HIDE DEF s
<1> QED BY <1>2, <1>4, <1>5, CommandKeeps DEF s

LEMMA PressBackKeeps == ASSUME ReaderInv, PressBack PROVE ReaderInv'
<1>1. PICK loads \in Seq(Chapters) : ReaderOK(loads)
  BY DEF ReaderInv
<1>2. CASE Leave
  BY <1>2, LeaveBookKeeps
<1>3. CASE ~Leave
  <2> DEFINE m == Msg("ask", tab.seq, tab.chapter, "none")
             s == SendChapterCommand(tab, m)
             b == [s EXCEPT !.back = "asking"]
  <2>1. fr' = fr /\ landed' = landed /\ want # NoChapter /\ tab' = b /\ want' = want
    BY <1>3 DEF PressBack, TabStep, FrameIdle
  <2>2. tab \in Tabs(tab) /\ TabFits(tab, fr, loads)
    BY <1>1, FitsLoadable DEF ReaderOK
  <2>3. m \in ToFrames /\ m.type = "ask" /\ m.aim = tab.chapter
    BY <2>2, Nothings DEF Msg, ToFrames, Commands, Tabs, FrameSpots
  <2> HIDE DEF m
  <2>4. s \in Tabs(s)
    BY <2>2, <2>3, SentTyped
  <2> HIDE DEF s
  <2>5. Aside(b, s)
    BY <2>4 DEF Aside, OnlyQueues, Tabs
  <2> HIDE DEF b
  <2> QED BY <2>1, <2>3, <2>5, CommandKeeps DEF s
<1> QED BY <1>2, <1>3

LEMMA RetryFailedKeeps == ASSUME ReaderInv, RetryFailed PROVE ReaderInv'
<1> DEFINE nav == IF tab.failed = NoNav THEN [chapter |-> tab.chapter, at |-> "top"] ELSE tab.failed
<1>1. PICK loads \in Seq(Chapters) : ReaderOK(loads)
  BY DEF ReaderInv
<1>2. tab' = LoadChapter(tab, nav) /\ want' = nav.chapter /\ fr' = fr /\ landed' = landed
  BY DEF RetryFailed, TabStep
<1>3. tab \in Tabs(tab)
  BY <1>1, FitsLoadable DEF ReaderOK
<1>4. nav \in Navs
  <2>1. tab.chapter \in Chapters /\ tab.failed \in Navs \cup {NoNav}
    BY <1>3 DEF Tabs, MayNav
  <2>2. [chapter |-> tab.chapter, at |-> "top"] \in Navs
    BY <2>1 DEF Navs, FrameSpots
  <2> QED BY <2>1, <2>2
<1> HIDE DEF nav
<1> QED BY <1>2, <1>4, NavigationKeeps

LEMMA ReadyTimeoutKeeps == ASSUME ReaderInv, ReadyTimeout PROVE ReaderInv'
<1> DEFINE s == FrameErrorShown(tab)
           b == [s EXCEPT !.deaf = TRUE]
<1>1. PICK loads \in Seq(Chapters) : ReaderOK(loads)
  BY DEF ReaderInv
<1>2. tab' = b /\ fr' = fr /\ want' = want /\ landed' = landed
  BY DEF ReadyTimeout, TabStep, FrameIdle
<1>3. TabFits(tab, fr, loads) /\ FrameOK(fr, loads) /\ Wanted(tab, want)
  BY <1>1 DEF ReaderOK
<1>4. /\ TabFits(s, fr, loads)
      /\ s.load = tab.load /\ s.pending = tab.pending /\ s.chapter = tab.chapter
      /\ s.seq = tab.seq /\ s.timer = tab.timer /\ s.queued = tab.queued
      /\ tab.error # "none" => s.error # "none"
  BY <1>3, ErrorShownFits
<1> HIDE DEF s
<1>5. Aside(b, s)
  <2>1. s \in Tabs(s)
    BY <1>4, FitsLoadable
  <2> QED BY <2>1 DEF Aside, OnlyQueues, Tabs
<1> HIDE DEF b
<1>6. TabFits(b, fr, loads)
  BY <1>4, <1>5, AsideFits
<1>7. Wanted(b, want)
  BY <1>3, <1>4, <1>5 DEF Wanted, Target, Aside, OnlyQueues
<1> QED BY <1>1, <1>2, <1>3, <1>6, <1>7 DEF ReaderInv, ReaderOK, LandsWhereAimed

LEMMA HighlightTimerKeeps == ASSUME ReaderInv, HighlightTimer PROVE ReaderInv'
<1> DEFINE t == [tab EXCEPT !.timer = NoTimer]
           m == Msg("highlight", tab.timer.seq, tab.timer.aim, "mid")
           s == SendChapterCommand(t, m)
<1>1. PICK loads \in Seq(Chapters) : ReaderOK(loads)
  BY DEF ReaderInv
<1>2. tab' = s /\ tab.timer # NoTimer /\ fr' = fr /\ want' = want /\ landed' = landed
  BY DEF HighlightTimer, TabStep, FrameIdle
<1>3. /\ tab \in Tabs(tab) /\ TabFits(tab, fr, loads) /\ FrameOK(fr, loads) /\ Wanted(tab, want)
      /\ QueuesOK(tab, loads)
  BY <1>1, FitsLoadable DEF ReaderOK
<1>4. m \in ToFrames /\ m.type = "highlight" /\ (m.seq = tab.seq => m.aim = tab.chapter)
  <2>1. LoadOf(loads, tab.timer.seq, tab.timer.aim) /\ (tab.seq # 0 => loads[tab.seq] = tab.chapter)
    BY <1>2, <1>3 DEF TabFits, TabOK
  <2>2. tab.timer.seq \in Nat /\ tab.timer.aim \in AnyChapter
    BY <1>3 DEF Tabs
  <2> QED BY <2>1, <2>2 DEF Msg, ToFrames, Commands, FrameSpots, LoadOf
<1>5. ~Has(tab.queued, "highlight") /\ tab.highlight = NoChapter /\ want # NoChapter
  BY <1>2, <1>3 DEF TabFits, WaitingHighlight, Wanted
<1> HIDE DEF m
<1>6. /\ t.chapter = tab.chapter /\ t.seq = tab.seq /\ t.loaded = tab.loaded /\ t.settled = tab.settled
      /\ t.ready = tab.ready /\ t.error = tab.error /\ t.load = tab.load /\ t.pending = tab.pending
      /\ t.highlight = tab.highlight /\ t.timer = NoTimer /\ t.aborted = tab.aborted
      /\ t.out = tab.out /\ t.held = tab.held /\ t.queued = tab.queued
  BY <1>3 DEF Tabs
<1>7. t \in Tabs(t)
  BY <1>3, Nothings DEF Tabs
<1> HIDE DEF t
<1>8. QueuesOK(t, loads)
  BY <1>3, <1>6 DEF QueuesOK, Waitable
<1>9. TabOK(t, loads)
  BY <1>3, <1>6, <1>7, <1>8 DEF TabFits, TabOK
<1>10. WaitingHighlight(t)
  BY <1>3, <1>5, <1>6 DEF TabFits, WaitingHighlight
<1>11. Meets(t, fr)
  BY <1>3, <1>6 DEF TabFits, Meets, Ahead, Believes, Broken
<1>12. TabFits(t, fr, loads)
  BY <1>9, <1>10, <1>11 DEF TabFits
<1>13. TabFits(s, fr, loads) /\ OnlyQueues(s, t)
  <2>1. m.type \in Commands \cup {"ask"}
    BY <1>4 DEF Commands
  <2>2. m.seq = t.seq => m.aim = t.chapter
    BY <1>4, <1>6
  <2>3. ~Has(t.queued, "highlight") /\ t.highlight = NoChapter /\ t.timer = NoTimer
    BY <1>5, <1>6
  <2> QED BY <1>4, <1>12, <2>1, <2>2, <2>3, CommandSent
<1> HIDE DEF s
<1>14. Wanted(s, want)
  BY <1>3, <1>5, <1>6, <1>13 DEF Wanted, Target, OnlyQueues
<1> QED BY <1>1, <1>2, <1>3, <1>13, <1>14 DEF ReaderInv, ReaderOK, LandsWhereAimed

LEMMA GoToResultKeeps ==
  ASSUME ReaderInv, NEW c \in Chapters, GoToResult(c) PROVE ReaderInv'
<1> DEFINE t == [tab EXCEPT !.highlight = NoChapter, !.timer = NoTimer]
           k == ClearHighlights(t)
           w == [k EXCEPT !.highlight = c]
           nav == [chapter |-> c, at |-> "top"]
           m == Msg("highlight", tab.seq, c, "mid")
<1>1. PICK loads \in Seq(Chapters) : ReaderOK(loads)
  BY DEF ReaderInv
<1>2. /\ tab' = IF c # tab.chapter THEN LoadChapter(w, nav)
                ELSE IF tab.load # NoNav THEN w ELSE SendChapterCommand(k, m)
      /\ want' = IF c # tab.chapter THEN c ELSE want
      /\ want # NoChapter /\ fr' = fr /\ landed' = landed
  BY DEF GoToResult, TabStep
<1>3. /\ tab \in Tabs(tab) /\ TabFits(tab, fr, loads) /\ FrameOK(fr, loads) /\ Wanted(tab, want)
      /\ QueuesOK(tab, loads)
  BY <1>1, FitsLoadable DEF ReaderOK
<1>4. /\ t.chapter = tab.chapter /\ t.seq = tab.seq /\ t.loaded = tab.loaded /\ t.settled = tab.settled
      /\ t.ready = tab.ready /\ t.error = tab.error /\ t.load = tab.load /\ t.pending = tab.pending
      /\ t.highlight = NoChapter /\ t.timer = NoTimer /\ t.aborted = tab.aborted
      /\ t.out = tab.out /\ t.held = tab.held /\ t.queued = tab.queued
  BY <1>3 DEF Tabs
<1>5. t \in Tabs(t)
  BY <1>3, Nothings DEF Tabs
<1> HIDE DEF t
<1>6. QueuesOK(t, loads)
  BY <1>3, <1>4 DEF QueuesOK, Waitable
<1>7. TabOK(t, loads)
  BY <1>3, <1>4, <1>5, <1>6 DEF TabFits, TabOK
<1>8. WaitingHighlight(t) /\ Meets(t, fr)
  BY <1>3, <1>4 DEF TabFits, WaitingHighlight, Meets, Ahead, Believes, Broken
<1>9. TabFits(t, fr, loads)
  BY <1>7, <1>8 DEF TabFits
<1>10. TabFits(k, fr, loads) /\ OnlyQueues(k, t) /\ ~Has(k.queued, "highlight")
  BY <1>9, Cleared
<1> HIDE DEF k
<1>11. k \in Tabs(k) /\ QueuesOK(k, loads)
  BY <1>10, FitsLoadable
<1>12. /\ w.chapter = k.chapter /\ w.seq = k.seq /\ w.loaded = k.loaded /\ w.settled = k.settled
       /\ w.ready = k.ready /\ w.error = k.error /\ w.load = k.load /\ w.pending = k.pending
       /\ w.highlight = c /\ w.timer = k.timer /\ w.aborted = k.aborted
       /\ w.out = k.out /\ w.held = k.held /\ w.queued = k.queued
  BY <1>11 DEF Tabs
<1>13. w \in Tabs(w)
  BY <1>11, Nothings DEF Tabs
<1> HIDE DEF w
<1>14. QueuesOK(w, loads)
  BY <1>11, <1>12 DEF QueuesOK, Waitable
<1>15. TabOK(w, loads)
  BY <1>10, <1>12, <1>13, <1>14 DEF TabFits, TabOK
<1>16. WaitingHighlight(w)
  BY <1>4, <1>10, <1>12 DEF TabFits, WaitingHighlight, OnlyQueues
<1>17. Meets(w, fr)
  BY <1>10, <1>12 DEF TabFits, Meets, Ahead, Believes, Broken
<1>18. TabFits(w, fr, loads)
  BY <1>15, <1>16, <1>17 DEF TabFits
<1>19. CASE c # tab.chapter
  <2>1. nav \in Navs /\ nav.chapter = c
    BY DEF Navs, FrameSpots
  <2> HIDE DEF nav
  <2>2. tab' = LoadChapter(w, nav) /\ want' = c
    BY <1>2, <1>19
  <2>3. Leads(LoadChapter(w, nav), fr, c)
    BY <1>3, <1>18, <2>1, FitsLoadable, LoadChapterLeads
  <2> QED BY <1>2, <2>2, <2>3, LeadsKeeps
<1>20. CASE c = tab.chapter /\ tab.load # NoNav
  <2>1. Wanted(w, want)
    BY <1>2, <1>3, <1>4, <1>10, <1>12 DEF Wanted, Target, OnlyQueues
  <2> QED BY <1>1, <1>2, <1>3, <1>18, <1>20, <2>1 DEF ReaderInv, ReaderOK, LandsWhereAimed
<1>21. CASE c = tab.chapter /\ ~(tab.load # NoNav)
  <2> DEFINE s == SendChapterCommand(k, m)
  <2>1. m \in ToFrames /\ m.type = "highlight" /\ m.seq = tab.seq /\ m.aim = c
    BY <1>3, Nothings DEF Msg, ToFrames, Commands, FrameSpots, Tabs
  <2>2. m.type \in Commands \cup {"ask"}
    BY <2>1 DEF Commands
  <2>3. m.seq = k.seq => m.aim = k.chapter
    BY <1>4, <1>10, <1>21, <2>1 DEF OnlyQueues
  <2>4. ~Has(k.queued, "highlight") /\ k.highlight = NoChapter /\ k.timer = NoTimer
    BY <1>4, <1>10 DEF OnlyQueues
  <2>5. tab' = s /\ want' = want
    BY <1>2, <1>21
  <2> HIDE DEF m
  <2>6. TabFits(s, fr, loads) /\ OnlyQueues(s, k)
    BY <1>10, <2>1, <2>2, <2>3, <2>4, CommandSent
  <2> HIDE DEF s
  <2>7. Wanted(s, want)
    BY <1>2, <1>3, <1>4, <1>10, <2>6 DEF Wanted, Target, OnlyQueues
  <2> QED BY <1>1, <1>2, <1>3, <2>5, <2>6, <2>7 DEF ReaderInv, ReaderOK, LandsWhereAimed
<1> QED BY <1>19, <1>20, <1>21

(* What the reader hears of the chapter's edge may load the next one.      *)
LEMMA OnEdgeLeads ==
  ASSUME NEW loads \in Seq(Chapters), NEW t, NEW f, TabFits(t, f, loads), FrameOK(f, loads),
         NEW m, NEW heed
  PROVE  LET s == OnEdge(t, m, heed)
         IN  \/ s = t
             \/ /\ Leads(s, f, IF s.load = NoNav THEN s.chapter ELSE s.load.chapter)
                /\ s.load # t.load \/ s.seq # t.seq
                /\ Target(s) \in Chapters
<1> DEFINE s == OnEdge(t, m, heed)
           next == [chapter |-> t.chapter + 1, at |-> "top"]
           prev == [chapter |-> t.chapter - 1, at |-> "end"]
<1>1. t \in Tabs(t) /\ Loadable(t, f, loads)
  BY FitsLoadable
<1>2. t.chapter \in Nat /\ t.chapter <= LastChapter /\ t.seq \in Nat
  BY <1>1, ReaderAssumption DEF Tabs, Chapters
<1>3. ASSUME NEW nav \in Navs, s = LoadChapter(t, nav), t.load = NoNav
      PROVE  /\ Leads(s, f, IF s.load = NoNav THEN s.chapter ELSE s.load.chapter)
             /\ s.load # t.load \/ s.seq # t.seq
             /\ Target(s) \in Chapters
  <2>1. Leads(s, f, nav.chapter) /\ s.pending = NoNav /\ (s.load # NoNav \/ s.seq = t.seq + 1)
    BY <1>1, <1>3, LoadChapterLeads
  <2> HIDE DEF s
  <2>2. nav.chapter = (IF s.load = NoNav THEN s.chapter ELSE s.load.chapter) /\ Target(s) = nav.chapter
    BY <2>1 DEF Leads, Target
  <2>3. nav.chapter \in Chapters
    BY DEF Navs
  <2> QED BY <1>2, <1>3, <2>1, <2>2, <2>3
<1>4. CASE t.load = NoNav /\ heed /\ m.edge = "end" /\ t.chapter < LastChapter
  <2>1. s = LoadChapter(t, next)
    BY <1>4 DEF OnEdge
  <2>2. next \in Navs
    BY <1>2, <1>4, ReaderAssumption DEF Navs, Chapters, FrameSpots
  <2> HIDE DEF s, next
  <2> QED BY <1>3, <1>4, <2>1, <2>2 DEF s
<1>5. CASE t.load = NoNav /\ heed /\ ~(m.edge = "end" /\ t.chapter < LastChapter)
           /\ m.edge = "start" /\ t.chapter > 0
  <2>1. s = LoadChapter(t, prev)
    BY <1>5 DEF OnEdge
  <2>2. prev \in Navs
    BY <1>2, <1>5, ReaderAssumption DEF Navs, Chapters, FrameSpots
  <2> HIDE DEF s, prev
  <2> QED BY <1>3, <1>5, <2>1, <2>2 DEF s
<1>6. CASE ~(t.load = NoNav /\ heed /\ m.edge = "end" /\ t.chapter < LastChapter)
           /\ ~(t.load = NoNav /\ heed /\ ~(m.edge = "end" /\ t.chapter < LastChapter)
                /\ m.edge = "start" /\ t.chapter > 0)
  <2>1. s = t
    BY <1>6 DEF OnEdge
  <2> QED BY <2>1
<1> QED BY <1>4, <1>5, <1>6

LEMMA TabHandlesKeeps == ASSUME ReaderInv, TabHandles PROVE ReaderInv'
<1>1. PICK loads \in Seq(Chapters) : ReaderOK(loads)
  BY DEF ReaderInv
<1>2. CASE Leave
  BY <1>2, LeaveBookKeeps
<1>3. CASE ~Leave
  <2> DEFINE m == Head(fr.out)
             g == [fr EXCEPT !.out = Tail(@)]
  <2>1. PICK heed \in BOOLEAN :
          LET t == Heard(tab, m, heed)
          IN  /\ tab' = t /\ fr' = g
              /\ want' = IF m.type = "edge" /\ (t.load # tab.load \/ t.seq # tab.seq)
                         THEN IF t.load = NoNav THEN t.chapter ELSE t.load.chapter
                         ELSE want
              /\ landed' = IF m.type = "position" /\ FromThisLoad(tab, m)
                           THEN [aim |-> m.chapter, on |-> m.place.chapter] ELSE NoLanding
    BY <1>3 DEF TabHandles, TabStep
  <2>2. fr.out # <<>>
    BY DEF TabHandles
  <2>3. /\ tab \in Tabs(tab) /\ TabFits(tab, fr, loads) /\ FrameOK(fr, loads) /\ Wanted(tab, want)
    BY <1>1, FitsLoadable DEF ReaderOK
  <2>4. FrameOK(g, loads) /\ m = fr.out[1] /\ m \in Sayable(loads)
    BY <2>2, <2>3, TailOK
  <2> DEFINE t == Heard(tab, m, heed)
  <2>5. landed'.aim = landed'.on
    BY <2>1, <2>4 DEF Sayable, NoLanding
  <2>6. m.type \in {"ready", "loaded", "position", "edge"}
    BY <2>4 DEF Sayable, Reports
  <2>7. m.type # "ready" => TabFits(tab, g, loads)
    BY <2>2, <2>3, <2>4, HeardFits
  <2> HIDE DEF m
  <2>8. ASSUME m.type # "edge", TabFits(t, g, loads), Wanted(t, want) PROVE ReaderInv'
    BY <2>1, <2>4, <2>5, <2>8 DEF ReaderInv, ReaderOK, LandsWhereAimed
  <2>9. CASE m.type = "ready"
    <3> DEFINE s == OnReady(tab)
    <3>1. t = s
      BY <2>9 DEF Heard
    <3>2. /\ TabFits(s, g, loads)
          /\ s.load = tab.load /\ s.pending = tab.pending /\ s.chapter = tab.chapter
          /\ s.seq = tab.seq /\ s.timer = tab.timer
          /\ tab.error # "none" => s.error # "none"
          /\ tab.queued = <<>> => s.queued = <<>>
      BY <2>2, <2>3, <2>4, <2>9, OnReadyFits
    <3> HIDE DEF s, t, g
    <3>3. Wanted(s, want)
      BY <2>3, <3>2 DEF Wanted, Target
    <3> QED BY <2>8, <2>9, <3>1, <3>2, <3>3
  <2>10. CASE m.type = "loaded" /\ FromThisLoad(tab, m)
    <3> DEFINE s == OnLoaded(tab)
    <3>1. t = s
      BY <2>10 DEF Heard
    <3>2. /\ TabFits(s, g, loads)
          /\ s.load = tab.load /\ s.pending = tab.pending /\ s.chapter = tab.chapter
          /\ s.seq = tab.seq /\ s.seq # 0 /\ s.error = tab.error
      BY <2>2, <2>3, <2>4, <2>10, OnLoadedFits DEF FromThisLoad
    <3> HIDE DEF s, t, g
    <3>3. Wanted(s, want)
      BY <2>3, <3>2 DEF Wanted, Target
    <3> QED BY <2>8, <2>10, <3>1, <3>2, <3>3
  <2>11. CASE m.type = "position" /\ FromThisLoad(tab, m)
    <3> DEFINE s == OnPosition(tab, m)
    <3>1. t = s
      BY <2>11 DEF Heard
    <3>2. Place(m.chapter, m.place.spot) \in AnyPlace
      BY <2>4, <2>11 DEF Sayable, Reports, AnyPlace, Place
    <3>3. Aside(s, tab)
      BY <2>3, <3>2 DEF OnPosition, Aside, OnlyQueues, Tabs
    <3> HIDE DEF s, t, g
    <3>4. TabFits(s, g, loads)
      BY <2>7, <2>11, <3>3, AsideFits
    <3>5. Wanted(s, want)
      BY <2>3, <3>3, StillWanted DEF Aside, Wanted
    <3> QED BY <2>8, <2>11, <3>1, <3>4, <3>5
  <2>12. CASE m.type = "edge" /\ FromThisLoad(tab, m)
    <3> DEFINE s == OnEdge(tab, m, heed)
    <3>1. t = s
      BY <2>12 DEF Heard
    <3>2. TabFits(tab, g, loads)
      BY <2>7, <2>12
    <3> HIDE DEF g
    <3>3. \/ s = tab
          \/ /\ Leads(s, g, IF s.load = NoNav THEN s.chapter ELSE s.load.chapter)
             /\ s.load # tab.load \/ s.seq # tab.seq
             /\ Target(s) \in Chapters
      BY <2>4, <3>2, OnEdgeLeads
    <3>4. /\ tab' = s /\ fr' = g
          /\ want' = IF s.load # tab.load \/ s.seq # tab.seq
                     THEN IF s.load = NoNav THEN s.chapter ELSE s.load.chapter
                     ELSE want
      BY <2>1, <2>12, <3>1
    <3> HIDE DEF s, t
    <3>5. CASE s = tab
      BY <2>3, <2>4, <2>5, <3>2, <3>4, <3>5 DEF ReaderInv, ReaderOK, LandsWhereAimed
    <3>6. CASE s # tab
      <4> DEFINE c == IF s.load = NoNav THEN s.chapter ELSE s.load.chapter
      <4>1. Leads(s, g, c) /\ Target(s) \in Chapters /\ want' = c
        BY <3>3, <3>4, <3>6
      <4>2. PICK ls \in Seq(Chapters) : TabFits(s, g, ls) /\ FrameOK(g, ls)
        BY <4>1 DEF Leads
      <4>3. Target(s) = c
        BY <4>1 DEF Leads
      <4> HIDE DEF c
      <4>4. Wanted(s, c)
        BY <4>1, <4>3, Nothings DEF Wanted
      <4> QED BY <2>5, <3>4, <4>1, <4>2, <4>4 DEF ReaderInv, ReaderOK, LandsWhereAimed
    <3> QED BY <3>5, <3>6
  <2>13. CASE m.type # "ready" /\ ~FromThisLoad(tab, m)
    <3>1. t = tab
      BY <2>13 DEF Heard
    <3>2. want' = want
      BY <2>1, <3>1
    <3> HIDE DEF t, g
    <3> QED BY <2>1, <2>3, <2>4, <2>5, <2>7, <2>13, <3>1, <3>2 DEF ReaderInv, ReaderOK,
       LandsWhereAimed, t
  <2> QED BY <2>6, <2>9, <2>10, <2>11, <2>12, <2>13
<1> QED BY <1>2, <1>3

-----------------------------------------------------------------------------
LEMMA ReaderNextInv == ReaderInv /\ [ReaderNext]_readerVars => ReaderInv'
<1> SUFFICES ASSUME ReaderInv, [ReaderNext]_readerVars PROVE ReaderInv'
  OBVIOUS
<1>0. {"top", "mid", "end"} \subseteq FrameSpots
  BY DEF FrameSpots
<1>1. ASSUME NEW c \in Chapters,
             ChapterArrives(c) \/ ChapterFails(c) \/ OpenAt(c, "mid") \/ GoTo(c, "top") \/ GoToResult(c)
      PROVE  ReaderInv'
  BY <1>0, <1>1, ChapterArrivesKeeps, ChapterFailsKeeps, OpenAtKeeps, GoToKeeps,
     GoToResultKeeps
<1>2. CASE AbortLands
  BY <1>2, AbortLandsKeeps
<1>3. CASE FrameHandles
  BY <1>3, FrameHandlesKeeps
<1>4. CASE CommitLoad
  BY <1>4, CommitLoadKeeps
<1>5. CASE Reveal
  BY <1>5, RevealKeeps
<1>6. CASE TabHandles
  BY <1>6, TabHandlesKeeps
<1>7. CASE HighlightTimer
  BY <1>7, HighlightTimerKeeps
<1>8. CASE ReadyTimeout
  BY <1>8, ReadyTimeoutKeeps
<1>9. CASE BackTimesOut
  BY <1>9, LeaveBookKeeps DEF BackTimesOut
<1>10. CASE PressBack
  BY <1>10, PressBackKeeps
<1>11. CASE RetryFailed
  BY <1>11, RetryFailedKeeps
<1>12. CASE FrameReady
  BY <1>12, FrameReadyKeeps
<1>13. CASE FrameRestarts
  BY <1>13, FrameRestartsKeeps
<1>14. CASE TurnPage("end")
  BY <1>0, <1>14, TurnPageKeeps
<1>15. CASE ScrollTo("mid")
  BY <1>0, <1>15, ScrollToKeeps
<1>16. CASE PullPast("start") \/ PullPast("end")
  BY <1>16, PullPastKeeps
<1>17. CASE UNCHANGED readerVars
  BY <1>17 DEF readerVars, ReaderInv, ReaderOK, LandsWhereAimed
<1> QED BY <1>1, <1>2, <1>3, <1>4, <1>5, <1>6, <1>7, <1>8, <1>9, <1>10, <1>11, <1>12, <1>13,
           <1>14, <1>15, <1>16, <1>17 DEF ReaderNext

(* Commands, reports and search marks reach the chapter they are of, for   *)
(* any chapters, queues and any number of navigations and frame restarts   *)
(* (acceptFrameMessage, isStaleCommand).                                   *)
THEOREM ReachesItsChapter == ReaderSpec => []NothingStrays
<1>1. ASSUME ReaderInv PROVE NothingStrays
  <2>1. PICK loads \in Seq(Chapters) : ReaderOK(loads)
    BY <1>1 DEF ReaderInv
  <2> QED BY <2>1 DEF ReaderOK, FrameOK, NothingStrays, MarksBelong
<1> QED BY <1>1, ReaderInitInv, ReaderNextInv, PTL DEF ReaderSpec

(* Whatever was superseded, aborted or lost on the way, a reader and frame *)
(* at rest are both in the chapter asked for last (loadChapter).           *)
THEOREM LastLoadShown == ReaderSpec => []LatestLoadWins
<1>1. ASSUME ReaderInv PROVE LatestLoadWins
  <2>1. PICK loads \in Seq(Chapters) : ReaderOK(loads)
    BY <1>1 DEF ReaderInv
  <2> SUFFICES ASSUME Settled PROVE fr.chapter = want /\ tab.chapter = want
    BY DEF LatestLoadWins
  <2>2. TabOK(tab, loads) /\ Believes(tab, fr) /\ FrameOK(fr, loads) /\ Wanted(tab, want)
    BY <2>1 DEF ReaderOK, TabFits, Meets
  <2>3. ~Broken(tab, fr)
    BY DEF Settled, Broken, SaysReady, Has
  <2>4. fr.seq = tab.seq /\ tab.seq # 0 /\ tab.load = NoNav /\ tab.error = "none"
    BY <2>2, <2>3 DEF Settled, Believes, TabOK
  <2>5. fr.chapter = tab.chapter
    BY <2>2, <2>4 DEF TabOK, FrameOK, LoadOf
  <2>6. tab.pending = NoNav
    BY <2>2, <2>4 DEF TabOK
  <2>7. want = tab.chapter
    BY <2>2, <2>4, <2>6 DEF Wanted, Target
  <2> QED BY <2>5, <2>7
<1> QED BY <1>1, ReaderInitInv, ReaderNextInv, PTL DEF ReaderSpec

-----------------------------------------------------------------------------
(* The bookmarks of a book (Bookmarks)                                     *)

Marks == [id : Nat, place : Spots, text : Nat]
Changes == {"del", "undo", "remove", "edit"}
Creations == {"add", "readd"}
MarkCalls == [kind : {"read"} \cup Changes \cup Creations,
              bm : [id : Nat, place : Spots \cup {0}, text : Nat],
              prior : [id : Nat, place : Spots \cup {0}, text : Nat],
              served : {"no", "ok", "failed"}, got : SUBSET Marks]

BookmarksTypeOK ==
    /\ memo = shown
    /\ here \in Spots /\ toggle \in [busy : BOOLEAN, queued : BOOLEAN]
    /\ counts \in [ids : Nat, presses : Nat, changes : Nat, reads : Nat]
    /\ unsure \in SUBSET Spots

(* Ids are given once, each for a place: whatever still names a bookmark,  *)
(* shown, kept or in a call, agrees on where its id belongs.               *)
IdFits(x, f, n) == x \in Marks /\ x.id \in 1 .. n /\ x.place = f[x.id]
Made(c) == [c.bm EXCEPT !.id = c.prior.id]

CallFits(c, f, n) ==
    /\ \A x \in c.got : IdFits(x, f, n)
    /\ c.kind \in Changes => IdFits(c.bm, f, n) /\ IdFits(c.prior, f, n) /\ c.prior.id = c.bm.id
    /\ c.kind \in Creations => c.bm.place \in Spots /\ (c.served = "ok" => IdFits(Made(c), f, n))

ListFits(rows, f, n) == \A x \in rows : IdFits(x, f, n)
CallsFit(cs, f, n) == \A c \in cs : c \in MarkCalls /\ CallFits(c, f, n)
IdsFit(f) == ListFits(kept, f, counts.ids) /\ ListFits(shown, f, counts.ids) /\ CallsFit(calls, f, counts.ids)

MarksFit == \E f \in [Nat -> Spots] : IdsFit(f)

(* What a call leaves of its place, there and in the list, until and after *)
(* it has been served.                                                     *)
Pending(c, there, listed) ==
    CASE c.kind \in Creations -> listed = {} /\ there = (IF c.served = "ok" THEN {Made(c)} ELSE {})
      [] c.kind = "edit" -> listed = {c.bm} /\ there = {IF c.served = "ok" THEN c.bm ELSE c.prior}
      [] OTHER -> listed = {} /\ c.bm = c.prior /\ there = (IF c.served = "ok" THEN {} ELSE {c.prior})

Of(c, p) == c.kind # "read" /\ c.bm.place = p
AtMostOne(set) == \A x, y \in set : x = y

(* A place nothing untoward has happened to has one call at most, and      *)
(* without one what is listed is what is there, or was never read.         *)
PlaceAgrees(p) ==
    /\ \A c, d \in calls : Of(c, p) /\ Of(d, p) => c = d
    /\ \A c \in calls : Of(c, p) => Pending(c, At(kept, p), At(shown, p))
    /\ ~OpOn(p) => /\ AtMostOne(At(kept, p))
                   /\ At(shown, p) = At(kept, p) \/ (ListUnread /\ At(shown, p) = {})

PlacesAgreeing == \A p \in Spots \ unsure : PlaceAgrees(p)

MarksInv == BookmarksTypeOK /\ MarksFit /\ PlacesAgreeing

(* Lists, a place of a list, and what an id takes out of one.              *)

With(rows, b) == rows \cup {b}
Less(rows, b) == rows \ {b}
Without(rows, id) == rows \ ById(rows, id)

LEMMA AtWith ==
  ASSUME NEW f, NEW n, NEW rows, ListFits(rows, f, n), NEW b, IdFits(b, f, n)
  PROVE  /\ ListFits(With(rows, b), f, n)
         /\ At(With(rows, b), b.place) = With(At(rows, b.place), b)
         /\ \A p : p # b.place => At(With(rows, b), p) = At(rows, p)
BY DEF ListFits, At, With

LEMMA AtLess ==
  ASSUME NEW f, NEW n, NEW rows, ListFits(rows, f, n), NEW b, IdFits(b, f, n)
  PROVE  /\ ListFits(Less(rows, b), f, n)
         /\ At(Less(rows, b), b.place) = Less(At(rows, b.place), b)
         /\ \A p : p # b.place => At(Less(rows, b), p) = At(rows, p)
BY DEF ListFits, At, Less

LEMMA AtWithout ==
  ASSUME NEW f, NEW n, NEW rows, ListFits(rows, f, n), NEW b, IdFits(b, f, n)
  PROVE  /\ ListFits(Without(rows, b.id), f, n)
         /\ At(Without(rows, b.id), b.place) = Without(At(rows, b.place), b.id)
         /\ \A p : p # b.place => At(Without(rows, b.id), p) = At(rows, p)
         /\ ById(rows, b.id) = ById(At(rows, b.place), b.id)
<1>1. \A x \in rows : x.id = b.id => x.place = b.place
  BY DEF ListFits, IdFits
<1>2. ListFits(Without(rows, b.id), f, n)
  BY DEF ListFits, Without
<1>3. At(Without(rows, b.id), b.place) = Without(At(rows, b.place), b.id)
  BY DEF At, ById, Without
<1>4. \A p : p # b.place => At(Without(rows, b.id), p) = At(rows, p)
  BY <1>1 DEF At, ById, Without
<1>5. ById(rows, b.id) = ById(At(rows, b.place), b.id)
  BY <1>1 DEF At, ById
<1> QED BY <1>2, <1>3, <1>4, <1>5

LEMMA WithoutTheOne ==
  ASSUME NEW b
  PROVE  Without({b}, b.id) = {} /\ Less({b}, b) = {} /\ ById({b}, b.id) = {b}
BY DEF Without, ById, Less

(* An id that is given now is none of those that were.                     *)
LEMMA IdGrows ==
  ASSUME NEW f \in [Nat -> Spots], NEW n \in Nat, NEW q \in Spots
  PROVE  \E g \in [Nat -> Spots] : g[n + 1] = q /\ \A x : IdFits(x, f, n) => IdFits(x, g, n + 1)
<1>1. PICK g : g = [f EXCEPT ![n + 1] = q]
  OBVIOUS
<1>2. n + 1 \in Nat
  OBVIOUS
<1>3. g \in [Nat -> Spots] /\ g[n + 1] = q /\ \A i \in 1 .. n : g[i] = f[i] /\ i \in 1 .. n + 1
  BY <1>1, <1>2
<1>4. \A x : IdFits(x, f, n) => IdFits(x, g, n + 1)
  BY <1>3 DEF IdFits
<1> QED BY <1>3, <1>4

LEMMA MarksFitGrow ==
  ASSUME NEW f, NEW n, NEW g, NEW m, \A x : IdFits(x, f, n) => IdFits(x, g, m)
  PROVE  /\ \A rows : ListFits(rows, f, n) => ListFits(rows, g, m)
         /\ \A c : CallFits(c, f, n) => CallFits(c, g, m)
         /\ \A cs : CallsFit(cs, f, n) => CallsFit(cs, g, m)
BY DEF ListFits, CallFits, CallsFit

(* What the next state makes of a place.                                   *)
LEMMA PlaceStays ==
  ASSUME NEW p, PlaceAgrees(p), At(kept', p) = At(kept, p), At(shown', p) = At(shown, p),
         \A c : Of(c, p) => (c \in calls <=> c \in calls'), ListUnread => ListUnread'
  PROVE  PlaceAgrees(p)'
BY DEF PlaceAgrees, OpOn, Of

LEMMA PlaceHasCall ==
  ASSUME NEW p, NEW c \in calls', Of(c, p), \A d \in calls' : Of(d, p) => d = c,
         Pending(c, At(kept', p), At(shown', p))
  PROVE  PlaceAgrees(p)'
BY DEF PlaceAgrees, OpOn, Of

LEMMA PlaceSettles ==
  ASSUME NEW p, \A d \in calls' : ~Of(d, p), At(kept', p) = At(shown', p), AtMostOne(At(kept', p))
  PROVE  PlaceAgrees(p)'
BY DEF PlaceAgrees, OpOn, Of

LEMMA CallTyped ==
  ASSUME NEW kind \in Changes \cup Creations, NEW b \in [id : Nat, place : Spots \cup {0}, text : Nat],
         NEW d \in [id : Nat, place : Spots \cup {0}, text : Nat], NEW c, c = Call(kind, b, d)
  PROVE  c \in MarkCalls /\ c.kind = kind /\ c.bm = b /\ c.prior = d /\ c.served = "no" /\ c.got = {}
BY DEF MarkCalls, Call, Changes, Creations

LEMMA NobodyTyped == Nobody \in [id : Nat, place : Spots \cup {0}, text : Nat]
BY DEF Nobody

LEMMA CreationTyped ==
  ASSUME NEW b \in [id : Nat, place : Spots \cup {0}, text : Nat], NEW c,
         c = Call("add", b, Nobody) \/ c = Call("readd", b, Nobody)
  PROVE  c \in MarkCalls /\ c.kind \in Creations /\ c.bm = b /\ c.served = "no" /\ c.got = {}
<1>1. PICK kind \in {"add", "readd"} : c = Call(kind, b, Nobody)
  OBVIOUS
<1>2. kind \in Changes \cup Creations /\ kind \in Creations
  BY DEF Creations
<1>3. PICK d \in [id : Nat, place : Spots \cup {0}, text : Nat] : d = Nobody
  BY NobodyTyped
<1>4. c = Call(kind, b, d)
  BY <1>1, <1>3
<1> QED BY <1>2, <1>4, CallTyped

-----------------------------------------------------------------------------
(* The toggle starts at the place the reader is, by what it sees there.    *)
LEMMA ToggleStartsCall ==
  ASSUME NEW f \in [Nat -> Spots], NEW n \in Nat, NEW seen, NEW rows, NEW rest, here \in Spots,
         ListFits(seen, f, n), ListFits(rows, f, n), CallsFit(rest, f, n), ToggleStarts(seen, rows, rest)
  PROVE  /\ CallsFit(calls', f, n) /\ ListFits(shown', f, n) /\ memo' = shown'
         /\ \E m : /\ calls' = rest \cup {m} /\ Of(m, here)
                   /\ rows = seen /\ AtMostOne(At(seen, here)) => Pending(m, At(seen, here), At(shown', here))
         /\ \A p : p # here => At(shown', p) = At(rows, p)
<1>1. CASE At(seen, here) = {}
  <2>1. PICK bm : bm = [id |-> 0, place |-> here, text |-> 0]
    OBVIOUS
  <2>2. bm \in [id : Nat, place : Spots \cup {0}, text : Nat] /\ bm.place = here
    BY <2>1
  <2>3. PICK m : m = Call("add", bm, Nobody)
    OBVIOUS
  <2>4. m \in MarkCalls /\ m.kind = "add" /\ m.bm = bm /\ m.served = "no" /\ m.got = {}
    <3>1. m.kind = "add"
      BY <2>3 DEF Call
    <3> QED BY <2>2, <2>3, <3>1, CreationTyped
  <2>5. calls' = rest \cup {m} /\ shown' = rows /\ memo' = rows
    BY <1>1, <2>1, <2>3 DEF ToggleStarts, Shown
  <2>6. CallFits(m, f, n)
    BY <2>2, <2>4 DEF CallFits, Changes
  <2>7. CallsFit(calls', f, n)
    BY <2>4, <2>5, <2>6 DEF CallsFit
  <2>8. Of(m, here)
    BY <2>2, <2>4 DEF Of
  <2>9. rows = seen => Pending(m, At(seen, here), At(shown', here))
    BY <1>1, <2>4, <2>5 DEF Pending, Creations
  <2> QED BY <2>5, <2>7, <2>8, <2>9
<1>2. CASE At(seen, here) # {}
  <2>1. PICK b \in At(seen, here) : calls' = rest \cup {Call("del", b, b)} /\ Shown(rows \ ById(rows, b.id))
    BY <1>2 DEF ToggleStarts
  <2>2. b \in Marks /\ b.place = here /\ IdFits(b, f, n)
    BY <2>1 DEF At, ListFits, IdFits
  <2>3. PICK m : m = Call("del", b, b)
    OBVIOUS
  <2>4. b \in [id : Nat, place : Spots \cup {0}, text : Nat]
    BY <2>2 DEF Marks
  <2>5. m \in MarkCalls /\ m.kind = "del" /\ m.bm = b /\ m.prior = b /\ m.served = "no" /\ m.got = {}
    <3>1. "del" \in Changes \cup Creations
      BY DEF Changes
    <3> QED BY <2>3, <2>4, <3>1, CallTyped
  <2>6. calls' = rest \cup {m} /\ shown' = Without(rows, b.id) /\ memo' = shown'
    BY <2>1, <2>3 DEF Shown, Without
  <2>7. CallFits(m, f, n)
    BY <2>2, <2>5 DEF CallFits, Creations
  <2>8. CallsFit(calls', f, n)
    BY <2>5, <2>6, <2>7 DEF CallsFit
  <2>9. /\ ListFits(Without(rows, b.id), f, n)
        /\ At(Without(rows, b.id), b.place) = Without(At(rows, b.place), b.id)
        /\ \A p : p # b.place => At(Without(rows, b.id), p) = At(rows, p)
    BY <2>2, AtWithout
  <2>10. Of(m, here)
    BY <2>2, <2>5 DEF Of
  <2>11. ASSUME rows = seen, AtMostOne(At(seen, here))  PROVE Pending(m, At(seen, here), At(shown', here))
    <3>1. At(seen, here) = {b}
      BY <2>1, <2>11 DEF AtMostOne
    <3>2. At(shown', here) = {}
      BY <2>2, <2>6, <2>9, <2>11, <3>1, WithoutTheOne
    <3> QED BY <2>5, <3>1, <3>2 DEF Pending, Creations
  <2> QED BY <2>2, <2>6, <2>8, <2>9, <2>10, <2>11
<1> QED BY <1>1, <1>2

-----------------------------------------------------------------------------
(* The steps that start something.                                         *)

LEMMA ReadOrMoveKeeps ==
  ASSUME MarksInv, RefreshBookmarks \/ \E p \in Spots : MoveTo(p)
  PROVE  MarksInv'
<1>1. UNCHANGED <<kept, shown, memo, toggle, unsure>>
  BY DEF RefreshBookmarks, MoveTo
<1>2. PICK f \in [Nat -> Spots] : IdsFit(f)
  BY DEF MarksInv, MarksFit
<1>3. PICK m : m = Call("read", Nobody, Nobody)
  OBVIOUS
<1>4. m \in MarkCalls /\ m.kind = "read" /\ m.got = {} /\ CallFits(m, f, counts.ids)
  <2>1. m \in MarkCalls /\ m.kind = "read" /\ m.got = {}
    BY <1>3, NobodyTyped DEF Call, MarkCalls
  <2> QED BY <2>1 DEF CallFits, Changes, Creations
<1>5. /\ calls' = calls \/ calls' = calls \cup {m}
      /\ counts' \in [ids : Nat, presses : Nat, changes : Nat, reads : Nat] /\ counts'.ids = counts.ids
      /\ here' \in Spots /\ (ListUnread => ListUnread')
  <2>1. counts \in [ids : Nat, presses : Nat, changes : Nat, reads : Nat] /\ here \in Spots
    BY DEF MarksInv, BookmarksTypeOK
  <2>2. CASE RefreshBookmarks
    <3>1. calls' = calls \cup {m} /\ counts' = [counts EXCEPT !.reads = @ + 1] /\ here' = here
      BY <1>3, <2>2 DEF RefreshBookmarks, Send
    <3>2. ListUnread'
      BY <1>4, <3>1 DEF ListUnread
    <3> QED BY <2>1, <3>1, <3>2
  <2>3. CASE \E p \in Spots : MoveTo(p)
    BY <2>1, <2>3 DEF MoveTo, ListUnread
  <2> QED BY <2>2, <2>3
<1>6. BookmarksTypeOK'
  BY <1>1, <1>5 DEF MarksInv, BookmarksTypeOK
<1>7. IdsFit(f)'
  BY <1>1, <1>2, <1>4, <1>5 DEF IdsFit, CallsFit
<1>8. MarksFit'
  BY <1>7 DEF MarksFit
<1>9. ASSUME NEW p \in Spots \ unsure'  PROVE PlaceAgrees(p)'
  <2>1. PlaceAgrees(p) /\ \A c : Of(c, p) => (c \in calls <=> c \in calls')
    BY <1>1, <1>4, <1>5 DEF MarksInv, PlacesAgreeing, Of
  <2> QED BY <1>1, <1>5, <2>1, PlaceStays
<1> QED BY <1>6, <1>8, <1>9 DEF MarksInv, PlacesAgreeing

LEMMA PressToggleKeeps ==
  ASSUME MarksInv, PressToggle
  PROVE  MarksInv'
<1>1. /\ UNCHANGED <<kept, here>> /\ here \in Spots /\ memo = shown
      /\ unsure' = unsure \cup (IF ListUnread \/ (~toggle.busy /\ OpOn(here)) THEN {here} ELSE {})
      /\ counts' = [counts EXCEPT !.presses = @ + 1]
      /\ counts \in [ids : Nat, presses : Nat, changes : Nat, reads : Nat]
      /\ toggle \in [busy : BOOLEAN, queued : BOOLEAN] /\ unsure \in SUBSET Spots
  BY DEF PressToggle, MarksInv, BookmarksTypeOK
<1>2. /\ counts' \in [ids : Nat, presses : Nat, changes : Nat, reads : Nat]
      /\ counts'.ids = counts.ids /\ counts'.reads = counts.reads /\ unsure' \in SUBSET Spots
  BY <1>1
<1>3. PICK f \in [Nat -> Spots] : IdsFit(f)
  BY DEF MarksInv, MarksFit
<1>4. CASE toggle.busy
  <2>1. UNCHANGED <<shown, memo, calls>> /\ toggle' \in [busy : BOOLEAN, queued : BOOLEAN]
    BY <1>1, <1>4 DEF PressToggle, PressAgain
  <2>2. BookmarksTypeOK'
    BY <1>1, <1>2, <2>1 DEF BookmarksTypeOK
  <2>3. MarksFit'
    BY <1>1, <1>2, <1>3, <2>1 DEF IdsFit, MarksFit
  <2>4. ListUnread => ListUnread'
    BY <1>2, <2>1 DEF ListUnread
  <2>5. ASSUME NEW p \in Spots \ unsure'  PROVE PlaceAgrees(p)'
    <3>1. PlaceAgrees(p)
      BY <1>1 DEF MarksInv, PlacesAgreeing
    <3> QED BY <1>1, <2>1, <2>4, <3>1, PlaceStays
  <2> QED BY <2>2, <2>3, <2>5 DEF MarksInv, PlacesAgreeing
<1>5. CASE ~toggle.busy
  <2>1. toggle' = [Idle EXCEPT !.busy = TRUE] /\ ToggleStarts(shown, shown, calls)
    BY <1>1, <1>5 DEF PressToggle
  <2>2. toggle' \in [busy : BOOLEAN, queued : BOOLEAN]
    BY <2>1 DEF Idle
  <2>3. PICK was : was = calls
    OBVIOUS
  <2>4. PICK rows : rows = shown
    OBVIOUS
  <2>5. PICK n \in Nat : n = counts.ids
    BY <1>1
  <2>6. ListFits(rows, f, n) /\ CallsFit(was, f, n) /\ ToggleStarts(rows, rows, was)
    BY <1>3, <2>1, <2>3, <2>4, <2>5 DEF IdsFit
  <2>7. /\ CallsFit(calls', f, n) /\ ListFits(shown', f, n) /\ memo' = shown'
        /\ \E m : /\ calls' = was \cup {m} /\ Of(m, here)
                  /\ AtMostOne(At(rows, here)) => Pending(m, At(rows, here), At(shown', here))
        /\ \A p : p # here => At(shown', p) = At(rows, p)
    BY <1>1, <2>6, ToggleStartsCall
  <2>8. PICK m : /\ calls' = was \cup {m} /\ Of(m, here)
                 /\ AtMostOne(At(rows, here)) => Pending(m, At(rows, here), At(shown', here))
    BY <2>7
  <2>9. BookmarksTypeOK'
    BY <1>1, <1>2, <2>2, <2>7 DEF BookmarksTypeOK
  <2>10. IdsFit(f)'
    BY <1>1, <1>2, <1>3, <2>5, <2>7 DEF IdsFit
  <2>11. MarksFit'
    BY <2>10 DEF MarksFit
  <2>12. ListUnread => ListUnread'
    BY <1>2, <2>3, <2>8 DEF ListUnread
  <2>13. ASSUME NEW p \in Spots \ unsure', p # here  PROVE PlaceAgrees(p)'
    <3>1. PlaceAgrees(p)
      BY <1>1 DEF MarksInv, PlacesAgreeing
    <3>2. \A c : Of(c, p) => (c \in calls <=> c \in calls')
      BY <2>3, <2>8, <2>13 DEF Of
    <3>3. At(kept', p) = At(kept, p) /\ At(shown', p) = At(shown, p)
      BY <1>1, <2>4, <2>7, <2>13
    <3> QED BY <2>12, <3>1, <3>2, <3>3, PlaceStays
  <2>14. ASSUME here \notin unsure'  PROVE PlaceAgrees(here)'
    <3>1. ~ListUnread /\ ~OpOn(here) /\ PlaceAgrees(here)
      BY <1>1, <1>5, <2>14 DEF MarksInv, PlacesAgreeing
    <3>2. AtMostOne(At(kept, here)) /\ At(shown, here) = At(kept, here)
      BY <3>1 DEF PlaceAgrees
    <3>3. PICK p : p = here
      OBVIOUS
    <3>4. Pending(m, At(kept', p), At(shown', p))
      BY <1>1, <2>4, <2>8, <3>2, <3>3
    <3>5. m \in calls' /\ Of(m, p) /\ \A d \in calls' : Of(d, p) => d = m
      BY <2>3, <2>8, <3>1, <3>3 DEF OpOn, Of
    <3>6. PlaceAgrees(p)'
      BY <3>4, <3>5, PlaceHasCall
    <3> QED BY <1>1, <3>3, <3>6
  <2>15. ASSUME NEW p \in Spots \ unsure'  PROVE PlaceAgrees(p)'
    BY <1>1, <2>13, <2>14
  <2> QED BY <2>9, <2>11, <2>15 DEF MarksInv, PlacesAgreeing
<1> QED BY <1>4, <1>5

(* From the panel: a removal or an edit of a bookmark that is listed.      *)
LEMMA FromPanelKeeps ==
  ASSUME MarksInv, NEW b \in shown, FromPanel(b),
         NEW kind \in {"remove", "edit"}, NEW bm, bm.id = b.id /\ bm.place = b.place /\ bm.text \in Nat,
         bm \in Marks, kind = "remove" => bm = b,
         NEW m, m = Call(kind, bm, b), calls' = calls \cup {m}, memo' = shown',
         shown' = IF kind = "edit" THEN With(Less(shown, b), bm) ELSE Less(shown, b)
  PROVE  MarksInv'
<1>1. /\ UNCHANGED <<kept, here, toggle>>
      /\ unsure' = unsure \cup (IF OpOn(b.place) THEN {b.place} ELSE {})
      /\ counts' = [counts EXCEPT !.changes = @ + 1]
      /\ counts \in [ids : Nat, presses : Nat, changes : Nat, reads : Nat]
  BY DEF FromPanel, MarksInv, BookmarksTypeOK
<1>2. /\ counts' \in [ids : Nat, presses : Nat, changes : Nat, reads : Nat]
      /\ counts'.ids = counts.ids /\ counts'.reads = counts.reads
  BY <1>1
<1>3. PICK f \in [Nat -> Spots] : IdsFit(f)
  BY DEF MarksInv, MarksFit
<1>4. PICK n \in Nat : n = counts.ids
  BY <1>1
<1>5. IdFits(b, f, n) /\ IdFits(bm, f, n) /\ b \in Marks /\ b.place \in Spots
  BY <1>3, <1>4 DEF IdsFit, ListFits, IdFits, Marks
<1>6. m \in MarkCalls /\ m.kind = kind /\ m.bm = bm /\ m.prior = b /\ m.served = "no" /\ m.got = {}
  <2>1. kind \in Changes \cup Creations /\ b \in [id : Nat, place : Spots \cup {0}, text : Nat]
        /\ bm \in [id : Nat, place : Spots \cup {0}, text : Nat]
    BY <1>5 DEF Marks, Changes
  <2> QED BY <2>1, CallTyped
<1>7. CallFits(m, f, n)
  BY <1>5, <1>6 DEF CallFits, Changes, Creations
<1>8. CallsFit(calls', f, n)
  BY <1>3, <1>4, <1>6, <1>7 DEF CallsFit, IdsFit
<1>9. PICK rows : rows = shown
  OBVIOUS
<1>10. PICK less : less = Less(rows, b)
  OBVIOUS
<1>11. /\ ListFits(less, f, n) /\ At(less, b.place) = Less(At(rows, b.place), b)
       /\ \A p : p # b.place => At(less, p) = At(rows, p)
  <2>1. ListFits(rows, f, n)
    BY <1>3, <1>4, <1>9 DEF IdsFit
  <2> QED BY <1>5, <1>10, <2>1, AtLess
<1>12. /\ ListFits(With(less, bm), f, n) /\ At(With(less, bm), b.place) = With(At(less, b.place), bm)
       /\ \A p : p # b.place => At(With(less, bm), p) = At(less, p)
  BY <1>5, <1>11, AtWith
<1>13. shown' = IF kind = "edit" THEN With(less, bm) ELSE less
  BY <1>9, <1>10
<1>14. BookmarksTypeOK'
  BY <1>1, <1>2, <1>5 DEF MarksInv, BookmarksTypeOK
<1>15. MarksFit'
  <2>1. ListFits(shown', f, n)
    BY <1>11, <1>12, <1>13
  <2>2. IdsFit(f)'
    BY <1>1, <1>2, <1>3, <1>4, <1>8, <2>1 DEF IdsFit
  <2> QED BY <2>2 DEF MarksFit
<1>16. ListUnread => ListUnread'
  BY <1>2 DEF ListUnread
<1>17. ASSUME NEW p \in Spots \ unsure', p # b.place  PROVE PlaceAgrees(p)'
  <2>1. PlaceAgrees(p)
    BY <1>1 DEF MarksInv, PlacesAgreeing
  <2>2. \A c : Of(c, p) => (c \in calls <=> c \in calls')
    BY <1>6, <1>17 DEF Of
  <2>3. At(kept', p) = At(kept, p) /\ At(shown', p) = At(shown, p)
    BY <1>1, <1>9, <1>11, <1>12, <1>13, <1>17
  <2> QED BY <1>16, <2>1, <2>2, <2>3, PlaceStays
<1>18. ASSUME b.place \notin unsure'  PROVE PlaceAgrees(b.place)'
  <2>1. ~OpOn(b.place) /\ PlaceAgrees(b.place)
    BY <1>1, <1>5, <1>18 DEF MarksInv, PlacesAgreeing
  <2>2. b \in At(shown, b.place)
    BY DEF At
  <2>3. At(shown, b.place) = At(kept, b.place) /\ AtMostOne(At(kept, b.place))
    BY <2>1, <2>2 DEF PlaceAgrees
  <2>4. At(kept, b.place) = {b} /\ At(rows, b.place) = {b}
    BY <1>9, <2>2, <2>3 DEF AtMostOne
  <2>5. At(less, b.place) = {}
    BY <1>11, <2>4, WithoutTheOne
  <2>6. At(With(less, bm), b.place) = {bm}
    BY <1>12, <2>5 DEF With
  <2>7. Pending(m, At(kept', b.place), At(shown', b.place))
    <3>1. CASE kind = "edit"
      BY <1>1, <1>6, <1>13, <2>4, <2>6, <3>1 DEF Pending, Creations
    <3>2. CASE kind = "remove"
      BY <1>1, <1>6, <1>13, <2>4, <2>5, <3>2 DEF Pending, Creations
    <3> QED BY <3>1, <3>2
  <2>8. m \in calls' /\ Of(m, b.place) /\ \A d \in calls' : Of(d, b.place) => d = m
    BY <1>6, <2>1 DEF OpOn, Of
  <2> QED BY <2>7, <2>8, PlaceHasCall
<1>19. ASSUME NEW p \in Spots \ unsure'  PROVE PlaceAgrees(p)'
  BY <1>17, <1>18
<1> QED BY <1>14, <1>15, <1>19 DEF MarksInv, PlacesAgreeing

LEMMA PanelKeeps ==
  ASSUME MarksInv, NEW b \in shown, RemoveBookmark(b) \/ EditBookmark(b)
  PROVE  MarksInv'
<1>1. PICK f \in [Nat -> Spots] : IdsFit(f)
  BY DEF MarksInv, MarksFit
<1>2. b \in Marks /\ counts.changes \in Nat /\ b.text \in Nat
  BY <1>1 DEF IdsFit, ListFits, IdFits, MarksInv, BookmarksTypeOK, Marks
<1>3. CASE RemoveBookmark(b)
  <2>1. PICK m : m = Call("remove", b, b)
    OBVIOUS
  <2>2. FromPanel(b) /\ calls' = calls \cup {m} /\ shown' = Less(shown, b) /\ memo' = shown'
    BY <1>3, <2>1 DEF RemoveBookmark, Shown, Send, Less
  <2> QED BY <1>2, <2>1, <2>2, FromPanelKeeps
<1>4. CASE EditBookmark(b)
  <2>1. PICK bm : bm = [b EXCEPT !.text = counts.changes + 1]
    OBVIOUS
  <2>2. PICK m : m = Call("edit", bm, b)
    OBVIOUS
  <2>3. FromPanel(b) /\ calls' = calls \cup {m} /\ shown' = With(Less(shown, b), bm) /\ memo' = shown'
    BY <1>4, <2>1, <2>2 DEF EditBookmark, Shown, Send, Less, With
  <2>4. bm \in Marks /\ bm.id = b.id /\ bm.place = b.place /\ bm.text \in Nat
    BY <1>2, <2>1 DEF Marks
  <2> QED BY <2>2, <2>3, <2>4, FromPanelKeeps
<1> QED BY <1>3, <1>4

-----------------------------------------------------------------------------
(* The server acts on a call, or fails it with or without having acted.    *)

(* The call once it has been served.                                       *)
AsServed(c, d, outcome, acted) ==
    /\ d.kind = c.kind /\ d.bm = c.bm /\ d.served = outcome
    /\ d.got = (IF c.kind = "read" THEN kept ELSE {})
    /\ d.prior.id = (IF Creates(c) /\ acted THEN counts.ids + 1 ELSE c.prior.id)
    /\ ~(Creates(c) /\ acted) => d.prior = c.prior

LEMMA ServedHas ==
  ASSUME NEW c \in MarkCalls, kept \in SUBSET Marks, counts.ids \in Nat,
         NEW outcome \in {"ok", "failed"}, NEW acted \in BOOLEAN, NEW d,
         d = [c EXCEPT !.served = outcome, !.got = IF c.kind = "read" THEN kept ELSE {},
                       !.prior.id = IF Creates(c) /\ acted THEN counts.ids + 1 ELSE @]
  PROVE  d \in MarkCalls /\ AsServed(c, d, outcome, acted)
<1>1. PICK got \in SUBSET Marks : got = IF c.kind = "read" THEN kept ELSE {}
  OBVIOUS
<1>2. PICK id \in Nat : id = IF Creates(c) /\ acted THEN counts.ids + 1 ELSE c.prior.id
  BY DEF MarkCalls
<1>3. c.prior \in [id : Nat, place : Spots \cup {0}, text : Nat]
  BY DEF MarkCalls
<1>4. PICK prior : prior = [c.prior EXCEPT !.id = id]
  OBVIOUS
<1>5. /\ prior \in [id : Nat, place : Spots \cup {0}, text : Nat] /\ prior.id = id
      /\ id = c.prior.id => prior = c.prior
  BY <1>3, <1>4
<1>6. d = [c EXCEPT !.served = outcome, !.got = got, !.prior = prior]
  <2>1. [c.prior EXCEPT !.id = IF Creates(c) /\ acted THEN counts.ids + 1 ELSE @] = prior
    BY <1>2, <1>4
  <2> QED BY <1>1, <2>1 DEF MarkCalls
<1>7. d.kind = c.kind /\ d.bm = c.bm /\ d.served = outcome /\ d.got = got /\ d.prior = prior
  BY <1>6 DEF MarkCalls
<1>8. d \in MarkCalls
  BY <1>5, <1>6 DEF MarkCalls
<1> QED BY <1>1, <1>2, <1>5, <1>7, <1>8 DEF AsServed

(* What the server does touches the place of the call only, and ids of it. *)
LEMMA DoneFits ==
  ASSUME NEW f \in [Nat -> Spots], NEW n, ListFits(kept, f, n), NEW c \in MarkCalls, NEW id,
         Creates(c) => IdFits([c.bm EXCEPT !.id = id], f, n) /\ c.bm.place \in Spots,
         c.kind \in Changes => IdFits(c.bm, f, n),
         NEW after, after = Done(c, id)
  PROVE  /\ ListFits(after, f, n)
         /\ c.kind = "read" => after = kept
         /\ \A p : ~Of(c, p) => At(after, p) = At(kept, p)
         /\ Creates(c) => At(after, c.bm.place) = With(At(kept, c.bm.place), [c.bm EXCEPT !.id = id])
         /\ c.kind \in {"del", "undo", "remove"} =>
               At(after, c.bm.place) = Without(At(kept, c.bm.place), c.bm.id)
         /\ c.kind = "edit" /\ ById(At(kept, c.bm.place), c.bm.id) # {} =>
               At(after, c.bm.place) = With(Without(At(kept, c.bm.place), c.bm.id), c.bm)
<1>1. c.kind \in {"read"} \cup Changes \cup Creations
  BY DEF MarkCalls
<1>2. CASE Creates(c)
  <2>1. PICK made : made = [c.bm EXCEPT !.id = id]
    OBVIOUS
  <2>2. IdFits(made, f, n) /\ made.place = c.bm.place
    <3>1. c.bm \in [id : Nat, place : Spots \cup {0}, text : Nat]
      BY DEF MarkCalls
    <3>2. made.place = c.bm.place
      BY <2>1, <3>1
    <3> QED BY <1>2, <2>1, <3>2
  <2>3. after = With(kept, made)
    BY <1>2, <2>1 DEF Done, Creates, With
  <2>4. /\ ListFits(after, f, n) /\ At(after, made.place) = With(At(kept, made.place), made)
        /\ \A p : p # made.place => At(after, p) = At(kept, p)
    BY <2>2, <2>3, AtWith
  <2>5. c.kind \in Creations /\ c.kind # "read" /\ c.kind \notin {"del", "undo", "remove", "edit"}
    BY <1>2 DEF Creates, Creations
  <2> QED BY <2>1, <2>2, <2>4, <2>5 DEF Of
<1>3. CASE c.kind \in {"del", "undo", "remove"}
  <2>1. IdFits(c.bm, f, n)
    BY <1>3 DEF Changes
  <2>2. after = Without(kept, c.bm.id)
    BY <1>3 DEF Done, Without
  <2>3. /\ ListFits(after, f, n) /\ At(after, c.bm.place) = Without(At(kept, c.bm.place), c.bm.id)
        /\ \A p : p # c.bm.place => At(after, p) = At(kept, p)
    BY <2>1, <2>2, AtWithout
  <2> QED BY <1>3, <2>3 DEF Of, Creates
<1>4. CASE c.kind = "edit"
  <2>1. IdFits(c.bm, f, n)
    BY <1>4 DEF Changes
  <2>2. ById(kept, c.bm.id) = ById(At(kept, c.bm.place), c.bm.id)
    BY <2>1, AtWithout
  <2>3. CASE ById(kept, c.bm.id) = {}
    <3>1. after = kept
      BY <1>4, <2>3 DEF Done
    <3> QED BY <1>4, <2>2, <2>3, <3>1 DEF Creates
  <2>4. CASE ById(kept, c.bm.id) # {}
    <3>1. PICK less : less = Without(kept, c.bm.id)
      OBVIOUS
    <3>2. after = With(less, c.bm)
      BY <1>4, <2>4, <3>1 DEF Done, Without, With
    <3>3. /\ ListFits(less, f, n) /\ At(less, c.bm.place) = Without(At(kept, c.bm.place), c.bm.id)
          /\ \A p : p # c.bm.place => At(less, p) = At(kept, p)
      BY <2>1, <3>1, AtWithout
    <3>4. /\ ListFits(after, f, n) /\ At(after, c.bm.place) = With(At(less, c.bm.place), c.bm)
          /\ \A p : p # c.bm.place => At(after, p) = At(less, p)
      BY <2>1, <3>2, <3>3, AtWith
    <3> QED BY <1>4, <3>3, <3>4 DEF Of, Creates
  <2> QED BY <2>3, <2>4
<1>5. CASE c.kind = "read"
  <2>1. after = kept
    BY <1>5 DEF Done
  <2> QED BY <1>5, <2>1 DEF Creates
<1> QED BY <1>1, <1>2, <1>3, <1>4, <1>5 DEF Changes, Creations, Creates

(* A call that succeeds has done to its place what it says.                *)
LEMMA DonePending ==
  ASSUME NEW f \in [Nat -> Spots], NEW n, ListFits(kept, f, n), NEW c \in MarkCalls, NEW id,
         Creates(c) => IdFits([c.bm EXCEPT !.id = id], f, n) /\ c.bm.place \in Spots,
         c.kind \in Changes => IdFits(c.bm, f, n) /\ c.prior.id = c.bm.id,
         NEW after, after = Done(c, id), c.kind # "read", c.served = "no",
         NEW listed, Pending(c, At(kept, c.bm.place), listed),
         NEW d \in MarkCalls, d.kind = c.kind, d.bm = c.bm, d.served = "ok",
         Creates(c) => d.prior.id = id, ~Creates(c) => d.prior = c.prior
  PROVE  Pending(d, At(after, c.bm.place), listed)
<1>1. c.kind \in Changes \cup Creations
  BY DEF MarkCalls
<1>2. /\ Creates(c) => At(after, c.bm.place) = With(At(kept, c.bm.place), [c.bm EXCEPT !.id = id])
      /\ c.kind \in {"del", "undo", "remove"} =>
            At(after, c.bm.place) = Without(At(kept, c.bm.place), c.bm.id)
      /\ c.kind = "edit" /\ ById(At(kept, c.bm.place), c.bm.id) # {} =>
            At(after, c.bm.place) = With(Without(At(kept, c.bm.place), c.bm.id), c.bm)
  BY DoneFits
<1>3. CASE c.kind \in Creations
  <2>1. Creates(c)
    BY <1>3 DEF Creates, Creations
  <2>2. listed = {} /\ At(kept, c.bm.place) = {}
    BY <1>3 DEF Pending, Creations
  <2>3. Made(d) = [c.bm EXCEPT !.id = id]
    BY <2>1 DEF Made
  <2>4. At(after, c.bm.place) = {Made(d)}
    BY <1>2, <2>1, <2>2, <2>3 DEF With
  <2> QED BY <1>3, <2>2, <2>4 DEF Pending
<1>4. CASE c.kind = "edit"
  <2>1. listed = {c.bm} /\ At(kept, c.bm.place) = {c.prior} /\ c.prior.id = c.bm.id
    BY <1>4 DEF Pending, Creations, Changes
  <2>2. Without({c.prior}, c.bm.id) = {} /\ ById({c.prior}, c.bm.id) # {}
    BY <2>1 DEF Without, ById
  <2>3. At(after, c.bm.place) = {c.bm}
    BY <1>2, <1>4, <2>1, <2>2 DEF With
  <2> QED BY <1>4, <2>1, <2>3 DEF Pending, Creations
<1>5. CASE c.kind \in {"del", "undo", "remove"}
  <2>1. listed = {} /\ At(kept, c.bm.place) = {c.prior} /\ c.bm = c.prior
    BY <1>5 DEF Pending, Creations
  <2>2. At(after, c.bm.place) = {}
    BY <1>2, <1>5, <2>1, WithoutTheOne
  <2>3. d.prior = d.bm
    BY <1>5, <2>1 DEF Creates
  <2> QED BY <1>5, <2>1, <2>2, <2>3 DEF Pending, Creations
<1> QED BY <1>1, <1>3, <1>4, <1>5 DEF Changes

LEMMA ServeKeepsMarks ==
  ASSUME MarksInv, NEW c \in calls, ServeBookmarks(c)
  PROVE  MarksInv'
<1>1. PICK f \in [Nat -> Spots] : IdsFit(f)
  BY DEF MarksInv, MarksFit
<1>2. PICK outcome \in {"ok", "failed"}, acted \in BOOLEAN :
         /\ outcome = "ok" => acted
         /\ kept' = IF acted THEN Done(c, counts.ids + 1) ELSE kept
         /\ calls' = (calls \ {c}) \cup
                     {[c EXCEPT !.served = outcome, !.got = IF c.kind = "read" THEN kept ELSE {},
                                !.prior.id = IF Creates(c) /\ acted THEN counts.ids + 1 ELSE @]}
         /\ counts' = IF Creates(c) /\ acted THEN [counts EXCEPT !.ids = @ + 1] ELSE counts
         /\ unsure' = IF outcome = "failed" /\ (acted \/ toggle.queued) /\ c.kind # "read"
                       THEN unsure \cup {c.bm.place} ELSE unsure
  BY DEF ServeBookmarks
<1>3. c.served = "no" /\ UNCHANGED <<shown, memo, here, toggle>>
  BY DEF ServeBookmarks
<1>4. PICK n \in Nat : n = counts.ids
  BY DEF MarksInv, BookmarksTypeOK
<1>5. /\ ListFits(kept, f, n) /\ ListFits(shown, f, n) /\ CallsFit(calls, f, n)
      /\ c \in MarkCalls /\ CallFits(c, f, n)
  BY <1>1, <1>4 DEF IdsFit, CallsFit
<1>6. kept \in SUBSET Marks /\ counts \in [ids : Nat, presses : Nat, changes : Nat, reads : Nat]
      /\ here \in Spots /\ toggle \in [busy : BOOLEAN, queued : BOOLEAN] /\ memo = shown /\ unsure \in SUBSET Spots
  BY <1>5 DEF ListFits, IdFits, MarksInv, BookmarksTypeOK
<1>7. PICK d : d = [c EXCEPT !.served = outcome, !.got = IF c.kind = "read" THEN kept ELSE {},
                             !.prior.id = IF Creates(c) /\ acted THEN counts.ids + 1 ELSE @]
  OBVIOUS
<1>8. d \in MarkCalls /\ AsServed(c, d, outcome, acted)
  BY <1>5, <1>6, <1>7, ServedHas
<1>9. calls' = (calls \ {c}) \cup {d}
  BY <1>2, <1>7
<1>10. c.bm \in [id : Nat, place : Spots \cup {0}, text : Nat]
  BY <1>5 DEF MarkCalls
(* The ids, one more when something has been created.                      *)
<1>11. PICK m \in Nat : m = counts'.ids
  BY <1>2, <1>6
<1>12. /\ counts' \in [ids : Nat, presses : Nat, changes : Nat, reads : Nat] /\ counts'.reads = counts.reads
       /\ m = IF Creates(c) /\ acted THEN n + 1 ELSE n
  BY <1>2, <1>4, <1>6, <1>11
<1>13. Creates(c) => c.bm.place \in Spots
  BY <1>5 DEF CallFits, Creates, Creations
<1>14. \E g \in [Nat -> Spots] : /\ \A x : IdFits(x, f, n) => IdFits(x, g, m)
                                 /\ Creates(c) /\ acted => g[n + 1] = c.bm.place
  <2>1. CASE Creates(c) /\ acted
    <3>1. c.bm.place \in Spots /\ m = n + 1
      BY <1>12, <1>13, <2>1
    <3>2. PICK q \in Spots : q = c.bm.place
      BY <3>1
    <3>3. PICK g \in [Nat -> Spots] : g[n + 1] = q /\ \A x : IdFits(x, f, n) => IdFits(x, g, n + 1)
      BY IdGrows
    <3> QED BY <3>1, <3>2, <3>3
  <2>2. CASE ~(Creates(c) /\ acted)
    BY <1>12, <2>2
  <2> QED BY <2>1, <2>2
<1>15. PICK g \in [Nat -> Spots] : /\ \A x : IdFits(x, f, n) => IdFits(x, g, m)
                                   /\ Creates(c) /\ acted => g[n + 1] = c.bm.place
  BY <1>14
<1>16. ListFits(kept, g, m) /\ ListFits(shown, g, m) /\ CallsFit(calls, g, m) /\ CallFits(c, g, m)
  BY <1>5, <1>15, MarksFitGrow
<1>17. Creates(c) /\ acted => IdFits([c.bm EXCEPT !.id = n + 1], g, m)
  <2> SUFFICES ASSUME Creates(c), acted  PROVE IdFits([c.bm EXCEPT !.id = n + 1], g, m)
    OBVIOUS
  <2>1. PICK made : made = [c.bm EXCEPT !.id = n + 1]
    OBVIOUS
  <2>2. made.id = n + 1 /\ made.place = c.bm.place /\ made.text = c.bm.text
    BY <1>10, <2>1
  <2>3. made \in Marks
    BY <1>10, <1>13, <2>1 DEF Marks
  <2>4. made.id \in 1 .. m
    BY <1>12, <2>2
  <2>5. made.place = g[made.id]
    BY <1>15, <2>2
  <2> QED BY <2>1, <2>3, <2>4, <2>5 DEF IdFits
<1>18. c.kind \in Changes => IdFits(c.bm, g, m) /\ c.prior.id = c.bm.id
  BY <1>16 DEF CallFits
<1>19. PICK after : after = Done(c, n + 1)
  OBVIOUS
<1>20. acted => /\ ListFits(after, g, m) /\ (c.kind = "read" => after = kept)
                /\ \A p : ~Of(c, p) => At(after, p) = At(kept, p)
  <2> SUFFICES ASSUME acted
               PROVE  /\ ListFits(after, g, m) /\ (c.kind = "read" => after = kept)
                      /\ \A p : ~Of(c, p) => At(after, p) = At(kept, p)
    OBVIOUS
  <2>1. Creates(c) => IdFits([c.bm EXCEPT !.id = n + 1], g, m) /\ c.bm.place \in Spots
    BY <1>13, <1>17
  <2> QED BY <1>5, <1>16, <1>18, <1>19, <2>1, DoneFits
<1>21. kept' = (IF acted THEN after ELSE kept) /\ ListFits(kept', g, m) /\ \A p : ~Of(c, p) => At(kept', p) = At(kept, p)
  BY <1>2, <1>4, <1>16, <1>19, <1>20
<1>22. CallFits(d, g, m)
  <2>1. \A x \in d.got : IdFits(x, g, m)
    BY <1>8, <1>16 DEF AsServed, ListFits
  <2>2. d.kind \in Changes => IdFits(d.bm, g, m) /\ IdFits(d.prior, g, m) /\ d.prior.id = d.bm.id
    BY <1>8, <1>16 DEF AsServed, CallFits, Changes, Creates
  <2>3. d.kind \in Creations => d.bm.place \in Spots
    BY <1>8, <1>13 DEF AsServed, Creates, Creations
  <2>4. ASSUME d.kind \in Creations, d.served = "ok"  PROVE IdFits(Made(d), g, m)
    <3>1. Creates(c) /\ acted
      BY <1>2, <1>8, <2>4 DEF AsServed, Creates, Creations
    <3>2. Made(d) = [c.bm EXCEPT !.id = n + 1]
      BY <1>4, <1>8, <3>1 DEF AsServed, Made
    <3> QED BY <1>17, <3>1, <3>2
  <2> QED BY <2>1, <2>2, <2>3, <2>4 DEF CallFits
<1>23. BookmarksTypeOK'
  <2>1. c.bm.place \in Spots \/ c.kind = "read"
    BY <1>5, <1>13, <1>18 DEF MarkCalls, Creates, Creations, IdFits, Marks
  <2>2. unsure' \in SUBSET Spots
    BY <1>2, <1>6, <2>1
  <2> QED BY <1>3, <1>6, <1>12, <2>2 DEF BookmarksTypeOK
<1>24. MarksFit'
  <2>1. CallsFit(calls', g, m)
    BY <1>8, <1>9, <1>16, <1>22 DEF CallsFit
  <2>2. IdsFit(g)'
    BY <1>3, <1>11, <1>16, <1>21, <2>1 DEF IdsFit
  <2> QED BY <2>2 DEF MarksFit
<1>25. \A p : Of(d, p) <=> Of(c, p)
  BY <1>8 DEF AsServed, Of
<1>26. ListUnread => ListUnread'
  BY <1>8, <1>9, <1>12 DEF ListUnread, AsServed
<1>27. ASSUME NEW p \in Spots \ unsure'  PROVE PlaceAgrees(p)'
  <2>1. PlaceAgrees(p) /\ shown' = shown
    BY <1>2, <1>3 DEF MarksInv, PlacesAgreeing
  <2>2. CASE ~Of(c, p)
    <3>1. \A e : Of(e, p) => (e \in calls <=> e \in calls')
      BY <1>9, <1>25, <2>2
    <3> QED BY <1>21, <1>26, <2>1, <2>2, <3>1, PlaceStays
  <2>3. CASE Of(c, p)
    <3>1. p = c.bm.place /\ c.kind # "read"
      BY <2>3 DEF Of
    <3>2. Pending(c, At(kept, p), At(shown, p)) /\ \A e \in calls : Of(e, p) => e = c
      BY <2>1, <2>3 DEF PlaceAgrees
    <3>3. d \in calls' /\ Of(d, p) /\ \A e \in calls' : Of(e, p) => e = d
      BY <1>9, <1>25, <2>3, <3>2
    <3>4. CASE outcome = "ok"
      <4>1. acted /\ kept' = after
        BY <1>2, <1>21, <3>4
      <4>2. d.kind = c.kind /\ d.bm = c.bm /\ d.served = "ok" /\ (Creates(c) => d.prior.id = n + 1)
            /\ (~Creates(c) => d.prior = c.prior)
        BY <1>4, <1>8, <3>4, <4>1 DEF AsServed
      <4>3. Creates(c) => IdFits([c.bm EXCEPT !.id = n + 1], g, m) /\ c.bm.place \in Spots
        BY <1>13, <1>17, <4>1
      <4>4. Pending(c, At(kept, c.bm.place), At(shown, c.bm.place))
        BY <3>1, <3>2
      <4>5. Pending(d, At(after, c.bm.place), At(shown, c.bm.place))
        BY <1>3, <1>5, <1>8, <1>16, <1>18, <1>19, <3>1, <4>2, <4>3, <4>4, DonePending
      <4> QED BY <2>1, <3>1, <3>3, <4>1, <4>5, PlaceHasCall
    <3>5. CASE outcome = "failed"
      <4>1. ~acted /\ kept' = kept
        BY <1>2, <3>1, <3>5
      <4>2. d.kind = c.kind /\ d.bm = c.bm /\ d.served = "failed" /\ d.prior = c.prior
        BY <1>8, <3>5, <4>1 DEF AsServed
      <4>3. Pending(d, At(kept, p), At(shown, p))
        BY <1>3, <3>2, <4>2 DEF Pending, Creations
      <4> QED BY <2>1, <3>3, <4>1, <4>3, PlaceHasCall
    <3> QED BY <3>4, <3>5
  <2> QED BY <2>2, <2>3
<1> QED BY <1>23, <1>24, <1>27 DEF MarksInv, PlacesAgreeing

-----------------------------------------------------------------------------
(* Answers.                                                                *)

LEMMA ListAnswerKeeps ==
  ASSUME MarksInv, NEW c \in calls, BookmarkAnswer(c), c.kind = "read"
  PROVE  MarksInv'
<1>1. /\ c.served # "no" /\ ListAnswered(c) /\ UNCHANGED <<kept, here, counts>>
      /\ unsure' = IF c.served = "failed" \/ toggle.busy \/ c.got # kept \/ calls # {c} THEN Spots ELSE unsure
  BY DEF BookmarkAnswer
<1>2. /\ calls' = calls \ {c} /\ toggle' = toggle
      /\ IF c.served = "ok" /\ ~toggle.busy THEN shown' = c.got /\ memo' = c.got ELSE UNCHANGED <<shown, memo>>
  BY <1>1 DEF ListAnswered, Shown
<1>3. PICK f \in [Nat -> Spots] : IdsFit(f)
  BY DEF MarksInv, MarksFit
<1>4. c \in MarkCalls /\ ListFits(c.got, f, counts.ids)
  BY <1>3 DEF IdsFit, CallsFit, CallFits, ListFits
<1>5. BookmarksTypeOK'
  BY <1>1, <1>2 DEF MarksInv, BookmarksTypeOK
<1>6. MarksFit'
  <2>1. ListFits(shown', f, counts.ids)
    BY <1>2, <1>3, <1>4 DEF IdsFit
  <2>2. CallsFit(calls', f, counts.ids)
    BY <1>2, <1>3 DEF IdsFit, CallsFit
  <2>3. IdsFit(f)'
    BY <1>1, <1>3, <2>1, <2>2 DEF IdsFit
  <2> QED BY <2>3 DEF MarksFit
<1>7. ASSUME NEW p \in Spots \ unsure'  PROVE PlaceAgrees(p)'
  <2>1. c.served = "ok" /\ ~toggle.busy /\ c.got = kept /\ calls = {c} /\ unsure' = unsure
    BY <1>1, <1>4, <1>7 DEF MarkCalls
  <2>2. calls' = {} /\ shown' = kept /\ kept' = kept
    BY <1>1, <1>2, <2>1
  <2>3. PlaceAgrees(p) /\ ~OpOn(p)
    BY <2>1 DEF MarksInv, PlacesAgreeing, OpOn
  <2>4. AtMostOne(At(kept, p))
    BY <2>3 DEF PlaceAgrees
  <2> QED BY <2>2, <2>4, PlaceSettles
<1> QED BY <1>5, <1>6, <1>7 DEF MarksInv, PlacesAgreeing

(* A bookmark joins a list, or takes the place of the one with its id.     *)
SameElsewhere(rows, after, p) == \A q : q # p => At(after, q) = At(rows, q)

LEMMA RowJoins ==
  ASSUME NEW f, NEW n, NEW rows, ListFits(rows, f, n), NEW b, IdFits(b, f, n),
         NEW after, after = With(rows, b)
  PROVE  /\ ListFits(after, f, n) /\ SameElsewhere(rows, after, b.place)
         /\ (At(rows, b.place) = {} => At(after, b.place) = {b})
<1>1. /\ ListFits(With(rows, b), f, n) /\ At(With(rows, b), b.place) = With(At(rows, b.place), b)
      /\ \A p : p # b.place => At(With(rows, b), p) = At(rows, p)
  BY AtWith
<1>2. With({}, b) = {b}
  BY DEF With
<1> QED BY <1>1, <1>2 DEF SameElsewhere

LEMMA RowReplaces ==
  ASSUME NEW f, NEW n, ListFits(shown, f, n), NEW b, IdFits(b, f, n)
  PROVE  /\ ListFits(WithRow(b), f, n) /\ \A p : p # b.place => At(WithRow(b), p) = At(shown, p)
         /\ \A x : At(shown, b.place) = {x} /\ x.id = b.id => At(WithRow(b), b.place) = {b}
<1>1. PICK less : less = Without(shown, b.id)
  OBVIOUS
<1>2. /\ ListFits(less, f, n) /\ At(less, b.place) = Without(At(shown, b.place), b.id)
      /\ \A p : p # b.place => At(less, p) = At(shown, p)
      /\ ById(shown, b.id) = ById(At(shown, b.place), b.id)
  BY <1>1, AtWithout
<1>3. /\ ListFits(With(less, b), f, n) /\ At(With(less, b), b.place) = With(At(less, b.place), b)
      /\ \A p : p # b.place => At(With(less, b), p) = At(less, p)
  BY <1>2, AtWith
<1>4. WithRow(b) = IF ById(shown, b.id) = {} THEN shown ELSE With(less, b)
  BY <1>1 DEF WithRow, With, Without
<1>5. ASSUME NEW x, At(shown, b.place) = {x}, x.id = b.id  PROVE At(WithRow(b), b.place) = {b}
  <2>1. ById({x}, b.id) = {x} /\ Without({x}, b.id) = {}
    BY <1>5 DEF ById, Without
  <2>2. WithRow(b) = With(less, b) /\ At(less, b.place) = {}
    BY <1>2, <1>4, <1>5, <2>1
  <2> QED BY <1>3, <2>2 DEF With
<1> QED BY <1>2, <1>3, <1>4, <1>5

LEMMA PanelAnswerKeeps ==
  ASSUME MarksInv, NEW c \in calls, BookmarkAnswer(c), c.kind \in {"remove", "edit"}
  PROVE  MarksInv'
<1>1. c.served # "no" /\ PanelAnswered(c) /\ UNCHANGED <<kept, here, counts>>
  BY DEF BookmarkAnswer
<1>2. unsure \subseteq unsure' /\ unsure' \in SUBSET Spots
  <2>1. PICK f : IdsFit(f)
    BY DEF MarksInv, MarksFit
  <2>2. c.bm.place \in Spots
    BY <2>1 DEF IdsFit, CallsFit, CallFits, Changes, IdFits, Marks
  <2>3. unsure' \in {unsure, unsure \cup {c.bm.place, here}}
    BY DEF BookmarkAnswer
  <2> QED BY <2>2, <2>3 DEF MarksInv, BookmarksTypeOK
<1>3. PICK f \in [Nat -> Spots] : IdsFit(f)
  BY DEF MarksInv, MarksFit
<1>4. PICK n \in Nat : n = counts.ids
  BY DEF MarksInv, BookmarksTypeOK
<1>5. /\ c \in MarkCalls /\ ListFits(shown, f, n) /\ IdFits(c.bm, f, n) /\ IdFits(c.prior, f, n)
      /\ c.prior.id = c.bm.id /\ c.prior.place = c.bm.place
  BY <1>3, <1>4 DEF IdsFit, CallsFit, CallFits, Changes, IdFits
<1>6. /\ calls' = calls \ {c} /\ toggle' = toggle /\ memo' = shown'
      /\ c.kind = "remove" => shown' = IF c.served = "failed" THEN With(shown, c.prior) ELSE shown
      /\ c.kind = "edit" => shown' = IF c.served = "ok" THEN WithRow(c.bm) ELSE WithRow(c.prior)
  BY <1>1, <1>5 DEF PanelAnswered, Shown, With, MarkCalls
<1>7. ListFits(shown', f, n) /\ \A p : p # c.bm.place => At(shown', p) = At(shown, p)
  <2>1. CASE c.kind = "remove"
    <3>1. PICK rows, after : rows = shown /\ after = With(rows, c.prior)
      OBVIOUS
    <3>2. ListFits(after, f, n) /\ SameElsewhere(rows, after, c.prior.place)
      BY <1>5, <3>1, RowJoins
    <3> QED BY <1>5, <1>6, <2>1, <3>1, <3>2 DEF SameElsewhere
  <2>2. CASE c.kind = "edit" /\ c.served = "ok"
    BY <1>5, <1>6, <2>2, RowReplaces
  <2>3. CASE c.kind = "edit" /\ c.served # "ok"
    BY <1>5, <1>6, <2>3, RowReplaces
  <2> QED BY <2>1, <2>2, <2>3
<1>8. BookmarksTypeOK'
  BY <1>1, <1>2, <1>6 DEF MarksInv, BookmarksTypeOK
<1>9. MarksFit'
  <2>1. IdsFit(f)'
    BY <1>1, <1>3, <1>4, <1>6, <1>7 DEF IdsFit, CallsFit
  <2> QED BY <2>1 DEF MarksFit
<1>10. ListUnread => ListUnread'
  BY <1>1, <1>6 DEF ListUnread
<1>11. ASSUME NEW p \in Spots \ unsure'  PROVE PlaceAgrees(p)'
  <2>1. PlaceAgrees(p)
    BY <1>2 DEF MarksInv, PlacesAgreeing
  <2>2. CASE p # c.bm.place
    BY <1>1, <1>6, <1>7, <1>10, <2>1, <2>2, PlaceStays DEF Of
  <2>3. CASE p = c.bm.place
    <3>1. Of(c, p)
      BY <2>3 DEF Of
    <3>2. Pending(c, At(kept, p), At(shown, p)) /\ \A d \in calls : Of(d, p) => d = c
      BY <2>1, <3>1 DEF PlaceAgrees
    <3>3. \A d \in calls' : ~Of(d, p)
      BY <1>6, <3>2
    <3>4. CASE c.kind = "remove"
      <4>1. At(shown, p) = {} /\ At(kept, p) = IF c.served = "ok" THEN {} ELSE {c.prior}
        BY <3>2, <3>4 DEF Pending, Creations
      <4>2. At(shown', p) = IF c.served = "failed" THEN {c.prior} ELSE {}
        <5>1. c.served = "failed" => At(With(shown, c.prior), p) = {c.prior}
          <6>1. At(shown, c.prior.place) = {}
            BY <1>5, <2>3, <4>1
          <6>2. PICK rows, row, after : rows = shown /\ row = c.prior /\ after = With(rows, row)
            OBVIOUS
          <6>a. ListFits(rows, f, n) /\ IdFits(row, f, n) /\ At(rows, row.place) = {}
            BY <1>5, <6>1, <6>2
          <6>3. At(after, row.place) = {row}
            BY <6>2, <6>a, RowJoins
          <6> QED BY <1>5, <2>3, <6>2, <6>3
        <5> QED BY <1>6, <3>4, <4>1, <5>1
      <4>3. c.served \in {"ok", "failed"}
        BY <1>1, <1>5 DEF MarkCalls
      <4>4. At(kept', p) = At(shown', p) /\ AtMostOne(At(kept', p))
        BY <1>1, <4>1, <4>2, <4>3 DEF AtMostOne
      <4> QED BY <3>3, <4>4, PlaceSettles
    <3>5. CASE c.kind = "edit"
      <4>1. At(shown, p) = {c.bm} /\ At(kept, p) = {IF c.served = "ok" THEN c.bm ELSE c.prior}
        BY <3>2, <3>5 DEF Pending, Creations
      <4>2. c.served = "ok" => At(shown', p) = {c.bm}
        BY <1>5, <1>6, <2>3, <3>5, <4>1, RowReplaces
      <4>3. c.served # "ok" => At(shown', p) = {c.prior}
        BY <1>5, <1>6, <2>3, <3>5, <4>1, RowReplaces
      <4>4. At(kept', p) = At(shown', p) /\ AtMostOne(At(kept', p))
        BY <1>1, <4>1, <4>2, <4>3 DEF AtMostOne
      <4> QED BY <3>3, <4>4, PlaceSettles
    <3> QED BY <3>4, <3>5
  <2> QED BY <2>2, <2>3
<1> QED BY <1>8, <1>9, <1>11 DEF MarksInv, PlacesAgreeing

(* The answer of a toggle: a queued press undoes it, or it ends with a     *)
(* list that says what is there.                                           *)
LEMMA ToggleAnswerCases ==
  ASSUME MarksInv, NEW f \in [Nat -> Spots], IdsFit(f), NEW n \in Nat, n = counts.ids,
         NEW c \in calls, c.kind \in {"add", "readd", "del", "undo"}, c.served # "no", ToggleAnswered(c)
  PROVE  \/ \E m \in MarkCalls :
               /\ calls' = (calls \ {c}) \cup {m} /\ shown' = shown /\ memo' = shown
               /\ toggle' = [toggle EXCEPT !.queued = FALSE]
               /\ CallFits(m, f, n) /\ m.kind # "read" /\ m.bm.place = c.bm.place
               /\ \A there, listed : Pending(c, there, listed) => Pending(m, there, listed)
         \/ \E rows :
               /\ ToggleEnds(rows, calls \ {c}) /\ ListFits(rows, f, n)
               /\ \A p : p # c.bm.place => At(rows, p) = At(shown, p)
               /\ Pending(c, At(kept, c.bm.place), At(shown, c.bm.place)) =>
                     At(rows, c.bm.place) = At(kept, c.bm.place) /\ AtMostOne(At(kept, c.bm.place))
               /\ toggle.queued => c.kind = "readd" \/ c.served = "failed" \/ rows = shown
<1>1. /\ c \in MarkCalls /\ ListFits(shown, f, n) /\ c.served \in {"ok", "failed"} /\ CallFits(c, f, n)
      /\ c.bm \in [id : Nat, place : Spots \cup {0}, text : Nat]
  BY DEF IdsFit, CallsFit, MarkCalls
<1>2. PICK rest : rest = calls \ {c}
  OBVIOUS
<1>3. CASE c.kind \in Creations /\ c.served = "ok"
  <2>1. PICK bm : bm = Made(c)
    OBVIOUS
  <2>2. IdFits(bm, f, n) /\ bm.place = c.bm.place
    BY <1>1, <1>3, <2>1 DEF CallFits, Made
  <2>3. \A there, listed : Pending(c, there, listed) => listed = {} /\ there = {bm}
    BY <1>3, <2>1 DEF Pending, Creations
  <2>4. CASE c.kind = "add" /\ UndoneBy(Call("undo", bm, bm), shown, rest)
    <3>1. PICK m : m = Call("undo", bm, bm)
      OBVIOUS
    <3>2. bm \in [id : Nat, place : Spots \cup {0}, text : Nat]
      BY <2>2 DEF IdFits, Marks
    <3>3. m \in MarkCalls /\ m.kind = "undo" /\ m.bm = bm /\ m.prior = bm /\ m.served = "no" /\ m.got = {}
      <4>1. "undo" \in Changes \cup Creations
        BY DEF Changes
      <4> QED BY <3>1, <3>2, <4>1, CallTyped
    <3>4. CallFits(m, f, n)
      BY <2>2, <3>3 DEF CallFits, Creations
    <3>5. \A there, listed : Pending(c, there, listed) => Pending(m, there, listed)
      BY <2>3, <3>3 DEF Pending, Creations
    <3>6. calls' = rest \cup {m} /\ shown' = shown /\ memo' = shown /\ toggle' = [toggle EXCEPT !.queued = FALSE]
      BY <2>4, <3>1 DEF UndoneBy, Shown
    <3> QED BY <1>2, <2>2, <3>3, <3>4, <3>5, <3>6
  <2>5. CASE ToggleEnds(shown \cup {bm}, rest) /\ (c.kind = "readd" \/ ~toggle.queued)
    <3>1. PICK old, rows : old = shown /\ rows = With(old, bm)
      OBVIOUS
    <3>2. ToggleEnds(rows, rest)
      BY <2>5, <3>1 DEF With
    <3>b. ListFits(old, f, n) /\ IdFits(bm, f, n)
      BY <1>1, <2>2, <3>1
    <3>a. /\ ListFits(rows, f, n) /\ SameElsewhere(old, rows, bm.place)
          /\ (At(old, bm.place) = {} => At(rows, bm.place) = {bm})
      BY <3>1, <3>b, RowJoins
    <3>3. /\ ListFits(rows, f, n) /\ \A p : p # c.bm.place => At(rows, p) = At(shown, p)
          /\ (At(shown, c.bm.place) = {} => At(rows, c.bm.place) = {bm})
      BY <2>2, <3>1, <3>a DEF SameElsewhere
    <3>4. Pending(c, At(kept, c.bm.place), At(shown, c.bm.place)) =>
             At(rows, c.bm.place) = At(kept, c.bm.place) /\ AtMostOne(At(kept, c.bm.place))
      BY <2>3, <3>3 DEF AtMostOne
    <3> QED BY <1>2, <2>5, <3>2, <3>3, <3>4
  <2>6. CASE c.kind = "add"
    <3>1. UndoneBy(Call("undo", bm, bm), shown, rest) \/ (~toggle.queued /\ ToggleEnds(shown \cup {bm}, rest))
      BY <1>2, <1>3, <2>1, <2>6 DEF ToggleAnswered, Made
    <3> QED BY <2>4, <2>5, <2>6, <3>1
  <2>7. CASE c.kind = "readd"
    <3>1. ToggleEnds(shown \cup {bm}, rest)
      BY <1>2, <1>3, <2>1, <2>7 DEF ToggleAnswered, Made
    <3> QED BY <2>5, <2>7, <3>1
  <2> QED BY <1>3, <2>6, <2>7 DEF Creations
<1>4. CASE c.kind = "del" /\ c.served = "ok"
  <2>1. PICK b : b = [c.bm EXCEPT !.id = 0, !.text = 0]
    OBVIOUS
  <2>2. c.bm.place \in Spots
    BY <1>1, <1>4 DEF CallFits, Changes, IdFits, Marks
  <2>3. b \in [id : Nat, place : Spots \cup {0}, text : Nat] /\ b.place = c.bm.place
    BY <1>1, <2>1
  <2>4. \A there, listed : Pending(c, there, listed) => listed = {} /\ there = {}
    BY <1>4 DEF Pending, Creations
  <2>5. UndoneBy(Call("readd", b, Nobody), shown, rest) \/ (~toggle.queued /\ ToggleEnds(shown, rest))
    BY <1>2, <1>4, <2>1 DEF ToggleAnswered
  <2>6. CASE UndoneBy(Call("readd", b, Nobody), shown, rest)
    <3>1. PICK m : m = Call("readd", b, Nobody)
      OBVIOUS
    <3>2. m \in MarkCalls /\ m.kind = "readd" /\ m.bm = b /\ m.served = "no" /\ m.got = {}
      <4>1. m.kind = "readd"
        BY <3>1 DEF Call
      <4> QED BY <2>3, <3>1, <4>1, CreationTyped
    <3>3. CallFits(m, f, n)
      BY <2>2, <2>3, <3>2 DEF CallFits, Changes
    <3>4. \A there, listed : Pending(c, there, listed) => Pending(m, there, listed)
      BY <2>4, <3>2 DEF Pending, Creations
    <3>5. calls' = rest \cup {m} /\ shown' = shown /\ memo' = shown /\ toggle' = [toggle EXCEPT !.queued = FALSE]
      BY <2>6, <3>1 DEF UndoneBy, Shown
    <3> QED BY <1>2, <2>3, <3>2, <3>3, <3>4, <3>5
  <2>7. CASE ToggleEnds(shown, rest)
    BY <1>1, <1>2, <2>4, <2>7 DEF AtMostOne
  <2> QED BY <2>5, <2>6, <2>7
<1>5. CASE c.kind \in {"del", "undo"} /\ c.served = "failed"
  <2>1. PICK old, rows, row : old = shown /\ row = c.prior /\ rows = With(old, row)
    OBVIOUS
  <2>2. ToggleEnds(rows, rest)
    BY <1>2, <1>5, <2>1 DEF ToggleAnswered, With
  <2>3. IdFits(c.prior, f, n) /\ c.prior.place = c.bm.place
    BY <1>1, <1>5 DEF CallFits, Changes, IdFits
  <2>a. /\ ListFits(rows, f, n) /\ SameElsewhere(old, rows, row.place)
        /\ (At(old, row.place) = {} => At(rows, row.place) = {row})
    BY <1>1, <2>1, <2>3, RowJoins
  <2>4. /\ ListFits(rows, f, n) /\ \A p : p # c.bm.place => At(rows, p) = At(shown, p)
        /\ (At(shown, c.bm.place) = {} => At(rows, c.bm.place) = {c.prior})
    BY <2>1, <2>3, <2>a DEF SameElsewhere
  <2>5. \A there, listed : Pending(c, there, listed) => listed = {} /\ there = {c.prior}
    BY <1>5 DEF Pending, Creations
  <2>6. Pending(c, At(kept, c.bm.place), At(shown, c.bm.place)) =>
           At(rows, c.bm.place) = At(kept, c.bm.place) /\ AtMostOne(At(kept, c.bm.place))
    BY <2>4, <2>5 DEF AtMostOne
  <2> QED BY <1>2, <1>5, <2>2, <2>4, <2>6
<1>6. CASE (c.kind = "undo" /\ c.served = "ok") \/ (c.kind \in Creations /\ c.served = "failed")
  <2>1. ToggleEnds(shown, rest)
    BY <1>2, <1>6 DEF ToggleAnswered, Creations
  <2>2. \A there, listed : Pending(c, there, listed) => listed = {} /\ there = {}
    BY <1>6 DEF Pending, Creations
  <2> QED BY <1>1, <1>2, <2>1, <2>2 DEF AtMostOne
<1> QED BY <1>1, <1>3, <1>4, <1>5, <1>6 DEF Creations

LEMMA ToggleAnswerKeeps ==
  ASSUME MarksInv, NEW c \in calls, BookmarkAnswer(c), c.kind \in {"add", "readd", "del", "undo"}
  PROVE  MarksInv'
<1>1. /\ c.served # "no" /\ ToggleAnswered(c) /\ UNCHANGED <<kept, here, counts>>
      /\ unsure' = IF toggle.queued /\ (\/ c.kind = "readd" \/ c.served = "failed" \/ ListUnread
                                        \/ \E d \in calls \ {c} : d.bm.place = here)
                   THEN unsure \cup {c.bm.place, here} ELSE unsure
  BY DEF BookmarkAnswer
<1>2. PICK f \in [Nat -> Spots] : IdsFit(f)
  BY DEF MarksInv, MarksFit
<1>3. PICK n \in Nat : n = counts.ids
  BY DEF MarksInv, BookmarksTypeOK
<1>4. PICK rest : rest = calls \ {c}
  OBVIOUS
<1>5. /\ memo = shown /\ here \in Spots /\ toggle \in [busy : BOOLEAN, queued : BOOLEAN]
      /\ unsure \in SUBSET Spots /\ counts \in [ids : Nat, presses : Nat, changes : Nat, reads : Nat]
      /\ ListFits(shown, f, n) /\ CallsFit(rest, f, n) /\ PlacesAgreeing
  BY <1>2, <1>3, <1>4 DEF MarksInv, BookmarksTypeOK, IdsFit, CallsFit
<1>6. PICK q \in Spots : q = c.bm.place
  BY <1>2 DEF IdsFit, CallsFit, CallFits, Changes, Creations, IdFits, Marks
<1>7. unsure \subseteq unsure' /\ unsure' \in SUBSET Spots
  BY <1>1, <1>5, <1>6
<1>8. \A d \in rest : q \notin unsure => ~Of(d, q)
  BY <1>4, <1>5, <1>6 DEF PlacesAgreeing, PlaceAgrees, Of
<1>9. q \notin unsure => Pending(c, At(kept, q), At(shown, q))
  BY <1>5, <1>6 DEF PlacesAgreeing, PlaceAgrees, Of
<1>10. \A p : p # q => ~Of(c, p)
  BY <1>6 DEF Of
<1>11. (\E d \in calls : d.kind = "read") => \E d \in rest : d.kind = "read"
  BY <1>4
\* what every case below has to show of the next state
<1>12. ASSUME CallsFit(calls', f, n), ListFits(shown', f, n), memo' = shown',
              toggle' \in [busy : BOOLEAN, queued : BOOLEAN],
              \A p \in Spots \ unsure' : PlaceAgrees(p)'
       PROVE  MarksInv'
  <2>1. BookmarksTypeOK'
    BY <1>1, <1>5, <1>7, <1>12 DEF BookmarksTypeOK
  <2>2. IdsFit(f)'
    BY <1>1, <1>2, <1>3, <1>12 DEF IdsFit
  <2> QED BY <1>12, <2>1, <2>2 DEF MarksInv, MarksFit, PlacesAgreeing
<1>13. ASSUME NEW m \in MarkCalls, calls' = rest \cup {m}, shown' = shown, memo' = shown,
              toggle' = [toggle EXCEPT !.queued = FALSE], CallFits(m, f, n), m.kind # "read", m.bm.place = q,
              \A there, listed : Pending(c, there, listed) => Pending(m, there, listed)
       PROVE  MarksInv'
  <2>1. CallsFit(calls', f, n) /\ toggle' \in [busy : BOOLEAN, queued : BOOLEAN]
    BY <1>5, <1>13 DEF CallsFit
  <2>2. ListUnread => ListUnread'
    BY <1>1, <1>11, <1>13 DEF ListUnread
  <2>3. ASSUME NEW p \in Spots \ unsure'  PROVE PlaceAgrees(p)'
    <3>1. CASE p # q
      <4>1. PlaceAgrees(p) /\ ~Of(m, p) /\ ~Of(c, p)
        BY <1>5, <1>7, <1>10, <1>13, <2>3, <3>1 DEF PlacesAgreeing, Of
      <4>2. \A d : Of(d, p) => (d \in calls <=> d \in calls')
        BY <1>4, <1>13, <4>1
      <4> QED BY <1>1, <1>13, <2>2, <4>1, <4>2, PlaceStays
    <3>2. CASE p = q
      <4>1. m \in calls' /\ Of(m, p) /\ \A d \in calls' : Of(d, p) => d = m
        BY <1>7, <1>8, <1>13, <2>3, <3>2 DEF Of
      <4>2. Pending(m, At(kept', p), At(shown', p))
        BY <1>1, <1>7, <1>9, <1>13, <2>3, <3>2
      <4> QED BY <4>1, <4>2, PlaceHasCall
    <3> QED BY <3>1, <3>2
  <2> QED BY <1>5, <1>12, <1>13, <2>1, <2>3
<1>14. ASSUME NEW rows, ToggleEnds(rows, rest), ListFits(rows, f, n),
              \A p : p # q => At(rows, p) = At(shown, p),
              Pending(c, At(kept, q), At(shown, q)) => At(rows, q) = At(kept, q) /\ AtMostOne(At(kept, q)),
              toggle.queued => c.kind = "readd" \/ c.served = "failed" \/ rows = shown
       PROVE  MarksInv'
  <2>1. q \notin unsure => At(rows, q) = At(kept, q) /\ AtMostOne(At(kept, q))
    BY <1>9, <1>14
  <2>2. CASE ~toggle.queued
    <3>1. toggle' = Idle /\ calls' = rest /\ shown' = rows /\ memo' = rows
      BY <1>14, <2>2 DEF ToggleEnds, Shown
    <3>2. toggle' \in [busy : BOOLEAN, queued : BOOLEAN] /\ (ListUnread => ListUnread')
      BY <1>1, <1>11, <3>1 DEF Idle, ListUnread
    <3>3. ASSUME NEW p \in Spots \ unsure'  PROVE PlaceAgrees(p)'
      <4>1. CASE p # q
        <5>1. PlaceAgrees(p) /\ \A d : Of(d, p) => (d \in calls <=> d \in calls')
          BY <1>4, <1>5, <1>7, <1>10, <3>1, <3>3, <4>1 DEF PlacesAgreeing
        <5>2. At(shown', p) = At(shown, p)
          BY <1>14, <3>1, <4>1
        <5> QED BY <1>1, <3>2, <5>1, <5>2, PlaceStays
      <4>2. CASE p = q
        <5>1. \A d \in calls' : ~Of(d, p)
          BY <1>7, <1>8, <3>1, <3>3, <4>2
        <5>2. At(kept', p) = At(shown', p) /\ AtMostOne(At(kept', p))
          BY <1>1, <1>7, <2>1, <3>1, <3>3, <4>2
        <5> QED BY <5>1, <5>2, PlaceSettles
      <4> QED BY <4>1, <4>2
    <3> QED BY <1>5, <1>12, <1>14, <3>1, <3>2, <3>3
  <2>3. CASE toggle.queued
    <3>1. PICK seen : seen = shown
      OBVIOUS
    <3>2. toggle' = [Idle EXCEPT !.busy = TRUE] /\ ToggleStarts(seen, rows, rest)
      BY <1>5, <1>14, <2>3, <3>1 DEF ToggleEnds
    <3>3. toggle' \in [busy : BOOLEAN, queued : BOOLEAN]
      BY <3>2 DEF Idle
    <3>4. ListFits(seen, f, n)
      BY <1>5, <3>1
    <3>5. /\ CallsFit(calls', f, n) /\ ListFits(shown', f, n) /\ memo' = shown'
          /\ \E m : /\ calls' = rest \cup {m} /\ Of(m, here)
                    /\ rows = seen /\ AtMostOne(At(seen, here)) => Pending(m, At(seen, here), At(shown', here))
          /\ \A p : p # here => At(shown', p) = At(rows, p)
      BY <1>5, <1>14, <3>2, <3>4, ToggleStartsCall
    <3>6. PICK m : /\ calls' = rest \cup {m} /\ Of(m, here)
                   /\ rows = seen /\ AtMostOne(At(seen, here)) => Pending(m, At(seen, here), At(shown', here))
      BY <3>5
    <3>7. ListUnread => ListUnread'
      BY <1>1, <1>11, <3>6 DEF ListUnread
    <3>8. \A p : p # here => ~Of(m, p)
      BY <3>6 DEF Of
    <3>9. ASSUME NEW p \in Spots \ unsure', p # here, p # q  PROVE PlaceAgrees(p)'
      <4>1. PlaceAgrees(p) /\ \A d : Of(d, p) => (d \in calls <=> d \in calls')
        BY <1>4, <1>5, <1>7, <1>10, <3>6, <3>8, <3>9 DEF PlacesAgreeing
      <4>2. At(shown', p) = At(shown, p)
        BY <1>14, <3>5, <3>9
      <4> QED BY <1>1, <3>7, <4>1, <4>2, PlaceStays
    <3>10. ASSUME q \notin unsure', q # here  PROVE PlaceAgrees(q)'
      <4>1. \A d \in calls' : ~Of(d, q)
        BY <1>7, <1>8, <3>6, <3>8, <3>10
      <4>2. At(kept', q) = At(shown', q) /\ AtMostOne(At(kept', q))
        BY <1>1, <1>7, <2>1, <3>5, <3>10
      <4> QED BY <4>1, <4>2, PlaceSettles
    <3>11. ASSUME here \notin unsure'  PROVE PlaceAgrees(here)'
      <4>1. ~ListUnread /\ rows = seen /\ \A d \in rest : d.bm.place # here
        BY <1>1, <1>4, <1>14, <2>3, <3>1, <3>11
      <4>2. At(seen, here) = At(kept, here) /\ AtMostOne(At(kept, here))
        <5>1. CASE here = q
          BY <1>7, <2>1, <3>11, <4>1, <5>1
        <5>2. CASE here # q
          <6>1. PlaceAgrees(here) /\ ~OpOn(here)
            BY <1>4, <1>5, <1>6, <1>7, <3>11, <4>1, <5>2 DEF PlacesAgreeing, OpOn
          <6> QED BY <3>1, <4>1, <6>1 DEF PlaceAgrees
        <5> QED BY <5>1, <5>2
      <4>3. PICK p : p = here
        OBVIOUS
      <4>4. Pending(m, At(kept', p), At(shown', p))
        BY <1>1, <3>6, <4>1, <4>2, <4>3
      <4>5. m \in calls' /\ Of(m, p) /\ \A d \in calls' : Of(d, p) => d = m
        BY <3>6, <4>1, <4>3 DEF Of
      <4>6. PlaceAgrees(p)'
        BY <4>4, <4>5, PlaceHasCall
      <4> QED BY <1>1, <4>3, <4>6
    <3>12. ASSUME NEW p \in Spots \ unsure'  PROVE PlaceAgrees(p)'
      BY <1>1, <3>9, <3>10, <3>11, <3>12
    <3> QED BY <1>12, <3>3, <3>5, <3>12
  <2> QED BY <2>2, <2>3
<1>15. \/ \E m \in MarkCalls :
             /\ calls' = (calls \ {c}) \cup {m} /\ shown' = shown /\ memo' = shown
             /\ toggle' = [toggle EXCEPT !.queued = FALSE]
             /\ CallFits(m, f, n) /\ m.kind # "read" /\ m.bm.place = c.bm.place
             /\ \A there, listed : Pending(c, there, listed) => Pending(m, there, listed)
       \/ \E rows :
             /\ ToggleEnds(rows, calls \ {c}) /\ ListFits(rows, f, n)
             /\ \A p : p # c.bm.place => At(rows, p) = At(shown, p)
             /\ Pending(c, At(kept, c.bm.place), At(shown, c.bm.place)) =>
                   At(rows, c.bm.place) = At(kept, c.bm.place) /\ AtMostOne(At(kept, c.bm.place))
             /\ toggle.queued => c.kind = "readd" \/ c.served = "failed" \/ rows = shown
  BY <1>1, <1>2, <1>3, ToggleAnswerCases
<1> QED BY <1>4, <1>6, <1>13, <1>14, <1>15

-----------------------------------------------------------------------------
LEMMA MarksInvInit == BookmarksInit => MarksInv
<1> SUFFICES ASSUME BookmarksInit PROVE MarksInv
  OBVIOUS
<1>1. /\ shown = {} /\ memo = {} /\ here \in Spots /\ toggle = Idle /\ calls = {} /\ unsure = {}
      /\ counts = [ids |-> 1, presses |-> 0, changes |-> 0, reads |-> 0]
  BY DEF BookmarksInit
<1>2. PICK q \in Spots : \A b \in kept : b = [id |-> 1, place |-> q, text |-> 0]
  BY <1>1 DEF BookmarksInit
<1>3. BookmarksTypeOK
  BY <1>1 DEF BookmarksTypeOK, Idle
<1>4. PICK f \in [Nat -> Spots] : f = [n \in Nat |-> q]
  OBVIOUS
<1>5. ListFits(kept, f, 1)
  BY <1>2, <1>4 DEF ListFits, IdFits, Marks
<1>6. IdsFit(f)
  BY <1>1, <1>5 DEF IdsFit, ListFits, CallsFit
<1>7. ASSUME NEW p \in Spots  PROVE PlaceAgrees(p)
  <2>1. AtMostOne(At(kept, p)) /\ At(shown, p) = {} /\ ListUnread
    BY <1>1, <1>2 DEF AtMostOne, At, ListUnread
  <2> QED BY <1>1, <2>1 DEF PlaceAgrees
<1> QED BY <1>3, <1>6, <1>7 DEF MarksInv, MarksFit, PlacesAgreeing

LEMMA MarksInvNext == MarksInv /\ [BookmarksNext]_bookmarkVars => MarksInv'
<1> SUFFICES ASSUME MarksInv, [BookmarksNext]_bookmarkVars PROVE MarksInv'
  OBVIOUS
<1>1. CASE RefreshBookmarks \/ \E p \in Spots : MoveTo(p)
  BY <1>1, ReadOrMoveKeeps
<1>2. CASE PressToggle
  BY <1>2, PressToggleKeeps
<1>3. ASSUME NEW b \in shown, RemoveBookmark(b) \/ EditBookmark(b)  PROVE MarksInv'
  BY <1>3, PanelKeeps
<1>4. ASSUME NEW c \in calls, ServeBookmarks(c)  PROVE MarksInv'
  BY <1>4, ServeKeepsMarks
<1>5. ASSUME NEW c \in calls, BookmarkAnswer(c)  PROVE MarksInv'
  <2>1. c.kind \in {"read"} \cup Changes \cup Creations
    BY DEF MarksInv, MarksFit, IdsFit, CallsFit, MarkCalls
  <2>2. CASE c.kind = "read"
    BY <1>5, <2>2, ListAnswerKeeps
  <2>3. CASE c.kind \in {"remove", "edit"}
    BY <1>5, <2>3, PanelAnswerKeeps
  <2>4. CASE c.kind \in {"add", "readd", "del", "undo"}
    BY <1>5, <2>4, ToggleAnswerKeeps
  <2> QED BY <2>1, <2>2, <2>3, <2>4 DEF Changes, Creations
<1>6. CASE UNCHANGED bookmarkVars
  BY <1>6 DEF MarksInv, BookmarksTypeOK, MarksFit, IdsFit, PlacesAgreeing, PlaceAgrees, OpOn, ListUnread, bookmarkVars
<1> QED BY <1>1, <1>2, <1>3, <1>4, <1>5, <1>6 DEF BookmarksNext

(* Once the list has been read and nothing is in flight, it shows what the *)
(* server keeps, one bookmark to a place, for every set of places and      *)
(* every bound on presses, edits and reads.                                *)
THEOREM ListSaysWhatIsKept == BookmarksSpec => []BookmarksAgree
<1>1. MarksInv => BookmarksAgree
  <2> SUFFICES ASSUME MarksInv, calls = {}, counts.reads > 0, NEW p \in Spots \ unsure
               PROVE  At(shown, p) = At(kept, p) /\ Cardinality(At(kept, p)) <= 1
    BY DEF BookmarksAgree
  <2>1. PlaceAgrees(p) /\ ~OpOn(p) /\ ~ListUnread
    BY DEF MarksInv, PlacesAgreeing, BookmarksTypeOK, OpOn, ListUnread
  <2>2. At(shown, p) = At(kept, p) /\ AtMostOne(At(kept, p))
    BY <2>1 DEF PlaceAgrees
  <2>3. At(kept, p) = {} \/ \E b : At(kept, p) = {b}
    BY <2>2 DEF AtMostOne
  <2>4. Cardinality(At(kept, p)) <= 1
    <3>1. CASE At(kept, p) = {}
      <4>1. Cardinality(At(kept, p)) = 0
        BY <3>1, FS_EmptySet
      <4> QED BY <4>1
    <3>2. ASSUME NEW b, At(kept, p) = {b}  PROVE Cardinality(At(kept, p)) <= 1
      <4>1. Cardinality(At(kept, p)) = 1
        BY <3>2, FS_Singleton
      <4> QED BY <4>1
    <3> QED BY <2>3, <3>1, <3>2
  <2> QED BY <2>2, <2>4
<1> QED BY <1>1, MarksInvInit, MarksInvNext, PTL DEF BookmarksSpec

-----------------------------------------------------------------------------
(* The pull past a chapter's edge (ChapterPull)                            *)

Pulls == [dir : Directions \cup {"none"}, accum : Int, sent : BOOLEAN,
          timers : SUBSET {"reset", "hide", "flash"}, latched : BOOLEAN]
Touches == [down : BOOLEAN, along : Int, base : Int, edge : BOOLEAN, frame : BOOLEAN]

(* A pull that shows a pill or has been sent has a timer that ends it.     *)
Ending(p) == p \in Pulls /\ (p.dir # "none" \/ p.sent => p.timers # {})

(* A finger that has handed off a chapter is latched while it stays down.  *)
PullInv ==
    /\ Ending(pull) /\ touch \in Touches /\ wheel.sum \in Int
    /\ wheel \in [sum : Int, paged : Int, frame : BOOLEAN]
    /\ handed \in {0, 1} /\ (handed = 1 /\ touch.down => pull.latched)

(* What each operation of the controller makes of a pull.                  *)
LEMMA ResetPullEnds ==
  ASSUME NEW p, p \in Pulls
  PROVE  Ending(ResetPull(p)) /\ ResetPull(p).latched = p.latched
<1>1. ResetPull(p) = [dir |-> "none", accum |-> 0, sent |-> FALSE, timers |-> {}, latched |-> p.latched]
  <2>1. PICK latched \in BOOLEAN : latched = p.latched
    BY DEF Pulls
  <2>2. PICK r : r = AtRest
    OBVIOUS
  <2>3. ResetPull(p) = [r EXCEPT !.latched = latched]
    BY <2>1, <2>2 DEF ResetPull
  <2> QED BY <2>1, <2>2, <2>3 DEF AtRest
<1>2. p.latched \in BOOLEAN
  BY DEF Pulls
<1> QED BY <1>1, <1>2 DEF Ending, Pulls

ShowsPull(p, dir, n) == ScheduleReset([p EXCEPT !.dir = dir, !.accum = n])

LEMMA ShowsPullEnds ==
  ASSUME NEW p, p \in Pulls, NEW dir \in Directions, NEW n \in Int, NEW q, q = ShowsPull(p, dir, n)
  PROVE  Ending(q) /\ q.latched = p.latched /\ q.sent = p.sent
BY DEF Ending, Pulls, ShowsPull, ScheduleReset

LEMMA FireEnds ==
  ASSUME NEW p, p \in Pulls, NEW q, q = Fire(p)
  PROVE  Ending(q) /\ q.latched = p.latched
BY DEF Ending, Pulls, Fire

LEMMA AccumulateEnds ==
  ASSUME NEW p, Ending(p), NEW delta \in Int, NEW dir \in Directions
  PROVE  Ending(Accumulate(p, delta, dir)) /\ Accumulate(p, delta, dir).latched = p.latched
<1>1. PICK n \in Int : n = Capped((IF p.dir = dir THEN p.accum ELSE 0) + Abs(delta), WheelThreshold)
  BY PullAssumption DEF Capped, Abs, Ending, Pulls
<1>2. PICK q : q = ShowsPull(p, dir, n)
  OBVIOUS
<1>3. Ending(q) /\ q.latched = p.latched
  <2>1. p \in Pulls
    BY DEF Ending
  <2> QED BY <1>2, <2>1, ShowsPullEnds
<1>4. PICK r : r = Fire(q)
  OBVIOUS
<1>5. Ending(r) /\ r.latched = p.latched
  BY <1>3, <1>4, FireEnds DEF Ending
<1>6. Accumulate(p, delta, dir) \in {p, q, r}
  BY <1>1, <1>2, <1>4 DEF Accumulate, ShowsPull
<1> QED BY <1>3, <1>5, <1>6

(* Only a finger that is not latched fires, and it is latched by it.       *)
LEMMA ProcessTouchEnds ==
  ASSUME NEW p, Ending(p), NEW dir \in Directions, NEW n \in Int, NEW q, q = ProcessTouch(p, dir, n)
  PROVE  /\ Ending(q) /\ (p.latched => q.latched)
         /\ Fires(p, q) => ~p.latched /\ q.latched
<1>1. PICK s : s = ShowsPull(p, dir, n)
  OBVIOUS
<1>2. Ending(s) /\ s.latched = p.latched /\ s.sent = p.sent
  <2>1. p \in Pulls
    BY DEF Ending
  <2> QED BY <1>1, <2>1, ShowsPullEnds
<1>3. PICK l : l = [s EXCEPT !.latched = TRUE]
  OBVIOUS
<1>4. l \in Pulls /\ l.latched
  BY <1>2, <1>3 DEF Ending, Pulls
<1>5. PICK r : r = Fire(l)
  OBVIOUS
<1>6. Ending(r) /\ r.latched
  BY <1>4, <1>5, FireEnds
<1>7. \/ q = p
      \/ q = s /\ ~p.sent /\ ~p.latched
      \/ q = r /\ ~p.sent /\ ~p.latched
  BY <1>1, <1>3, <1>5 DEF ProcessTouch, ShowsPull
<1> QED BY <1>2, <1>6, <1>7 DEF Fires, Ending, Pulls

LEMMA FlashEdgeEnds ==
  ASSUME NEW p, Ending(p), NEW dir \in Directions
  PROVE  /\ Ending(FlashEdge(p, dir)) /\ FlashEdge(p, dir).latched = p.latched
         /\ Ending(TurnPast(p, dir)) /\ TurnPast(p, dir).latched = p.latched
<1>1. PICK r : r = ResetPull(p)
  OBVIOUS
<1>2. r \in Pulls /\ r.latched = p.latched
  BY <1>1, ResetPullEnds DEF Ending
<1>3. PICK q : q = [r EXCEPT !.dir = dir, !.timers = {"flash"}]
  OBVIOUS
<1>4. Ending(q) /\ q.latched = p.latched
  BY <1>2, <1>3 DEF Ending, Pulls
<1>5. FlashEdge(p, dir) \in {p, q} /\ TurnPast(p, dir) \in {p, q}
  BY <1>1, <1>3 DEF FlashEdge, TurnPast
<1> QED BY <1>4, <1>5

LEMMA EndGestureEnds ==
  ASSUME NEW p, Ending(p), NEW q, q = EndGesture(p)
  PROVE  Ending(q) /\ ~q.latched
BY DEF Ending, Pulls, EndGesture

LEMMA ForwardIsDirection == \A n \in Int : ForwardDir(n) \in Directions /\ Abs(n) \in Int
BY DEF ForwardDir, Directions, Abs

(* A step that leaves the finger alone keeps its latch.                    *)
LEMMA PullAloneKeeps ==
  ASSUME PullInv, UNCHANGED <<touch, handed>>, Ending(pull'), pull'.latched = pull.latched,
         wheel' \in [sum : Int, paged : Int, frame : BOOLEAN]
  PROVE  PullInv'
BY DEF PullInv

LEMMA FlushTouchKeeps ==
  ASSUME PullInv, FlushTouchPull
  PROVE  PullInv'
<1> DEFINE dir == ForwardDir(touch.along)
           meets == touch.along # 0 /\ (IF dir = "end" THEN AtBottom ELSE AtTop)
           base == IF touch.base # 0 THEN touch.base ELSE IF touch.edge THEN 0 ELSE touch.along
           distance == IF dir = "end" THEN touch.along - base ELSE Abs(touch.along - base)
           asleep == ~touch.down \/ ~PullTick("scroll")
<1>1. touch \in Touches /\ handed \in {0, 1} /\ Ending(pull)
  BY DEF PullInv
<1>2. dir \in Directions /\ base \in Int /\ distance \in Int
  BY <1>1, ForwardIsDirection DEF Touches
<1>3. PICK q : q = ProcessTouch(pull, dir, distance)
  OBVIOUS
<1>4. Ending(q) /\ (pull.latched => q.latched) /\ (Fires(pull, q) => ~pull.latched /\ q.latched)
  BY <1>1, <1>2, <1>3, ProcessTouchEnds
<1>5. PICK pulled : pulled = IF meets /\ distance > 0 THEN q ELSE pull
  OBVIOUS
<1>6. Ending(pulled) /\ (pull.latched => pulled.latched) /\ (Fires(pull, pulled) => ~pull.latched /\ pulled.latched)
  BY <1>1, <1>4, <1>5 DEF Fires
<1>7. /\ touch' = [touch EXCEPT !.frame = FALSE, !.base = IF asleep THEN @ ELSE IF meets THEN base ELSE 0]
      /\ pull' = IF asleep THEN pull ELSE pulled
      /\ handed' = IF ~asleep /\ Fires(pull, pulled) THEN Capped(handed + 1, 2) ELSE handed
      /\ wheel' = wheel
  BY <1>3, <1>5 DEF FlushTouchPull
<1>8. touch' \in Touches /\ touch'.down = touch.down
  <2>1. PICK n \in Int : n = IF asleep THEN touch.base ELSE IF meets THEN base ELSE 0
    BY <1>1, <1>2 DEF Touches
  <2>2. touch' = [touch EXCEPT !.frame = FALSE, !.base = n]
    BY <1>1, <1>7, <2>1 DEF Touches
  <2> QED BY <1>1, <2>2 DEF Touches
<1> HIDE DEF dir, meets, base, distance
<1>9. CASE ~asleep /\ Fires(pull, pulled)
  <2>1. handed = 0
    BY <1>1, <1>6, <1>9 DEF PullInv
  <2>2. handed' = 1 /\ pull' = pulled
    BY <1>7, <1>9, <2>1 DEF Capped
  <2> QED BY <1>6, <1>7, <1>8, <2>2, <1>9 DEF PullInv
<1>10. CASE asleep \/ ~Fires(pull, pulled)
  BY <1>6, <1>7, <1>8, <1>10 DEF PullInv
<1> QED BY <1>9, <1>10

LEMMA FingerKeeps ==
  ASSUME PullInv,
         HandleTouchStart \/ HandleTouchEnd \/ HandleTouchCancel \/ \E n \in Steps : HandleTouchMove(n)
  PROVE  PullInv'
<1>1. /\ touch \in Touches /\ handed \in {0, 1} /\ Ending(pull) /\ wheel.sum \in Int
      /\ wheel \in [sum : Int, paged : Int, frame : BOOLEAN]
  BY DEF PullInv
<1>2. PICK g : g = EndGesture(pull)
  OBVIOUS
<1>3. Ending(g) /\ ~g.latched
  BY <1>1, <1>2, EndGestureEnds
<1>4. CASE HandleTouchStart
  <2>1. touch' \in Touches
    <3>1. PICK edge \in BOOLEAN : edge = (AtTop \/ AtBottom)
      OBVIOUS
    <3>2. touch' = [down |-> TRUE, along |-> 0, base |-> 0, edge |-> edge, frame |-> touch.frame]
      BY <1>4, <3>1 DEF HandleTouchStart, Lifted
    <3> QED BY <1>1, <3>2 DEF Touches
  <2>2. pull' = g /\ handed' = 0 /\ wheel' = wheel
    BY <1>2, <1>4 DEF HandleTouchStart
  <2> QED BY <1>1, <1>3, <2>1, <2>2 DEF PullInv
<1>5. CASE HandleTouchEnd \/ HandleTouchCancel
  <2>a. /\ touch' \in {[touch EXCEPT !.down = FALSE], [touch EXCEPT !.down = FALSE, !.base = 0, !.edge = FALSE]}
        /\ handed' = handed /\ wheel' = wheel
    BY <1>5 DEF HandleTouchEnd, HandleTouchCancel
  <2>b. touch' \in Touches /\ ~touch'.down
    <3>1. CASE touch' = [touch EXCEPT !.down = FALSE]
      BY <1>1, <3>1 DEF Touches
    <3>2. CASE touch' = [touch EXCEPT !.down = FALSE, !.base = 0, !.edge = FALSE]
      <4>1. touch' = [down |-> FALSE, along |-> touch.along, base |-> 0, edge |-> FALSE, frame |-> touch.frame]
        BY <1>1, <3>2 DEF Touches
      <4> QED BY <1>1, <4>1 DEF Touches
    <3> QED BY <2>a, <3>1, <3>2
  <2>c. pull' \in {g, ResetPull(g), pull, TurnPast(pull, ForwardDir(touch.along))}
    BY <1>2, <1>5 DEF HandleTouchEnd, HandleTouchCancel
  <2>1. /\ touch' \in Touches /\ ~touch'.down /\ handed' = handed /\ wheel' = wheel
        /\ pull' \in {g, ResetPull(g), pull, TurnPast(pull, ForwardDir(touch.along))}
    BY <2>a, <2>b, <2>c
  <2>2. Ending(ResetPull(g))
    BY <1>3, ResetPullEnds DEF Ending
  <2>3. Ending(TurnPast(pull, ForwardDir(touch.along)))
    <3>1. PICK dir \in Directions : dir = ForwardDir(touch.along)
      BY <1>1, ForwardIsDirection DEF Touches
    <3> QED BY <1>1, <3>1, FlashEdgeEnds
  <2>4. Ending(pull')
    BY <1>1, <1>3, <2>1, <2>2, <2>3
  <2> QED BY <1>1, <2>1, <2>4 DEF PullInv
<1>6. ASSUME NEW n \in Steps, HandleTouchMove(n)  PROVE PullInv'
  <2>1. n \in Int
    BY PullAssumption DEF Steps
  <2>2. touch' = [touch EXCEPT !.along = n, !.frame = @ \/ frameView.mode = "scroll"]
        /\ UNCHANGED <<pull, wheel, handed>>
    BY <1>6 DEF HandleTouchMove
  <2>3. touch' \in Touches /\ touch'.down = touch.down
    BY <1>1, <2>1, <2>2 DEF Touches
  <2> QED BY <2>2, <2>3 DEF PullInv
<1> QED BY <1>4, <1>5, <1>6

LEMMA WheelKeeps ==
  ASSUME PullInv, \/ FlushWheelPull \/ PagedWheelRests
                  \/ \E n \in {-1, 1} : HandleWheel(n) \/ HandlePagedWheel(n)
  PROVE  PullInv'
<1>1. Ending(pull) /\ wheel \in [sum : Int, paged : Int, frame : BOOLEAN]
  BY DEF PullInv
<1>2. Ending(ResetPull(pull)) /\ ResetPull(pull).latched = pull.latched
  BY <1>1, ResetPullEnds DEF Ending
<1>3. CASE FlushWheelPull
  <2>1. PICK sum \in Int : sum = wheel.sum
    BY <1>1
  <2>2. PICK a, b : a = Accumulate(pull, sum, "start") /\ b = Accumulate(pull, sum, "end")
    OBVIOUS
  <2>3. Ending(a) /\ a.latched = pull.latched /\ Ending(b) /\ b.latched = pull.latched
    BY <1>1, <2>2, AccumulateEnds DEF Directions
  <2>4. /\ pull' \in {pull, a, b, ResetPull(pull)} /\ UNCHANGED <<touch, handed>>
        /\ wheel' = [wheel EXCEPT !.sum = 0, !.frame = FALSE]
    BY <1>3, <2>1, <2>2 DEF FlushWheelPull
  <2>5. wheel' \in [sum : Int, paged : Int, frame : BOOLEAN]
    <3>1. wheel' = [sum |-> 0, paged |-> wheel.paged, frame |-> FALSE]
      BY <1>1, <2>4
    <3> QED BY <1>1, <3>1
  <2> QED BY <1>1, <1>2, <2>3, <2>4, <2>5, PullAloneKeeps
<1>4. CASE PagedWheelRests
  <2>1. wheel' \in [sum : Int, paged : Int, frame : BOOLEAN]
    BY <1>1, <1>4 DEF PagedWheelRests
  <2> QED BY <1>1, <1>4, <2>1, PullAloneKeeps DEF PagedWheelRests
<1>5. ASSUME NEW n \in {-1, 1}, HandleWheel(n)  PROVE PullInv'
  <2>1. wheel' \in [sum : Int, paged : Int, frame : BOOLEAN]
    <3>1. PICK sum \in Int : sum = wheel.sum + n
      BY <1>1
    <3>2. wheel' = [sum |-> sum, paged |-> wheel.paged, frame |-> TRUE]
      BY <1>1, <1>5, <3>1 DEF HandleWheel
    <3> QED BY <1>1, <3>2
  <2> QED BY <1>1, <1>5, <2>1, PullAloneKeeps DEF HandleWheel
<1>6. ASSUME NEW n \in {-1, 1}, HandlePagedWheel(n)  PROVE PullInv'
  <2>1. PICK turn : turn = TurnPast(pull, ForwardDir(n))
    OBVIOUS
  <2>2. Ending(turn) /\ turn.latched = pull.latched
    <3>1. PICK dir \in Directions : dir = ForwardDir(n)
      BY ForwardIsDirection
    <3> QED BY <1>1, <2>1, <3>1, FlashEdgeEnds
  <2>3. pull' \in {pull, turn} /\ UNCHANGED <<touch, handed>>
    BY <1>6, <2>1 DEF HandlePagedWheel
  <2>4. PICK from \in Int : from = IF wheel.paged * n < 0 THEN 0 ELSE wheel.paged
    BY <1>1
  <2>5. wheel' \in {[wheel EXCEPT !.paged = 0], [wheel EXCEPT !.paged = from + n]}
    BY <1>6, <2>4 DEF HandlePagedWheel
  <2>6. wheel' \in [sum : Int, paged : Int, frame : BOOLEAN]
    BY <1>1, <2>5
  <2> QED BY <1>1, <2>2, <2>3, <2>6, PullAloneKeeps
<1> QED BY <1>3, <1>4, <1>5, <1>6

LEMMA AroundKeeps ==
  ASSUME PullInv, \/ TimerFires \/ SwapChapter \/ \E at \in Places : ScrollsTo(at)
                  \/ \E dir \in Directions : KeyAtEdge(dir)
                  \/ \E mode \in {"scroll", "paged"} : EnterMode(mode)
  PROVE  PullInv'
<1>1. Ending(pull) /\ wheel \in [sum : Int, paged : Int, frame : BOOLEAN]
  BY DEF PullInv
<1>2. Ending(ResetPull(pull)) /\ ResetPull(pull).latched = pull.latched
  BY <1>1, ResetPullEnds DEF Ending
<1>3. \A dir \in Directions : Ending(FlashEdge(pull, dir)) /\ FlashEdge(pull, dir).latched = pull.latched
  BY <1>1, FlashEdgeEnds
<1>4. Ending(pull') /\ pull'.latched = pull.latched
  BY <1>1, <1>2, <1>3 DEF TimerFires, SwapChapter, ScrollsTo, KeyAtEdge, EnterMode
<1>5. UNCHANGED <<touch, handed>> /\ wheel' \in {wheel, [wheel EXCEPT !.paged = 0]}
  BY DEF TimerFires, SwapChapter, ScrollsTo, KeyAtEdge, EnterMode
<1>6. wheel' \in [sum : Int, paged : Int, frame : BOOLEAN]
  BY <1>1, <1>5
<1> QED BY <1>4, <1>5, <1>6, PullAloneKeeps

LEMMA PullInvInit == PullInit => PullInv
<1> SUFFICES ASSUME PullInit PROVE PullInv
  OBVIOUS
<1>3. Ending(pull)
  BY DEF PullInit, AtRest, Ending, Pulls
<1>4. touch \in Touches /\ handed = 0 /\ wheel = [sum |-> 0, paged |-> 0, frame |-> FALSE]
  BY DEF PullInit, Lifted, Touches
<1> QED BY <1>3, <1>4 DEF PullInv

(* A finger leaves one chapter, and a pull that has been shown or sent     *)
(* always has a timer that ends it, for any thresholds and any reach of    *)
(* the finger.                                                             *)
THEOREM PullsAlwaysEnd == PullSpec => []PullsEnd
<1>1. PullInv => PullsEnd
  BY DEF PullInv, Ending, PullsEnd, OneHandOff, PillEnds
<1>2. PullInv /\ [PullNext]_pullVars => PullInv'
  <2> SUFFICES ASSUME PullInv, [PullNext]_pullVars PROVE PullInv'
    OBVIOUS
  <2>1. CASE UNCHANGED pullVars
    BY <2>1 DEF PullInv, pullVars
  <2>2. CASE PullNext
    BY <2>2, FlushTouchKeeps, FingerKeeps, WheelKeeps, AroundKeeps DEF PullNext
  <2> QED BY <2>1, <2>2
<1> QED BY <1>1, <1>2, PullInvInit, PTL DEF PullSpec

-----------------------------------------------------------------------------
(* Division and multiplication of page numbers.                            *)
LEMMA PagesDivide ==
    ASSUME NEW a \in Nat, NEW b \in Nat \ {0}
    PROVE  a \div b \in Nat /\ (a \div b) * b <= a /\ a < (a \div b) * b + b
  OBVIOUS

LEMMA PagesTimes ==
    ASSUME NEW a \in Nat, NEW b \in Nat, NEW c \in Nat
    PROVE  a * b \in Nat /\ (a <= c => a * b <= c * b) /\ (a + 1) * b = a * b + b
  OBVIOUS

LEMMA PagesQuotient ==
    ASSUME NEW a \in Nat, NEW b \in Nat \ {0}, NEW q \in Nat,
           q * b <= a, a < q * b + b
    PROVE  a \div b = q
<1>1. CASE a \div b < q
  <2>1. a \div b + 1 <= q BY <1>1, PagesDivide
  <2>2. (a \div b + 1) * b <= q * b BY <2>1, PagesDivide, PagesTimes
  <2>3. (a \div b + 1) * b = (a \div b) * b + b BY PagesDivide, PagesTimes
  <2> QED BY <2>2, <2>3, PagesDivide, PagesTimes
<1>2. CASE q < a \div b
  <2>1. q + 1 <= a \div b BY <1>2, PagesDivide
  <2>2. (q + 1) * b <= (a \div b) * b BY <2>1, PagesDivide, PagesTimes
  <2>3. (q + 1) * b = q * b + b BY PagesDivide, PagesTimes
  <2> QED BY <2>2, <2>3, PagesDivide, PagesTimes
<1> QED BY <1>1, <1>2, PagesDivide

(* The pages of a chapter.  A ratio is no more than the whole, and only a  *)
(* position that was saved wishes for a line.                              *)
Ratios == {r \in [num : Nat, den : Nat \ {0}] : r.num <= r.den}

PageWishes == {w \in [kind : {"top", "end", "saved"}, line : 0 .. NoLine, at : Ratios] :
                  w.kind # "saved" => w.line = NoLine}

PageStates ==
    [mode : {"paged", "scroll"}, restoring : BOOLEAN, wish : PageWishes, lay : Layouts,
     seen : Nat, stride : Nat, max : Nat, total : Nat, page : Nat, dom : Nat, target : Nat,
     turn : {"none", "out", "in"}, promoted : BOOLEAN, anchor : 0 .. NoLine,
     due : SUBSET Reasons, top : 0 .. Lines - 1]

PageReports == [line : 0 .. NoLine, at : Ratios, page : Nat, per : Nat \ {0}, fresh : BOOLEAN]

PageTypes ==
    /\ pg \in PageStates /\ said \in PageReports
    /\ acts \in [turns : Nat, layouts : Nat] /\ missed \in BOOLEAN

(* A chapter that scrolls waits for no relayout and fades no page, and one *)
(* that loads fades none.                                                  *)
PagesIdle(p) ==
    /\ p.mode = "scroll" => p.due = {} /\ p.turn = "none"
    /\ p.restoring => p.turn = "none"

(* What the controller measured, of this layout or of an earlier one.      *)
Measured(p) ==
    /\ p.stride > 0 /\ p.total > 0 /\ p.max = (p.total - 1) * p.stride
    /\ p.page \in 0 .. p.total - 1 /\ p.target = p.page * p.stride

PagesMeasured(p) == p.mode = "paged" /\ ~p.restoring => Measured(p)

(* The measures are those of the layout.                                   *)
OfLayout(p) == p.stride = p.lay.w /\ p.total = Columns(p.lay)

(* The measures are those of the layout, and the page shown is believed.   *)
PageSettled(p) ==
    /\ OfLayout(p)
    /\ p.turn = "none" => p.dom = p.target
    /\ p.anchor # NoLine => p.page = p.anchor \div p.lay.per

PagesSettled(p) ==
    p.mode = "paged" /\ ~p.restoring =>
        /\ p.seen # 0
        /\ p.due \cap Debounced = {} => p.seen = p.lay.w
        /\ p.due \cap {"settings", "media"} = {} /\ p.seen = p.lay.w => PageSettled(p)

PagedInv ==
    /\ PageTypes /\ PagesIdle(pg) /\ PagesMeasured(pg) /\ (~missed => PagesSettled(pg))
    /\ ReportsAgree

(* A column holds its lines, and the columns all of them.                  *)
LEMMA ColumnsHoldLines ==
    ASSUME NEW lay \in Layouts
    PROVE  /\ lay.w \in Nat \ {0} /\ lay.per \in Nat \ {0} /\ Columns(lay) \in Nat \ {0}
           /\ MaxScroll(lay) \in Nat
           /\ \A line \in 0 .. Lines - 1 : line \div lay.per \in 0 .. Columns(lay) - 1
           /\ \A page \in 0 .. Columns(lay) - 1 : page * lay.per <= Lines - 1
<1> DEFINE c == Columns(lay)
<1>1. lay.w \in Nat \ {0} /\ lay.per \in Nat \ {0} /\ Lines \in Nat \ {0}
  BY PagesAssumption DEF Layouts
<1>2. c \in Nat /\ c * lay.per <= Lines + lay.per - 1 /\ Lines - 1 < c * lay.per
  <2>1. Lines + lay.per - 1 \in Nat BY <1>1
  <2> QED BY <1>1, <2>1, PagesDivide DEF Columns
<1>3. c # 0
  <2>1. ASSUME c = 0 PROVE FALSE
    <3>1. c * lay.per = 0 BY <1>1, <2>1
    <3> QED BY <1>1, <1>2, <3>1
  <2> QED BY <2>1
<1>4. MaxScroll(lay) \in Nat
  <2>1. c - 1 \in Nat BY <1>2, <1>3
  <2>2. (c - 1) * lay.w \in Nat BY <1>1, <2>1, PagesTimes
  <2> QED BY <2>2 DEF MaxScroll
<1>5. ASSUME NEW line \in 0 .. Lines - 1 PROVE line \div lay.per \in 0 .. c - 1
  <2> DEFINE d == line \div lay.per
  <2>1. d \in Nat /\ d * lay.per <= line BY <1>1, PagesDivide
  <2>2. ASSUME c <= d PROVE FALSE
    <3>1. c * lay.per <= d * lay.per BY <1>1, <1>2, <2>1, <2>2, PagesTimes
    <3>2. c * lay.per \in Nat /\ d * lay.per \in Nat BY <1>1, <1>2, <2>1, PagesTimes
    <3> QED BY <1>1, <1>2, <2>1, <3>1, <3>2
  <2> QED BY <1>2, <2>1, <2>2
<1>6. ASSUME NEW page \in 0 .. c - 1 PROVE page * lay.per <= Lines - 1
  <2>1. page + 1 \in Nat /\ page + 1 <= c /\ page \in Nat BY <1>2
  <2>2. (page + 1) * lay.per <= c * lay.per BY <1>1, <1>2, <2>1, PagesTimes
  <2>3. (page + 1) * lay.per = page * lay.per + lay.per BY <1>1, <2>1, PagesTimes
  <2>4. c * lay.per \in Nat /\ page * lay.per \in Nat BY <1>1, <1>2, <2>1, PagesTimes
  <2> QED BY <1>1, <1>2, <2>2, <2>3, <2>4
<1> QED BY <1>1, <1>2, <1>3, <1>4, <1>5, <1>6

(* Whole pages are counted and found again.                                *)
LEMMA PagesCounted ==
    ASSUME NEW total \in Nat \ {0}, NEW stride \in Nat \ {0}
    PROVE  /\ (total - 1) * stride \in Nat
           /\ PageCountFrom((total - 1) * stride, stride) = total
           /\ \A page \in 0 .. total - 1 :
                 /\ page * stride \in Nat /\ page * stride <= (total - 1) * stride
                 /\ LogicalOffsetForPage(page, stride, (total - 1) * stride) = page * stride
<1> DEFINE x == (total - 1) * stride
<1>1. total - 1 \in Nat /\ 2 * stride \in Nat \ {0} OBVIOUS
<1>2. x \in Nat BY <1>1, PagesTimes
<1>3. (total - 1) * (2 * stride) = 2 * x OBVIOUS
<1>4. (2 * x + stride) \div (2 * stride) = total - 1
  <2>1. 2 * x + stride \in Nat BY <1>2
  <2> HIDE DEF x
  <2>2. 2 * x <= 2 * x + stride /\ 2 * x + stride < 2 * x + 2 * stride BY <1>2
  <2> QED BY <1>1, <1>3, <2>1, <2>2, PagesQuotient
<1>5. PageCountFrom(x, stride) = total BY <1>1, <1>4 DEF PageCountFrom
<1>6. ASSUME NEW page \in 0 .. total - 1
      PROVE  page * stride \in Nat /\ page * stride <= x
  BY <1>1, PagesTimes
<1>7. ASSUME NEW page \in 0 .. total - 1
      PROVE  LogicalOffsetForPage(page, stride, x) = page * stride
  BY <1>2, <1>6 DEF LogicalOffsetForPage, LeastOf
<1> QED BY <1>2, <1>5, <1>6, <1>7

(* Equal extents of one stride have as many pages.                         *)
LEMMA PagesCancel ==
    ASSUME NEW a \in Nat \ {0}, NEW b \in Nat \ {0}, NEW stride \in Nat \ {0},
           (a - 1) * stride = (b - 1) * stride
    PROVE  a = b
BY PagesCounted

LEMMA PageClamped ==
    ASSUME NEW page \in Int, NEW total \in Nat \ {0}
    PROVE  /\ ClampPage(page, total) \in 0 .. total - 1
           /\ page \in 0 .. total - 1 => ClampPage(page, total) = page
BY DEF ClampPage, MostOf, LeastOf

(* A ratio is a place among the pages, and a page a ratio.                 *)
LEMMA RatioIsPage ==
    ASSUME NEW r, r.num \in Nat, r.den \in Nat \ {0}, NEW total \in Nat \ {0}
    PROVE  PageForRatio(r, total) \in 0 .. total - 1
<1>1. r.num \in Nat /\ r.den \in Nat \ {0} OBVIOUS
<1>2. 2 * r.num * (total - 1) + r.den \in Nat /\ 2 * r.den \in Nat \ {0}
  <2>1. 2 * r.num \in Nat /\ total - 1 \in Nat BY <1>1
  <2>2. 2 * r.num * (total - 1) \in Nat BY <2>1, PagesTimes
  <2> QED BY <1>1, <2>2
<1>3. (2 * r.num * (total - 1) + r.den) \div (2 * r.den) \in Int BY <1>2, PagesDivide
<1> QED BY <1>3, PageClamped DEF PageForRatio

LEMMA PageIsRatio ==
    ASSUME NEW page \in Nat, NEW total \in Nat, total > 1 => page \in 0 .. total - 1
    PROVE  PagePercent(page, total) \in Ratios
BY DEF PagePercent, Ratios

LEMMA RatioIsLine ==
    ASSUME NEW r \in Ratios
    PROVE  TopForRatio(r) \in 0 .. Lines - 1
<1> DEFINE k == Lines - 1
           q == (r.num * k) \div r.den
<1>1. r.num \in Nat /\ r.den \in Nat \ {0} /\ r.num <= r.den BY DEF Ratios
<1>2. k \in Nat BY PagesAssumption
<1>3. r.num * k \in Nat /\ r.den * k \in Nat /\ r.num * k <= r.den * k
  BY <1>1, <1>2, PagesTimes
<1>4. q \in Nat /\ q * r.den <= r.num * k BY <1>1, <1>3, PagesDivide
<1>5. ASSUME k + 1 <= q PROVE FALSE
  <2>1. (k + 1) * r.den <= q * r.den BY <1>1, <1>2, <1>4, <1>5, PagesTimes
  <2>2. (k + 1) * r.den = k * r.den + r.den BY <1>1, <1>2, PagesTimes
  <2>3. k * r.den = r.den * k BY <1>1, <1>2
  <2>4. k * r.den \in Nat /\ q * r.den \in Nat BY <1>1, <1>2, <1>4, PagesTimes
  <2> QED BY <1>1, <1>3, <1>4, <2>1, <2>2, <2>3, <2>4
<1> QED BY <1>2, <1>4, <1>5 DEF TopForRatio

(* A line of the chapter is on the page the controller computes for it.    *)
LEMMA LineIsOnPage ==
    ASSUME NEW p \in PageStates, OfLayout(p), NEW line \in 0 .. Lines - 1
    PROVE  /\ PageOfLine(p, line) = line \div p.lay.per
           /\ PageOfLine(p, line) \in 0 .. p.total - 1
<1> DEFINE page == line \div p.lay.per
<1>1. p.lay \in Layouts BY DEF PageStates
<1>2. /\ p.lay.w \in Nat \ {0} /\ Columns(p.lay) \in Nat \ {0}
      /\ page \in 0 .. Columns(p.lay) - 1
  BY <1>1, ColumnsHoldLines
<1> HIDE DEF page
<1>3. page \in Nat /\ page * p.lay.w \in Nat BY <1>2, PagesTimes
<1>4. (page * p.lay.w) \div p.lay.w = page
  BY <1>2, <1>3, PagesQuotient
<1>5. PageAtOffset(page * p.lay.w, p.stride, p.total) = page
  BY <1>2, <1>3, <1>4, PageClamped DEF PageAtOffset, OfLayout
<1> QED BY <1>2, <1>5 DEF PageOfLine, LineX, OfLayout, page

(* What a scroll to a page leaves alone.                                   *)
SamePages(p, r) ==
    /\ r.mode = p.mode /\ r.restoring = p.restoring /\ r.lay = p.lay /\ r.seen = p.seen
    /\ r.stride = p.stride /\ r.total = p.total /\ r.page = p.page
    /\ r.due = p.due /\ r.anchor = p.anchor

(* The page that shows is where the controller scrolled to.                *)
PageShows(p) == OfLayout(p) /\ p.turn = "none" => p.dom = p.target

(* Where the browser lets the offset go.                                   *)
LEMMA ScrollIsThere ==
    ASSUME NEW p \in PageStates, Measured(p)
    PROVE  /\ LeastOf(p.target, MaxScroll(p.lay)) \in Nat
           /\ OfLayout(p) => LeastOf(p.target, MaxScroll(p.lay)) = p.target
<1>1. p.lay \in Layouts /\ p.total \in Nat \ {0} /\ p.stride \in Nat \ {0} /\ p.target \in Nat
  BY DEF PageStates, Measured
<1>2. MaxScroll(p.lay) \in Nat BY <1>1, ColumnsHoldLines
<1>3. p.page * p.stride <= (p.total - 1) * p.stride BY <1>1, PagesCounted DEF Measured
<1>4. ASSUME OfLayout(p) PROVE p.target <= MaxScroll(p.lay)
  BY <1>3, <1>4 DEF OfLayout, MaxScroll, Measured
<1> QED BY <1>1, <1>2, <1>4 DEF LeastOf

(* A scroll to a page, still or fading, goes to that page.                 *)
LEMMA ScrollLands ==
    ASSUME NEW p \in PageStates, NEW animated \in BOOLEAN,
           p.stride > 0, p.total > 0, p.max = (p.total - 1) * p.stride, p.page \in 0 .. p.total - 1
    PROVE  LET r == ApplyPageScroll(p, p.page, animated)
           IN  r \in PageStates /\ Measured(r) /\ PageShows(r) /\ SamePages(p, r)
               /\ (~animated => r.turn = "none")
<1> DEFINE target == p.page * p.stride
           r == ApplyPageScroll(p, p.page, animated)
<1>1. p.stride \in Nat \ {0} /\ p.total \in Nat \ {0} /\ p.dom \in Nat BY DEF PageStates
<1>2. target \in Nat /\ LogicalOffsetForPage(p.page, p.stride, p.max) = target
  BY <1>1, PagesCounted
<1> HIDE DEF target
<1>3. ASSUME r = Still(p, target)
      PROVE  r \in PageStates /\ Measured(r) /\ PageShows(r) /\ SamePages(p, r) /\ r.turn = "none"
  <2> DEFINE q == [p EXCEPT !.target = target]
  <2>1. q \in PageStates /\ Measured(q) /\ q.lay = p.lay /\ q.target = target
    BY <1>1, <1>2 DEF PageStates, Measured, target
  <2>2. /\ LeastOf(target, MaxScroll(p.lay)) \in Nat
        /\ OfLayout(q) => LeastOf(target, MaxScroll(p.lay)) = target
    <3> HIDE DEF q
    <3> QED BY <2>1, ScrollIsThere
  <2> DEFINE x == LeastOf(target, MaxScroll(p.lay))
  <2>3. r = [p EXCEPT !.dom = x, !.target = target, !.turn = "none", !.promoted = FALSE]
    BY <1>3 DEF Still
  <2>4. x \in Nat /\ (OfLayout(p) => x = target)
    <3>1. OfLayout(q) <=> OfLayout(p) BY DEF OfLayout, PageStates
    <3> QED BY <2>2, <3>1
  <2> HIDE DEF x, q, r
  <2>5. r \in PageStates BY <1>2, <2>3, <2>4 DEF PageStates
  <2>6. SamePages(p, r) /\ r.max = p.max /\ r.turn = "none" /\ r.dom = x /\ r.target = target
    BY <2>3 DEF PageStates, SamePages
  <2>7. Measured(r) BY <2>6 DEF Measured, SamePages, target
  <2>8. PageShows(r) BY <2>4, <2>6 DEF PageShows, SamePages, OfLayout
  <2> QED BY <2>5, <2>6, <2>7, <2>8
<1>4. ASSUME animated, r = Retarget(p, target)
      PROVE  r \in PageStates /\ Measured(r) /\ PageShows(r) /\ SamePages(p, r)
  <2>1. CASE p.turn = "out" /\ target = p.dom
    <3>1. r = [p EXCEPT !.turn = "none", !.promoted = FALSE, !.target = target]
      BY <1>4, <2>1 DEF Retarget
    <3> HIDE DEF r
    <3>2. r \in PageStates BY <1>2, <3>1 DEF PageStates
    <3>3. SamePages(p, r) /\ r.max = p.max /\ r.dom = target /\ r.target = target
      BY <2>1, <3>1 DEF PageStates, SamePages
    <3> QED BY <3>2, <3>3 DEF Measured, PageShows, SamePages, target
  <2>2. CASE ~(p.turn = "out" /\ target = p.dom)
    <3>1. r = [p EXCEPT !.turn = "out", !.target = target]
      BY <1>4, <2>2 DEF Retarget
    <3> HIDE DEF r
    <3>2. r \in PageStates BY <1>2, <3>1 DEF PageStates
    <3>3. SamePages(p, r) /\ r.max = p.max /\ r.turn = "out" /\ r.target = target
      BY <3>1 DEF PageStates, SamePages
    <3> QED BY <3>2, <3>3 DEF Measured, PageShows, SamePages, target
  <2> QED BY <2>1, <2>2
<1>5. ASSUME animated, r = [p EXCEPT !.target = target, !.turn = "out", !.promoted = TRUE]
      PROVE  r \in PageStates /\ Measured(r) /\ PageShows(r) /\ SamePages(p, r)
  <2> HIDE DEF r
  <2>1. r \in PageStates BY <1>2, <1>5 DEF PageStates
  <2>2. SamePages(p, r) /\ r.max = p.max /\ r.turn = "out" /\ r.target = target
    BY <1>5 DEF PageStates, SamePages
  <2> QED BY <2>1, <2>2 DEF Measured, PageShows, SamePages, target
<1>6. \/ r = Still(p, target)
      \/ animated /\ r = Retarget(p, target)
      \/ animated /\ r = [p EXCEPT !.target = target, !.turn = "out", !.promoted = TRUE]
  BY <1>2 DEF ApplyPageScroll
<1> HIDE DEF r
<1>7. /\ r \in PageStates /\ Measured(r) /\ PageShows(r) /\ SamePages(p, r)
      /\ ~animated => r.turn = "none"
  BY <1>3, <1>4, <1>5, <1>6
<1> QED BY <1>7 DEF r

(* A turn or a jump goes to a page there is, and gives the anchor up.      *)
LEMMA GoesToPage ==
    ASSUME NEW p \in PageStates, NEW page \in Int, NEW animated \in BOOLEAN,
           p.stride > 0, p.total > 0, p.max = (p.total - 1) * p.stride
    PROVE  LET r == GoToPage(p, page, animated)
           IN  /\ r \in PageStates /\ Measured(r) /\ PageShows(r)
               /\ r.mode = p.mode /\ r.restoring = p.restoring /\ r.lay = p.lay
               /\ r.seen = p.seen /\ r.stride = p.stride /\ r.total = p.total
               /\ r.due = p.due /\ r.anchor = NoLine
<1> DEFINE to == ClampPage(page, p.total)
           q == [p EXCEPT !.anchor = NoLine, !.page = to]
           r == ApplyPageScroll(q, q.page, animated)
<1>1. to \in 0 .. p.total - 1 /\ NoLine \in Nat
  <2>1. p.total \in Nat \ {0} BY DEF PageStates
  <2>2. NoLine \in Nat BY PagesAssumption DEF NoLine
  <2>3. to \in 0 .. p.total - 1 BY <2>1, PageClamped
  <2> QED BY <2>2, <2>3
<1> HIDE DEF to
<1>2. q \in PageStates /\ q.page = to
  <2>1. to \in Nat /\ NoLine \in 0 .. NoLine BY <1>1 DEF PageStates
  <2> QED BY <2>1 DEF PageStates
<1>3. /\ q.stride = p.stride /\ q.total = p.total /\ q.max = p.max /\ q.mode = p.mode
      /\ q.restoring = p.restoring /\ q.lay = p.lay /\ q.seen = p.seen /\ q.due = p.due
      /\ q.anchor = NoLine
  BY DEF PageStates
<1>4. GoToPage(p, page, animated) = r BY <1>2 DEF GoToPage, to
<1> HIDE DEF q
<1>5. q.stride > 0 /\ q.total > 0 /\ q.max = (q.total - 1) * q.stride /\ q.page \in 0 .. q.total - 1
  BY <1>1, <1>2, <1>3
<1>6. r \in PageStates /\ Measured(r) /\ PageShows(r) /\ SamePages(q, r) BY <1>2, <1>5, ScrollLands
<1> HIDE DEF r
<1>7. /\ r.mode = p.mode /\ r.restoring = p.restoring /\ r.lay = p.lay
      /\ r.seen = p.seen /\ r.stride = p.stride /\ r.total = p.total
      /\ r.due = p.due /\ r.anchor = NoLine
  BY <1>3, <1>6 DEF SamePages
<1> QED BY <1>4, <1>6, <1>7

(* A measure is of the layout.                                             *)
LEMMA MeasuresTheLayout ==
    ASSUME NEW p \in PageStates
    PROVE  LET q == MeasuredPages(p)
           IN  /\ q \in PageStates /\ OfLayout(q)
               /\ q.stride > 0 /\ q.total > 0 /\ q.max = (q.total - 1) * q.stride
               /\ q.mode = p.mode /\ q.restoring = p.restoring /\ q.lay = p.lay /\ q.seen = p.seen
               /\ q.due = p.due /\ q.anchor = p.anchor /\ q.wish = p.wish /\ q.page = p.page
<1> DEFINE q == MeasuredPages(p)
           c == Columns(p.lay)
           m == MaxScroll(p.lay)
           t == PageCountFrom(m, p.lay.w)
<1>1. p.lay \in Layouts BY DEF PageStates
<1>2. p.lay.w \in Nat \ {0} /\ c \in Nat \ {0} /\ m \in Nat BY <1>1, ColumnsHoldLines
<1>3. m = (c - 1) * p.lay.w BY DEF MaxScroll
<1>4. t = c BY <1>2, <1>3, PagesCounted
<1>5. q = [p EXCEPT !.stride = p.lay.w, !.max = m, !.total = t] BY DEF MeasuredPages
<1> HIDE DEF q, c, m, t
<1>6. q \in PageStates BY <1>2, <1>4, <1>5 DEF PageStates
<1>7. /\ q.mode = p.mode /\ q.restoring = p.restoring /\ q.lay = p.lay /\ q.seen = p.seen
      /\ q.due = p.due /\ q.anchor = p.anchor /\ q.wish = p.wish /\ q.page = p.page
  BY <1>5 DEF PageStates
<1>8. q.stride = p.lay.w /\ q.max = m /\ q.total = c BY <1>4, <1>5 DEF PageStates
<1>9. OfLayout(q) BY <1>7, <1>8 DEF OfLayout, c
<1>10. q.stride > 0 /\ q.total > 0 /\ q.max = (q.total - 1) * q.stride BY <1>2, <1>3, <1>8
<1> QED BY <1>6, <1>7, <1>9, <1>10 DEF q

(* What is reported: a page and a line of it.                              *)
LEMMA PositionAgrees ==
    ASSUME NEW p \in PageStates, p.mode = "paged" => Measured(p) /\ PageShows(p)
    PROVE  LET s == Position(p)
           IN  /\ s \in PageReports
               /\ s.fresh /\ s.line # NoLine => s.page = s.line \div s.per
<1> DEFINE s == Position(p)
<1>1. /\ p.lay \in Layouts /\ p.total \in Nat /\ p.stride \in Nat /\ p.page \in Nat
      /\ p.dom \in Nat /\ p.top \in 0 .. Lines - 1 /\ Lines \in Nat \ {0}
  BY PagesAssumption DEF PageStates
<1>2. /\ p.lay.w \in Nat \ {0} /\ p.lay.per \in Nat \ {0} /\ Columns(p.lay) \in Nat \ {0}
      /\ \A page \in 0 .. Columns(p.lay) - 1 : page * p.lay.per <= Lines - 1
  BY <1>1, ColumnsHoldLines
<1>3. FirstVisible(p.dom, p.lay) \in 0 .. Lines - 1
  <2>1. p.dom \div p.lay.w \in Nat BY <1>1, <1>2, PagesDivide
  <2>2. (p.dom \div p.lay.w) * p.lay.per \in Nat BY <1>2, <2>1, PagesTimes
  <2> QED BY <1>1, <2>2 DEF FirstVisible, LeastOf
<1>4. CASE p.mode = "paged"
  <2> DEFINE line == AnchorForReport(p)
             fresh == FreshlyMeasured(p)
             at == PagePercent(p.page, p.total)
  <2>1. s = [line |-> line, at |-> at, page |-> p.page, per |-> p.lay.per, fresh |-> fresh]
    BY <1>4 DEF Position
  <2>2. line \in 0 .. NoLine BY <1>1, <1>3 DEF AnchorForReport, NoLine
  <2>3. at \in Ratios
    <3>1. p.page \in 0 .. p.total - 1 BY <1>4 DEF Measured
    <3> QED BY <1>1, <3>1, PageIsRatio
  <2>4. fresh \in BOOLEAN BY DEF FreshlyMeasured
  <2>5. ASSUME fresh, line # NoLine PROVE p.page = line \div p.lay.per
    <3>1. p.stride = p.lay.w /\ p.max = MaxScroll(p.lay) BY <2>5 DEF FreshlyMeasured
    <3>2. p.turn = "none" /\ line = FirstVisible(p.dom, p.lay) BY <2>5 DEF AnchorForReport
    <3>3. p.total \in Nat \ {0} /\ p.max = (p.total - 1) * p.stride
      BY <1>1, <1>4 DEF Measured
    <3>4. p.total = Columns(p.lay) BY <1>2, <3>1, <3>3, PagesCancel DEF MaxScroll
    <3>5. p.dom = p.page * p.lay.w /\ p.page \in 0 .. Columns(p.lay) - 1
      BY <1>4, <3>1, <3>2, <3>4 DEF PageShows, OfLayout, Measured
    <3>6. p.dom \div p.lay.w = p.page
      <4>1. p.page * p.lay.w \in Nat BY <1>1, <1>2, PagesTimes
      <4> QED BY <1>1, <1>2, <3>5, <4>1, PagesQuotient
    <3>7. p.page * p.lay.per <= Lines - 1 /\ p.page * p.lay.per \in Nat
      BY <1>1, <1>2, <3>5, PagesTimes
    <3>8. line = p.page * p.lay.per BY <1>1, <3>2, <3>6, <3>7 DEF FirstVisible, LeastOf
    <3> QED BY <1>1, <1>2, <3>7, <3>8, PagesQuotient
  <2> HIDE DEF line, fresh, at, s
  <2>6. s \in PageReports BY <1>1, <1>2, <2>1, <2>2, <2>3, <2>4 DEF PageReports
  <2>7. s.fresh /\ s.line # NoLine => s.page = s.line \div s.per BY <2>1, <2>5
  <2> QED BY <2>6, <2>7 DEF s
<1>5. CASE p.mode = "scroll"
  <2> DEFINE at == ScrollPercent(p.top)
  <2>1. s = [line |-> p.top, at |-> at, page |-> 0, per |-> Lines, fresh |-> FALSE]
    BY <1>5 DEF Position
  <2>2. at \in Ratios BY <1>1 DEF ScrollPercent, Ratios, MostOf
  <2> HIDE DEF at, s
  <2>3. s \in PageReports BY <1>1, <2>1, <2>2 DEF PageReports, NoLine
  <2>4. s.fresh = FALSE BY <2>1
  <2> QED BY <2>3, <2>4 DEF s
<1> QED BY <1>4, <1>5 DEF PageStates

(* Every report the controller makes leaves it in order.                   *)
LEMMA PagesComeTo ==
    ASSUME PagedInv, NEW p, p \in PageStates, pg' = p, Report(p), acts' \in [turns : Nat, layouts : Nat],
           missed' \in BOOLEAN, PagesIdle(p), p.mode = "paged" /\ ~p.restoring => Measured(p) /\ PageShows(p),
           ~missed' => PagesSettled(p)
    PROVE  PagedInv'
<1>1. said' \in PageReports /\ ReportsAgree'
  <2>1. CASE p.restoring
    <3>1. said' = said BY <2>1 DEF Report
    <3> QED BY <3>1 DEF PagedInv, PageTypes, ReportsAgree
  <2>2. CASE ~p.restoring
    <3>1. said' = Position(p) BY <2>2 DEF Report
    <3>2. /\ Position(p) \in PageReports
          /\ Position(p).fresh /\ Position(p).line # NoLine
                => Position(p).page = Position(p).line \div Position(p).per
      BY <2>2, PositionAgrees
    <3> QED BY <3>1, <3>2 DEF ReportsAgree
  <2> QED BY <2>1, <2>2
<1>2. PageTypes' BY <1>1 DEF PageTypes
<1>3. PagesIdle(pg)' /\ PagesMeasured(pg)' BY DEF PagesIdle, PagesMeasured, Measured
<1>4. ~missed' => PagesSettled(pg)'
  BY DEF PagesSettled, PageSettled, OfLayout
<1> QED BY <1>1, <1>2, <1>3, <1>4 DEF PagedInv

(* A step that reports nothing.                                            *)
LEMMA PagesQuietly ==
    ASSUME PagedInv, NEW p, p \in PageStates, pg' = p, said' = said, acts' \in [turns : Nat, layouts : Nat],
           missed' \in BOOLEAN, PagesIdle(p), PagesMeasured(p), ~missed' => PagesSettled(p)
    PROVE  PagedInv'
<1>1. PageTypes' /\ ReportsAgree' BY DEF PagedInv, PageTypes, ReportsAgree
<1>2. PagesIdle(pg)' /\ PagesMeasured(pg)' BY DEF PagesIdle, PagesMeasured, Measured
<1>3. ~missed' => PagesSettled(pg)'
  BY DEF PagesSettled, PageSettled, OfLayout
<1> QED BY <1>1, <1>2, <1>3 DEF PagedInv

LEMMA PageTurns ==
    ASSUME PagedInv, NEW by \in {1, -1}, TurnPages(by)
    PROVE  PagedInv'
<1>1. /\ pg \in PageStates /\ Measured(pg) /\ pg.mode = "paged" /\ ~pg.restoring
      /\ acts \in [turns : Nat, layouts : Nat] /\ missed \in BOOLEAN
  BY DEF PagedInv, PageTypes, PagesMeasured, TurnPages, Paged
<1>2. acts' \in [turns : Nat, layouts : Nat] /\ missed' = missed
  BY <1>1 DEF TurnPages, Acting
<1>3. PICK animated \in BOOLEAN : PagesBecome(GoToPage(pg, pg.page + by, animated))
  BY DEF TurnPages
<1> DEFINE r == GoToPage(pg, pg.page + by, animated)
<1>4. pg.page + by \in Int BY <1>1 DEF PageStates
<1>5. /\ r \in PageStates /\ Measured(r) /\ PageShows(r)
      /\ r.mode = pg.mode /\ r.restoring = pg.restoring /\ r.lay = pg.lay
      /\ r.seen = pg.seen /\ r.stride = pg.stride /\ r.total = pg.total
      /\ r.due = pg.due /\ r.anchor = NoLine
  BY <1>1, <1>4, GoesToPage DEF Measured
<1>6. pg' = r /\ Report(r) BY <1>3 DEF PagesBecome
<1> HIDE DEF r
<1>7. PagesIdle(r) BY <1>1, <1>5 DEF PagesIdle
<1>8. ~missed' => PagesSettled(r)
  BY <1>1, <1>2, <1>5 DEF PagedInv, PagesSettled, PageSettled, OfLayout, PageShows
<1> QED BY <1>1, <1>2, <1>5, <1>6, <1>7, <1>8, PagesComeTo

LEMMA JumpsToLine ==
    ASSUME PagedInv, NEW line \in 0 .. Lines - 1, JumpToLine(line)
    PROVE  PagedInv'
<1>1. /\ pg \in PageStates /\ ~pg.restoring /\ PagesIdle(pg)
      /\ acts \in [turns : Nat, layouts : Nat] /\ missed \in BOOLEAN
  BY DEF PagedInv, PageTypes, JumpToLine
<1>2. acts' \in [turns : Nat, layouts : Nat] /\ missed' = missed
  BY <1>1 DEF JumpToLine, Acting
<1>3. CASE pg.mode = "scroll"
  <2> DEFINE r == [pg EXCEPT !.top = line]
  <2>1. pg' = r /\ Report(r) BY <1>3 DEF JumpToLine, PagesBecome
  <2>2. r \in PageStates BY <1>1 DEF PageStates
  <2>3. r.mode = "scroll" /\ r.restoring = pg.restoring /\ r.due = pg.due /\ r.turn = pg.turn
    BY <1>1, <1>3 DEF PageStates
  <2> HIDE DEF r
  <2>4. PagesIdle(r) /\ PagesSettled(r) BY <1>1, <1>3, <2>3 DEF PagesIdle, PagesSettled
  <2> QED BY <1>1, <1>2, <2>1, <2>2, <2>3, <2>4, PagesComeTo
<1>4. CASE pg.mode = "paged"
  <2> DEFINE p == MeasuredPages(pg)
  <2>1. PICK animated \in BOOLEAN : PagesBecome(GoToPage(p, PageOfLine(p, line), animated))
    <3>1. pg.mode # "scroll" BY <1>4
    <3> QED BY <3>1 DEF JumpToLine
  <2>2. /\ p \in PageStates /\ OfLayout(p)
        /\ p.stride > 0 /\ p.total > 0 /\ p.max = (p.total - 1) * p.stride
        /\ p.mode = pg.mode /\ p.restoring = pg.restoring /\ p.lay = pg.lay /\ p.seen = pg.seen
        /\ p.due = pg.due
    BY <1>1, MeasuresTheLayout
  <2> HIDE DEF p
  <2> DEFINE page == PageOfLine(p, line)
             r == GoToPage(p, page, animated)
  <2>3. page \in Int BY <2>2, LineIsOnPage DEF PageStates
  <2> HIDE DEF page
  <2>4. /\ r \in PageStates /\ Measured(r) /\ PageShows(r)
        /\ r.mode = p.mode /\ r.restoring = p.restoring /\ r.lay = p.lay
        /\ r.seen = p.seen /\ r.stride = p.stride /\ r.total = p.total
        /\ r.due = p.due /\ r.anchor = NoLine
    BY <2>2, <2>3, GoesToPage
  <2>5. pg' = r /\ Report(r) BY <2>1 DEF PagesBecome, page
  <2> HIDE DEF r
  <2>6. PagesIdle(r) BY <1>1, <1>4, <2>2, <2>4 DEF PagesIdle
  <2>7. ~missed' => PagesSettled(r)
    BY <1>1, <1>2, <2>2, <2>4 DEF PagedInv, PagesSettled, PageSettled, OfLayout, PageShows
  <2> QED BY <1>1, <1>2, <2>4, <2>5, <2>6, <2>7, PagesComeTo
<1> QED BY <1>1, <1>3, <1>4 DEF PageStates

LEMMA JumpsToEnd ==
    ASSUME PagedInv, JumpToEnd
    PROVE  PagedInv'
<1>1. /\ pg \in PageStates /\ ~pg.restoring /\ PagesIdle(pg)
      /\ acts \in [turns : Nat, layouts : Nat] /\ missed \in BOOLEAN
  BY DEF PagedInv, PageTypes, JumpToEnd
<1>2. acts' \in [turns : Nat, layouts : Nat] /\ missed' = missed
  BY <1>1 DEF JumpToEnd, Acting
<1>3. CASE pg.mode = "scroll"
  <2> DEFINE r == [pg EXCEPT !.top = Lines - 1]
  <2>1. pg' = r /\ Report(r) BY <1>3 DEF JumpToEnd, PagesBecome
  <2>2. r \in PageStates BY <1>1, PagesAssumption DEF PageStates
  <2>3. r.mode = "scroll" /\ r.restoring = pg.restoring /\ r.due = pg.due /\ r.turn = pg.turn
    BY <1>1, <1>3 DEF PageStates
  <2> HIDE DEF r
  <2>4. PagesIdle(r) /\ PagesSettled(r) BY <1>1, <1>3, <2>3 DEF PagesIdle, PagesSettled
  <2> QED BY <1>1, <1>2, <2>1, <2>2, <2>3, <2>4, PagesComeTo
<1>4. CASE pg.mode = "paged"
  <2> DEFINE end == [num |-> 1, den |-> 1]
             page == PageForRatio(end, pg.total)
             r == GoToPage(pg, page, FALSE)
  <2>1. Measured(pg) BY <1>1, <1>4 DEF PagedInv, PagesMeasured
  <2>2. page \in Int
    <3>1. end.num \in Nat /\ end.den \in Nat \ {0} /\ pg.total \in Nat \ {0}
      BY <1>1, <2>1 DEF Measured, PageStates
    <3> QED BY <3>1, RatioIsPage
  <2>3. pg' = r /\ Report(r)
    <3>1. pg.mode # "scroll" BY <1>4
    <3> QED BY <3>1 DEF JumpToEnd, PagesBecome
  <2> HIDE DEF page
  <2>4. /\ r \in PageStates /\ Measured(r) /\ PageShows(r)
        /\ r.mode = pg.mode /\ r.restoring = pg.restoring /\ r.lay = pg.lay
        /\ r.seen = pg.seen /\ r.stride = pg.stride /\ r.total = pg.total
        /\ r.due = pg.due /\ r.anchor = NoLine
    BY <1>1, <2>1, <2>2, GoesToPage DEF Measured
  <2> HIDE DEF r
  <2>5. PagesIdle(r) BY <1>1, <1>4, <2>4 DEF PagesIdle
  <2>6. ~missed' => PagesSettled(r)
    BY <1>1, <1>2, <2>4 DEF PagedInv, PagesSettled, PageSettled, OfLayout, PageShows
  <2> QED BY <1>1, <1>2, <2>3, <2>4, <2>5, <2>6, PagesComeTo
<1> QED BY <1>1, <1>3, <1>4 DEF PageStates

LEMMA FadesToPage ==
    ASSUME PagedInv, FadeSwaps \/ FadeEnds
    PROVE  PagedInv'
<1> DEFINE x == LeastOf(pg.target, MaxScroll(pg.lay))
<1>1. /\ pg \in PageStates /\ PagesIdle(pg) /\ acts' = acts /\ missed' = missed
      /\ acts \in [turns : Nat, layouts : Nat] /\ missed \in BOOLEAN
  BY DEF PagedInv, PageTypes, FadeSwaps, FadeEnds
<1>2. pg.turn # "none" BY DEF FadeSwaps, FadeEnds
<1>3. pg.mode = "paged" /\ ~pg.restoring BY <1>1, <1>2 DEF PagesIdle, PageStates
<1>4. Measured(pg) BY <1>3 DEF PagedInv, PagesMeasured
<1>5. x \in Nat /\ (OfLayout(pg) => x = pg.target) BY <1>1, <1>4, ScrollIsThere
<1> HIDE DEF x
<1>6. CASE FadeSwaps
  <2> DEFINE r == [pg EXCEPT !.turn = "in", !.dom = x]
  <2>1. pg' = r /\ said' = said BY <1>6 DEF FadeSwaps, x
  <2>2. r \in PageStates BY <1>1, <1>5 DEF PageStates
  <2>3. SamePages(pg, r) /\ r.turn = "in" /\ r.max = pg.max /\ r.target = pg.target
    BY <1>1 DEF PageStates, SamePages
  <2> HIDE DEF r
  <2>4. PagesIdle(r) BY <1>3, <2>3 DEF PagesIdle, SamePages
  <2>5. PagesMeasured(r) BY <1>4, <2>3 DEF Measured, PagesMeasured, SamePages
  <2>6. ~missed' => PagesSettled(r)
    BY <1>1, <2>3 DEF PagedInv, PagesSettled, PageSettled, OfLayout, SamePages
  <2> QED BY <1>1, <2>1, <2>2, <2>4, <2>5, <2>6, PagesQuietly
<1>7. CASE FadeEnds
  <2> DEFINE r == [pg EXCEPT !.turn = "none", !.dom = x]
  <2>1. pg' = r /\ Report(r) BY <1>7 DEF FadeEnds, PagesBecome, x
  <2>2. r \in PageStates BY <1>1, <1>5 DEF PageStates
  <2>3. SamePages(pg, r) /\ r.turn = "none" /\ r.max = pg.max /\ r.target = pg.target /\ r.dom = x
    BY <1>1 DEF PageStates, SamePages
  <2> HIDE DEF r
  <2>4. PagesIdle(r) BY <1>3, <2>3 DEF PagesIdle, SamePages
  <2>5. Measured(r) BY <1>4, <2>3 DEF Measured, SamePages
  <2>6. PageShows(r) BY <1>5, <2>3 DEF PageShows, SamePages, OfLayout
  <2>7. ~missed' => PagesSettled(r)
    BY <1>1, <2>3, <2>6 DEF PagedInv, PagesSettled, PageSettled, OfLayout, SamePages, PageShows
  <2> QED BY <1>1, <2>1, <2>2, <2>4, <2>5, <2>6, <2>7, PagesComeTo
<1> QED BY <1>6, <1>7

LEMMA TurnEnds ==
    ASSUME PagedInv, TurnSettles
    PROVE  PagedInv'
<1> DEFINE r == [pg EXCEPT !.promoted = FALSE]
<1>1. /\ pg \in PageStates /\ PagesIdle(pg) /\ PagesMeasured(pg) /\ (~missed => PagesSettled(pg))
      /\ acts \in [turns : Nat, layouts : Nat] /\ missed \in BOOLEAN
  BY DEF PagedInv, PageTypes
<1>2. pg' = r /\ said' = said /\ acts' = acts /\ missed' = missed BY DEF TurnSettles
<1>3. r \in PageStates BY <1>1 DEF PageStates
<1>4. /\ SamePages(pg, r) /\ r.turn = pg.turn /\ r.max = pg.max /\ r.target = pg.target
      /\ r.dom = pg.dom
  BY <1>1 DEF PageStates, SamePages
<1> HIDE DEF r
<1>5. PagesIdle(r) BY <1>1, <1>4 DEF PagesIdle, SamePages
<1>6. PagesMeasured(r) BY <1>1, <1>4 DEF Measured, PagesMeasured, SamePages
<1>7. ~missed' => PagesSettled(r)
  BY <1>1, <1>2, <1>4 DEF PagesSettled, PageSettled, OfLayout, SamePages
<1> QED BY <1>1, <1>2, <1>3, <1>5, <1>6, <1>7, PagesQuietly

(* The text is laid out anew.                                              *)
LEMMA ReflowedPages ==
    ASSUME PagedInv, NEW lay \in Layouts, NEW due \in SUBSET Reasons,
           pg.mode = "scroll" => due = {}
    PROVE  LET r == [Reflowed(lay) EXCEPT !.due = due]
           IN  /\ r \in PageStates /\ PagesIdle(r) /\ PagesMeasured(r)
               /\ r.mode = pg.mode /\ r.restoring = pg.restoring /\ r.seen = pg.seen
               /\ r.lay = lay /\ r.due = due
               /\ Measured(pg) /\ PageSettled(pg) /\ lay = pg.lay => PageSettled(r)
<1> DEFINE x == LeastOf(pg.dom, MaxScroll(lay))
           r == [Reflowed(lay) EXCEPT !.due = due]
<1>1. pg \in PageStates /\ PagesIdle(pg) /\ PagesMeasured(pg) BY DEF PagedInv, PageTypes
<1>2. r = [pg EXCEPT !.lay = lay, !.dom = x, !.due = due] BY DEF Reflowed
<1>3. x \in Nat
  <2>1. pg.dom \in Nat /\ MaxScroll(lay) \in Nat BY <1>1, ColumnsHoldLines DEF PageStates
  <2> QED BY <2>1 DEF LeastOf
<1>4. ASSUME Measured(pg), OfLayout(pg), pg.dom = pg.target, lay = pg.lay PROVE x = pg.dom
  BY <1>1, <1>4, ScrollIsThere
<1> HIDE DEF x, r
<1>5. r \in PageStates BY <1>1, <1>2, <1>3 DEF PageStates
<1>6. /\ r.mode = pg.mode /\ r.restoring = pg.restoring /\ r.lay = lay /\ r.seen = pg.seen
      /\ r.stride = pg.stride /\ r.total = pg.total /\ r.max = pg.max /\ r.page = pg.page
      /\ r.target = pg.target /\ r.turn = pg.turn /\ r.due = due /\ r.anchor = pg.anchor
      /\ r.dom = x
  BY <1>1, <1>2 DEF PageStates
<1>7. PagesIdle(r) BY <1>1, <1>6 DEF PagesIdle
<1>8. PagesMeasured(r) BY <1>1, <1>6 DEF Measured, PagesMeasured
<1>9. Measured(pg) /\ PageSettled(pg) /\ lay = pg.lay => PageSettled(r)
  BY <1>4, <1>6 DEF PageSettled, OfLayout
<1> QED BY <1>5, <1>6, <1>7, <1>8, <1>9 DEF r

LEMMA TextReflows ==
    ASSUME PagedInv, NEW lay \in Layouts, ApplySettings(lay) \/ LateMedia(lay)
    PROVE  PagedInv'
<1> DEFINE asked == IF pg.mode = "paged" THEN pg.due \cup {"settings"} ELSE pg.due
           queued == IF pg.mode = "paged" /\ pg.seen # 0 THEN (pg.due \ Debounced) \cup {"media"}
                     ELSE pg.due
<1>1. /\ pg \in PageStates /\ PagesIdle(pg) /\ (~missed => PagesSettled(pg))
      /\ acts \in [turns : Nat, layouts : Nat] /\ missed \in BOOLEAN
  BY DEF PagedInv, PageTypes
<1>2. /\ lay.w = pg.lay.w /\ said' = said /\ missed' = missed
      /\ acts' \in [turns : Nat, layouts : Nat]
  BY <1>1 DEF ApplySettings, LateMedia, OtherLines, Changing
<1>3. Reflowed(lay).mode = pg.mode /\ Reflowed(lay).seen = pg.seen /\ Reflowed(lay).due = pg.due
  BY <1>1 DEF Reflowed, PageStates
<1>4. PICK due \in SUBSET Reasons :
         /\ pg' = [Reflowed(lay) EXCEPT !.due = due]
         /\ pg.mode = "scroll" => due = pg.due
         /\ pg.mode = "paged" /\ pg.seen # 0 => \/ due = pg.due \cup {"settings"}
                                               \/ due = (pg.due \ Debounced) \cup {"media"}
  <2>1. asked \in SUBSET Reasons /\ queued \in SUBSET Reasons
    BY <1>1 DEF PageStates, Reasons, Debounced
  <2>2. CASE ApplySettings(lay)
    <3>1. pg' = [Reflowed(lay) EXCEPT !.due = asked]
      BY <2>2, <1>1, <1>3 DEF ApplySettings, Reflowed, PageStates
    <3> QED BY <2>1, <3>1
  <2>3. CASE LateMedia(lay)
    <3>1. pg' = [Reflowed(lay) EXCEPT !.due = queued]
      BY <2>3, <1>1, <1>3 DEF LateMedia, QueuePagedRelayout, Reflowed, PageStates
    <3> QED BY <2>1, <3>1
  <2> QED BY <2>2, <2>3
<1> HIDE DEF asked, queued
<1> DEFINE r == [Reflowed(lay) EXCEPT !.due = due]
<1>5. /\ r \in PageStates /\ PagesIdle(r) /\ PagesMeasured(r)
      /\ r.mode = pg.mode /\ r.restoring = pg.restoring /\ r.seen = pg.seen
      /\ r.lay = lay /\ r.due = due
  <2>1. pg.mode = "scroll" => due = {} BY <1>1, <1>4 DEF PagesIdle
  <2> QED BY <2>1, ReflowedPages
<1>6. pg' = r BY <1>4
<1> HIDE DEF r
<1>7. ASSUME ~missed', r.mode = "paged", ~r.restoring
      PROVE  /\ r.seen # 0
             /\ r.due \cap Debounced = {} => r.seen = r.lay.w
             /\ r.due \cap {"settings", "media"} # {}
  <2>1. pg.seen # 0 /\ (pg.due \cap Debounced = {} => pg.seen = pg.lay.w)
    BY <1>1, <1>2, <1>5, <1>7 DEF PagesSettled
  <2>2. "media" \in Debounced BY DEF Debounced
  <2>3. CASE due = pg.due \cup {"settings"} BY <1>2, <1>5, <2>1, <2>3
  <2>4. CASE due = (pg.due \ Debounced) \cup {"media"} BY <1>5, <2>1, <2>2, <2>4
  <2> QED BY <1>4, <1>5, <1>7, <2>1, <2>3, <2>4
<1>8. ~missed' => PagesSettled(r) BY <1>7 DEF PagesSettled
<1>9. missed' \in BOOLEAN BY <1>1, <1>2
<1> QED BY <1>2, <1>5, <1>6, <1>8, <1>9, PagesQuietly

(* A check of the viewport takes the place of a relayout late media asked  *)
(* for; when it will find nothing to do, the history says so.              *)
LEMMA ViewportEvents ==
    ASSUME PagedInv, NEW lay \in Layouts, ViewportEvent(lay), acts' \in [turns : Nat, layouts : Nat]
    PROVE  PagedInv'
<1> DEFINE due == IF pg.mode = "paged" /\ pg.seen # 0 THEN (pg.due \ Debounced) \cup {"viewport"}
                  ELSE pg.due
           r == [Reflowed(lay) EXCEPT !.due = due]
<1>1. /\ pg \in PageStates /\ PagesIdle(pg) /\ PagesMeasured(pg)
      /\ (~missed => PagesSettled(pg)) /\ missed \in BOOLEAN
  BY DEF PagedInv, PageTypes
<1>2. pg' = r /\ said' = said
  BY <1>1 DEF ViewportEvent, QueuePagedRelayout, Reflowed, PageStates
<1>3. missed' = (missed \/ (Paged /\ lay.w = pg.seen /\ ("media" \in pg.due \/ lay # pg.lay)))
  BY DEF ViewportEvent
<1>4. due \in SUBSET Reasons /\ (pg.mode = "scroll" => due = {})
  BY <1>1 DEF PageStates, PagesIdle, Reasons, Debounced
<1>5. pg.mode = "paged" /\ pg.seen # 0 => due = (pg.due \ Debounced) \cup {"viewport"} OBVIOUS
<1> HIDE DEF due
<1>6. /\ r \in PageStates /\ PagesIdle(r) /\ PagesMeasured(r)
      /\ r.mode = pg.mode /\ r.restoring = pg.restoring /\ r.seen = pg.seen
      /\ r.lay = lay /\ r.due = due
      /\ Measured(pg) /\ PageSettled(pg) /\ lay = pg.lay => PageSettled(r)
  BY <1>4, ReflowedPages
<1> HIDE DEF r
<1>7. ASSUME ~missed', r.mode = "paged", ~r.restoring
      PROVE  /\ r.seen # 0
             /\ r.due \cap Debounced # {}
             /\ r.due \cap {"settings", "media"} = {} /\ r.seen = r.lay.w => PageSettled(r)
  <2>1. ~missed /\ Paged BY <1>1, <1>3, <1>6, <1>7 DEF Paged
  <2>2. PagesSettled(pg) /\ Measured(pg) BY <1>1, <2>1 DEF PagesMeasured, Paged
  <2>3. pg.seen # 0 BY <2>1, <2>2 DEF PagesSettled, Paged
  <2>4. due = (pg.due \ Debounced) \cup {"viewport"} BY <1>5, <2>1, <2>3 DEF Paged
  <2>5. r.due \cap Debounced # {} BY <1>6, <2>4 DEF Debounced
  <2>6. ASSUME r.due \cap {"settings", "media"} = {}, r.seen = r.lay.w PROVE PageSettled(r)
    <3>1. lay = pg.lay /\ "media" \notin pg.due /\ pg.seen = pg.lay.w
      BY <1>3, <1>6, <1>7, <2>1, <2>6
    <3>2. "settings" \notin pg.due BY <1>6, <2>4, <2>6 DEF Debounced
    <3>3. PageSettled(pg) BY <2>1, <2>2, <3>1, <3>2 DEF PagesSettled, Paged
    <3> QED BY <1>6, <2>2, <3>1, <3>3
  <2> QED BY <1>6, <2>3, <2>5, <2>6
<1>8. ~missed' => PagesSettled(r) BY <1>7 DEF PagesSettled
<1>9. missed' \in BOOLEAN BY <1>1, <1>3
<1> QED BY <1>2, <1>6, <1>8, <1>9, PagesQuietly

(* The measures of the layout as it is, and the page given: where a        *)
(* relayout, a switch of mode and a restore end.                           *)
LEMMA LandsInLayout ==
    ASSUME NEW q \in PageStates, OfLayout(q), q.stride > 0, q.total > 0,
           q.max = (q.total - 1) * q.stride, q.seen = q.lay.w, q.mode = "paged", ~q.restoring,
           NEW page \in 0 .. q.total - 1,
           q.anchor # NoLine => page = q.anchor \div q.lay.per
    PROVE  LET r == ApplyPageScroll([q EXCEPT !.page = page], page, FALSE)
           IN  /\ r \in PageStates /\ Measured(r) /\ PageShows(r) /\ PagesSettled(r) /\ PagesIdle(r)
               /\ r.mode = "paged" /\ r.restoring = FALSE
<1> DEFINE p == [q EXCEPT !.page = page]
           r == ApplyPageScroll(p, page, FALSE)
<1>1. page \in Nat BY DEF PageStates
<1>2. p \in PageStates /\ p.page = page BY <1>1 DEF PageStates
<1>3. /\ p.mode = q.mode /\ p.restoring = q.restoring /\ p.lay = q.lay /\ p.seen = q.seen
      /\ p.stride = q.stride /\ p.total = q.total /\ p.max = q.max
      /\ p.due = q.due /\ p.anchor = q.anchor
  BY DEF PageStates
<1> HIDE DEF p
<1>4. p.stride > 0 /\ p.total > 0 /\ p.max = (p.total - 1) * p.stride /\ p.page \in 0 .. p.total - 1
  BY <1>2, <1>3
<1>5. r \in PageStates /\ Measured(r) /\ PageShows(r) /\ SamePages(p, r) /\ r.turn = "none"
  <2>1. r = ApplyPageScroll(p, p.page, FALSE) BY <1>2
  <2> HIDE DEF r
  <2> QED BY <1>2, <1>4, <2>1, ScrollLands
<1> HIDE DEF r
<1>6. /\ r.mode = "paged" /\ r.restoring = FALSE /\ r.lay = q.lay /\ r.seen = q.seen
      /\ r.stride = q.stride /\ r.total = q.total /\ r.page = page /\ r.anchor = q.anchor
  <2>1. q.restoring = FALSE BY DEF PageStates
  <2> QED BY <1>2, <1>3, <1>5, <2>1 DEF SamePages
<1>7. PageSettled(r) BY <1>5, <1>6 DEF PageSettled, OfLayout, PageShows
<1>8. PagesSettled(r)
  <2>1. q.lay \in Layouts BY DEF PageStates
  <2>2. q.lay.w # 0 BY <2>1, ColumnsHoldLines
  <2> QED BY <1>6, <1>7, <2>2 DEF PagesSettled
<1>9. PagesIdle(r) BY <1>5, <1>6 DEF PagesIdle
<1> QED BY <1>5, <1>6, <1>8, <1>9 DEF r, p

(* A relayout, from whatever was measured before.                          *)
LEMMA RelayoutLands ==
    ASSUME NEW p \in PageStates, p.mode = "paged"
    PROVE  LET r == PreservingPosition(p)
           IN  /\ r \in PageStates /\ r.mode = "paged" /\ r.restoring = p.restoring
               /\ ~p.restoring => Measured(r) /\ PageShows(r) /\ PagesSettled(r) /\ PagesIdle(r)
               /\ r.turn = "none"
<1> DEFINE m == MeasuredPages(p)
           q == [m EXCEPT !.seen = p.lay.w]
           ratio == PagePercent(p.page, p.total)
           page == IF p.anchor # NoLine THEN PageOfLine(q, p.anchor) ELSE PageForRatio(ratio, q.total)
           s == [q EXCEPT !.page = page]
           r == ApplyPageScroll(s, page, FALSE)
<1>1. /\ m \in PageStates /\ OfLayout(m)
      /\ m.stride > 0 /\ m.total > 0 /\ m.max = (m.total - 1) * m.stride
      /\ m.mode = p.mode /\ m.restoring = p.restoring /\ m.lay = p.lay
      /\ m.due = p.due /\ m.anchor = p.anchor
  BY MeasuresTheLayout
<1>2. p.lay.w \in Nat
  <2>1. p.lay \in Layouts BY DEF PageStates
  <2> QED BY <2>1, ColumnsHoldLines
<1> HIDE DEF m
<1>3. q \in PageStates BY <1>1, <1>2 DEF PageStates
<1>4. /\ q.seen = p.lay.w /\ q.mode = "paged" /\ q.restoring = p.restoring /\ q.lay = p.lay
      /\ q.stride = m.stride /\ q.total = m.total /\ q.max = m.max
      /\ q.due = p.due /\ q.anchor = p.anchor
  BY <1>1 DEF PageStates
<1> HIDE DEF q
<1>5. OfLayout(q) /\ q.stride > 0 /\ q.total > 0 /\ q.max = (q.total - 1) * q.stride
  BY <1>1, <1>4 DEF OfLayout
<1>6. /\ page \in 0 .. q.total - 1
      /\ q.anchor # NoLine => page = q.anchor \div q.lay.per
  <2>1. CASE p.anchor # NoLine
    <3>1. p.anchor \in 0 .. Lines - 1 BY <2>1, PagesAssumption DEF PageStates, NoLine
    <3>2. /\ PageOfLine(q, p.anchor) = p.anchor \div q.lay.per
          /\ PageOfLine(q, p.anchor) \in 0 .. q.total - 1
      BY <1>3, <1>5, <3>1, LineIsOnPage
    <3> QED BY <1>4, <2>1, <3>2
  <2>2. CASE p.anchor = NoLine
    <3>1. p.page \in Nat /\ p.total \in Nat /\ q.total \in Nat \ {0} BY <1>3, <1>5 DEF PageStates
    <3>2. ratio.num \in Nat /\ ratio.den \in Nat \ {0} BY <3>1 DEF PagePercent
    <3> HIDE DEF ratio
    <3>3. PageForRatio(ratio, q.total) \in 0 .. q.total - 1 BY <3>1, <3>2, RatioIsPage
    <3> QED BY <1>4, <2>2, <3>3
  <2> QED BY <2>1, <2>2
<1>7. PreservingPosition(p) = r BY DEF PreservingPosition, m, q
<1> HIDE DEF page
<1>8. s \in PageStates /\ s.page = page
  <2>1. page \in Nat BY <1>3, <1>6 DEF PageStates
  <2> QED BY <1>3, <2>1 DEF PageStates
<1>9. /\ s.stride = q.stride /\ s.total = q.total /\ s.max = q.max /\ s.mode = q.mode
      /\ s.restoring = q.restoring
  BY <1>3 DEF PageStates
<1>10. r \in PageStates /\ r.mode = "paged" /\ r.restoring = p.restoring /\ r.turn = "none"
  <2> HIDE DEF s
  <2>1. r = ApplyPageScroll(s, s.page, FALSE) BY <1>8
  <2>2. s.stride > 0 /\ s.total > 0 /\ s.max = (s.total - 1) * s.stride /\ s.page \in 0 .. s.total - 1
    BY <1>5, <1>6, <1>8, <1>9
  <2> HIDE DEF r
  <2>3. r \in PageStates /\ SamePages(s, r) /\ r.turn = "none" BY <1>8, <2>1, <2>2, ScrollLands
  <2> QED BY <1>4, <1>9, <2>3 DEF SamePages
<1>11. ASSUME ~p.restoring PROVE Measured(r) /\ PageShows(r) /\ PagesSettled(r) /\ PagesIdle(r)
  <2>1. q.seen = q.lay.w /\ q.mode = "paged" /\ ~q.restoring BY <1>4, <1>11
  <2> QED BY <1>3, <1>5, <1>6, <2>1, LandsInLayout
<1> QED BY <1>7, <1>10, <1>11

LEMMA RelayoutKeeps ==
    ASSUME PagedInv, NEW why \in Reasons, Relayout(why)
    PROVE  PagedInv'
<1> DEFINE due == (pg.due \ {why}) \cup (IF why = "settings" THEN {"fonts"} ELSE {})
           p == [pg EXCEPT !.due = due]
<1>1. /\ pg \in PageStates /\ PagesIdle(pg) /\ PagesMeasured(pg) /\ (~missed => PagesSettled(pg))
      /\ acts' \in [turns : Nat, layouts : Nat] /\ missed \in BOOLEAN
      /\ pg.mode = "paged" /\ why \in pg.due
  BY DEF PagedInv, PageTypes, Relayout
<1>2. due \in SUBSET Reasons BY <1>1 DEF PageStates, Reasons
<1>3. \/ why = "viewport" /\ pg.lay.w = pg.seen /\ pg' = p /\ said' = said /\ missed' = missed
      \/ pg' = PreservingPosition(p) /\ Report(PreservingPosition(p)) /\ missed' = FALSE
  <2>1. p = [pg EXCEPT !.due = (@ \ {why}) \cup (IF why = "settings" THEN {"fonts"} ELSE {})]
    BY <1>1 DEF PageStates
  <2> QED BY <2>1 DEF Relayout, PagesBecome
<1>4. why = "viewport" => due = pg.due \ {why} OBVIOUS
<1> HIDE DEF due
<1>5. p \in PageStates BY <1>1, <1>2 DEF PageStates
<1>6. /\ p.mode = pg.mode /\ p.restoring = pg.restoring /\ p.lay = pg.lay /\ p.seen = pg.seen
      /\ p.stride = pg.stride /\ p.total = pg.total /\ p.max = pg.max /\ p.page = pg.page
      /\ p.target = pg.target /\ p.turn = pg.turn /\ p.due = due /\ p.anchor = pg.anchor
      /\ p.dom = pg.dom
  BY <1>1 DEF PageStates
<1> HIDE DEF p
<1>7. CASE why = "viewport" /\ pg.lay.w = pg.seen /\ pg' = p /\ said' = said /\ missed' = missed
  <2>1. PagesIdle(p) BY <1>1, <1>6 DEF PagesIdle
  <2>2. PagesMeasured(p) BY <1>1, <1>6 DEF Measured, PagesMeasured
  <2>3. due = pg.due \ {"viewport"} BY <1>4, <1>7
  <2>4. ~missed' => PagesSettled(p)
    BY <1>1, <1>6, <1>7, <2>3 DEF PagesSettled, PageSettled, OfLayout
  <2> QED BY <1>1, <1>5, <1>7, <2>1, <2>2, <2>4, PagesQuietly
<1>8. CASE pg' = PreservingPosition(p) /\ Report(PreservingPosition(p)) /\ missed' = FALSE
  <2> DEFINE r == PreservingPosition(p)
  <2>1. /\ r \in PageStates /\ r.mode = "paged" /\ r.restoring = p.restoring
        /\ ~p.restoring => Measured(r) /\ PageShows(r) /\ PagesSettled(r) /\ PagesIdle(r)
        /\ r.turn = "none"
    BY <1>1, <1>5, <1>6, RelayoutLands
  <2>2. pg' = r /\ Report(r) BY <1>8
  <2> HIDE DEF r
  <2>3. PagesIdle(r) /\ PagesSettled(r) BY <2>1 DEF PagesIdle, PagesSettled
  <2> QED BY <1>1, <1>8, <2>1, <2>2, <2>3, PagesComeTo
<1> QED BY <1>3, <1>7, <1>8

LEMMA ModeSwitches ==
    ASSUME PagedInv, SwitchMode
    PROVE  PagedInv'
<1>1. /\ pg \in PageStates /\ PagesIdle(pg) /\ PagesMeasured(pg)
      /\ acts \in [turns : Nat, layouts : Nat] /\ missed \in BOOLEAN
  BY DEF PagedInv, PageTypes
<1>2. acts' \in [turns : Nat, layouts : Nat] /\ missed' \in BOOLEAN
  <2>1. acts' \in [turns : Nat, layouts : Nat] BY <1>1 DEF SwitchMode, Changing
  <2>2. CASE IsModeSwitch(pg)
    <3>1. missed' = FALSE BY <2>2 DEF SwitchMode
    <3> QED BY <2>1, <3>1
  <2>3. CASE ~IsModeSwitch(pg)
    <3>1. missed' = missed BY <2>3 DEF SwitchMode
    <3> QED BY <1>1, <2>1, <3>1
  <2> QED BY <2>2, <2>3
<1>3. CASE ~pg.restoring /\ pg.mode = "paged"
  <2> DEFINE top == FirstVisible(pg.dom, pg.lay)
             r == [pg EXCEPT !.mode = "scroll", !.due = {}, !.turn = "none", !.promoted = FALSE,
                             !.top = top]
  <2>1. pg' = r /\ Report(r)
    BY <1>3 DEF SwitchMode, IsModeSwitch, PagesBecome, LeavePaged
  <2>2. top \in 0 .. Lines - 1
    <3>1. pg.lay \in Layouts /\ pg.dom \in Nat BY <1>1 DEF PageStates
    <3>2. pg.lay.w \in Nat \ {0} /\ pg.lay.per \in Nat \ {0} BY <3>1, ColumnsHoldLines
    <3>3. pg.dom \div pg.lay.w \in Nat BY <3>1, <3>2, PagesDivide
    <3>4. (pg.dom \div pg.lay.w) * pg.lay.per \in Nat BY <3>2, <3>3, PagesTimes
    <3> QED BY <3>4, PagesAssumption DEF FirstVisible, LeastOf
  <2> HIDE DEF top
  <2>3. r \in PageStates BY <1>1, <2>2 DEF PageStates
  <2>4. r.mode = "scroll" /\ r.due = {} /\ r.turn = "none" BY <1>1 DEF PageStates
  <2> HIDE DEF r
  <2>5. PagesIdle(r) /\ PagesSettled(r) BY <2>4 DEF PagesIdle, PagesSettled
  <2> QED BY <1>1, <1>2, <2>1, <2>3, <2>4, <2>5, PagesComeTo
<1>4. CASE ~pg.restoring /\ pg.mode = "scroll"
  <2> DEFINE m == MeasuredPages(pg)
             q == [m EXCEPT !.mode = "paged", !.seen = pg.lay.w, !.anchor = pg.top, !.promoted = FALSE]
             page == PageOfLine(q, pg.top)
             r == ApplyPageScroll([q EXCEPT !.page = page], page, FALSE)
  <2>1. pg' = r /\ Report(r)
    <3>1. pg.mode # "paged" BY <1>4
    <3> QED BY <1>4, <3>1 DEF SwitchMode, IsModeSwitch, PagesBecome, EnterPaged
  <2>2. pg.lay \in Layouts /\ pg.top \in 0 .. Lines - 1 /\ pg.restoring = FALSE
    BY <1>1, <1>4 DEF PageStates
  <2>3. pg.lay.w \in Nat BY <2>2, ColumnsHoldLines
  <2>4. /\ m \in PageStates /\ OfLayout(m)
        /\ m.stride > 0 /\ m.total > 0 /\ m.max = (m.total - 1) * m.stride
        /\ m.restoring = FALSE /\ m.lay = pg.lay
    BY <1>1, <2>2, MeasuresTheLayout
  <2>5. pg.top \in 0 .. NoLine BY <2>2, PagesAssumption DEF NoLine
  <2> HIDE DEF m
  <2>6. q \in PageStates BY <2>3, <2>4, <2>5 DEF PageStates
  <2>7. /\ q.mode = "paged" /\ q.seen = q.lay.w /\ ~q.restoring /\ q.anchor = pg.top
        /\ q.lay = m.lay /\ q.stride = m.stride /\ q.total = m.total /\ q.max = m.max
    BY <2>4 DEF PageStates
  <2> HIDE DEF q
  <2>8. OfLayout(q) /\ q.stride > 0 /\ q.total > 0 /\ q.max = (q.total - 1) * q.stride
    BY <2>4, <2>7 DEF OfLayout
  <2>9. page \in 0 .. q.total - 1 /\ page = q.anchor \div q.lay.per
    BY <2>2, <2>6, <2>7, <2>8, LineIsOnPage
  <2> HIDE DEF page
  <2>10. /\ r \in PageStates /\ Measured(r) /\ PageShows(r) /\ PagesSettled(r) /\ PagesIdle(r)
    BY <2>6, <2>7, <2>8, <2>9, LandsInLayout
  <2> HIDE DEF r
  <2> QED BY <1>1, <1>2, <2>1, <2>10, PagesComeTo
<1>5. CASE pg.restoring
  <2>1. PICK mode \in {"paged", "scroll"}, due \in SUBSET Reasons :
           /\ pg' = [pg EXCEPT !.mode = mode, !.due = due]
           /\ mode = "scroll" => due = {}
    <3>1. CASE pg.mode = "paged" BY <1>5, <3>1 DEF SwitchMode, IsModeSwitch
    <3>2. CASE pg.mode = "scroll"
      <4>1. pg' = [pg EXCEPT !.mode = "paged", !.due = @ \cup {"settings"}]
        <5>1. pg.mode # "paged" BY <3>2
        <5> QED BY <1>5, <5>1 DEF SwitchMode, IsModeSwitch
      <4>2. pg' = [pg EXCEPT !.mode = "paged", !.due = pg.due \cup {"settings"}]
        BY <1>1, <4>1 DEF PageStates
      <4>3. pg.due \cup {"settings"} \in SUBSET Reasons BY <1>1 DEF PageStates, Reasons
      <4> QED BY <4>2, <4>3
    <3> QED BY <1>1, <3>1, <3>2 DEF PageStates
  <2> DEFINE r == [pg EXCEPT !.mode = mode, !.due = due]
  <2>2. pg' = r /\ said' = said BY <1>5, <2>1 DEF SwitchMode, IsModeSwitch
  <2>3. r \in PageStates BY <1>1 DEF PageStates
  <2>4. r.mode = mode /\ r.restoring = pg.restoring /\ r.due = due /\ r.turn = pg.turn
    BY <1>1 DEF PageStates
  <2> HIDE DEF r
  <2>5. PagesIdle(r) /\ PagesMeasured(r) /\ PagesSettled(r)
    BY <1>1, <1>5, <2>1, <2>4 DEF PagesIdle, PagesMeasured, PagesSettled
  <2> QED BY <1>1, <1>2, <2>2, <2>3, <2>5, PagesQuietly
<1> QED BY <1>1, <1>3, <1>4, <1>5 DEF PageStates

LEMMA ChapterReloads ==
    ASSUME PagedInv, ReloadChapter
    PROVE  PagedInv'
<1>1. /\ pg \in PageStates /\ PagesIdle(pg) /\ said \in PageReports
      /\ acts \in [turns : Nat, layouts : Nat] /\ missed \in BOOLEAN
  BY DEF PagedInv, PageTypes
<1>2. acts' \in [turns : Nat, layouts : Nat] /\ missed' = missed /\ said' = said
  BY <1>1 DEF ReloadChapter, Changing
<1>3. PICK wish \in PageWishes : pg' = ResetForLoad(pg, wish)
  <2>1. Wishes \subseteq PageWishes
    <3>1. [num |-> 0, den |-> 1] \in Ratios BY DEF Ratios
    <3>2. NoLine \in 0 .. NoLine BY PagesAssumption DEF NoLine
    <3> QED BY <3>1, <3>2 DEF Wishes, PageWishes
  <2>2. [kind |-> "saved", line |-> said.line, at |-> said.at] \in PageWishes
    BY <1>1 DEF PageReports, PageWishes
  <2> QED BY <2>1, <2>2 DEF ReloadChapter
<1> DEFINE r == ResetForLoad(pg, wish)
<1>4. NoLine \in 0 .. NoLine BY PagesAssumption DEF NoLine
<1>5. r \in PageStates BY <1>1, <1>4 DEF ResetForLoad, PageStates
<1>6. /\ r.restoring = TRUE /\ r.turn = "none" /\ r.mode = pg.mode
      /\ r.due = pg.due \cap {"settings"}
  BY <1>1 DEF ResetForLoad, PageStates
<1>7. pg' = r BY <1>3
<1> HIDE DEF r
<1>8. PagesIdle(r) /\ PagesMeasured(r) /\ PagesSettled(r)
  BY <1>1, <1>6 DEF PagesIdle, PagesMeasured, PagesSettled
<1> QED BY <1>1, <1>2, <1>5, <1>7, <1>8, PagesQuietly

LEMMA PagesRestored ==
    ASSUME PagedInv, pg.restoring, pg.mode = "paged",
           pg' = RestorePaged(pg), Report(RestorePaged(pg)), acts' = acts, missed' = FALSE
    PROVE  PagedInv'
<1> DEFINE m == MeasuredPages(pg)
           line == pg.wish.line
           due == pg.due \cup {"fonts"}
           q == [m EXCEPT !.restoring = FALSE, !.seen = pg.lay.w, !.anchor = line, !.due = due]
           page == CASE line # NoLine -> PageOfLine(q, line)
                     [] line = NoLine /\ pg.wish.kind = "saved" -> PageForRatio(pg.wish.at, q.total)
                     [] pg.wish.kind = "end" -> MostOf(0, q.total - 1)
                     [] pg.wish.kind = "top" -> 0
           r == ApplyPageScroll([q EXCEPT !.page = page], page, FALSE)
<1>1. /\ pg \in PageStates /\ acts \in [turns : Nat, layouts : Nat] /\ missed \in BOOLEAN
  BY DEF PagedInv, PageTypes
<1>2. /\ m \in PageStates /\ OfLayout(m)
      /\ m.stride > 0 /\ m.total > 0 /\ m.max = (m.total - 1) * m.stride
      /\ m.mode = "paged" /\ m.lay = pg.lay /\ m.due = pg.due
  BY <1>1, MeasuresTheLayout
<1>3. pg.lay.w \in Nat
  <2>1. pg.lay \in Layouts BY <1>1 DEF PageStates
  <2> QED BY <2>1, ColumnsHoldLines
<1>4. /\ pg.wish \in PageWishes /\ line \in 0 .. NoLine /\ pg.wish.kind \in {"top", "end", "saved"}
      /\ pg.wish.at.num \in Nat /\ pg.wish.at.den \in Nat \ {0}
      /\ line # NoLine => pg.wish.kind = "saved"
  BY <1>1 DEF PageStates, PageWishes, Ratios
<1>5. due \in SUBSET Reasons BY <1>1 DEF PageStates, Reasons
<1>6. q = [m EXCEPT !.restoring = FALSE, !.seen = pg.lay.w, !.anchor = line, !.due = @ \cup {"fonts"}]
  BY <1>2 DEF PageStates
<1>7. RestorePaged(pg) = r BY <1>6, Zenon DEF RestorePaged
<1> HIDE DEF m, due, line
<1>8. q \in PageStates BY <1>2, <1>3, <1>4, <1>5 DEF PageStates
<1>9. /\ q.mode = "paged" /\ q.seen = q.lay.w /\ ~q.restoring /\ q.anchor = line
      /\ q.lay = m.lay /\ q.stride = m.stride /\ q.total = m.total /\ q.max = m.max
  BY <1>2 DEF PageStates
<1> HIDE DEF q
<1>10. OfLayout(q) /\ q.stride > 0 /\ q.total > 0 /\ q.max = (q.total - 1) * q.stride
  BY <1>2, <1>9 DEF OfLayout
<1>11. page \in 0 .. q.total - 1 /\ (line # NoLine => page = line \div q.lay.per)
  <2>1. q.total \in Nat \ {0} BY <1>8, <1>10 DEF PageStates
  <2>2. CASE line # NoLine
    <3>1. page = PageOfLine(q, line)
      <4>1. pg.wish.kind # "end" /\ pg.wish.kind # "top" BY <1>4, <2>2
      <4> QED BY <2>2, <4>1, Zenon
    <3>2. line \in 0 .. Lines - 1 BY <1>4, <2>2, PagesAssumption DEF NoLine
    <3> HIDE DEF page
    <3> QED BY <1>8, <1>10, <3>1, <3>2, LineIsOnPage
  <2>3. CASE line = NoLine /\ pg.wish.kind = "saved"
    <3>1. page = PageForRatio(pg.wish.at, q.total) BY <2>3, Zenon
    <3> HIDE DEF page
    <3> QED BY <1>4, <2>1, <2>3, <3>1, RatioIsPage
  <2>4. CASE line = NoLine /\ pg.wish.kind = "end"
    <3>1. page = MostOf(0, q.total - 1) BY <2>4, Zenon
    <3> HIDE DEF page
    <3> QED BY <2>1, <2>4, <3>1 DEF MostOf
  <2>5. CASE line = NoLine /\ pg.wish.kind = "top"
    <3>1. page = 0 BY <2>5, Zenon
    <3> HIDE DEF page
    <3> QED BY <2>1, <2>5, <3>1
  <2> QED BY <1>4, <2>2, <2>3, <2>4, <2>5
<1> HIDE DEF page
<1>12. /\ r \in PageStates /\ Measured(r) /\ PageShows(r) /\ PagesSettled(r) /\ PagesIdle(r)
  BY <1>8, <1>9, <1>10, <1>11, LandsInLayout
<1>13. pg' = r /\ Report(r) BY <1>7
<1> HIDE DEF r
<1> QED BY <1>1, <1>12, <1>13, PagesComeTo

LEMMA ScrollRestored ==
    ASSUME PagedInv, pg.restoring, pg.mode = "scroll",
           pg' = RestoreScroll(pg), Report(RestoreScroll(pg)), acts' = acts, missed' = FALSE
    PROVE  PagedInv'
<1> DEFINE line == pg.wish.line
           top == CASE line # NoLine -> line
                    [] line = NoLine /\ pg.wish.kind = "saved" -> TopForRatio(pg.wish.at)
                    [] pg.wish.kind = "end" -> Lines - 1
                    [] pg.wish.kind = "top" -> 0
           r == [pg EXCEPT !.restoring = FALSE, !.top = top]
<1>1. /\ pg \in PageStates /\ PagesIdle(pg)
      /\ acts \in [turns : Nat, layouts : Nat] /\ missed \in BOOLEAN
  BY DEF PagedInv, PageTypes
<1>2. /\ line \in 0 .. NoLine /\ pg.wish.kind \in {"top", "end", "saved"} /\ pg.wish.at \in Ratios
      /\ line # NoLine => pg.wish.kind = "saved"
  BY <1>1 DEF PageStates, PageWishes
<1>3. RestoreScroll(pg) = r BY Zenon DEF RestoreScroll
<1> HIDE DEF line
<1>4. Lines \in Nat \ {0} BY PagesAssumption
<1>5. top \in 0 .. Lines - 1
  <2>1. CASE line # NoLine
    <3>1. top = line
      <4>1. pg.wish.kind # "end" /\ pg.wish.kind # "top" BY <1>2, <2>1
      <4> QED BY <2>1, <4>1, Zenon
    <3> HIDE DEF top
    <3> QED BY <1>2, <1>4, <2>1, <3>1 DEF NoLine
  <2>2. CASE line = NoLine /\ pg.wish.kind = "saved"
    <3>1. top = TopForRatio(pg.wish.at) BY <2>2, Zenon
    <3> HIDE DEF top
    <3> QED BY <1>2, <3>1, RatioIsLine
  <2>3. CASE line = NoLine /\ pg.wish.kind = "end"
    <3>1. top = Lines - 1 BY <2>3, Zenon
    <3> HIDE DEF top
    <3> QED BY <1>4, <3>1
  <2>4. CASE line = NoLine /\ pg.wish.kind = "top"
    <3>1. top = 0 BY <2>4, Zenon
    <3> HIDE DEF top
    <3> QED BY <1>4, <3>1
  <2> QED BY <1>2, <2>1, <2>2, <2>3, <2>4
<1> HIDE DEF top
<1>6. r \in PageStates BY <1>1, <1>5 DEF PageStates
<1>7. r.mode = "scroll" /\ r.restoring = FALSE /\ r.due = pg.due /\ r.turn = pg.turn
  BY <1>1 DEF PageStates
<1>8. pg' = r /\ Report(r) BY <1>3
<1> HIDE DEF r
<1>9. PagesIdle(r) /\ PagesSettled(r) BY <1>1, <1>7 DEF PagesIdle, PagesSettled
<1> QED BY <1>1, <1>6, <1>7, <1>8, <1>9, PagesComeTo

LEMMA PagesStart == PagesInit => PagedInv
<1> SUFFICES ASSUME PagesInit PROVE PagedInv OBVIOUS
<1>1. PICK lay \in Layouts, mode \in {"paged", "scroll"}, wish \in Wishes :
        pg = [mode |-> mode, restoring |-> TRUE, wish |-> wish, lay |-> lay, seen |-> 0,
              stride |-> 1, max |-> 0, total |-> 0, page |-> 0, dom |-> 0, target |-> 0,
              turn |-> "none", promoted |-> FALSE, anchor |-> NoLine, due |-> {}, top |-> 0]
  BY DEF PagesInit
<1>2. said = [line |-> NoLine, at |-> [num |-> 0, den |-> 1], page |-> 0, per |-> Lines, fresh |-> FALSE]
  BY DEF PagesInit
<1>3. Lines \in Nat \ {0} /\ NoLine \in Nat BY PagesAssumption DEF NoLine
<1>4. [num |-> 0, den |-> 1] \in Ratios BY DEF Ratios
<1>5. wish \in PageWishes BY <1>3, <1>4 DEF Wishes, PageWishes
<1>6. pg \in PageStates BY <1>1, <1>3, <1>5 DEF PageStates
<1>7. said \in PageReports /\ said.fresh = FALSE BY <1>2, <1>3, <1>4 DEF PageReports
<1>8. acts \in [turns : Nat, layouts : Nat] /\ missed \in BOOLEAN BY DEF PagesInit
<1>9. pg.restoring = TRUE /\ pg.due = {} /\ pg.turn = "none" BY <1>1
<1>10. PagesIdle(pg) /\ PagesMeasured(pg) /\ PagesSettled(pg)
  BY <1>9 DEF PagesIdle, PagesMeasured, PagesSettled
<1> QED BY <1>6, <1>7, <1>8, <1>10 DEF PagedInv, PageTypes, ReportsAgree

LEMMA PagesStep == PagedInv /\ [PagesNext]_pageVars => PagedInv'
<1> SUFFICES ASSUME PagedInv, [PagesNext]_pageVars PROVE PagedInv' OBVIOUS
<1>1. CASE TurnPages(1) \/ TurnPages(-1) BY <1>1, PageTurns
<1>2. CASE JumpToEnd BY <1>2, JumpsToEnd
<1>3. ASSUME NEW line \in 0 .. Lines - 1, JumpToLine(line) PROVE PagedInv' BY <1>3, JumpsToLine
<1>4. CASE FadeSwaps \/ FadeEnds BY <1>4, FadesToPage
<1>5. CASE TurnSettles BY <1>5, TurnEnds
<1>6. ASSUME NEW lay \in Layouts, ApplySettings(lay) \/ LateMedia(lay) \/ Resizes(lay) PROVE PagedInv'
  <2>1. acts \in [turns : Nat, layouts : Nat] BY DEF PagedInv, PageTypes
  <2>2. CASE Resizes(lay)
    <3>1. ViewportEvent(lay) /\ acts' \in [turns : Nat, layouts : Nat]
      BY <2>1, <2>2 DEF Resizes, Changing
    <3> QED BY <3>1, ViewportEvents
  <2> QED BY <1>6, <2>2, TextReflows
<1>7. ASSUME NEW why \in Reasons, Relayout(why) PROVE PagedInv'
  BY <1>7, RelayoutKeeps
<1>8. CASE SwitchMode BY <1>8, ModeSwitches
<1>9. CASE ReloadChapter BY <1>9, ChapterReloads
<1>10. CASE RestorePosition
  <2>1. pg \in PageStates BY DEF PagedInv, PageTypes
  <2>2. CASE pg.mode = "paged" BY <1>10, <2>2, PagesRestored DEF RestorePosition, PagesBecome
  <2>3. CASE pg.mode = "scroll"
    <3>1. pg.mode # "paged" BY <2>3
    <3> QED BY <1>10, <2>3, <3>1, ScrollRestored DEF RestorePosition, PagesBecome
  <2> QED BY <2>1, <2>2, <2>3 DEF PageStates
<1>11. CASE Churn
  <2>1. pg.lay \in Layouts /\ acts' \in [turns : Nat, layouts : Nat] /\ ViewportEvent(pg.lay)
    BY <1>11 DEF PagedInv, PageTypes, PageStates, Churn
  <2> QED BY <2>1, ViewportEvents
<1>12. CASE UNCHANGED pageVars
  <2>1. pg' = pg /\ said' = said /\ acts' = acts /\ missed' = missed BY <1>12 DEF pageVars
  <2> QED BY <2>1, PagesQuietly DEF PagedInv, PageTypes
<1> QED BY <1>1, <1>2, <1>3, <1>4, <1>5, <1>6, <1>7, <1>8, <1>9, <1>10, <1>11, <1>12 DEF PagesNext

THEOREM PagesStay == PagesSpec => []PagedInv
<1> QED BY PagesStart, PagesStep, PTL DEF PagesSpec

(* Once no fade runs and no relayout is due, what is shown, believed,      *)
(* anchored and reported is one page, for any chapter, widths and lines    *)
(* per page, unless the last check of the viewport took the place of the   *)
(* relayout that was wanted (pagination.ts, frame.ts).                     *)
THEOREM PageIsOne == PagesSpec => []OnePage
<1>1. PagedInv => OnePage
  <2> SUFFICES ASSUME PagedInv PROVE OnePage OBVIOUS
  <2>1. ReportsAgree BY DEF PagedInv
  <2>2. ASSUME LaidOut PROVE Measured(pg) /\ PageSettled(pg)
    <3>1. Measured(pg) /\ PagesSettled(pg) /\ pg.mode = "paged" /\ ~pg.restoring
      BY <2>2 DEF LaidOut, Paged, PagedInv, PagesMeasured
    <3>2. pg.due \cap Debounced = {} /\ pg.due \cap {"settings", "media"} = {}
      BY <2>2 DEF LaidOut, Debounced
    <3> QED BY <3>1, <3>2 DEF PagesSettled
  <2>3. pg.page \in Nat /\ pg.lay \in Layouts BY DEF PagedInv, PageTypes, PageStates
  <2>4. Columns(pg.lay) \in Nat BY <2>3, ColumnsHoldLines
  <2>5. ShownIsCurrent BY <2>2, <2>3, <2>4 DEF ShownIsCurrent, Measured, PageSettled, OfLayout
  <2>6. AnchorKept BY <2>2 DEF AnchorKept, PageSettled
  <2> QED BY <2>1, <2>5, <2>6 DEF OnePage
<1> QED BY <1>1, PagesStay, PTL
=============================================================================
