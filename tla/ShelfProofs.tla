---------------------------- MODULE ShelfProofs -----------------------------
(***************************************************************************)
(* Proofs about what the server keeps beside a book's row.  SpineCache: the*)
(* parsed spine a book's readers work with is of the content they read, for*)
(* any number of requests, editions and generations.  ChapterRemap: its    *)
(* properties for files of any length and any documents.  EPUBStore: the   *)
(* shared readers are of the installed file, for any number of paths,      *)
(* requests and any capacity.                                              *)
(***************************************************************************)
EXTENDS SpineCache, ChapterRemap, EPUBStore, LibraryFolder, SequenceTheorems, FiniteSetTheorems,
        WellFoundedInduction, TLAPS

-----------------------------------------------------------------------------
Gens == 0 .. MaxGen
SpineRecords == [known : BOOLEAN, gen : Nat, edition : Nat]
Flights == [phase : {"none", "begun", "loading", "read"}, book : SpineRecords, read : Nat]
SpinePlaces == [pc : {"out", "waiting", "again", "using"}, gen : Nat, got : Nat]

SpineTypeOK ==
    /\ bookRow \in Nat
    /\ made \in Nat
    /\ nextGen \in Nat
    /\ memo \in Nat
    /\ cached \in SpineRecords
    /\ flight \in [Gens -> Flights]
    /\ spineWriter \in {"idle", "committed"}
    /\ caller \in [SpineCallers -> SpinePlaces]

(* A generation is given to one record, so a load belongs to the record it *)
(* was begun for and to no later one.                                      *)
LoadOfItsRecord ==
    /\ cached.known => cached.gen <= nextGen
    /\ \A g \in Gens : flight[g].phase # "none" =>
          flight[g].book.known /\ flight[g].book.gen = g /\ g <= nextGen

(* Who holds the write gate is alone.                                      *)
GateIsAlone == WriteGate => NobodyReads

(* What was read for the record that is still kept is the book's content,  *)
(* unless a writer is between its commit and its refresh.                  *)
ReadIsPresent ==
    ~WriteGate => \A g \in Gens :
        flight[g].phase = "read" /\ flight[g].book = cached => flight[g].read \in {0, bookRow}

MemoIsPresent == ~WriteGate => memo \in {0, bookRow}

UsedIsPresent ==
    \A c \in SpineCallers : caller[c].pc = "using" => caller[c].got = bookRow /\ bookRow # 0

SpineInv == /\ SpineTypeOK
        /\ LoadOfItsRecord
        /\ GateIsAlone
        /\ ReadIsPresent
        /\ MemoIsPresent
        /\ UsedIsPresent

-----------------------------------------------------------------------------
LEMMA OutsideType == Outside \in SpinePlaces /\ NoFlight \in Flights
  BY DEF Outside, SpinePlaces, NoFlight, Flights, SpineRecords, NoSpineRecord

LEMMA UsingType == ASSUME NEW e \in Nat PROVE Using(e) \in SpinePlaces
  BY DEF Using, SpinePlaces

(* What Tell does to those who wait: nobody else is touched.               *)
LEMMA TellKeeps ==
  ASSUME SpineInv, NEW g \in Gens, NEW what \in SpinePlaces, Tell(g, what),
         WriteGate => NobodyReads,
         what.pc = "using" /\ ~WriteGate => what.got = bookRow /\ bookRow # 0
  PROVE  /\ caller' \in [SpineCallers -> SpinePlaces]
         /\ flight' \in [Gens -> Flights]
         /\ WriteGate => \A c \in SpineCallers : caller'[c] = Outside
         /\ \A c \in SpineCallers : caller'[c].pc = "using" => caller'[c].got = bookRow /\ bookRow # 0
         /\ \A h \in Gens : flight'[h] = flight[h] \/ flight'[h].phase = "none"
<1>1. caller' \in [SpineCallers -> SpinePlaces]
  BY DEF SpineInv, SpineTypeOK, Tell
<1>2. flight' = [flight EXCEPT ![g] = NoFlight]
  BY DEF Tell
<1>3. flight' \in [Gens -> Flights]
  BY <1>2, OutsideType DEF SpineInv, SpineTypeOK
<1>4. \A h \in Gens : flight'[h] = flight[h] \/ flight'[h].phase = "none"
  BY <1>2 DEF SpineInv, SpineTypeOK, NoFlight
<1>5. WriteGate => \A c \in SpineCallers : caller'[c] = Outside
  BY DEF Tell, NobodyReads, Outside
<1>6. ASSUME NEW c \in SpineCallers, caller'[c].pc = "using"
      PROVE  caller'[c].got = bookRow /\ bookRow # 0
  <2>1. CASE caller'[c] = caller[c]
    BY <1>6, <2>1 DEF SpineInv, UsedIsPresent
  <2>2. CASE caller'[c] # caller[c]
    <3>1. caller'[c] = what /\ caller[c].pc = "waiting"
      BY <2>2 DEF Tell
    <3>2. ~WriteGate
      BY <3>1 DEF NobodyReads, Outside
    <3> QED BY <1>6, <3>1, <3>2
  <2> QED BY <2>1, <2>2
<1> QED BY <1>1, <1>3, <1>4, <1>5, <1>6

LEMMA VerdictHonest ==
  ASSUME SpineInv
  PROVE  Verdict \in SpinePlaces /\ (Verdict.pc = "using" /\ ~WriteGate => Verdict.got = bookRow /\ bookRow # 0)
<1>1. CASE memo # 0
  <2>1. Verdict = Using(memo)
    BY <1>1 DEF Verdict
  <2> QED BY <1>1, <2>1, UsingType DEF SpineInv, SpineTypeOK, MemoIsPresent, Using
<1>2. CASE memo = 0 /\ ~cached.known
  BY <1>2, OutsideType DEF Verdict, Outside
<1>3. CASE memo = 0 /\ cached.known
  BY <1>3 DEF Verdict, Outside, SpinePlaces
<1> QED BY <1>1, <1>2, <1>3

(* A load ends with everybody who waited told, and what else it changes is *)
(* the memo.                                                               *)
LEMMA TellStep ==
  ASSUME SpineInv, NEW g \in Gens, NEW what \in SpinePlaces, Tell(g, what),
         what.pc = "using" /\ ~WriteGate => what.got = bookRow /\ bookRow # 0,
         UNCHANGED <<bookRow, made, cached, nextGen, spineWriter>>,
         memo' \in Nat, ~WriteGate => memo' \in {0, bookRow}
  PROVE  SpineInv'
<1>0. WriteGate => NobodyReads
  BY DEF SpineInv, GateIsAlone
<1>1. /\ caller' \in [SpineCallers -> SpinePlaces]
      /\ flight' \in [Gens -> Flights]
      /\ WriteGate => \A c \in SpineCallers : caller'[c] = Outside
      /\ \A c \in SpineCallers : caller'[c].pc = "using" => caller'[c].got = bookRow /\ bookRow # 0
      /\ \A h \in Gens : flight'[h] = flight[h] \/ flight'[h].phase = "none"
  BY <1>0, TellKeeps
<1>2. WriteGate' = WriteGate
  BY DEF WriteGate
<1>3. SpineTypeOK'
  BY <1>1 DEF SpineInv, SpineTypeOK
<1>4. LoadOfItsRecord'
  BY <1>1 DEF SpineInv, LoadOfItsRecord
<1>5. GateIsAlone'
  BY <1>1, <1>2 DEF GateIsAlone, NobodyReads
<1>6. ReadIsPresent'
  BY <1>1, <1>2 DEF SpineInv, ReadIsPresent
<1>7. MemoIsPresent' /\ UsedIsPresent'
  BY <1>1, <1>2 DEF MemoIsPresent, UsedIsPresent
<1> QED BY <1>3, <1>4, <1>5, <1>6, <1>7 DEF SpineInv

-----------------------------------------------------------------------------
THEOREM SpineInitInv == SpineInit => SpineInv
<1> SUFFICES ASSUME SpineInit PROVE SpineInv
  OBVIOUS
<1> USE SpineAssumption DEF SpineInit, SpineRecord, NoFlight, NoSpineRecord, Outside
<1>1. SpineTypeOK
  <2>1. cached \in SpineRecords
    BY DEF SpineRecords
  <2>2. flight \in [Gens -> Flights]
    BY DEF Gens, Flights, SpineRecords
  <2>3. caller \in [SpineCallers -> SpinePlaces]
    BY DEF SpinePlaces
  <2> QED BY <2>1, <2>2, <2>3 DEF SpineTypeOK
<1>2. LoadOfItsRecord
  BY DEF LoadOfItsRecord, Gens
<1>3. GateIsAlone
  BY DEF GateIsAlone, WriteGate
<1>4. ReadIsPresent
  BY DEF ReadIsPresent, Gens
<1>5. MemoIsPresent /\ UsedIsPresent
  BY DEF MemoIsPresent, UsedIsPresent
<1> QED BY <1>1, <1>2, <1>3, <1>4, <1>5 DEF SpineInv

(* Whoever looks under the gate finds the memo, no book, or a load to join *)
(* or to begin.                                                            *)
LEMMA LookKeeps ==
  ASSUME SpineInv, NEW c \in SpineCallers, Look(c)
  PROVE  SpineInv'
<1>1. ~WriteGate
  BY DEF Look, SpineInv, GateIsAlone, NobodyReads, Outside
<1>2. UNCHANGED <<bookRow, made, cached, nextGen, memo, spineWriter>>
  BY DEF Look
<1>3. ~WriteGate'
  BY <1>1, <1>2 DEF WriteGate
<1>4. CASE memo # 0
  <2>1. caller' = [caller EXCEPT ![c] = Using(memo)] /\ UNCHANGED flight
    BY <1>4 DEF Look
  <2>2. Using(memo) \in SpinePlaces /\ Using(memo).got = memo
    BY UsingType DEF SpineInv, SpineTypeOK, Using
  <2>3. memo = bookRow
    BY <1>1, <1>4 DEF SpineInv, MemoIsPresent
  <2>4. SpineTypeOK'
    BY <1>2, <2>1, <2>2 DEF SpineInv, SpineTypeOK
  <2>5. UsedIsPresent'
    BY <1>2, <1>4, <2>1, <2>2, <2>3 DEF SpineInv, SpineTypeOK, UsedIsPresent
  <2>6. LoadOfItsRecord' /\ ReadIsPresent' /\ MemoIsPresent' /\ GateIsAlone'
    BY <1>1, <1>2, <1>3, <2>1 DEF SpineInv, LoadOfItsRecord, ReadIsPresent, MemoIsPresent,
       GateIsAlone
  <2> QED BY <2>4, <2>5, <2>6 DEF SpineInv
<1>5. CASE memo = 0 /\ ~cached.known
  <2>1. caller' = [caller EXCEPT ![c] = Outside] /\ UNCHANGED flight
    BY <1>5 DEF Look
  <2>2. SpineTypeOK'
    BY <1>2, <2>1, OutsideType DEF SpineInv, SpineTypeOK
  <2>3. UsedIsPresent'
    BY <1>2, <2>1 DEF SpineInv, SpineTypeOK, UsedIsPresent, Outside
  <2>4. LoadOfItsRecord' /\ ReadIsPresent' /\ MemoIsPresent' /\ GateIsAlone'
    BY <1>1, <1>2, <1>3, <2>1 DEF SpineInv, LoadOfItsRecord, ReadIsPresent, MemoIsPresent,
       GateIsAlone
  <2> QED BY <2>2, <2>3, <2>4 DEF SpineInv
<1>6. CASE memo = 0 /\ cached.known
  <2> DEFINE begun == [phase |-> "begun", book |-> cached, read |-> 0]
             waits == [pc |-> "waiting", gen |-> cached.gen, got |-> 0]
  <2>1. caller' = [caller EXCEPT ![c] = waits]
    BY <1>6 DEF Look
  <2>2. flight' = [flight EXCEPT ![cached.gen] = IF flight[cached.gen].phase = "none" THEN begun ELSE flight[cached.gen]]
    BY <1>6 DEF Look
  <2>3. begun \in Flights /\ waits \in SpinePlaces
    BY DEF SpineInv, SpineTypeOK, Flights, SpinePlaces, SpineRecords
  <2>4. \A g \in Gens : flight'[g] = flight[g] \/ (g = cached.gen /\ flight'[g] = begun)
    BY <2>2 DEF SpineInv, SpineTypeOK
  <2>5. flight' \in [Gens -> Flights]
    BY <2>2, <2>3 DEF SpineInv, SpineTypeOK
  <2>6. SpineTypeOK'
    BY <1>2, <2>1, <2>3, <2>5 DEF SpineInv, SpineTypeOK
  <2>7. LoadOfItsRecord'
    BY <1>2, <1>6, <2>4 DEF SpineInv, LoadOfItsRecord
  <2>8. ReadIsPresent'
    BY <1>1, <1>2, <1>3, <2>4 DEF SpineInv, ReadIsPresent
  <2>9. UsedIsPresent'
    BY <1>2, <2>1 DEF SpineInv, SpineTypeOK, UsedIsPresent
  <2>10. MemoIsPresent' /\ GateIsAlone'
    BY <1>1, <1>2, <1>3 DEF SpineInv, MemoIsPresent, GateIsAlone
  <2> QED BY <2>6, <2>7, <2>8, <2>9, <2>10 DEF SpineInv
<1> QED BY <1>4, <1>5, <1>6

LEMMA SpineLeaveKeeps ==
  ASSUME SpineInv, NEW c \in SpineCallers, Leave(c)
  PROVE  SpineInv'
<1>1. /\ caller' = [caller EXCEPT ![c] = Outside]
      /\ UNCHANGED <<bookRow, made, cached, nextGen, memo, flight, spineWriter>>
  BY DEF Leave
<1>2. WriteGate' = WriteGate
  BY <1>1 DEF WriteGate
<1>3. SpineTypeOK'
  BY <1>1, OutsideType DEF SpineInv, SpineTypeOK
<1>4. UsedIsPresent'
  BY <1>1 DEF SpineInv, SpineTypeOK, UsedIsPresent, Outside
<1>5. GateIsAlone'
  BY <1>1, <1>2 DEF SpineInv, SpineTypeOK, GateIsAlone, NobodyReads
<1>6. LoadOfItsRecord' /\ ReadIsPresent' /\ MemoIsPresent'
  BY <1>1, <1>2 DEF SpineInv, LoadOfItsRecord, ReadIsPresent, MemoIsPresent
<1> QED BY <1>3, <1>4, <1>5, <1>6 DEF SpineInv

(* A load that goes on: only its own phase and what it has read change.    *)
LEMMA FlightStep ==
  ASSUME SpineInv, NEW g \in Gens, NEW f \in Flights, flight[g].phase # "none",
         flight' = [flight EXCEPT ![g] = f], f.book = flight[g].book,
         UNCHANGED <<bookRow, made, cached, nextGen, memo, spineWriter, caller>>,
         f.phase = "read" => f.read \in {0, bookRow}
  PROVE  SpineInv'
<1>1. WriteGate' = WriteGate /\ NobodyReads' = NobodyReads
  BY DEF WriteGate, NobodyReads
<1>2. \A h \in Gens : flight'[h] = IF h = g THEN f ELSE flight[h]
  BY DEF SpineInv, SpineTypeOK
<1>3. SpineTypeOK'
  BY DEF SpineInv, SpineTypeOK
<1>4. LoadOfItsRecord'
  BY <1>2 DEF SpineInv, LoadOfItsRecord
<1>5. ReadIsPresent'
  BY <1>1, <1>2 DEF SpineInv, ReadIsPresent
<1>6. GateIsAlone' /\ MemoIsPresent' /\ UsedIsPresent'
  BY <1>1 DEF SpineInv, GateIsAlone, MemoIsPresent, UsedIsPresent
<1> QED BY <1>3, <1>4, <1>5, <1>6 DEF SpineInv

LEMMA FlightBeginsKeeps ==
  ASSUME SpineInv, NEW g \in Gens, FlightBegins(g)
  PROVE  SpineInv'
<1>1. CASE Settled(g)
  <2>1. Tell(g, Verdict) /\ UNCHANGED <<bookRow, made, cached, nextGen, memo, spineWriter>>
    BY <1>1 DEF FlightBegins
  <2>2. memo' \in Nat /\ (~WriteGate => memo' \in {0, bookRow})
    BY <2>1 DEF SpineInv, SpineTypeOK, MemoIsPresent
  <2> QED BY <2>1, <2>2, VerdictHonest, TellStep
<1>2. CASE ~Settled(g)
  <2> DEFINE f == [phase |-> "loading", book |-> flight[g].book, read |-> flight[g].read]
  <2>1. flight[g] \in Flights /\ flight[g].phase = "begun"
    BY DEF FlightBegins, SpineInv, SpineTypeOK
  <2>2. f \in Flights /\ [flight[g] EXCEPT !.phase = "loading"] = f
    BY <2>1 DEF Flights
  <2>3. flight' = [flight EXCEPT ![g].phase = "loading"]
    BY <1>2 DEF FlightBegins
  <2>4. flight' = [flight EXCEPT ![g] = f]
    BY <2>2, <2>3
  <2>5. UNCHANGED <<bookRow, made, cached, nextGen, memo, spineWriter, caller>>
    BY <1>2 DEF FlightBegins
  <2>6. f.book = flight[g].book /\ f.phase # "read" /\ flight[g].phase # "none"
    BY <2>1
  <2> HIDE DEF f
  <2> QED BY <2>2, <2>4, <2>5, <2>6, FlightStep
<1> QED BY <1>1, <1>2

LEMMA FlightReadsKeeps ==
  ASSUME SpineInv, NEW g \in Gens, FlightReads(g)
  PROVE  SpineInv'
<1>1. flight[g] \in Flights /\ flight[g].phase = "loading"
  BY DEF FlightReads, SpineInv, SpineTypeOK
<1>2. UNCHANGED <<bookRow, made, cached, nextGen, memo, spineWriter, caller>>
  BY DEF FlightReads
<1>3. PICK e \in {bookRow, 0} :
        flight' = [flight EXCEPT ![g] = [phase |-> "read", book |-> flight[g].book, read |-> e]]
  BY DEF FlightReads
<1> DEFINE f == [phase |-> "read", book |-> flight[g].book, read |-> e]
<1>4. e \in Nat
  BY DEF SpineInv, SpineTypeOK
<1>5. f \in Flights /\ f.book = flight[g].book /\ f.read = e
  BY <1>1, <1>4 DEF Flights
<1>6. flight' = [flight EXCEPT ![g] = f]
  BY <1>3
<1>7. flight[g].phase # "none"
  BY <1>1
<1> HIDE DEF f
<1> QED BY <1>2, <1>5, <1>6, <1>7, FlightStep

(* A load publishes only while its record is kept, so it publishes what    *)
(* the book is.                                                            *)
LEMMA FlightEndsKeeps ==
  ASSUME SpineInv, NEW g \in Gens, FlightEnds(g)
  PROVE  SpineInv'
<1> DEFINE read == flight[g].read
<1>1. flight[g].phase = "read" /\ read \in Nat
  BY DEF FlightEnds, SpineInv, SpineTypeOK, Flights
<1>2. UNCHANGED <<bookRow, made, cached, nextGen, spineWriter>>
  BY DEF FlightEnds
<1>3. memo \in Nat /\ (~WriteGate => memo \in {0, bookRow})
  BY DEF SpineInv, SpineTypeOK, MemoIsPresent
<1>4. CASE Settled(g)
  <2>1. Tell(g, Verdict) /\ UNCHANGED memo
    BY <1>4 DEF FlightEnds
  <2> QED BY <1>2, <1>3, <2>1, VerdictHonest, TellStep
<1>5. CASE ~Settled(g) /\ read = 0
  <2>1. Tell(g, Outside) /\ UNCHANGED memo
    BY <1>5 DEF FlightEnds
  <2>2. Outside \in SpinePlaces /\ Outside.pc # "using"
    BY OutsideType DEF Outside
  <2> QED BY <1>2, <1>3, <2>1, <2>2, TellStep
<1>6. CASE ~Settled(g) /\ read # 0
  <2>1. Tell(g, Using(read)) /\ memo' = read
    BY <1>6 DEF FlightEnds
  <2>2. flight[g].book = cached
    BY <1>6 DEF Settled
  <2>3. ~WriteGate => read = bookRow
    BY <1>1, <1>6, <2>2 DEF SpineInv, ReadIsPresent
  <2>4. Using(read) \in SpinePlaces /\ Using(read).got = read
    BY <1>1, UsingType DEF Using
  <2> HIDE DEF read
  <2>5. memo' \in Nat /\ (~WriteGate => memo' \in {0, bookRow})
    BY <1>1, <2>1, <2>3
  <2>6. ~WriteGate => Using(read).got = bookRow /\ bookRow # 0
    BY <1>6, <2>3, <2>4
  <2> QED BY <1>2, <2>1, <2>4, <2>5, <2>6, TellStep
<1> QED BY <1>4, <1>5, <1>6

(* While the writer is between its two steps nothing is claimed of what is *)
(* read and kept.                                                          *)
LEMMA SpineCommitKeeps ==
  ASSUME SpineInv, Commit
  PROVE  SpineInv'
<1>1. WriteGate'
  BY DEF Commit, WriteGate
<1>2. UNCHANGED <<cached, nextGen, memo, flight, caller>> /\ NobodyReads
  BY DEF Commit
<1>3. bookRow' \in Nat /\ made' \in Nat
  BY DEF Commit, SpineInv, SpineTypeOK
<1>4. SpineTypeOK'
  BY <1>2, <1>3 DEF Commit, SpineInv, SpineTypeOK
<1>5. UsedIsPresent'
  BY <1>2 DEF UsedIsPresent, NobodyReads, Outside
<1>6. GateIsAlone' /\ MemoIsPresent' /\ ReadIsPresent'
  BY <1>1, <1>2 DEF GateIsAlone, NobodyReads, MemoIsPresent, ReadIsPresent
<1>7. LoadOfItsRecord'
  BY <1>2 DEF SpineInv, LoadOfItsRecord
<1> QED BY <1>4, <1>5, <1>6, <1>7 DEF SpineInv

(* A new record, or none: no load that is under way is for it.             *)
LEMMA RecordStep ==
  ASSUME SpineInv, NEW rec \in SpineRecords, cached' = rec, memo' = 0,
         nextGen' \in {nextGen, nextGen + 1},
         rec.known => nextGen' = nextGen + 1 /\ rec.gen = nextGen',
         UNCHANGED <<bookRow, made, flight, caller>>,
         spineWriter' = "idle"
  PROVE  SpineInv'
<1>1. ~WriteGate'
  BY DEF WriteGate
<1>2. nextGen \in Nat
  BY DEF SpineInv, SpineTypeOK
<1>3. SpineTypeOK'
  BY <1>2 DEF SpineInv, SpineTypeOK
<1>4. LoadOfItsRecord'
  BY <1>2 DEF SpineInv, LoadOfItsRecord, Gens
<1>5. \A g \in Gens : flight'[g].phase = "read" => flight'[g].book # cached'
  BY <1>2 DEF SpineInv, LoadOfItsRecord, Gens
<1>6. ReadIsPresent'
  BY <1>5 DEF ReadIsPresent
<1>7. GateIsAlone' /\ MemoIsPresent'
  BY <1>1 DEF GateIsAlone, MemoIsPresent
<1>8. UsedIsPresent'
  BY DEF SpineInv, UsedIsPresent
<1> QED BY <1>3, <1>4, <1>6, <1>7, <1>8 DEF SpineInv

LEMMA RefreshKeeps ==
  ASSUME SpineInv, Refresh
  PROVE  SpineInv'
<1>1. UNCHANGED <<bookRow, made, flight, caller>> /\ spineWriter' = "idle"
  BY DEF Refresh
<1>2. CASE CacheRemove
  <2>1. /\ cached' = NoSpineRecord /\ memo' = 0
        /\ nextGen' \in {nextGen, nextGen + 1}
    BY <1>2 DEF CacheRemove
  <2>2. NoSpineRecord \in SpineRecords /\ ~NoSpineRecord.known
    BY DEF NoSpineRecord, SpineRecords
  <2> QED BY <1>1, <2>1, <2>2, RecordStep
<1>3. CASE CacheAdd
  <2>1. /\ cached' = SpineRecord(nextGen + 1, bookRow) /\ memo' = 0
        /\ nextGen' = nextGen + 1
    BY <1>3 DEF CacheAdd
  <2>2. /\ SpineRecord(nextGen + 1, bookRow) \in SpineRecords
        /\ SpineRecord(nextGen + 1, bookRow).gen = nextGen + 1
    BY DEF SpineRecord, SpineRecords, SpineInv, SpineTypeOK
  <2> QED BY <1>1, <2>1, <2>2, RecordStep
<1> QED BY <1>2, <1>3 DEF Refresh

LEMMA WarmKeeps ==
  ASSUME SpineInv, Warm
  PROVE  SpineInv'
<1>1. UNCHANGED <<bookRow, made, flight, caller>> /\ spineWriter' = "idle"
  BY DEF Warm, WriteGate, SpineInv, SpineTypeOK
<1>2. /\ cached' = SpineRecord(nextGen + 1, bookRow) /\ memo' = 0
      /\ nextGen' = nextGen + 1
  BY DEF Warm, CacheAdd
<1>3. /\ SpineRecord(nextGen + 1, bookRow) \in SpineRecords
      /\ SpineRecord(nextGen + 1, bookRow).gen = nextGen + 1
  BY DEF SpineRecord, SpineRecords, SpineInv, SpineTypeOK
<1> QED BY <1>1, <1>2, <1>3, RecordStep

(* A new row is made only while no record is kept: nothing that is read    *)
(* now will be published.                                                  *)
LEMMA ImportKeeps ==
  ASSUME SpineInv, ImportBook
  PROVE  SpineInv'
<1>1. /\ bookRow = 0 /\ ~cached.known /\ ~WriteGate
      /\ bookRow' = made + 1 /\ made' = made + 1
      /\ UNCHANGED <<cached, nextGen, memo, flight, spineWriter, caller>>
  BY DEF ImportBook
<1>2. ~WriteGate'
  BY <1>1 DEF WriteGate
<1>3. SpineTypeOK'
  BY <1>1 DEF SpineInv, SpineTypeOK
<1>4. LoadOfItsRecord'
  BY <1>1 DEF SpineInv, LoadOfItsRecord
<1>5. MemoIsPresent'
  BY <1>1 DEF SpineInv, MemoIsPresent
<1>6. UsedIsPresent'
  BY <1>1 DEF SpineInv, UsedIsPresent
<1>7. ReadIsPresent'
  BY <1>1 DEF SpineInv, LoadOfItsRecord, ReadIsPresent
<1>8. GateIsAlone'
  BY <1>2 DEF GateIsAlone
<1> QED BY <1>3, <1>4, <1>5, <1>6, <1>7, <1>8 DEF SpineInv

LEMMA SpineNextInv ==
  ASSUME SpineInv, [SpineNext]_spineVars
  PROVE  SpineInv'
<1>1. CASE UNCHANGED spineVars
  BY <1>1 DEF spineVars, SpineInv, SpineTypeOK, LoadOfItsRecord, GateIsAlone, ReadIsPresent,
              MemoIsPresent, UsedIsPresent, WriteGate, NobodyReads
<1>2. ASSUME NEW c \in SpineCallers, Look(c) \/ Leave(c)
      PROVE  SpineInv'
  BY <1>2, LookKeeps, SpineLeaveKeeps
<1>3. ASSUME NEW g \in 0 .. MaxGen, FlightBegins(g) \/ FlightReads(g) \/ FlightEnds(g)
      PROVE  SpineInv'
  BY <1>3, FlightBeginsKeeps, FlightReadsKeeps, FlightEndsKeeps DEF Gens
<1>4. CASE Commit \/ Refresh \/ ImportBook \/ Warm
  BY <1>4, SpineCommitKeeps, RefreshKeeps, ImportKeeps, WarmKeeps
<1> QED BY <1>1, <1>2, <1>3, <1>4 DEF SpineNext

LEMMA SpineInvFollows == ASSUME SpineInv PROVE SpineFollowsBook
  BY DEF SpineInv, MemoIsPresent, UsedIsPresent, SpineFollowsBook

(* Whatever loads were under way or abandoned while the book was replaced, *)
(* deleted and imported again (bookcache.go), the spine a request works    *)
(* with is of the content of the books row.                                *)
THEOREM SpineIsTheBooks == SpineSpec => []SpineFollowsBook
<1>1. SpineSpec => []SpineInv
  <2>1. SpineInv /\ [SpineNext]_spineVars => SpineInv'
    BY SpineNextInv
  <2> QED BY SpineInitInv, <2>1, PTL DEF SpineSpec
<1>2. SpineInv => SpineFollowsBook
  BY SpineInvFollows
<1> QED BY <1>1, <1>2, PTL

-----------------------------------------------------------------------------
(* A spine has at least one chapter, and each chapter shows a document.    *)
LEMMA SpineShape ==
    ASSUME NEW s \in Spines
    PROVE  /\ Len(s) \in Nat \ {0}
           /\ \A c \in Chapters(s) : Document(s, c) \in Hrefs
<1>1. PICK n \in 1..MaxChapters : s \in [1..n -> Hrefs]
  BY DEF Spines
<1>2. n \in Nat \ {0}
  BY <1>1, MaxChaptersAssumption
<1>3. s \in Seq(Hrefs) /\ DOMAIN s = 1..n
  BY <1>1, <1>2, IsASeq
<1>4. Len(s) = n
  BY <1>2, <1>3, LenProperties
<1> QED
  BY <1>1, <1>2, <1>4 DEF Chapters, Document

(* FirstIndex finds the first of the chapters that show a document.        *)
LEMMA FirstIndexFound ==
    ASSUME NEW s \in Spines, NEW href \in Documents(s)
    PROVE  /\ FirstIndex(s, href) \in Chapters(s)
           /\ Document(s, FirstIndex(s, href)) = href
           /\ \A d \in Chapters(s) : Document(s, d) = href => FirstIndex(s, href) <= d
<1> DEFINE T == {c \in Chapters(s) : Document(s, c) = href}
<1>1. T # {} /\ T \subseteq Nat
  BY SpineShape DEF Documents, Chapters
<1> DEFINE Less == OpToRel(<, Nat)
<1>2. \E c \in T : \A d \in T : <<d, c>> \notin Less
  <2> HIDE DEF T, Less
  <2>1. IsWellFoundedOn(Less, Nat)
    BY NatLessThanWellFounded DEF Less
  <2> QED
    BY <1>1, <2>1, WFMin
<1>3. \A c, d \in T : <<d, c>> \notin Less => c <= d
  BY <1>1 DEF OpToRel
<1>4. PICK c \in T : \A d \in T : c <= d
  BY <1>2, <1>3
<1>5. c \in Chapters(s) /\ Document(s, c) = href
  BY <1>4
<1> QED
  BY <1>4, <1>5 DEF FirstIndex

(* What Apply makes of a valid position under the remap of two spines: it  *)
(* follows the document if it can, and is valid in the new file.           *)
LEMMA ApplyFollows ==
    ASSUME NEW old \in Spines, NEW new \in Spines,
           NEW p \in Position, p.chapter \in Chapters(old)
    PROVE  LET q   == Apply(BuildRemap(old, new), p)
               doc == Document(old, p.chapter)
           IN
           /\ q \in Position /\ q.chapter \in Chapters(new)
           /\ doc \in Documents(new) =>
                 q = [chapter |-> FirstIndex(new, doc), percent |-> p.percent, cfi |-> p.cfi]
           /\ doc \notin Documents(new) =>
                 \/ q = [p EXCEPT !.cfi = NoCFI]
                 \/ /\ p.chapter >= Len(new)
                    /\ q = [chapter |-> Len(new) - 1, percent |-> Full, cfi |-> NoCFI]
<1> DEFINE q   == Apply(BuildRemap(old, new), p)
           doc == Document(old, p.chapter)
           m   == BuildRemap(old, new)
<1>1. /\ Len(new) \in Nat \ {0} /\ Len(old) \in Nat \ {0}
      /\ Chapters(new) = 0..(Len(new) - 1) /\ p.chapter \in Nat
      /\ 0 \in 0..Full /\ Full \in 0..Full
  BY SpineShape, FullAssumption DEF Chapters
<1>2. m.newCount = Len(new) /\ DOMAIN m.moves = Chapters(old)
  BY DEF BuildRemap
<1>3. ASSUME doc \in Documents(new)
      PROVE  /\ q = [chapter |-> FirstIndex(new, doc), percent |-> p.percent, cfi |-> p.cfi]
             /\ q \in Position /\ q.chapter \in Chapters(new)
  <2>1. FirstIndex(new, doc) \in Chapters(new)
    BY <1>3, FirstIndexFound
  <2>2. m.moves[p.chapter] = [index |-> FirstIndex(new, doc), keepAnchor |-> TRUE]
    BY <1>3 DEF BuildRemap
  <2>3. Matches(m, p.chapter)
    BY <1>1, <1>2, <2>1, <2>2 DEF Matches
  <2>4. q = ApplyMove(m.moves[p.chapter], p)
    BY <1>1, <1>2, <2>3 DEF Apply
  <2> QED
    BY <1>1, <2>1, <2>2, <2>4 DEF ApplyMove, Position
<1>4. ASSUME doc \notin Documents(new)
      PROVE  /\ \/ q = [p EXCEPT !.cfi = NoCFI]
                \/ /\ p.chapter >= Len(new)
                   /\ q = [chapter |-> Len(new) - 1, percent |-> Full, cfi |-> NoCFI]
             /\ q \in Position /\ q.chapter \in Chapters(new)
  <2>1. m.moves[p.chapter] = NoMove
    BY <1>4 DEF BuildRemap
  <2>2. ~Matches(m, p.chapter)
    BY <1>1, <1>2, <2>1 DEF Matches, NoMove
  <2>3. q = IF p.chapter >= Len(new)
               THEN [chapter |-> Len(new) - 1, percent |-> Full, cfi |-> NoCFI]
               ELSE [p EXCEPT !.cfi = NoCFI]
    BY <1>1, <1>2, <2>2 DEF Apply
  <2> QED
    BY <1>1, <2>3 DEF Position
<1> QED
  BY <1>3, <1>4

(* The inductive invariant.                                                *)
RemapInv == /\ spine \in Spines /\ pos \in Position
        /\ PositionValid /\ AnchorInItsDocument

LEMMA RemapInitInv == RemapInit => RemapInv
<1> SUFFICES ASSUME RemapInit PROVE RemapInv
  OBVIOUS
<1>1. Len(spine) \in Nat \ {0}
  BY SpineShape DEF RemapInit
<1> QED
  BY <1>1, FullAssumption
     DEF RemapInit, RemapInv, Zero, Position, PositionValid, Valid, AnchorInItsDocument, Chapters

LEMMA RemapNextInv == RemapInv /\ [RemapNext]_remapVars => RemapInv'
<1> SUFFICES ASSUME RemapInv, [RemapNext]_remapVars PROVE RemapInv'
  OBVIOUS
<1>1. ASSUME SavePosition PROVE RemapInv'
  <2>1. PICK c \in Chapters(spine), percent \in 0..Full :
           \E cfi \in {Document(spine, c), NoCFI} :
              pos' = [chapter |-> c, percent |-> percent, cfi |-> cfi]
    BY <1>1 DEF SavePosition
  <2>2. PICK cfi \in {Document(spine, c), NoCFI} :
           pos' = [chapter |-> c, percent |-> percent, cfi |-> cfi]
    BY <2>1
  <2>3. spine' = spine /\ spine \in Spines /\ Document(spine, c) \in Hrefs /\ c \in Int
    BY <1>1, SpineShape DEF SavePosition, RemapInv, Chapters
  <2> QED
    BY <2>2, <2>3 DEF RemapInv, Position, PositionValid, Valid, AnchorInItsDocument
<1>2. ASSUME Replace PROVE RemapInv'
  <2> DEFINE doc == Document(spine, pos.chapter)
  <2>1. /\ spine \in Spines /\ spine' \in Spines /\ pos \in Position
        /\ pos.chapter \in Chapters(spine)
        /\ pos' = Apply(BuildRemap(spine, spine'), pos)
    BY <1>2 DEF Replace, RemapInv, PositionValid, Valid
  <2>2. pos' \in Position /\ pos'.chapter \in Chapters(spine')
    BY <2>1, ApplyFollows
  <2>3. PositionValid'
    BY <2>2 DEF PositionValid, Valid, Position
  <2>4. ASSUME pos'.cfi # NoCFI PROVE Document(spine', pos'.chapter) = pos'.cfi
    <3>1. doc \in Documents(spine') => pos' = [chapter |-> FirstIndex(spine', doc),
                                                percent |-> pos.percent, cfi |-> pos.cfi]
      BY <2>1, ApplyFollows
    <3>2. doc \notin Documents(spine') => pos'.cfi = NoCFI
      BY <2>1, ApplyFollows DEF Position
    <3>3. doc \in Documents(spine') /\ pos'.cfi = pos.cfi
      BY <2>4, <3>1, <3>2
    <3>4. doc = pos.cfi
      BY <2>4, <3>3 DEF RemapInv, AnchorInItsDocument
    <3> QED
      BY <2>1, <3>1, <3>3, <3>4, FirstIndexFound
  <2> QED
    BY <2>1, <2>2, <2>3, <2>4 DEF RemapInv, AnchorInItsDocument
<1>3. ASSUME UNCHANGED remapVars PROVE RemapInv'
  BY <1>3 DEF remapVars, RemapInv, PositionValid, AnchorInItsDocument, Valid
<1> QED
  BY <1>1, <1>2, <1>3 DEF RemapNext

LEMMA RemapInvariance == RemapSpec => []RemapInv
<1> QED
  BY RemapInitInv, RemapNextInv, PTL DEF RemapSpec

(* The progress validator accepts every stored position, after any number  *)
(* of replacements (Apply).                                                *)
THEOREM PositionsStayValid == RemapSpec => []PositionValid
<1>1. RemapInv => PositionValid
  BY DEF RemapInv
<1> QED
  BY <1>1, RemapInvariance, PTL

(* An anchor is only ever used in the document it was taken in             *)
(* (ChapterMove.KeepAnchor).                                               *)
THEOREM AnchorsStayInTheirDocuments == RemapSpec => []AnchorInItsDocument
<1>1. RemapInv => AnchorInItsDocument
  BY DEF RemapInv
<1> QED
  BY <1>1, RemapInvariance, PTL

(* A reader stays in a document the new file still has, and otherwise      *)
(* keeps its chapter number or parks at the end (buildChapterRemap, Apply).*)
THEOREM PositionsFollowDocuments == RemapSpec => FollowsDocument
<1> DEFINE doc == Document(spine, pos.chapter)
           Follows == IF doc \in Documents(spine')
              THEN /\ Document(spine', pos'.chapter) = doc
                   /\ pos'.percent = pos.percent /\ pos'.cfi = pos.cfi
              ELSE \/ pos' = [pos EXCEPT !.cfi = NoCFI]
                   \/ /\ pos.chapter >= Len(spine')
                      /\ pos' = [chapter |-> Len(spine') - 1, percent |-> Full, cfi |-> NoCFI]
<1>1. ASSUME RemapInv, Replace PROVE Follows
  <2>1. /\ spine \in Spines /\ spine' \in Spines /\ pos \in Position
        /\ pos.chapter \in Chapters(spine)
        /\ pos' = Apply(BuildRemap(spine, spine'), pos)
    BY <1>1 DEF Replace, RemapInv, PositionValid, Valid
  <2>2. doc \in Documents(spine') => pos' = [chapter |-> FirstIndex(spine', doc),
                                              percent |-> pos.percent, cfi |-> pos.cfi]
    BY <2>1, ApplyFollows
  <2>3. CASE doc \in Documents(spine')
    BY <2>1, <2>2, <2>3, FirstIndexFound
  <2>4. CASE doc \notin Documents(spine')
    BY <2>1, <2>4, ApplyFollows
  <2> QED
    BY <2>3, <2>4
<1> QED
  BY <1>1, RemapInvariance, PTL DEF FollowsDocument

(* An append moves nothing, as long as no document is listed twice         *)
(* (buildChapterRemap finds each document where it was).                   *)
THEOREM AppendsKeepPlace == RemapSpec => AppendKeepsPlace
<1> DEFINE Appended == /\ Len(spine) <= Len(spine') /\ spine = SubSeq(spine', 1, Len(spine))
                       /\ \A c, d \in Chapters(spine) : Document(spine, c) = Document(spine, d) => c = d
                       /\ Replace
<1>1. ASSUME RemapInv, Appended PROVE pos' = pos
  <2> DEFINE doc == Document(spine, pos.chapter)
  <2>1. /\ spine \in Spines /\ spine' \in Spines /\ pos \in Position
        /\ pos.chapter \in Chapters(spine)
        /\ pos' = Apply(BuildRemap(spine, spine'), pos)
    BY <1>1 DEF Replace, RemapInv, PositionValid, Valid
  <2>2. ASSUME NEW c \in Chapters(spine)
        PROVE  c \in Chapters(spine') /\ Document(spine', c) = Document(spine, c)
    <3>1. /\ spine \in Seq(Hrefs) /\ spine' \in Seq(Hrefs) /\ Len(spine) \in Nat /\ Len(spine') \in Nat
          /\ c \in Nat /\ c + 1 \in 1 .. Len(spine)
      <4>1. spine \in Seq(Hrefs) /\ spine' \in Seq(Hrefs)
        BY <2>1, IsASeq, MaxChaptersAssumption DEF Spines
      <4> QED BY <2>1, <4>1 DEF Chapters
    <3>2. spine[c + 1] = spine'[c + 1]
      BY <1>1, <3>1
    <3> QED BY <1>1, <3>1, <3>2 DEF Chapters, Document
  <2>3. doc \in Documents(spine') /\ FirstIndex(spine', doc) \in Chapters(spine')
        /\ Document(spine', FirstIndex(spine', doc)) = doc
    <3>1. doc \in Documents(spine')
      BY <2>1, <2>2 DEF Documents
    <3> QED BY <2>1, <3>1, FirstIndexFound
  <2>4. FirstIndex(spine', doc) = pos.chapter
    <3> DEFINE first == FirstIndex(spine', doc)
    <3>1. first <= pos.chapter /\ first \in Nat /\ pos.chapter \in Chapters(spine)
      <4>1. pos.chapter \in Chapters(spine') /\ Document(spine', pos.chapter) = doc
        BY <2>1, <2>2
      <4> QED BY <2>1, <2>3, <4>1, FirstIndexFound DEF Chapters
    <3>2. first \in Chapters(spine)
      BY <2>1, <3>1, SpineShape DEF Chapters
    <3>3. Document(spine, first) = doc
      BY <2>2, <2>3, <3>2
    <3> HIDE DEF first
    <3> QED BY <1>1, <2>1, <3>2, <3>3 DEF first
  <2>5. pos' = [chapter |-> FirstIndex(spine', doc), percent |-> pos.percent, cfi |-> pos.cfi]
    BY <2>1, <2>3, ApplyFollows
  <2> QED BY <2>1, <2>4, <2>5 DEF Position
<1> QED
  BY <1>1, RemapInvariance, PTL DEF AppendKeepsPlace

-----------------------------------------------------------------------------
(* The store of open readers.                                              *)
Elems(list) == {list[i] : i \in 1..Len(list)}
Once(list)  == \A i, j \in 1..Len(list) : list[i] = list[j] => i = j
Files       == [path : Paths, edition : Nat]

StoreTyped ==
    /\ entry \in [Paths -> StoreEntry]
    /\ lru \in Seq(Paths) /\ Once(lru)
    /\ handle \in [Handles -> Files]
    /\ chapter \in [Paths -> Nat]
    /\ installed \in [Paths -> Nat \ {0}]
    /\ stage \in [Requests -> {"idle", "loading", "waiting", "using"}]
    /\ want \in [Requests -> Paths]
    /\ has \in [Requests -> Handles \cup {NoHandle}]

(* An entry is absent, on its way, or a reader of the installed file.      *)
Shaped(es, hs, files) == \A p \in Paths :
    \/ es[p] = NoStoreEntry
    \/ es[p].loading /\ es[p].reader = NoHandle /\ es[p].refs > 0
    \/ /\ ~es[p].loading /\ es[p].reader \in Handles
       /\ hs[es[p].reader] = [path |-> p, edition |-> files[p]]

(* Every open file has its entry.                                          *)
Known(es, hs) == \A h \in Handles : hs[h] # Unused => es[hs[h].path].reader = h

(* An entry is listed or will be closed by its last release.               *)
Watched(list, es) == \A p \in Paths :
    /\ p \in Elems(list) <=> es[p] # NoStoreEntry /\ ~es[p].evicted
    /\ es[p].evicted => es[p].refs > 0
    /\ es[p].closePending => es[p].evicted

Sound(list, es, hs, files) == Shaped(es, hs, files) /\ Known(es, hs) /\ Watched(list, es)

Counted == \A p \in Paths : entry[p].refs = Cardinality(Borrowers(p))

Loaders == \A p \in Paths :
    /\ entry[p].loading <=> \E t \in Borrowers(p) : stage[t] = "loading"
    /\ \A t, u \in Borrowers(p) : stage[t] = "loading" /\ stage[u] = "loading" => t = u

(* Who waits waits for a load; who uses has the entry's reader.            *)
Lent == \A t \in Requests :
    /\ stage[t] = "waiting" => entry[want[t]].loading
    /\ stage[t] = "using" => has[t] \in Handles /\ entry[want[t]].reader = has[t]

StoreInv == /\ StoreTyped
            /\ Sound(lru, entry, handle, installed)
            /\ Counted /\ Loaders /\ Lent /\ ChaptersFresh

-----------------------------------------------------------------------------
LEMMA EntryShape ==
  /\ NoStoreEntry \in StoreEntry /\ Loading \in StoreEntry /\ NoStoreEntry # Loading
  /\ Paths # {} => Unused \in Files
<1>1. Paths # {} => AnyPath \in Paths
  BY DEF AnyPath
<1> QED BY <1>1 DEF NoStoreEntry, Loading, StoreEntry, Unused, Files

LEMMA NoEntryFields ==
  /\ NoStoreEntry.refs = 0 /\ NoStoreEntry.reader = NoHandle
  /\ ~NoStoreEntry.loading /\ ~NoStoreEntry.evicted /\ ~NoStoreEntry.closePending
  BY DEF NoStoreEntry

(* The list of open files: who is taken out, put in front or cut off.      *)
LEMMA WithoutList ==
  ASSUME NEW list \in Seq(Paths), Once(list), NEW p
  PROVE  /\ Without(list, p) \in Seq(Paths) /\ Once(Without(list, p))
         /\ Elems(Without(list, p)) = Elems(list) \ {p}
<1>1. CASE \E i \in DOMAIN list : list[i] = p
  <2> DEFINE i == CHOOSE i \in DOMAIN list : list[i] = p
             r == SubSeq(list, 1, i - 1) \o SubSeq(list, i + 1, Len(list))
  <2>1. i \in 1..Len(list) /\ list[i] = p
    BY <1>1
  <2> HIDE DEF i
  <2>2. /\ r \in Seq(Paths) /\ Len(r) = Len(list) - 1
        /\ \A k \in 1..Len(r) : r[k] = IF k < i THEN list[k] ELSE list[k + 1]
    <3> DEFINE a == SubSeq(list, 1, i - 1)
               b == SubSeq(list, i + 1, Len(list))
    <3>1. a \in Seq(Paths) /\ Len(a) = i - 1 /\ \A k \in 1..(i - 1) : a[k] = list[k]
      BY <2>1
    <3>2. /\ b \in Seq(Paths) /\ Len(b) = Len(list) - i
          /\ \A k \in 1..(Len(list) - i) : b[k] = list[i + k]
      BY <2>1
    <3> HIDE DEF a, b
    <3>3. a \o b \in Seq(Paths) /\ Len(a \o b) = Len(list) - 1
      BY <2>1, <3>1, <3>2, ConcatProperties
    <3>4. ASSUME NEW k \in 1..Len(a \o b)
          PROVE  (a \o b)[k] = IF k < i THEN list[k] ELSE list[k + 1]
      <4>1. CASE k < i
        BY <2>1, <3>1, <3>2, <3>3, <4>1
      <4>2. CASE k >= i
        <5>1. (a \o b)[k] = b[k - Len(a)] /\ k - Len(a) = k - i + 1
          BY <2>1, <3>1, <3>2, <3>3, <4>2
        <5>2. k - i + 1 \in 1..(Len(list) - i) /\ i + (k - i + 1) = k + 1
          BY <2>1, <3>3, <4>2
        <5> QED BY <2>1, <3>2, <4>2, <5>1, <5>2
      <4> QED BY <2>1, <4>1, <4>2
    <3>5. r = a \o b
      BY DEF a, b
    <3> QED BY <3>3, <3>4, <3>5
  <2> HIDE DEF r
  <2>3. Once(r)
    <3> SUFFICES ASSUME NEW j \in 1..Len(r), NEW k \in 1..Len(r), r[j] = r[k] PROVE j = k
      BY DEF Once
    <3>1. j \in 1..Len(list) /\ j + 1 \in 1..Len(list) /\ k \in 1..Len(list) /\ k + 1 \in 1..Len(list)
      BY <2>2
    <3>2. (IF j < i THEN j ELSE j + 1) = (IF k < i THEN k ELSE k + 1)
      BY <2>2, <3>1 DEF Once
    <3> QED BY <2>1, <3>2
  <2>4. Elems(r) = Elems(list) \ {p}
    <3>1. ASSUME NEW k \in 1..Len(r) PROVE r[k] \in Elems(list) \ {p}
      BY <2>1, <2>2 DEF Once, Elems
    <3>2. ASSUME NEW k \in 1..Len(list), list[k] # p PROVE \E m \in 1..Len(r) : r[m] = list[k]
      <4>1. CASE k < i
        BY <2>1, <2>2, <4>1
      <4>2. CASE k > i
        <5>1. k - 1 \in 1..Len(r) /\ r[k - 1] = list[k]
          BY <2>1, <2>2, <4>2
        <5> QED BY <5>1
      <4> QED BY <2>1, <3>2, <4>1, <4>2
    <3> QED BY <3>1, <3>2 DEF Elems
  <2>5. Without(list, p) = r
    BY <1>1 DEF Without, r, i
  <2> QED BY <2>2, <2>3, <2>4, <2>5
<1>2. CASE ~ \E i \in DOMAIN list : list[i] = p
  BY <1>2 DEF Without, Elems
<1> QED BY <1>1, <1>2

LEMMA TouchList ==
  ASSUME NEW list \in Seq(Paths), Once(list), NEW p \in Paths
  PROVE  /\ Touch(list, p) \in Seq(Paths) /\ Once(Touch(list, p))
         /\ Elems(Touch(list, p)) = Elems(list) \cup {p}
<1> DEFINE w == Without(list, p)
           r == <<p>> \o w
<1>1. w \in Seq(Paths) /\ Once(w) /\ Elems(w) = Elems(list) \ {p}
  BY WithoutList
<1> HIDE DEF w
<1>2. /\ r \in Seq(Paths) /\ Len(r) = Len(w) + 1
      /\ r[1] = p /\ \A k \in 1..Len(w) : r[k + 1] = w[k]
      /\ \A k \in 2..Len(r) : r[k] = w[k - 1] /\ k - 1 \in 1..Len(w)
  BY <1>1
<1> HIDE DEF r
<1>3. \A k \in 1..Len(w) : w[k] # p
  BY <1>1 DEF Elems
<1>4. Once(r)
  <2> SUFFICES ASSUME NEW j \in 1..Len(r), NEW k \in 1..Len(r), r[j] = r[k] PROVE j = k
    BY <1>2 DEF Once
  <2>1. CASE j = 1 \/ k = 1
    BY <1>1, <1>2, <1>3, <2>1
  <2>2. CASE j # 1 /\ k # 1
    <3>1. w[j - 1] = w[k - 1] /\ j - 1 \in 1..Len(w) /\ k - 1 \in 1..Len(w)
      BY <1>1, <1>2, <2>2
    <3>2. j - 1 = k - 1
      BY <1>1, <3>1 DEF Once
    <3> QED BY <1>1, <1>2, <3>2
  <2> QED BY <2>1, <2>2
<1>5. Elems(r) = Elems(w) \cup {p}
  <2>1. ASSUME NEW k \in 1..Len(r) PROVE r[k] \in Elems(w) \cup {p}
    <3>1. CASE k = 1
      BY <1>2, <3>1
    <3>2. CASE k # 1
      <4>1. r[k] = w[k - 1] /\ k - 1 \in 1..Len(w)
        BY <1>1, <1>2, <3>2
      <4> QED BY <1>1, <4>1 DEF Elems
    <3> QED BY <3>1, <3>2
  <2>2. ASSUME NEW k \in 1..Len(w) PROVE w[k] \in Elems(r)
    <3>1. k + 1 \in 1..Len(r) /\ r[k + 1] = w[k]
      BY <1>1, <1>2
    <3> QED BY <1>2, <3>1 DEF Elems
  <2>3. p \in Elems(r)
    BY <1>1, <1>2 DEF Elems
  <2> QED BY <2>1, <2>2, <2>3 DEF Elems
<1>6. Touch(list, p) = r
  BY DEF Touch, r, w
<1> QED BY <1>1, <1>2, <1>4, <1>5, <1>6

LEMMA CutList ==
  ASSUME NEW list \in Seq(Paths), Once(list),
         NEW r, r = SubSeq(list, 1, IF Len(list) > Capacity THEN Capacity ELSE Len(list))
  PROVE  /\ r \in Seq(Paths) /\ Once(r)
         /\ Elems(r) = Elems(list) \ Victims(list)
         /\ Victims(list) \subseteq Elems(list)
<1>1. /\ r \in Seq(Paths) /\ Len(r) = (IF Len(list) > Capacity THEN Capacity ELSE Len(list))
      /\ \A k \in 1..Len(r) : r[k] = list[k]
  BY CapacityAssumption
<1>2. Once(r)
  BY <1>1, CapacityAssumption DEF Once
<1>3. Victims(list) \subseteq Elems(list)
  BY CapacityAssumption DEF Victims, Elems
<1>4. ASSUME NEW k \in 1..Len(r) PROVE r[k] \in Elems(list) \ Victims(list)
  BY <1>1, CapacityAssumption DEF Once, Elems, Victims
<1>5. ASSUME NEW k \in 1..Len(list), list[k] \notin Victims(list)
      PROVE  k \in 1..Len(r) /\ r[k] = list[k]
  BY <1>1, <1>5, CapacityAssumption DEF Victims
<1>6. Elems(r) = Elems(list) \ Victims(list)
  <2>1. Elems(r) \subseteq Elems(list) \ Victims(list)
    BY <1>4 DEF Elems
  <2>2. Elems(list) \ Victims(list) \subseteq Elems(r)
    BY <1>5 DEF Elems
  <2> QED BY <2>1, <2>2
<1> QED BY <1>1, <1>2, <1>3, <1>6

(* Somebody can be given a file while a file is on its way: open files     *)
(* have different paths, none of them the one that is on its way.          *)
LEMMA SomeHandleFree ==
  ASSUME StoreInv, NEW t \in Requests, stage[t] = "loading"
  PROVE  Free \in Handles /\ handle[Free] = Unused
<1> SUFFICES ASSUME \A h \in Handles : handle[h] # Unused PROVE FALSE
  BY DEF Free
<1> DEFINE f == [h \in Handles |-> handle[h].path]
           T == Paths \ {want[t]}
<1>1. want[t] \in Paths /\ entry[want[t]].loading
  BY DEF StoreInv, StoreTyped, Loaders, Borrowers
<1>2. f \in [Handles -> T]
  <2>1. ASSUME NEW h \in Handles PROVE handle[h].path \in T
    <3>1. handle[h].path \in Paths /\ entry[handle[h].path].reader = h
      BY DEF StoreInv, StoreTyped, Files, Sound, Known
    <3>2. entry[want[t]].reader = NoHandle
      <4>1. Shaped(entry, handle, installed)
        BY DEF StoreInv, Sound
      <4>2. PICK p \in Paths : p = want[t]
        BY <1>1
      <4> QED BY <1>1, <4>1, <4>2, NoEntryFields DEF Shaped
    <3> QED BY <3>1, <3>2, HandlesAssumption
  <2> QED BY <2>1
<1>3. /\ IsFiniteSet(T) /\ Cardinality(T) = Cardinality(Paths) - 1
      /\ Cardinality(Paths) \in Nat /\ Cardinality(Handles) \in Nat
  BY <1>1, FiniteAssumption, HandlesAssumption, FS_RemoveElement, FS_CardinalityType
<1>4. Cardinality(T) < Cardinality(Handles)
  BY <1>3, HandlesAssumption
<1>5. PICK x, y \in Handles : x # y /\ f[x] = f[y]
  <2> HIDE DEF f, T
  <2> QED BY <1>2, <1>3, <1>4, HandlesAssumption, FS_PigeonHole
<1> QED BY <1>5 DEF StoreInv, Sound, Known

(* Eviction closes what is idle and marks what is in use.                  *)
LEMMA EvictSound ==
  ASSUME NEW list \in Seq(Paths), Once(list), NEW es \in [Paths -> StoreEntry],
         NEW hs \in [Handles -> Files], NEW files, Sound(list, es, hs, files),
         Evict(list, es, hs)
  PROVE  /\ lru' \in Seq(Paths) /\ Once(lru')
         /\ entry' \in [Paths -> StoreEntry] /\ handle' \in [Handles -> Files]
         /\ Sound(lru', entry', handle', files)
         /\ \A p \in Paths : /\ entry'[p].refs = es[p].refs
                             /\ entry'[p].loading = es[p].loading
                             /\ es[p].refs > 0 => entry'[p].reader = es[p].reader
<1> DEFINE V == Victims(list)
<1>1. /\ lru' \in Seq(Paths) /\ Once(lru')
      /\ Elems(lru') = Elems(list) \ V /\ V \subseteq Elems(list)
  BY CutList DEF Evict
<1>2. \A p \in Paths : /\ p \in V /\ es[p].refs = 0 => entry'[p] = NoStoreEntry
                       /\ p \in V /\ es[p].refs # 0 => entry'[p] = [es[p] EXCEPT !.evicted = TRUE]
                       /\ p \notin V => entry'[p] = es[p]
  BY DEF Evict, Dropped
<1>3. \A h \in Handles : handle'[h] = IF \E p \in Paths : p \in V /\ es[p].refs = 0 /\ es[p].reader = h
                                       THEN Unused ELSE hs[h]
  <2>1. V \subseteq Paths
    BY <1>1 DEF Elems
  <2> QED BY <2>1 DEF Evict, Dropped
<1> HIDE DEF V
<1>4. entry' \in [Paths -> StoreEntry]
  <2>1. \A p \in Paths : entry'[p] \in StoreEntry
    BY <1>2, EntryShape DEF StoreEntry
  <2> QED BY <2>1 DEF Evict
<1>5. handle' \in [Handles -> Files]
  <2>1. ASSUME NEW h \in Handles PROVE handle'[h] \in Files
    BY <1>3, EntryShape
  <2> QED BY <2>1 DEF Evict
<1>6. Shaped(es, hs, files) /\ Known(es, hs) /\ Watched(list, es)
  BY DEF Sound
<1>7. \A p \in Paths : es[p].refs \in Nat /\ (es[p].loading => es[p].refs > 0)
  <2> SUFFICES ASSUME NEW p \in Paths
               PROVE  es[p].refs \in Nat /\ (es[p].loading => es[p].refs > 0)
    OBVIOUS
  <2>1. es[p].refs \in Nat
    BY DEF StoreEntry
  <2> QED BY <1>6, <2>1, NoEntryFields DEF Shaped
<1>8. \A p \in Paths : /\ entry'[p].refs = es[p].refs
                       /\ entry'[p].loading = es[p].loading
                       /\ es[p].refs > 0 => entry'[p].reader = es[p].reader
  <2> SUFFICES ASSUME NEW p \in Paths
               PROVE  /\ entry'[p].refs = es[p].refs
                      /\ entry'[p].loading = es[p].loading
                      /\ es[p].refs > 0 => entry'[p].reader = es[p].reader
    OBVIOUS
  <2>1. CASE p \in V /\ es[p].refs = 0
    <3>1. es[p].loading = FALSE /\ NoStoreEntry.loading = FALSE
      BY <1>7, <2>1 DEF StoreEntry, NoStoreEntry
    <3>2. entry'[p] = NoStoreEntry
      BY <1>2, <2>1
    <3>3. entry'[p].loading = es[p].loading
      BY <3>1, <3>2
    <3> QED BY <2>1, <3>2, <3>3, NoEntryFields
  <2>2. CASE p \in V /\ es[p].refs # 0
    <3>1. es[p] \in StoreEntry /\ entry'[p] = [es[p] EXCEPT !.evicted = TRUE]
      BY <1>2, <2>2
    <3>2. entry'[p].refs = es[p].refs /\ entry'[p].reader = es[p].reader
      BY <3>1 DEF StoreEntry
    <3>3. entry'[p].loading = es[p].loading
      BY <3>1 DEF StoreEntry
    <3> QED BY <3>2, <3>3
  <2>3. CASE p \notin V
    BY <1>2, <2>3
  <2> QED BY <2>1, <2>2, <2>3
<1>9. Shaped(entry', handle', files)
  <2> SUFFICES ASSUME NEW p \in Paths, entry'[p] # NoStoreEntry
               PROVE  \/ entry'[p].loading /\ entry'[p].reader = NoHandle /\ entry'[p].refs > 0
                      \/ /\ ~entry'[p].loading /\ entry'[p].reader \in Handles
                         /\ handle'[entry'[p].reader] = [path |-> p, edition |-> files[p]]
    BY DEF Shaped
  <2>1. es[p] # NoStoreEntry /\ entry'[p].reader = es[p].reader /\ ~(p \in V /\ es[p].refs = 0)
    <3>1. ~(p \in V /\ es[p].refs = 0)
      BY <1>2
    <3>2. es[p].refs = 0 <=> ~ es[p].refs > 0
      BY <1>7
    <3>3. es[p] # NoStoreEntry
      BY <1>2, <3>1, NoEntryFields
    <3>4. entry'[p].reader = es[p].reader
      BY <1>2, <3>1 DEF StoreEntry
    <3> QED BY <3>1, <3>3, <3>4
  <2>2. CASE es[p].loading
    BY <1>6, <1>8, <2>1, <2>2 DEF Shaped
  <2>3. CASE ~es[p].loading
    <3>1. es[p].reader \in Handles /\ hs[es[p].reader] = [path |-> p, edition |-> files[p]]
      BY <1>6, <2>1, <2>3 DEF Shaped
    <3>2. ASSUME NEW q \in Paths, q \in V, es[q].refs = 0, es[q].reader = es[p].reader PROVE FALSE
      <4>1. q # p
        BY <2>1, <3>2
      <4>2. hs[es[q].reader].path = q
        <5>1. es[q].reader # NoHandle
          BY <3>1, <3>2, HandlesAssumption
        <5>2. hs[es[q].reader] = [path |-> q, edition |-> files[q]]
          BY <1>6, <5>1, NoEntryFields DEF Shaped
        <5> QED BY <5>2
      <4> QED BY <3>1, <3>2, <4>1, <4>2
    <3>3. handle'[es[p].reader] = hs[es[p].reader]
      BY <1>3, <3>1, <3>2
    <3> QED BY <1>8, <2>1, <2>3, <3>1, <3>3
  <2> QED BY <2>2, <2>3
<1>10. Known(entry', handle')
  <2> SUFFICES ASSUME NEW h \in Handles, handle'[h] # Unused PROVE entry'[handle'[h].path].reader = h
    BY DEF Known
  <2>1. handle'[h] = hs[h] /\ \A p \in Paths : ~(p \in V /\ es[p].refs = 0 /\ es[p].reader = h)
    BY <1>3
  <2>2. hs[h].path \in Paths /\ es[hs[h].path].reader = h
    BY <1>6, <2>1 DEF Known, Files
  <2>3. entry'[hs[h].path].reader = es[hs[h].path].reader
    BY <1>2, <2>1, <2>2 DEF StoreEntry
  <2> QED BY <2>1, <2>2, <2>3
<1>11. Watched(lru', entry')
  <2> SUFFICES ASSUME NEW p \in Paths
               PROVE  /\ p \in Elems(lru') <=> entry'[p] # NoStoreEntry /\ ~entry'[p].evicted
                      /\ entry'[p].evicted => entry'[p].refs > 0
                      /\ entry'[p].closePending => entry'[p].evicted
    BY DEF Watched
  <2>1. CASE p \in V
    <3>1. p \in Elems(list) /\ p \notin Elems(lru')
      BY <1>1, <2>1
    <3>2. CASE es[p].refs = 0
      BY <1>2, <2>1, <3>1, <3>2, NoEntryFields
    <3>3. CASE es[p].refs # 0
      <4>1. /\ entry'[p].evicted /\ entry'[p].refs = es[p].refs
            /\ entry'[p].evicted = TRUE
        BY <1>2, <2>1, <3>3 DEF StoreEntry
      <4> QED BY <1>7, <3>1, <3>3, <4>1
    <3> QED BY <3>2, <3>3
  <2>2. CASE p \notin V
    BY <1>1, <1>2, <1>6, <2>2 DEF Watched
  <2> QED BY <2>1, <2>2
<1> QED BY <1>1, <1>4, <1>5, <1>8, <1>9, <1>10, <1>11 DEF Sound

(* What a request borrows is counted.                                      *)
LEMMA BorrowersFinite ==
  \A p : IsFiniteSet(Borrowers(p)) /\ Cardinality(Borrowers(p)) \in Nat
<1>1. \A p : IsFiniteSet(Borrowers(p))
  BY FiniteAssumption, FS_Subset DEF Borrowers
<1> QED BY <1>1, FS_CardinalityType

LEMMA SomeBorrower ==
  ASSUME StoreInv, NEW t \in Requests, stage[t] # "idle"
  PROVE  /\ want[t] \in Paths /\ t \in Borrowers(want[t])
         /\ entry[want[t]].refs \in Nat /\ entry[want[t]].refs > 0
         /\ entry[want[t]] # NoStoreEntry
<1>1. want[t] \in Paths /\ t \in Borrowers(want[t])
  BY DEF StoreInv, StoreTyped, Borrowers
<1>2. Cardinality(Borrowers(want[t])) # 0
  BY <1>1, BorrowersFinite, FS_EmptySet
<1>3. entry[want[t]].refs = Cardinality(Borrowers(want[t]))
  BY <1>1 DEF StoreInv, Counted
<1>4. entry[want[t]].refs \in Nat /\ entry[want[t]].refs > 0
  BY <1>2, <1>3, BorrowersFinite
<1>5. entry[want[t]] # NoStoreEntry
  BY <1>4, NoEntryFields
<1> QED BY <1>1, <1>4, <1>5

(* Who uses has the reader of the installed file; who loads or waits has   *)
(* none, and an entry on its way has no user.                              *)
LEMMA UsersHaveReader ==
  ASSUME StoreInv, NEW t \in Requests, stage[t] = "using"
  PROVE  /\ has[t] \in Handles /\ entry[want[t]].reader = has[t] /\ ~entry[want[t]].loading
         /\ handle[has[t]] = [path |-> want[t], edition |-> installed[want[t]]]
<1>1. has[t] \in Handles /\ entry[want[t]].reader = has[t]
  BY DEF StoreInv, Lent
<1>2. PICK p \in Paths : p = want[t]
  BY DEF StoreInv, StoreTyped
<1>3. entry[p].reader # NoHandle /\ entry[p] # NoStoreEntry
  BY <1>1, <1>2, HandlesAssumption, NoEntryFields
<1>4. /\ ~entry[p].loading
      /\ handle[entry[p].reader] = [path |-> p, edition |-> installed[p]]
  BY <1>3 DEF StoreInv, Sound, Shaped
<1> QED BY <1>1, <1>2, <1>4

LEMMA OneMoreBorrower ==
  ASSUME StoreInv, NEW t \in Requests, NEW p \in Paths, stage[t] = "idle",
         NEW s, s # "idle", stage' = [stage EXCEPT ![t] = s], want' = [want EXCEPT ![t] = p]
  PROVE  /\ Borrowers(p)' = Borrowers(p) \cup {t} /\ t \notin Borrowers(p)
         /\ Cardinality(Borrowers(p)') = Cardinality(Borrowers(p)) + 1
         /\ \A q \in Paths \ {p} : Borrowers(q)' = Borrowers(q)
<1>1. Borrowers(p)' = Borrowers(p) \cup {t} /\ t \notin Borrowers(p)
  BY DEF StoreInv, StoreTyped, Borrowers
<1>2. \A q \in Paths \ {p} : Borrowers(q)' = Borrowers(q)
  BY DEF StoreInv, StoreTyped, Borrowers
<1>3. Cardinality(Borrowers(p)') = Cardinality(Borrowers(p)) + 1
  BY <1>1, BorrowersFinite, FS_AddElement
<1> QED BY <1>1, <1>2, <1>3

LEMMA OneBorrowerLess ==
  ASSUME StoreInv, NEW t \in Requests, NEW p, p = want[t], stage[t] # "idle",
         stage' = [stage EXCEPT ![t] = "idle"], NEW q, want' = [want EXCEPT ![t] = q]
  PROVE  /\ Borrowers(p)' = Borrowers(p) \ {t}
         /\ Cardinality(Borrowers(p)') = Cardinality(Borrowers(p)) - 1
         /\ Cardinality(Borrowers(p)) = 1 => Borrowers(p) = {t}
         /\ \A r \in Paths \ {p} : Borrowers(r)' = Borrowers(r)
<1>1. Borrowers(p)' = Borrowers(p) \ {t} /\ t \in Borrowers(p)
  BY DEF StoreInv, StoreTyped, Borrowers
<1>2. \A r \in Paths \ {p} : Borrowers(r)' = Borrowers(r)
  BY DEF StoreInv, StoreTyped, Borrowers
<1>3. Cardinality(Borrowers(p)') = Cardinality(Borrowers(p)) - 1
  BY <1>1, BorrowersFinite, FS_RemoveElement
<1>4. Cardinality(Borrowers(p)) = 1 => Borrowers(p) = {t}
  <2> SUFFICES ASSUME Cardinality(Borrowers(p)) = 1 PROVE Borrowers(p) = {t}
    OBVIOUS
  <2>1. PICK x : Borrowers(p) = {x}
    BY BorrowersFinite, FS_Singleton
  <2> QED BY <1>1, <2>1
<1> QED BY <1>1, <1>2, <1>3, <1>4

(* An entry and its file go together.                                      *)
LEMMA DropSound ==
  ASSUME StoreInv, NEW p \in Paths, NEW list, Elems(list) = Elems(lru) \ {p},
         NEW es, es = [entry EXCEPT ![p] = NoStoreEntry],
         NEW hs, \A h \in Handles : hs[h] = IF entry[p].reader = h THEN Unused ELSE handle[h],
         NEW files, \A q \in Paths \ {p} : files[q] = installed[q]
  PROVE  Sound(list, es, hs, files)
<1>1. es[p] = NoStoreEntry /\ \A q \in Paths \ {p} : es[q] = entry[q]
  BY DEF StoreInv, StoreTyped
<1>2. Shaped(entry, handle, installed) /\ Known(entry, handle) /\ Watched(lru, entry)
  BY DEF StoreInv, Sound
<1>3. Shaped(es, hs, files)
  <2> SUFFICES ASSUME NEW q \in Paths \ {p}, entry[q] # NoStoreEntry
               PROVE  \/ entry[q].loading /\ entry[q].reader = NoHandle /\ entry[q].refs > 0
                      \/ /\ ~entry[q].loading /\ entry[q].reader \in Handles
                         /\ hs[entry[q].reader] = [path |-> q, edition |-> files[q]]
    BY <1>1 DEF Shaped
  <2>1. CASE entry[q].loading
    BY <1>2, <2>1 DEF Shaped
  <2>2. CASE ~entry[q].loading
    <3>1. /\ entry[q].reader \in Handles
          /\ handle[entry[q].reader] = [path |-> q, edition |-> installed[q]]
      BY <1>2, <2>2 DEF Shaped
    <3>2. ASSUME entry[p].reader = entry[q].reader PROVE FALSE
      <4>1. entry[p].reader # NoHandle /\ entry[p] # NoStoreEntry
        BY <3>1, <3>2, HandlesAssumption, NoEntryFields
      <4>2. handle[entry[p].reader] = [path |-> p, edition |-> installed[p]]
        BY <1>2, <4>1 DEF Shaped
      <4> QED BY <3>1, <3>2, <4>2
    <3>3. hs[entry[q].reader] = handle[entry[q].reader]
      BY <3>1, <3>2
    <3> QED BY <2>2, <3>1, <3>3
  <2> QED BY <2>1, <2>2
<1>4. Known(es, hs)
  <2> SUFFICES ASSUME NEW h \in Handles, hs[h] # Unused PROVE es[hs[h].path].reader = h
    BY DEF Known
  <2>1. hs[h] = handle[h] /\ entry[p].reader # h
    OBVIOUS
  <2>2. handle[h].path \in Paths /\ entry[handle[h].path].reader = h
    BY <1>2, <2>1 DEF Known, StoreInv, StoreTyped, Files
  <2> QED BY <1>1, <2>1, <2>2
<1>5. Watched(list, es)
  <2> SUFFICES ASSUME NEW q \in Paths
               PROVE  /\ q \in Elems(list) <=> es[q] # NoStoreEntry /\ ~es[q].evicted
                      /\ es[q].evicted => es[q].refs > 0
                      /\ es[q].closePending => es[q].evicted
    BY DEF Watched
  <2>1. CASE q = p
    BY <1>1, <2>1, NoEntryFields
  <2>2. CASE q # p
    BY <1>1, <1>2, <2>2 DEF Watched
  <2> QED BY <2>1, <2>2
<1> QED BY <1>3, <1>4, <1>5 DEF Sound

(* A path nobody borrows has a reader that is open for nobody, or none.    *)
LEMMA NobodyBorrows ==
  ASSUME StoreInv, NEW p \in Paths, entry[p].refs = 0
  PROVE  Borrowers(p) = {} /\ \A t \in Requests : stage[t] # "idle" => want[t] # p
<1>1. Borrowers(p) = {}
  BY BorrowersFinite, FS_EmptySet DEF StoreInv, Counted
<1> QED BY <1>1 DEF Borrowers

LEMMA HitKeeps ==
  ASSUME StoreInv, NEW t \in Requests, NEW p \in Paths, Hit(t, p) PROVE StoreInv'
<1> DEFINE list == Touch(lru, p)
           e == Retained(entry[p])
           es == [entry EXCEPT ![p] = e]
<1>1. list \in Seq(Paths) /\ Once(list) /\ Elems(list) = Elems(lru) \cup {p}
  BY TouchList DEF StoreInv, StoreTyped
<1>2. Evict(list, es, handle) /\ chapter' = chapter /\ installed' = installed
  BY DEF Hit
<1>3. entry[p] \in StoreEntry /\ entry[p] # NoStoreEntry
  BY DEF Hit, StoreInv, StoreTyped
<1>4. /\ es \in [Paths -> StoreEntry]
      /\ es[p].refs = entry[p].refs + 1 /\ es[p].loading = entry[p].loading
      /\ es[p].reader = entry[p].reader /\ ~es[p].evicted /\ ~es[p].closePending
      /\ es[p].refs > 0 /\ \A q \in Paths \ {p} : es[q] = entry[q]
  <2>1. entry \in [Paths -> StoreEntry]
    BY DEF StoreInv, StoreTyped
  <2>2. /\ e \in StoreEntry /\ e.refs = entry[p].refs + 1 /\ e.loading = entry[p].loading
        /\ e.reader = entry[p].reader /\ ~e.evicted /\ ~e.closePending /\ e.refs > 0
    BY <1>3 DEF StoreEntry, Retained
  <2> HIDE DEF e
  <2> QED BY <2>1, <2>2
<1> HIDE DEF list, e, es
<1>5. es[p] # NoStoreEntry
  BY <1>3, <1>4, NoEntryFields DEF StoreEntry
<1>6. Shaped(entry, handle, installed) /\ Known(entry, handle) /\ Watched(lru, entry)
  BY DEF StoreInv, Sound
<1>7. Sound(list, es, handle, installed)
  <2>1. Shaped(es, handle, installed)
    BY <1>3, <1>4, <1>6 DEF Shaped
  <2>2. Known(es, handle)
    <3>1. \A q \in Paths : es[q].reader = entry[q].reader
      BY <1>4
    <3>2. \A h \in Handles : handle[h].path \in Paths
      BY DEF StoreInv, StoreTyped, Files
    <3> QED BY <1>6, <3>1, <3>2 DEF Known
  <2>3. Watched(list, es)
    BY <1>1, <1>4, <1>5, <1>6 DEF Watched
  <2> QED BY <2>1, <2>2, <2>3 DEF Sound
<1>8. /\ lru' \in Seq(Paths) /\ Once(lru')
      /\ entry' \in [Paths -> StoreEntry] /\ handle' \in [Handles -> Files]
      /\ Sound(lru', entry', handle', installed)
      /\ \A q \in Paths : /\ entry'[q].refs = es[q].refs
                          /\ entry'[q].loading = es[q].loading
                          /\ es[q].refs > 0 => entry'[q].reader = es[q].reader
  BY <1>1, <1>2, <1>4, <1>7, EvictSound DEF StoreInv, StoreTyped
<1>9. /\ stage[t] = "idle" /\ want' = [want EXCEPT ![t] = p]
      /\ stage' = [stage EXCEPT ![t] = IF entry[p].loading THEN "waiting" ELSE "using"]
      /\ has' = [has EXCEPT ![t] = entry[p].reader]
  BY DEF Hit
<1>10. /\ Borrowers(p)' = Borrowers(p) \cup {t}
       /\ Cardinality(Borrowers(p)') = Cardinality(Borrowers(p)) + 1
       /\ \A q \in Paths \ {p} : Borrowers(q)' = Borrowers(q)
  <2>1. ASSUME NEW s, s = IF entry[p].loading THEN "waiting" ELSE "using"
        PROVE  s # "idle" /\ stage' = [stage EXCEPT ![t] = s]
    BY <1>9, <2>1
  <2>2. PICK s : s # "idle" /\ stage' = [stage EXCEPT ![t] = s]
    BY <2>1
  <2> QED BY <1>9, <2>2, OneMoreBorrower
<1>11. StoreTyped'
  BY <1>2, <1>3, <1>8, <1>9 DEF StoreInv, StoreTyped, StoreEntry
<1>12. Counted'
  BY <1>4, <1>8, <1>10 DEF StoreInv, Counted
<1>13. Loaders'
  <2>1. \A u \in Requests : stage'[u] = "loading" <=> stage[u] = "loading"
    BY <1>9 DEF StoreInv, StoreTyped
  <2>2. \A q \in Paths : entry'[q].loading = entry[q].loading
    BY <1>4, <1>8
  <2>3. \A q \in Paths, u \in Requests :
           stage[u] = "loading" => (u \in Borrowers(q)' <=> u \in Borrowers(q))
    BY <1>9, <1>10
  <2> QED BY <2>1, <2>2, <2>3 DEF StoreInv, Loaders, Borrowers
<1>14. Lent'
  <2> SUFFICES ASSUME NEW u \in Requests
               PROVE  /\ stage'[u] = "waiting" => entry'[want'[u]].loading
                      /\ stage'[u] = "using" => has'[u] \in Handles
                                                /\ entry'[want'[u]].reader = has'[u]
    BY DEF Lent
  <2>1. CASE u = t
    <3>1. ~entry[p].loading => entry[p].reader \in Handles
      BY <1>3, <1>6 DEF Shaped
    <3>2. stage'[t] = (IF entry[p].loading THEN "waiting" ELSE "using") /\ want'[t] = p
          /\ has'[t] = entry[p].reader
      BY <1>9 DEF StoreInv, StoreTyped
    <3> QED BY <1>4, <1>8, <2>1, <3>1, <3>2
  <2>2. CASE u # t
    <3>1. stage'[u] = stage[u] /\ want'[u] = want[u] /\ has'[u] = has[u] /\ want[u] \in Paths
      BY <1>9, <2>2 DEF StoreInv, StoreTyped
    <3>2. stage[u] # "idle" => entry[want[u]].refs > 0
      BY SomeBorrower
    <3>3. stage[u] # "idle" => es[want[u]].refs > 0
      BY <1>4, <3>1, <3>2
    <3>4. es[want[u]].reader = entry[want[u]].reader /\ es[want[u]].loading = entry[want[u]].loading
      BY <1>4, <3>1
    <3> QED BY <1>8, <3>1, <3>3, <3>4 DEF StoreInv, Lent
  <2> QED BY <2>1, <2>2
<1>15. ChaptersFresh'
  BY <1>2 DEF StoreInv, ChaptersFresh
<1> QED BY <1>2, <1>8, <1>11, <1>12, <1>13, <1>14, <1>15 DEF StoreInv

LEMMA MissKeeps ==
  ASSUME StoreInv, NEW t \in Requests, NEW p \in Paths, Miss(t, p) PROVE StoreInv'
<1>1. /\ stage[t] = "idle" /\ entry[p] = NoStoreEntry
      /\ entry' = [entry EXCEPT ![p] = Loading] /\ lru' = Touch(lru, p)
      /\ stage' = [stage EXCEPT ![t] = "loading"] /\ want' = [want EXCEPT ![t] = p]
      /\ handle' = handle /\ chapter' = chapter /\ installed' = installed /\ has' = has
  BY DEF Miss
<1>2. lru' \in Seq(Paths) /\ Once(lru') /\ Elems(lru') = Elems(lru) \cup {p}
  BY <1>1, TouchList DEF StoreInv, StoreTyped
<1>3. /\ Borrowers(p)' = Borrowers(p) \cup {t}
      /\ Cardinality(Borrowers(p)') = Cardinality(Borrowers(p)) + 1
      /\ \A q \in Paths \ {p} : Borrowers(q)' = Borrowers(q)
  BY <1>1, OneMoreBorrower
<1>4. Borrowers(p) = {} /\ \A u \in Requests : stage[u] # "idle" => want[u] # p
  BY <1>1, NobodyBorrows, NoEntryFields
<1>5. /\ entry'[p] = Loading /\ \A q \in Paths \ {p} : entry'[q] = entry[q]
      /\ Loading.refs = 1 /\ Loading.loading = TRUE /\ Loading.reader = NoHandle
      /\ ~Loading.evicted /\ ~Loading.closePending
  BY <1>1 DEF StoreInv, StoreTyped, Loading, NoStoreEntry
<1>6. StoreTyped'
  BY <1>1, <1>2, EntryShape DEF StoreInv, StoreTyped
<1>7. Shaped(entry, handle, installed) /\ Known(entry, handle) /\ Watched(lru, entry)
  BY DEF StoreInv, Sound
<1>8. Shaped(entry', handle', installed')
  BY <1>1, <1>5, <1>7 DEF Shaped
<1>9. Known(entry', handle')
  <2> SUFFICES ASSUME NEW h \in Handles, handle[h] # Unused PROVE entry'[handle[h].path].reader = h
    BY <1>1 DEF Known
  <2>1. handle[h].path \in Paths /\ entry[handle[h].path].reader = h
    BY <1>7 DEF Known, StoreInv, StoreTyped, Files
  <2>2. handle[h].path # p
    BY <1>1, <2>1, HandlesAssumption, NoEntryFields
  <2> QED BY <1>5, <2>1, <2>2
<1>10. Watched(lru', entry')
  <2> SUFFICES ASSUME NEW q \in Paths
               PROVE  /\ q \in Elems(lru') <=> entry'[q] # NoStoreEntry /\ ~entry'[q].evicted
                      /\ entry'[q].evicted => entry'[q].refs > 0
                      /\ entry'[q].closePending => entry'[q].evicted
    BY DEF Watched
  <2>1. CASE q = p
    BY <1>2, <1>5, <2>1, EntryShape
  <2>2. CASE q # p
    BY <1>2, <1>5, <1>7, <2>2 DEF Watched
  <2> QED BY <2>1, <2>2
<1>11. Counted'
  <2>1. Cardinality(Borrowers(p)) = 0
    BY <1>4, FS_EmptySet
  <2> QED BY <1>3, <1>5, <2>1 DEF StoreInv, Counted
<1>12. Loaders'
  <2>1. Borrowers(p)' = {t} /\ stage'[t] = "loading"
    BY <1>1, <1>3, <1>4 DEF StoreInv, StoreTyped
  <2>2. \A q \in Paths \ {p} : \A u \in Borrowers(q) : stage'[u] = stage[u]
    BY <1>1 DEF StoreInv, StoreTyped, Borrowers
  <2> SUFFICES ASSUME NEW q \in Paths
               PROVE  /\ entry'[q].loading <=> \E u \in Borrowers(q)' : stage'[u] = "loading"
                      /\ \A u, w \in Borrowers(q)' :
                            stage'[u] = "loading" /\ stage'[w] = "loading" => u = w
    BY DEF Loaders
  <2>3. CASE q = p
    BY <1>5, <2>1, <2>3
  <2>4. CASE q # p
    BY <1>3, <1>5, <2>2, <2>4 DEF StoreInv, Loaders
  <2> QED BY <2>3, <2>4
<1>13. Lent'
  <2> SUFFICES ASSUME NEW u \in Requests
               PROVE  /\ stage'[u] = "waiting" => entry'[want'[u]].loading
                      /\ stage'[u] = "using" => has'[u] \in Handles
                                                /\ entry'[want'[u]].reader = has'[u]
    BY DEF Lent
  <2>1. CASE u = t
    BY <1>1, <2>1 DEF StoreInv, StoreTyped
  <2>2. CASE u # t
    BY <1>1, <1>4, <1>5, <2>2 DEF StoreInv, StoreTyped, Lent
  <2> QED BY <2>1, <2>2
<1>14. ChaptersFresh'
  BY <1>1 DEF StoreInv, ChaptersFresh
<1> QED BY <1>6, <1>8, <1>9, <1>10, <1>11, <1>12, <1>13, <1>14 DEF StoreInv, Sound

(* Everybody who has asked for a file on its way is told.                  *)
LEMMA Told ==
  ASSUME StoreInv, NEW t \in Requests, stage[t] = "loading"
  PROVE  /\ want[t] \in Paths /\ entry[want[t]].loading /\ entry[want[t]].reader = NoHandle
         /\ entry[want[t]] \in StoreEntry /\ entry[want[t]] # NoStoreEntry
         /\ entry[want[t]].refs > 0
         /\ \A u \in Requests : want[u] = want[t] => stage[u] \in {"idle", "waiting", "loading"}
<1>1. PICK p \in Paths : p = want[t]
  BY DEF StoreInv, StoreTyped
<1>2. entry[p].loading
  BY <1>1 DEF StoreInv, Loaders, Borrowers
<1>3. Shaped(entry, handle, installed)
  BY DEF StoreInv, Sound
<1>4. entry[p].reader = NoHandle
  BY <1>2, <1>3, NoEntryFields DEF Shaped
<1>5. \A u \in Requests : want[u] = p => stage[u] # "using"
  BY <1>1, <1>2, UsersHaveReader
<1>6. \A u \in Requests : stage[u] \in {"idle", "loading", "waiting", "using"}
  BY DEF StoreInv, StoreTyped
<1>7. entry[p] \in StoreEntry
  BY DEF StoreInv, StoreTyped
<1> QED BY <1>1, <1>2, <1>4, <1>5, <1>6, <1>7, SomeBorrower

LEMMA LoadSucceedsKeeps ==
  ASSUME StoreInv, NEW t \in Requests, LoadSucceeds(t) PROVE StoreInv'
<1>1. stage[t] = "loading" /\ chapter' = chapter /\ installed' = installed
  BY DEF LoadSucceeds
<1>2. PICK h \in Handles : h = Free /\ handle[h] = Unused
  BY <1>1, SomeHandleFree
<1>3. PICK p \in Paths : p = want[t]
  BY DEF StoreInv, StoreTyped
<1>4. /\ entry[p].loading /\ entry[p].reader = NoHandle /\ entry[p] \in StoreEntry
      /\ entry[p].refs > 0 /\ entry[p] # NoStoreEntry
      /\ \A u \in Requests : want[u] = p => stage[u] \in {"idle", "waiting", "loading"}
  BY <1>1, <1>3, Told
<1> DEFINE list == IF entry[p].closePending THEN lru ELSE Touch(lru, p)
           e == Ready(entry[p], h)
           es == [entry EXCEPT ![p] = e]
           f == [path |-> p, edition |-> installed[p]]
           hs == [handle EXCEPT ![h] = f]
<1>5. Evict(list, es, hs) /\ Answer(p, "using", h)
  BY <1>2, <1>3 DEF LoadSucceeds
<1>6. Shaped(entry, handle, installed) /\ Known(entry, handle) /\ Watched(lru, entry)
  BY DEF StoreInv, Sound
<1>7. entry[p].closePending => entry[p].evicted
  BY <1>6 DEF Watched
<1>8. /\ es \in [Paths -> StoreEntry] /\ \A q \in Paths \ {p} : es[q] = entry[q]
      /\ es[p].refs = entry[p].refs /\ es[p].loading = FALSE /\ es[p].reader = h
      /\ es[p].evicted <=> entry[p].closePending
      /\ es[p].closePending <=> entry[p].closePending
  <2>1. entry \in [Paths -> StoreEntry]
    BY DEF StoreInv, StoreTyped
  <2>2. e \in StoreEntry /\ e.refs = entry[p].refs /\ e.loading = FALSE /\ e.reader = h
    BY <1>4 DEF StoreEntry, Ready
  <2>3. (e.evicted <=> entry[p].closePending) /\ (e.closePending <=> entry[p].closePending)
    BY <1>4, <1>7 DEF StoreEntry, Ready
  <2> HIDE DEF e
  <2> QED BY <2>1, <2>2, <2>3
<1>9. list \in Seq(Paths) /\ Once(list)
      /\ Elems(list) = IF entry[p].closePending THEN Elems(lru) ELSE Elems(lru) \cup {p}
  BY TouchList DEF StoreInv, StoreTyped
<1>10. /\ hs \in [Handles -> Files] /\ hs[h] = f /\ \A x \in Handles \ {h} : hs[x] = handle[x]
       /\ f \in Files /\ f.path = p
  <2>1. f \in Files
    BY DEF StoreInv, StoreTyped, Files
  <2> QED BY <2>1 DEF StoreInv, StoreTyped
<1> HIDE DEF list, e, es, hs
<1>11. Sound(list, es, hs, installed)
  <2>1. Shaped(es, hs, installed)
    <3> SUFFICES ASSUME NEW q \in Paths \ {p}, entry[q] # NoStoreEntry
                 PROVE  \/ entry[q].loading /\ entry[q].reader = NoHandle /\ entry[q].refs > 0
                        \/ /\ ~entry[q].loading /\ entry[q].reader \in Handles
                           /\ hs[entry[q].reader] = [path |-> q, edition |-> installed[q]]
      BY <1>8, <1>10 DEF Shaped
    <3>1. CASE entry[q].loading
      BY <1>6, <3>1 DEF Shaped
    <3>2. CASE ~entry[q].loading
      <4>1. /\ entry[q].reader \in Handles
            /\ handle[entry[q].reader] = [path |-> q, edition |-> installed[q]]
        BY <1>6, <3>2 DEF Shaped
      <4>2. installed[q] # 0
        BY DEF StoreInv, StoreTyped
      <4>3. entry[q].reader # h
        BY <1>2, <4>1, <4>2 DEF Unused
      <4> QED BY <1>10, <3>2, <4>1, <4>3
    <3> QED BY <3>1, <3>2
  <2>2. Known(es, hs)
    <3> SUFFICES ASSUME NEW x \in Handles, hs[x] # Unused PROVE es[hs[x].path].reader = x
      BY DEF Known
    <3>1. CASE x = h
      BY <1>8, <1>10, <3>1
    <3>2. CASE x # h
      <4>1. /\ hs[x] = handle[x] /\ handle[x].path \in Paths
            /\ entry[handle[x].path].reader = x
        BY <1>6, <1>10, <3>2 DEF Known, StoreInv, StoreTyped, Files
      <4>2. handle[x].path # p
        BY <1>4, <4>1, HandlesAssumption
      <4> QED BY <1>8, <4>1, <4>2
    <3> QED BY <3>1, <3>2
  <2>3. Watched(list, es)
    <3> SUFFICES ASSUME NEW q \in Paths
                 PROVE  /\ q \in Elems(list) <=> es[q] # NoStoreEntry /\ ~es[q].evicted
                        /\ es[q].evicted => es[q].refs > 0
                        /\ es[q].closePending => es[q].evicted
      BY DEF Watched
    <3>1. CASE q = p
      <4>1. es[p] # NoStoreEntry
        BY <1>8, HandlesAssumption, NoEntryFields
      <4>2. p \in Elems(lru) <=> ~entry[p].evicted
        BY <1>4, <1>6 DEF Watched
      <4> QED BY <1>4, <1>7, <1>8, <1>9, <3>1, <4>1, <4>2
    <3>2. CASE q # p
      BY <1>6, <1>8, <1>9, <3>2 DEF Watched
    <3> QED BY <3>1, <3>2
  <2> QED BY <2>1, <2>2, <2>3 DEF Sound
<1>12. /\ lru' \in Seq(Paths) /\ Once(lru')
       /\ entry' \in [Paths -> StoreEntry] /\ handle' \in [Handles -> Files]
       /\ Sound(lru', entry', handle', installed)
       /\ \A q \in Paths : /\ entry'[q].refs = es[q].refs
                           /\ entry'[q].loading = es[q].loading
                           /\ es[q].refs > 0 => entry'[q].reader = es[q].reader
  BY <1>5, <1>8, <1>9, <1>10, <1>11, EvictSound
<1>13. \A u \in Requests :
          IF want[u] = p /\ stage[u] # "idle"
          THEN stage'[u] = "using" /\ want'[u] = p /\ has'[u] = h
          ELSE stage'[u] = stage[u] /\ want'[u] = want[u] /\ has'[u] = has[u]
  BY <1>4, <1>5 DEF Answer
<1>14. \A q : Borrowers(q)' = Borrowers(q)
  BY <1>13 DEF Borrowers
<1>15. StoreTyped'
  <2>1. \A u \in Requests : /\ stage'[u] \in {"idle", "loading", "waiting", "using"}
                            /\ want'[u] \in Paths /\ has'[u] \in Handles \cup {NoHandle}
    BY <1>13 DEF StoreInv, StoreTyped
  <2>2. /\ stage' = [u \in Requests |-> stage'[u]] /\ want' = [u \in Requests |-> want'[u]]
        /\ has' = [u \in Requests |-> has'[u]]
    BY <1>5 DEF Answer
  <2>3. /\ stage' \in [Requests -> {"idle", "loading", "waiting", "using"}]
        /\ want' \in [Requests -> Paths] /\ has' \in [Requests -> Handles \cup {NoHandle}]
    BY <2>1, <2>2
  <2> QED BY <1>1, <1>12, <2>3 DEF StoreInv, StoreTyped
<1>16. Counted'
  BY <1>8, <1>12, <1>14 DEF StoreInv, Counted
<1>17. Loaders'
  <2> SUFFICES ASSUME NEW q \in Paths
               PROVE  /\ entry'[q].loading <=> \E u \in Borrowers(q)' : stage'[u] = "loading"
                      /\ \A u, w \in Borrowers(q)' :
                            stage'[u] = "loading" /\ stage'[w] = "loading" => u = w
    BY DEF Loaders
  <2>1. CASE q = p
    <3>1. \A u \in Borrowers(p)' : stage'[u] = "using"
      BY <1>13, <1>14 DEF Borrowers
    <3> QED BY <1>8, <1>12, <2>1, <3>1
  <2>2. CASE q # p
    <3>1. \A u \in Borrowers(q)' : stage'[u] = stage[u]
      BY <1>13, <1>14, <2>2 DEF Borrowers
    <3> QED BY <1>8, <1>12, <1>14, <2>2, <3>1 DEF StoreInv, Loaders
  <2> QED BY <2>1, <2>2
<1>18. Lent'
  <2> SUFFICES ASSUME NEW u \in Requests
               PROVE  /\ stage'[u] = "waiting" => entry'[want'[u]].loading
                      /\ stage'[u] = "using" => has'[u] \in Handles
                                                /\ entry'[want'[u]].reader = has'[u]
    BY DEF Lent
  <2>1. CASE want[u] = p /\ stage[u] # "idle"
    BY <1>4, <1>8, <1>12, <1>13, <2>1
  <2>2. CASE ~(want[u] = p /\ stage[u] # "idle")
    <3>1. stage'[u] = stage[u] /\ want'[u] = want[u] /\ has'[u] = has[u] /\ want[u] \in Paths
      BY <1>13, <2>2 DEF StoreInv, StoreTyped
    <3>2. stage[u] # "idle" => entry[want[u]].refs > 0 /\ want[u] # p
      BY <2>2, SomeBorrower
    <3>3. stage[u] # "idle" => /\ es[want[u]].refs > 0
                               /\ es[want[u]].reader = entry[want[u]].reader
                               /\ es[want[u]].loading = entry[want[u]].loading
      BY <1>8, <3>1, <3>2
    <3> QED BY <1>12, <3>1, <3>3 DEF StoreInv, Lent
  <2> QED BY <2>1, <2>2
<1>19. ChaptersFresh'
  BY <1>1 DEF StoreInv, ChaptersFresh
<1> QED BY <1>1, <1>12, <1>15, <1>16, <1>17, <1>18, <1>19 DEF StoreInv

LEMMA LoadFailsKeeps ==
  ASSUME StoreInv, NEW t \in Requests, LoadFails(t) PROVE StoreInv'
<1>1. PICK p \in Paths : p = want[t]
  BY DEF StoreInv, StoreTyped
<1>2. /\ stage[t] = "loading" /\ entry' = [entry EXCEPT ![p] = NoStoreEntry]
      /\ lru' = Without(lru, p) /\ Answer(p, "idle", NoHandle)
      /\ handle' = handle /\ chapter' = chapter /\ installed' = installed
  BY <1>1 DEF LoadFails
<1>3. /\ entry[p].reader = NoHandle
      /\ \A u \in Requests : want[u] = p => stage[u] \in {"idle", "waiting", "loading"}
  BY <1>1, <1>2, Told
<1>4. lru' \in Seq(Paths) /\ Once(lru') /\ Elems(lru') = Elems(lru) \ {p}
  BY <1>2, WithoutList DEF StoreInv, StoreTyped
<1>5. Sound(lru', entry', handle', installed')
  BY <1>2, <1>3, <1>4, DropSound, HandlesAssumption
<1>6. \A u \in Requests :
         IF want[u] = p /\ stage[u] # "idle"
         THEN stage'[u] = "idle" /\ want'[u] = AnyPath /\ has'[u] = NoHandle
         ELSE stage'[u] = stage[u] /\ want'[u] = want[u] /\ has'[u] = has[u]
  BY <1>2, <1>3 DEF Answer
<1>7. Borrowers(p)' = {} /\ \A q \in Paths \ {p} : Borrowers(q)' = Borrowers(q)
  BY <1>6 DEF Borrowers
<1>8. entry'[p] = NoStoreEntry /\ \A q \in Paths \ {p} : entry'[q] = entry[q]
  BY <1>2 DEF StoreInv, StoreTyped
<1>9. StoreTyped'
  <2>1. AnyPath \in Paths
    BY <1>1 DEF AnyPath
  <2>2. \A u \in Requests : /\ stage'[u] \in {"idle", "loading", "waiting", "using"}
                            /\ want'[u] \in Paths /\ has'[u] \in Handles \cup {NoHandle}
    BY <1>6, <2>1 DEF StoreInv, StoreTyped
  <2>3. /\ stage' = [u \in Requests |-> stage'[u]] /\ want' = [u \in Requests |-> want'[u]]
        /\ has' = [u \in Requests |-> has'[u]]
    BY <1>2 DEF Answer
  <2>4. /\ stage' \in [Requests -> {"idle", "loading", "waiting", "using"}]
        /\ want' \in [Requests -> Paths] /\ has' \in [Requests -> Handles \cup {NoHandle}]
    BY <2>2, <2>3
  <2> QED BY <1>2, <1>4, <2>4, EntryShape DEF StoreInv, StoreTyped
<1>10. Counted'
  <2>1. Cardinality({}) = 0
    BY FS_EmptySet
  <2> QED BY <1>7, <1>8, <2>1, NoEntryFields DEF StoreInv, Counted
<1>11. Loaders'
  <2> SUFFICES ASSUME NEW q \in Paths
               PROVE  /\ entry'[q].loading <=> \E u \in Borrowers(q)' : stage'[u] = "loading"
                      /\ \A u, w \in Borrowers(q)' :
                            stage'[u] = "loading" /\ stage'[w] = "loading" => u = w
    BY DEF Loaders
  <2>1. CASE q = p
    BY <1>7, <1>8, <2>1, NoEntryFields
  <2>2. CASE q # p
    <3>1. \A u \in Borrowers(q)' : stage'[u] = stage[u]
      BY <1>6, <1>7, <2>2 DEF Borrowers
    <3> QED BY <1>7, <1>8, <2>2, <3>1 DEF StoreInv, Loaders
  <2> QED BY <2>1, <2>2
<1>12. Lent'
  <2> SUFFICES ASSUME NEW u \in Requests
               PROVE  /\ stage'[u] = "waiting" => entry'[want'[u]].loading
                      /\ stage'[u] = "using" => has'[u] \in Handles
                                                /\ entry'[want'[u]].reader = has'[u]
    BY DEF Lent
  <2>1. CASE want[u] = p /\ stage[u] # "idle"
    BY <1>6, <2>1
  <2>2. CASE ~(want[u] = p /\ stage[u] # "idle")
    BY <1>6, <1>8, <2>2 DEF StoreInv, StoreTyped, Lent
  <2> QED BY <2>1, <2>2
<1>13. ChaptersFresh'
  BY <1>2 DEF StoreInv, ChaptersFresh
<1> QED BY <1>5, <1>9, <1>10, <1>11, <1>12, <1>13 DEF StoreInv

LEMMA SetChapterKeeps ==
  ASSUME StoreInv, NEW t \in Requests, SetChapter(t) PROVE StoreInv'
<1>1. /\ stage[t] = "using" /\ chapter' = [chapter EXCEPT ![want[t]] = handle[has[t]].edition]
      /\ entry' = entry /\ lru' = lru /\ handle' = handle /\ installed' = installed
      /\ stage' = stage /\ want' = want /\ has' = has
  BY DEF SetChapter, requests
<1>2. want[t] \in Paths /\ handle[has[t]].edition = installed[want[t]]
  <2>1. want[t] \in Paths
    BY DEF StoreInv, StoreTyped
  <2>2. handle[has[t]] = [path |-> want[t], edition |-> installed[want[t]]]
    BY <1>1, UsersHaveReader
  <2> QED BY <2>1, <2>2
<1>3. StoreTyped' /\ ChaptersFresh'
  BY <1>1, <1>2 DEF StoreInv, StoreTyped, ChaptersFresh
<1>4. Sound(lru, entry, handle, installed)'
  BY <1>1 DEF StoreInv
<1>5. Counted' /\ Loaders' /\ Lent'
  BY <1>1 DEF StoreInv, Counted, Loaders, Lent, Borrowers
<1> QED BY <1>3, <1>4, <1>5 DEF StoreInv

LEMMA ReleaseReaderKeeps ==
  ASSUME StoreInv, NEW t \in Requests, ReleaseReader(t) PROVE StoreInv'
<1>1. PICK p \in Paths : p = want[t]
  BY DEF StoreInv, StoreTyped
<1>2. /\ stage[t] = "using" /\ entry[p].refs > 0
      /\ stage' = [stage EXCEPT ![t] = "idle"] /\ has' = [has EXCEPT ![t] = NoHandle]
      /\ want' = [want EXCEPT ![t] = AnyPath]
      /\ lru' = lru /\ chapter' = chapter /\ installed' = installed
  BY <1>1 DEF ReleaseReader
<1>3. /\ Borrowers(p)' = Borrowers(p) \ {t}
      /\ Cardinality(Borrowers(p)') = Cardinality(Borrowers(p)) - 1
      /\ Cardinality(Borrowers(p)) = 1 => Borrowers(p) = {t}
      /\ \A q \in Paths \ {p} : Borrowers(q)' = Borrowers(q)
  BY <1>1, <1>2, OneBorrowerLess
<1>4. /\ entry[p].refs = Cardinality(Borrowers(p)) /\ entry[p].refs \in Nat
      /\ entry[p] \in StoreEntry
  BY BorrowersFinite DEF StoreInv, Counted, StoreTyped
<1>5. entry[p].reader \in Handles /\ ~entry[p].loading
  BY <1>1, <1>2, UsersHaveReader
<1>6. AnyPath \in Paths
  BY <1>1 DEF AnyPath
<1>7. Shaped(entry, handle, installed) /\ Known(entry, handle) /\ Watched(lru, entry)
  BY DEF StoreInv, Sound
<1>8. CASE entry[p].refs = 1 /\ entry[p].evicted
  <2>1. /\ entry' = [entry EXCEPT ![p] = NoStoreEntry]
        /\ handle' = [handle EXCEPT ![entry[p].reader] = Unused]
    BY <1>1, <1>8 DEF ReleaseReader
  <2>2. Elems(lru) = Elems(lru) \ {p}
    BY <1>7, <1>8 DEF Watched
  <2>3. Sound(lru', entry', handle', installed')
    <3>1. \A h \in Handles : handle'[h] = IF entry[p].reader = h THEN Unused ELSE handle[h]
      BY <2>1 DEF StoreInv, StoreTyped
    <3> QED BY <1>2, <2>1, <2>2, <3>1, DropSound
  <2>4. Borrowers(p)' = {} /\ Borrowers(p) = {t}
    BY <1>3, <1>4, <1>8
  <2>5. entry'[p] = NoStoreEntry /\ \A q \in Paths \ {p} : entry'[q] = entry[q]
    BY <2>1 DEF StoreInv, StoreTyped
  <2>6. StoreTyped'
    BY <1>2, <1>6, <2>1, EntryShape DEF StoreInv, StoreTyped
  <2>7. Counted'
    <3>1. Cardinality({}) = 0
      BY FS_EmptySet
    <3> QED BY <1>3, <2>4, <2>5, <3>1, NoEntryFields DEF StoreInv, Counted
  <2>8. Loaders'
    <3>1. \A q \in Paths \ {p} : \A u \in Borrowers(q)' : stage'[u] = stage[u]
      BY <1>1, <1>2, <1>3 DEF StoreInv, StoreTyped, Borrowers
    <3>2. entry'[p].loading <=> \E u \in Borrowers(p)' : stage'[u] = "loading"
      BY <2>4, <2>5, NoEntryFields
    <3> QED BY <1>3, <2>4, <2>5, <3>1, <3>2 DEF StoreInv, Loaders
  <2>9. Lent'
    <3>1. \A u \in Requests \ {t} : stage[u] # "idle" => want[u] # p
      BY <2>4 DEF Borrowers
    <3>2. stage'[t] = "idle"
      BY <1>2 DEF StoreInv, StoreTyped
    <3>3. \A u \in Requests \ {t} : stage'[u] = stage[u] /\ want'[u] = want[u] /\ has'[u] = has[u]
      BY <1>2 DEF StoreInv, StoreTyped
    <3>4. \A u \in Requests \ {t} : stage[u] # "idle" => entry'[want[u]] = entry[want[u]]
      BY <2>5, <3>1 DEF StoreInv, StoreTyped
    <3>5. ASSUME NEW u \in Requests \ {t}
          PROVE  /\ stage[u] = "waiting" => entry'[want[u]].loading
                 /\ stage[u] = "using" => has[u] \in Handles /\ entry'[want[u]].reader = has[u]
      BY <3>4 DEF StoreInv, Lent
    <3> QED BY <3>2, <3>3, <3>5 DEF Lent
  <2>10. ChaptersFresh'
    BY <1>2 DEF StoreInv, ChaptersFresh
  <2> QED BY <2>3, <2>6, <2>7, <2>8, <2>9, <2>10 DEF StoreInv
<1>9. CASE ~(entry[p].refs = 1 /\ entry[p].evicted)
  <2>1. entry' = [entry EXCEPT ![p].refs = @ - 1] /\ handle' = handle
    BY <1>1, <1>9 DEF ReleaseReader
  <2>2. /\ entry' \in [Paths -> StoreEntry] /\ \A q \in Paths \ {p} : entry'[q] = entry[q]
        /\ entry'[p].refs = entry[p].refs - 1 /\ entry'[p].loading = entry[p].loading
        /\ entry'[p].reader = entry[p].reader /\ entry'[p].evicted = entry[p].evicted
        /\ entry'[p].closePending = entry[p].closePending
    <3>1. entry[p].refs - 1 \in Nat
      BY <1>2, <1>4
    <3>2. entry \in [Paths -> StoreEntry]
      BY DEF StoreInv, StoreTyped
    <3> QED BY <2>1, <3>1, <3>2 DEF StoreEntry
  <2>3. entry[p] # NoStoreEntry /\ entry'[p] # NoStoreEntry
    BY <1>2, <1>5, <2>2, HandlesAssumption, NoEntryFields
  <2>4. Shaped(entry', handle', installed')
    BY <1>2, <1>5, <1>7, <2>1, <2>2, <2>3 DEF Shaped
  <2>5. Known(entry', handle')
    <3>1. \A q \in Paths : entry'[q].reader = entry[q].reader
      BY <2>2
    <3>2. \A h \in Handles : handle[h].path \in Paths
      BY DEF StoreInv, StoreTyped, Files
    <3> QED BY <1>7, <2>1, <3>1, <3>2 DEF Known
  <2>6. Watched(lru', entry')
    <3>1. entry[p].evicted => entry[p].refs - 1 > 0
      BY <1>2, <1>4, <1>9
    <3> QED BY <1>2, <1>7, <2>2, <2>3, <3>1 DEF Watched
  <2>7. StoreTyped'
    BY <1>2, <1>6, <2>1, <2>2 DEF StoreInv, StoreTyped
  <2>8. Counted'
    BY <1>3, <1>4, <2>2 DEF StoreInv, Counted
  <2>9. Loaders'
    <3>1. \A q \in Paths : entry'[q].loading = entry[q].loading
      BY <2>2
    <3>2. \A u \in Requests \ {t} : stage'[u] = stage[u] /\ want'[u] = want[u]
      BY <1>2 DEF StoreInv, StoreTyped
    <3>3. stage'[t] = "idle"
      BY <1>2 DEF StoreInv, StoreTyped
    <3>4. \A q \in Paths, u \in Requests :
             stage[u] = "loading" => (u \in Borrowers(q)' <=> u \in Borrowers(q))
      BY <1>2, <3>2 DEF Borrowers
    <3>5. \A u \in Requests : stage'[u] = "loading" <=> stage[u] = "loading"
      BY <1>2, <3>2, <3>3
    <3> QED BY <3>1, <3>4, <3>5 DEF StoreInv, Loaders, Borrowers
  <2>10. Lent'
    BY <1>2, <2>2 DEF StoreInv, StoreTyped, Lent
  <2>11. ChaptersFresh'
    BY <1>2 DEF StoreInv, ChaptersFresh
  <2> QED BY <2>4, <2>5, <2>6, <2>7, <2>8, <2>9, <2>10, <2>11 DEF StoreInv, Sound
<1> QED BY <1>8, <1>9

(* A path with no borrower may be forgotten.                               *)
LEMMA ForgetKeeps ==
  ASSUME StoreInv, NEW p \in Paths, entry[p].refs = 0,
         entry' = [entry EXCEPT ![p] = NoStoreEntry], lru' = Without(lru, p),
         handle' = [h \in Handles |-> IF entry[p].reader = h THEN Unused ELSE handle[h]],
         stage' = stage, want' = want, has' = has,
         chapter' \in [Paths -> Nat], installed' \in [Paths -> Nat \ {0}], ChaptersFresh',
         \A q \in Paths \ {p} : installed'[q] = installed[q]
  PROVE  StoreInv'
<1>1. lru' \in Seq(Paths) /\ Once(lru') /\ Elems(lru') = Elems(lru) \ {p}
  BY WithoutList DEF StoreInv, StoreTyped
<1>2. Sound(lru', entry', handle', installed')
  BY <1>1, DropSound
<1>3. entry'[p] = NoStoreEntry /\ \A q \in Paths \ {p} : entry'[q] = entry[q]
  BY DEF StoreInv, StoreTyped
<1>4. Borrowers(p) = {} /\ \A t \in Requests : stage[t] # "idle" => want[t] # p
  BY NobodyBorrows
<1>5. StoreTyped'
  BY <1>1, EntryShape DEF StoreInv, StoreTyped
<1>6. \A q : Borrowers(q)' = Borrowers(q)
  BY DEF Borrowers
<1>7. Counted'
  BY <1>3, <1>6, NoEntryFields DEF StoreInv, Counted
<1>8. Loaders'
  <2>1. entry'[p].loading <=> \E t \in Borrowers(p)' : stage'[t] = "loading"
    BY <1>3, <1>4, <1>6, NoEntryFields
  <2> QED BY <1>3, <1>4, <1>6, <2>1 DEF StoreInv, Loaders
<1>9. Lent'
  BY <1>3, <1>4 DEF StoreInv, StoreTyped, Lent
<1> QED BY <1>2, <1>5, <1>7, <1>8, <1>9 DEF StoreInv

LEMMA ReplaceFileKeeps ==
  ASSUME StoreInv, NEW p \in Paths, ReplaceFile(p) PROVE StoreInv'
<1>1. /\ chapter' \in [Paths -> Nat] /\ installed' \in [Paths -> Nat \ {0}] /\ ChaptersFresh'
      /\ \A q \in Paths \ {p} : installed'[q] = installed[q]
  BY DEF ReplaceFile, StoreInv, StoreTyped, ChaptersFresh
<1> QED BY <1>1, ForgetKeeps DEF ReplaceFile, requests

LEMMA CloseBookKeeps ==
  ASSUME StoreInv, NEW p \in Paths, CloseBook(p) PROVE StoreInv'
<1>1. /\ entry[p] # NoStoreEntry /\ lru' = Without(lru, p)
      /\ chapter' = chapter /\ installed' = installed
      /\ stage' = stage /\ want' = want /\ has' = has
  BY DEF CloseBook, requests
<1>2. Shaped(entry, handle, installed) /\ Known(entry, handle) /\ Watched(lru, entry)
  BY DEF StoreInv, Sound
<1>3. CASE entry[p].refs = 0
  <2>1. entry' = [entry EXCEPT ![p] = NoStoreEntry]
        /\ handle' = [handle EXCEPT ![entry[p].reader] = Unused]
    BY <1>3 DEF CloseBook
  <2>2. handle' = [h \in Handles |-> IF entry[p].reader = h THEN Unused ELSE handle[h]]
    BY <2>1 DEF StoreInv, StoreTyped
  <2>3. /\ chapter' \in [Paths -> Nat] /\ installed' \in [Paths -> Nat \ {0}] /\ ChaptersFresh'
        /\ \A q \in Paths \ {p} : installed'[q] = installed[q]
    BY <1>1 DEF StoreInv, StoreTyped, ChaptersFresh
  <2> QED BY <1>1, <1>3, <2>1, <2>2, <2>3, ForgetKeeps
<1>4. CASE entry[p].refs # 0
  <2>1. entry' = [entry EXCEPT ![p].evicted = TRUE, ![p].closePending = TRUE] /\ handle' = handle
    BY <1>4 DEF CloseBook
  <2>2. /\ entry' \in [Paths -> StoreEntry] /\ \A q \in Paths \ {p} : entry'[q] = entry[q]
        /\ entry'[p].refs = entry[p].refs /\ entry'[p].loading = entry[p].loading
        /\ entry'[p].reader = entry[p].reader /\ entry'[p].evicted
    <3>1. entry \in [Paths -> StoreEntry]
      BY DEF StoreInv, StoreTyped
    <3> QED BY <2>1, <3>1 DEF StoreEntry
  <2>3. entry'[p] # NoStoreEntry /\ entry[p].refs > 0
    <3>1. entry[p].refs \in Nat
      BY DEF StoreInv, StoreTyped, StoreEntry
    <3> QED BY <1>4, <2>2, <3>1, NoEntryFields
  <2>4. lru' \in Seq(Paths) /\ Once(lru') /\ Elems(lru') = Elems(lru) \ {p}
    BY <1>1, WithoutList DEF StoreInv, StoreTyped
  <2>5. \A q \in Paths : /\ entry'[q].refs = entry[q].refs
                         /\ entry'[q].loading = entry[q].loading
                         /\ entry'[q].reader = entry[q].reader
    BY <2>2
  <2>6. Shaped(entry', handle', installed')
    BY <1>1, <1>2, <2>1, <2>2, <2>3 DEF Shaped
  <2>7. Known(entry', handle')
    <3>1. \A h \in Handles : handle[h].path \in Paths
      BY DEF StoreInv, StoreTyped, Files
    <3> QED BY <1>2, <2>1, <2>5, <3>1 DEF Known
  <2>8. Watched(lru', entry')
    <3> SUFFICES ASSUME NEW q \in Paths
                 PROVE  /\ q \in Elems(lru') <=> entry'[q] # NoStoreEntry /\ ~entry'[q].evicted
                        /\ entry'[q].evicted => entry'[q].refs > 0
                        /\ entry'[q].closePending => entry'[q].evicted
      BY DEF Watched
    <3>1. CASE q = p
      BY <2>2, <2>3, <2>4, <3>1
    <3>2. CASE q # p
      BY <1>2, <2>2, <2>4, <3>2 DEF Watched
    <3> QED BY <3>1, <3>2
  <2>9. StoreTyped'
    BY <1>1, <2>1, <2>2, <2>4 DEF StoreInv, StoreTyped
  <2>10. Counted' /\ Loaders'
    BY <1>1, <2>5 DEF StoreInv, Counted, Loaders, Borrowers
  <2>11. Lent'
    BY <1>1, <2>5 DEF StoreInv, StoreTyped, Lent
  <2>12. ChaptersFresh'
    BY <1>1 DEF StoreInv, ChaptersFresh
  <2> QED BY <2>6, <2>7, <2>8, <2>9, <2>10, <2>11, <2>12 DEF StoreInv, Sound
<1> QED BY <1>3, <1>4

LEMMA EvictBookKeeps ==
  ASSUME StoreInv, NEW p \in Paths, EvictBook(p) PROVE StoreInv'
<1>1. /\ chapter' = [chapter EXCEPT ![p] = 0]
      /\ entry' = entry /\ lru' = lru /\ handle' = handle /\ installed' = installed
      /\ stage' = stage /\ want' = want /\ has' = has
  BY DEF EvictBook, requests
<1>2. StoreTyped' /\ ChaptersFresh'
  BY <1>1 DEF StoreInv, StoreTyped, ChaptersFresh
<1>3. Sound(lru, entry, handle, installed)'
  BY <1>1 DEF StoreInv
<1>4. Counted' /\ Loaders' /\ Lent'
  BY <1>1 DEF StoreInv, Counted, Loaders, Lent, Borrowers
<1> QED BY <1>2, <1>3, <1>4 DEF StoreInv

LEMMA CloseKeeps == ASSUME StoreInv, Close PROVE StoreInv'
<1>1. /\ \A t \in Requests : stage[t] = "idle"
      /\ entry' = [p \in Paths |-> NoStoreEntry] /\ lru' = << >>
      /\ handle' = [h \in Handles |->
            IF \E p \in Paths : entry[p].reader = h THEN Unused ELSE handle[h]]
      /\ chapter' = [p \in Paths |-> 0] /\ installed' = installed
      /\ stage' = stage /\ want' = want /\ has' = has
  BY DEF Close, requests
<1>2. \A h \in Handles : handle'[h] = Unused
  BY <1>1 DEF StoreInv, StoreTyped, Sound, Known, Files
<1>3. \A p : Borrowers(p)' = {}
  BY <1>1 DEF Borrowers
<1>4. StoreTyped'
  <2>1. \A h \in Handles : handle'[h] \in Files
    BY <1>1, EntryShape DEF StoreInv, StoreTyped, Files
  <2> QED BY <1>1, <2>1, EntryShape DEF StoreInv, StoreTyped, Once
<1>5. Sound(lru', entry', handle', installed')
  BY <1>1, <1>2, NoEntryFields DEF Sound, Shaped, Known, Watched, Elems
<1>6. Counted' /\ Loaders'
  BY <1>1, <1>3, NoEntryFields, FS_EmptySet DEF Counted, Loaders
<1>7. Lent' /\ ChaptersFresh'
  BY <1>1 DEF Lent, ChaptersFresh
<1> QED BY <1>4, <1>5, <1>6, <1>7 DEF StoreInv

LEMMA StoreInitInv == StoreInit => StoreInv
<1> SUFFICES ASSUME StoreInit PROVE StoreInv
  OBVIOUS
<1>1. /\ entry = [p \in Paths |-> NoStoreEntry] /\ lru = << >>
      /\ handle = [h \in Handles |-> Unused] /\ chapter = [p \in Paths |-> 0]
      /\ installed = [p \in Paths |-> 1]
      /\ stage = [t \in Requests |-> "idle"] /\ want = [t \in Requests |-> AnyPath]
      /\ has = [t \in Requests |-> NoHandle]
  BY DEF StoreInit
<1>2. \A p : Borrowers(p) = {}
  BY <1>1 DEF Borrowers
<1>3. StoreTyped
  <2>1. AnyPath \in Paths
    BY FiniteAssumption DEF AnyPath
  <2> QED BY <1>1, <2>1, EntryShape, FiniteAssumption DEF StoreTyped, Once
<1>4. Sound(lru, entry, handle, installed)
  BY <1>1, NoEntryFields DEF Sound, Shaped, Known, Watched, Elems
<1>5. Counted /\ Loaders
  BY <1>1, <1>2, NoEntryFields, FS_EmptySet DEF Counted, Loaders
<1>6. Lent /\ ChaptersFresh
  BY <1>1 DEF Lent, ChaptersFresh
<1> QED BY <1>3, <1>4, <1>5, <1>6 DEF StoreInv

LEMMA StoreNextInv == StoreInv /\ [StoreNext]_storeVars => StoreInv'
<1> SUFFICES ASSUME StoreInv, [StoreNext]_storeVars PROVE StoreInv'
  OBVIOUS
<1>1. ASSUME NEW t \in Requests,
             Load(t) \/ SetChapter(t) \/ ReleaseReader(t) \/ \E p \in Paths : Hit(t, p) \/ Miss(t, p)
      PROVE  StoreInv'
  BY <1>1, LoadFailsKeeps, LoadSucceedsKeeps, SetChapterKeeps, ReleaseReaderKeeps, HitKeeps,
     MissKeeps DEF Load
<1>2. ASSUME NEW p \in Paths, CloseBook(p) \/ EvictBook(p) \/ ReplaceFile(p) PROVE StoreInv'
  BY <1>2, CloseBookKeeps, EvictBookKeeps, ReplaceFileKeeps
<1>3. CASE UNCHANGED storeVars
  <2>1. StoreTyped' /\ ChaptersFresh'
    BY <1>3 DEF storeVars, requests, StoreInv, StoreTyped, ChaptersFresh
  <2>2. Sound(lru, entry, handle, installed)'
    BY <1>3 DEF storeVars, StoreInv
  <2>3. Counted' /\ Loaders' /\ Lent'
    BY <1>3 DEF storeVars, requests, StoreInv, Counted, Loaders, Lent, Borrowers
  <2> QED BY <2>1, <2>2, <2>3 DEF StoreInv
<1> QED BY <1>1, <1>2, <1>3, CloseKeeps DEF StoreNext

(* What the store lends out is the installed file, reader and chapter,     *)
(* whatever is evicted, closed or replaced meanwhile, and no file stays    *)
(* open that it does not know of (acquireWithOpener, Release, CloseBook,   *)
(* TryCloseForReplace).                                                    *)
THEOREM LentIsInstalled == StoreSpec => []StoreServesInstalled
<1>1. ASSUME StoreInv PROVE StoreServesInstalled
  <2>1. BorrowedStaysOpen
    BY <1>1, UsersHaveReader DEF BorrowedStaysOpen
  <2>2. NothingLeaks
    <3>1. \A p : p \in Listed <=> p \in Elems(lru)
      <4>1. DOMAIN lru = 1..Len(lru)
        BY <1>1 DEF StoreInv, StoreTyped
      <4> QED BY <4>1 DEF Listed, Elems
    <3>2. Known(entry, handle) /\ Watched(lru, entry)
      BY <1>1 DEF StoreInv, Sound
    <3>3. \A h \in Handles : handle[h] # Unused => entry[handle[h].path].reader = h
      BY <3>2 DEF Known
    <3>4. ASSUME NEW p \in Paths, entry[p] # NoStoreEntry
          PROVE  /\ p \in Listed <=> ~entry[p].evicted
                 /\ entry[p].evicted => entry[p].refs > 0
                 /\ entry[p].closePending => entry[p].evicted
      BY <3>1, <3>2, <3>4 DEF Watched
    <3> QED BY <3>3, <3>4 DEF NothingLeaks
  <2> QED BY <1>1, <2>1, <2>2 DEF StoreInv, StoreServesInstalled
<1> QED BY <1>1, StoreInitInv, StoreNextInv, PTL DEF StoreSpec

(* Nobody waits for a load that nobody makes (close(e.ready)).             *)
THEOREM WaitersAreServed == StoreSpec => []WaitersHaveLoader
<1>1. ASSUME StoreInv PROVE WaitersHaveLoader
  BY <1>1 DEF WaitersHaveLoader, StoreInv, StoreTyped, Lent, Loaders, Borrowers
<1> QED BY <1>1, StoreInitInv, StoreNextInv, PTL DEF StoreSpec

(* The list counts who is kept open for nobody, and who is in use; whoever *)
(* is being loaded comes on top until the load ends.                       *)
Kept == {p \in Elems(lru) : ~entry[p].loading}
RoomLeft == Cardinality(Kept) <= Capacity

(* The paths of a list are no more than its length.                        *)
LEMMA ListBounds ==
  ASSUME NEW list \in Seq(Paths)
  PROVE  /\ IsFiniteSet(Elems(list)) /\ Cardinality(Elems(list)) \in Nat
         /\ Cardinality(Elems(list)) <= Len(list)
<1> DEFINE n == Len(list)
           f == [i \in 1 .. n |-> list[i]]
<1>1. n \in Nat /\ IsFiniteSet(1 .. n) /\ Cardinality(1 .. n) = n
  <2>1. n \in Nat
    OBVIOUS
  <2> HIDE DEF n
  <2>2. n \in Int /\ 1 \in Int /\ (IF 1 > n THEN 0 ELSE n - 1 + 1) = n
    BY <2>1
  <2> QED BY <2>1, <2>2, FS_Interval
<1>2. f \in Surjection(1 .. n, Elems(list))
  BY DEF Surjection, Elems
<1> HIDE DEF f
<1>3. IsFiniteSet(Elems(list)) /\ Cardinality(Elems(list)) <= n
  BY <1>1, <1>2, FS_Surjection
<1> QED BY <1>3, FS_CardinalityType

(* A step by which nobody joins the list but to be loaded.                 *)
LEMMA KeptStays ==
  ASSUME StoreInv, RoomLeft,
         \A p \in Elems(lru') : ~entry'[p].loading => p \in Elems(lru) /\ ~entry[p].loading
  PROVE  RoomLeft'
<1>1. Kept' \in SUBSET Kept /\ Kept \in SUBSET Elems(lru)
  BY DEF Kept
<1>2. IsFiniteSet(Kept)
  BY <1>1, ListBounds, FS_Subset DEF StoreInv, StoreTyped
<1>3. /\ Cardinality(Kept') <= Cardinality(Kept) /\ IsFiniteSet(Kept')
      /\ Cardinality(Kept) \in Nat /\ Cardinality(Kept') \in Nat
  BY <1>1, <1>2, FS_Subset, FS_CardinalityType
<1> QED BY <1>3, CapacityAssumption DEF RoomLeft

(* A step that cuts the list.                                              *)
LEMMA CutMakesRoom ==
  ASSUME NEW list \in Seq(Paths), NEW es, NEW hs, Evict(list, es, hs), Once(list)
  PROVE  RoomLeft'
<1>1. lru' \in Seq(Paths) /\ Len(lru') <= Capacity /\ Len(lru') \in Nat
  BY CapacityAssumption DEF Evict
<1>2. Kept' \in SUBSET Elems(lru')
  BY DEF Kept
<1>3. /\ Cardinality(Kept') <= Cardinality(Elems(lru')) /\ Cardinality(Elems(lru')) <= Len(lru')
      /\ Cardinality(Elems(lru')) \in Nat /\ Cardinality(Kept') \in Nat
  BY <1>1, <1>2, ListBounds, FS_Subset, FS_CardinalityType
<1> QED BY <1>1, <1>3, CapacityAssumption DEF RoomLeft

LEMMA RoomNext == StoreInv /\ RoomLeft /\ [StoreNext]_storeVars => RoomLeft'
<1> SUFFICES ASSUME StoreInv, RoomLeft, [StoreNext]_storeVars PROVE RoomLeft'
  OBVIOUS
<1>1. /\ lru \in Seq(Paths) /\ Once(lru) /\ entry \in [Paths -> StoreEntry]
      /\ want \in [Requests -> Paths] /\ Watched(lru, entry)
  BY DEF StoreInv, StoreTyped, Sound
<1>2. Elems(lru) \subseteq Paths
  BY <1>1 DEF Elems
<1>3. ASSUME NEW t \in Requests, NEW p \in Paths, Hit(t, p) PROVE RoomLeft'
  BY <1>1, <1>3, TouchList, CutMakesRoom DEF Hit
<1>4. ASSUME NEW t \in Requests, NEW p \in Paths, Miss(t, p) PROVE RoomLeft'
  <2>1. entry' = [entry EXCEPT ![p] = Loading] /\ Elems(lru') = Elems(lru) \cup {p} /\ Loading.loading
    BY <1>1, <1>4, TouchList DEF Miss, Loading, NoStoreEntry
  <2> QED BY <1>1, <1>2, <2>1, KeptStays
<1>5. ASSUME NEW t \in Requests, LoadSucceeds(t) PROVE RoomLeft'
  <2>1. want[t] \in Paths
    BY <1>1
  <2>2. PICK list : /\ list = IF entry[want[t]].closePending THEN lru ELSE Touch(lru, want[t])
                    /\ \E es, hs : Evict(list, es, hs)
    BY <1>5 DEF LoadSucceeds
  <2>3. list \in Seq(Paths) /\ Once(list)
    BY <1>1, <2>1, <2>2, TouchList
  <2> QED BY <2>2, <2>3, CutMakesRoom
<1>6. ASSUME NEW t \in Requests, LoadFails(t) PROVE RoomLeft'
  <2>1. entry' = [entry EXCEPT ![want[t]] = NoStoreEntry] /\ Elems(lru') = Elems(lru) \ {want[t]}
    BY <1>1, <1>6, WithoutList DEF LoadFails
  <2> QED BY <1>1, <1>2, <2>1, KeptStays
<1>7. ASSUME NEW t \in Requests, ReleaseReader(t) PROVE RoomLeft'
  <2>1. lru' = lru /\ want[t] \in Paths
    BY <1>1, <1>7 DEF ReleaseReader
  <2>2. CASE entry[want[t]].evicted /\ entry' = [entry EXCEPT ![want[t]] = NoStoreEntry]
    <3>1. want[t] \notin Elems(lru)
      BY <1>1, <2>1, <2>2 DEF Watched
    <3> QED BY <1>1, <1>2, <2>1, <2>2, <3>1, KeptStays
  <2>3. CASE entry' = [entry EXCEPT ![want[t]].refs = @ - 1]
    <3>1. \A p \in Paths : entry'[p].loading = entry[p].loading
      BY <1>1, <2>3 DEF StoreEntry
    <3> QED BY <1>2, <2>1, <3>1, KeptStays
  <2> QED BY <1>7, <2>2, <2>3 DEF ReleaseReader
<1>8. ASSUME NEW p \in Paths, CloseBook(p) \/ ReplaceFile(p) PROVE RoomLeft'
  <2>1. /\ Elems(lru') = Elems(lru) \ {p}
        /\ \A q \in Paths \ {p} : entry'[q] = entry[q]
    BY <1>1, <1>8, WithoutList DEF CloseBook, ReplaceFile
  <2> QED BY <1>2, <2>1, KeptStays
<1>9. CASE Close
  <2>1. Elems(lru') = {}
    BY <1>9 DEF Close, Elems
  <2> QED BY <2>1, KeptStays
<1>10. ASSUME lru' = lru, entry' = entry PROVE RoomLeft'
  BY <1>10 DEF RoomLeft, Kept
<1>11. ASSUME NEW t \in Requests, SetChapter(t) PROVE RoomLeft'
  BY <1>10, <1>11 DEF SetChapter
<1>12. ASSUME NEW p \in Paths, EvictBook(p) PROVE RoomLeft'
  BY <1>10, <1>12 DEF EvictBook
<1>13. CASE UNCHANGED storeVars
  BY <1>10, <1>13 DEF storeVars
<1> QED BY <1>3, <1>4, <1>5, <1>6, <1>7, <1>8, <1>9, <1>11, <1>12, <1>13 DEF StoreNext, Load

(* The readers kept open for nobody number at most the capacity, for any   *)
(* capacity and however many loads run at once, although the list itself   *)
(* may be longer for as long as they do (evictExcess, NewStore).           *)
THEOREM IdleStaysBounded == StoreSpec => []IdleBounded
<1>1. StoreInit => RoomLeft
  <2> SUFFICES ASSUME StoreInit PROVE RoomLeft
    OBVIOUS
  <2>1. Kept = {}
    BY DEF StoreInit, Kept, Elems
  <2> QED BY <2>1, FS_EmptySet, CapacityAssumption DEF RoomLeft
<1>2. ASSUME StoreInv, RoomLeft PROVE IdleBounded
  <2> DEFINE idle == {p \in Paths : Idle(p)}
  <2>1. ASSUME NEW p \in Paths, Idle(p) PROVE p \in Kept
    <3>1. entry[p] # NoStoreEntry /\ entry[p].refs = 0
      BY <2>1 DEF Idle
    <3>2. ~entry[p].evicted /\ p \in Elems(lru)
      BY <1>2, <3>1 DEF StoreInv, Sound, Watched
    <3>3. ~entry[p].loading
      <4>1. Shaped(entry, handle, installed)
        BY <1>2 DEF StoreInv, Sound
      <4>2. entry[p].loading => entry[p].refs > 0
        BY <3>1, <4>1, Zenon DEF Shaped
      <4> QED BY <3>1, <4>2
    <3> QED BY <3>2, <3>3 DEF Kept
  <2>2. idle \in SUBSET Kept /\ Kept \in SUBSET Elems(lru)
    BY <2>1 DEF Kept
  <2> HIDE DEF idle
  <2>3. IsFiniteSet(Kept) /\ IsFiniteSet(idle)
    BY <1>2, <2>2, ListBounds, FS_Subset DEF StoreInv, StoreTyped
  <2>4. Cardinality(idle) <= Cardinality(Kept) /\ Cardinality(idle) \in Nat /\ Cardinality(Kept) \in Nat
    BY <2>2, <2>3, FS_Subset, FS_CardinalityType
  <2>5. Cardinality(idle) <= Capacity
    BY <1>2, <2>4, CapacityAssumption DEF RoomLeft
  <2> QED BY <2>5 DEF IdleBounded, idle
<1> QED BY <1>1, <1>2, RoomNext, StoreInitInv, StoreNextInv, PTL DEF StoreSpec
-----------------------------------------------------------------------------
(* The profile's folder (LibraryFolder)                                    *)

(* A list in which nobody is twice has as many paths as it is long.        *)
LEMMA OnceCounts ==
  ASSUME NEW list \in Seq(Paths), Once(list)
  PROVE  Cardinality(Elems(list)) = Len(list)
<1> DEFINE n == Len(list)
           f == [i \in 1 .. n |-> list[i]]
<1>1. IsFiniteSet(1 .. n) /\ Cardinality(1 .. n) = n
  <2>1. n \in Nat
    OBVIOUS
  <2> HIDE DEF n
  <2>2. n \in Int /\ 1 \in Int /\ (IF 1 > n THEN 0 ELSE n - 1 + 1) = n
    BY <2>1
  <2> QED BY <2>1, <2>2, FS_Interval
<1>2. f \in Bijection(1 .. n, Elems(list))
  <2>1. f \in Surjection(1 .. n, Elems(list))
    BY DEF Surjection, Elems
  <2>2. f \in Injection(1 .. n, Elems(list))
    BY <2>1 DEF Surjection, Injection, IsInjective, Once
  <2> QED BY <2>1, <2>2 DEF Bijection
<1> HIDE DEF f
<1>3. ExistsBijection(1 .. n, Elems(list))
  BY <1>2 DEF ExistsBijection
<1> QED BY <1>1, <1>3, FS_Bijection

(* An entry's references count the requests that load, wait or use, one    *)
(* request loads a file for all, and the list has nobody twice             *)
(* (acquireWithOpener, Release, zipLRU).                                   *)
THEOREM StoreTypeCorrect == StoreSpec => []StoreTypeOK
<1>1. ASSUME StoreInv PROVE StoreTypeOK
  <2>1. lru \in Seq(Paths) /\ Once(lru)
    BY <1>1 DEF StoreInv, StoreTyped
  <2>2. DOMAIN lru = 1 .. Len(lru) /\ Listed = Elems(lru)
    BY <2>1 DEF Listed, Elems
  <2>3. Cardinality(Listed) = Len(lru)
    BY <2>1, <2>2, OnceCounts
  <2> QED BY <1>1, <2>1, <2>3 DEF StoreTypeOK, StoreInv, StoreTyped, Counted, Loaders, Files
<1> QED BY <1>1, StoreInitInv, StoreNextInv, PTL DEF StoreSpec

FolderRows == {NoRow} \cup [path : EPUBPaths, content : Contents, cover : BOOLEAN]
Tables     == [BookIds -> FolderRows]
Hashings   == [pc : {"hashed", "new", "elsewhere"}, path : EPUBPaths, content : Contents, id : BookIds]
Begun      == [pc : {"placing"}, path : {<<>>}, content : Contents, id : {<<>>}]
Repeats    == [pc : {"duplicate"}, path : {<<>>}, content : Contents, id : BookIds]
Claims     == {"placed", "cleared", "allowed", "unclaimed", "new"}
Claiming   == [pc : Claims, path : EPUBPaths, content : Contents, id : {<<>>}]
Decided    == [pc : {"found", "redundant", "imported"}, path : EPUBPaths, content : Contents, id : BookIds]
Deletions  == [pc : {"deleted"}, path : EPUBPaths, content : {NoFile}, id : BookIds]
FolderScans == [pc : {"off", "import", "covers", "warm"}, left : SUBSET EPUBPaths,
                known : SUBSET EPUBPaths, imported : SUBSET BookIds, changed : SUBSET BookIds,
                canceled : BOOLEAN, whole : BOOLEAN]

UploadStates == {AtRest} \cup Begun \cup Repeats \cup Claiming \cup Decided

FolderTypes ==
    /\ folder \in [EPUBPaths -> Contents \cup {NoFile}]
    /\ shelfRow \in Tables /\ listed \in Tables
    /\ ignored \subseteq EPUBPaths /\ strayed \subseteq EPUBPaths /\ unlisted \subseteq BookIds
    /\ scan \in FolderScans
    /\ worker \in [ScanWorkers -> {AtRest} \cup Hashings]
    /\ upload \in [Uploads -> UploadStates]
    /\ removal \in {AtRest} \cup Deletions
    /\ serving \in BOOLEAN
    /\ used \in [scans : Nat, acts : Nat]

WorkersRest == \A w \in ScanWorkers : worker[w].pc = "idle"

(* libraryScanMu. *)
GateHeld ==
    /\ scan.pc # "off" => NoUploads /\ NoRemoval
    /\ ~NoUploads \/ ~NoRemoval => serving
    /\ scan.pc # "import" => scan.left = {} /\ WorkersRest

(* books.file_path is unique. *)
RowsApart == \A a, b \in BookIds : Stored(a) /\ Stored(b) /\ shelfRow[a].path = shelfRow[b].path => a = b

(* What a worker has hashed. *)
Hashed(w) ==
    LET me == worker[w] IN
    me.pc # "idle" =>
      /\ me.path \notin ignored
      /\ folder[me.path] = me.content \/ me.path \in strayed
      /\ me.pc # "elsewhere" => me.id = <<me.path, me.content>>
      /\ me.pc = "elsewhere" => Stored(me.id) /\ shelfRow[me.id].content = me.content

HashedHere == scan.left \cap ignored = {} /\ \A w \in ScanWorkers : Hashed(w)

(* An upload's file is its own until a book has it. *)
Holds(u) == upload[u].pc \in Claims \cup {"found", "redundant"}

Own(u) ==
    Holds(u) /\ upload[u].path \notin strayed =>
      /\ folder[upload[u].path] = upload[u].content
      /\ RowsAt(upload[u].path) = {}
      /\ upload[u].pc \in {"cleared", "allowed", "unclaimed", "new"} => upload[u].path \notin ignored

HeldAlone ==
    /\ \A u \in Uploads : Own(u)
    /\ \A u, v \in Uploads : Holds(u) /\ Holds(v) /\ upload[u].path = upload[v].path
          /\ upload[u].path \notin strayed => u = v

(* A deletion unlinks what was its book's. *)
UnlinksOwn ==
    ~NoRemoval /\ removal.id \notin unlisted /\ removal.path \notin strayed =>
        /\ RowsAt(removal.path) = {} /\ folder[removal.path] # NoFile
        /\ \A u \in Uploads : Holds(u) => upload[u].path # removal.path

(* What the cached list still has to be told. *)
WillPublish(id) == \E u \in Uploads : upload[u].pc = "imported" /\ upload[u].id = id

UpToDate(id) ==
    /\ \/ listed[id] = shelfRow[id]
       \/ scan.pc # "off" /\ id \in Reported
       \/ ~NoRemoval /\ removal.id = id
       \/ listed[id] = NoRow /\ WillPublish(id)
    /\ ~NoRemoval /\ removal.id = id /\ Stored(id) => WillPublish(id)

Listing == serving => \A id \in BookIds \ unlisted : UpToDate(id)

ReportsRows == scan.pc # "off" => \A id \in Reported : Stored(id)

(* What a whole scan has not passed over. *)
Covered(p) == RowsOf(folder[p]) # {} \/ RowsAt(p) # {} \/ Stored(<<p, folder[p]>>)
Keeps(u)   == Holds(u) \/ upload[u].pc = "imported"
InHand(p)  == \/ p \in scan.left
              \/ \E w \in ScanWorkers : worker[w].pc # "idle" /\ worker[w].path = p
              \/ \E u \in Uploads : Keeps(u) /\ upload[u].path = p

FilesSeen   == \A p \in EPUBPaths \ (ignored \cup scan.known) : folder[p] # NoFile => Covered(p) \/ InHand(p)
HashesHold  == \A w \in ScanWorkers : worker[w].pc # "idle" => folder[worker[w].path] = worker[w].content
RowsHold    == scan.pc # "off" => \A id \in BookIds : Stored(id) /\ shelfRow[id].path \notin scan.known =>
                                    folder[shelfRow[id].path] = shelfRow[id].content
KeptHere    == \A u \in Uploads : Keeps(u) => folder[upload[u].path] = upload[u].content
KeptCovered == \A u \in Uploads : upload[u].pc \in {"found", "redundant", "imported"} => Covered(upload[u].path)
KeptApart   == \A u, v \in Uploads : Keeps(u) /\ Keeps(v) /\ upload[u].path = upload[v].path => u = v

WholeScan == scan.whole => /\ NoRemoval /\ FilesSeen /\ HashesHold /\ RowsHold
                           /\ KeptHere /\ KeptCovered /\ KeptApart

FolderInv == /\ FolderTypes /\ GateHeld /\ RowsApart /\ HashedHere /\ HeldAlone /\ UnlinksOwn
             /\ Listing /\ ReportsRows /\ WholeScan /\ RowsHaveFiles

(* A row that is there names a path of the folder and a content.           *)
LEMMA StoredTyped ==
    ASSUME FolderTypes, NEW id \in BookIds, Stored(id)
    PROVE  /\ shelfRow[id] \in [path : EPUBPaths, content : Contents, cover : BOOLEAN]
           /\ shelfRow[id].path \in EPUBPaths /\ shelfRow[id].content \in Contents
           /\ shelfRow[id].content # NoFile
BY FolderAssumption DEF FolderTypes, Tables, FolderRows, Stored

(* An upload's step says which record it is.                               *)
LEMMA UploadKinds ==
    ASSUME FolderTypes, NEW u \in Uploads
    PROVE  /\ upload[u].pc = "placing" => upload[u] \in Begun
           /\ upload[u].pc = "duplicate" => upload[u] \in Repeats
           /\ upload[u].pc \in Claims => upload[u] \in Claiming
           /\ upload[u].pc \in {"found", "redundant", "imported"} => upload[u] \in Decided
           /\ upload[u].pc = "idle" => upload[u] = AtRest
BY DEF FolderTypes, UploadStates, AtRest, Begun, Repeats, Claiming, Decided, Claims

LEMMA WorkerKinds ==
    ASSUME FolderTypes, NEW w \in ScanWorkers, worker[w].pc # "idle"
    PROVE  worker[w] \in Hashings
BY DEF FolderTypes, AtRest

(* While a scan runs there is no upload and no deletion, and it has        *)
(* goroutines only while it imports.                                       *)
LEMMA ScanAlone ==
    ASSUME FolderInv, Scanning
    PROVE  NoUploads /\ NoRemoval /\ UNCHANGED <<upload, removal>>
<1>1. scan.pc # "off" => NoUploads /\ NoRemoval
  BY DEF FolderInv, GateHeld
<1>2. \A w \in ScanWorkers : worker[w].pc # "idle" => scan.pc # "off"
  BY DEF FolderInv, GateHeld, WorkersRest
<1>3. CASE ScanBegins
  BY <1>3 DEF ScanBegins, ScanAllowed
<1>4. CASE ScanCanceled \/ WalkEnds \/ CoversEnd \/ RescanEnds \/ ProfileOpens
  BY <1>1, <1>4 DEF ScanCanceled, WalkEnds, CoversEnd, RescanEnds, ProfileOpens
<1>5. ASSUME NEW w \in ScanWorkers,
             HashFile(w) \/ LooksUp(w) \/ Reconciles(w) \/ Imports(w) \/ GivesUp(w)
      PROVE  NoUploads /\ NoRemoval /\ UNCHANGED <<upload, removal>>
  <2>1. CASE HashFile(w)
    BY <1>1, <2>1 DEF HashFile
  <2>2. CASE LooksUp(w)
    BY <1>1, <1>2, <2>2 DEF LooksUp
  <2>3. CASE Reconciles(w)
    BY <1>1, <1>2, <2>3 DEF Reconciles
  <2>4. CASE Imports(w)
    BY <1>1, <1>2, <2>4 DEF Imports
  <2>5. CASE GivesUp(w)
    BY <1>1, <1>2, <2>5 DEF GivesUp
  <2>6. QED
    BY <1>5, <2>1, <2>2, <2>3, <2>4, <2>5
<1>6. ASSUME NEW id \in BookIds, Backfill(id) \/ WarmBook(id)
      PROVE  NoUploads /\ NoRemoval /\ UNCHANGED <<upload, removal>>
  BY <1>1, <1>6 DEF Backfill, WarmBook
<1>7. QED
  BY <1>3, <1>4, <1>5, <1>6 DEF Scanning

LEMMA NoneHeld ==
    ASSUME NoUploads, NoRemoval, UNCHANGED <<upload, removal>>
    PROVE  HeldAlone' /\ UnlinksOwn'
BY DEF NoUploads, NoRemoval, HeldAlone, Own, UnlinksOwn, Holds, Claims

(* A scan that is over has hashed nothing.                                 *)
LEMMA NothingHashed ==
    ASSUME GateHeld', scan'.pc # "import"
    PROVE  HashedHere'
BY DEF GateHeld, HashedHere, Hashed, WorkersRest

LEMMA SameRowsApart ==
    ASSUME RowsApart, UNCHANGED shelfRow
    PROVE  RowsApart'
BY DEF RowsApart, Stored

LEMMA SameRowsFiled ==
    ASSUME RowsHaveFiles, UNCHANGED <<shelfRow, folder>>, ignored' \subseteq ignored, strayed \subseteq strayed'
    PROVE  RowsHaveFiles'
BY DEF RowsHaveFiles, Stored

(* The list need not hear of a step that leaves both tables alone and      *)
(* takes no promise back.                                                  *)
LEMMA SameListing ==
    ASSUME Listing, UNCHANGED <<shelfRow, listed, serving>>, unlisted \subseteq unlisted',
           scan.pc # "off" => scan'.pc # "off" /\ Reported \subseteq Reported',
           UNCHANGED removal,
           \A u \in Uploads : upload[u].pc = "imported" => UNCHANGED upload[u]
    PROVE  Listing'
BY DEF Listing, UpToDate, NoRemoval, WillPublish, Stored

LEMMA UnsettledScan ==
    ASSUME ~scan'.whole
    PROVE  WholeScan'
BY DEF WholeScan

LEMMA ScanBeginsKeeps ==
    ASSUME FolderInv, ScanBegins
    PROVE  FolderInv'
<1> DEFINE known == {p \in EPUBPaths : RowsAt(p) # {}}
           todo  == {p \in EPUBPaths : folder[p] # NoFile} \ (known \cup ignored)
<1>0. WorkersRest /\ NoUploads /\ NoRemoval
  BY DEF FolderInv, GateHeld, ScanBegins, ScanAllowed
<1>1. scan' = [pc |-> "import", left |-> todo, known |-> known, imported |-> {}, changed |-> {},
               canceled |-> FALSE, whole |-> TRUE]
  BY DEF ScanBegins, NoScan
<1> HIDE DEF known, todo
<1>2. FolderTypes'
  <2>1. known \subseteq EPUBPaths /\ todo \subseteq EPUBPaths
    BY DEF known, todo
  <2>2. scan' \in FolderScans
    BY <1>1, <2>1 DEF FolderScans
  <2>3. used' \in [scans : Nat, acts : Nat]
    BY DEF FolderInv, FolderTypes, ScanBegins, Count
  <2>4. QED
    BY <2>2, <2>3 DEF FolderInv, FolderTypes, ScanBegins
<1>3. GateHeld'
  BY <1>0, <1>1 DEF ScanBegins, GateHeld, NoUploads, NoRemoval
<1>4. RowsApart' /\ RowsHaveFiles'
  BY SameRowsApart, SameRowsFiled DEF FolderInv, ScanBegins
<1>5. HashedHere'
  BY <1>0, <1>1 DEF HashedHere, Hashed, WorkersRest, ScanBegins, todo
<1>6. HeldAlone' /\ UnlinksOwn'
  BY <1>0, NoneHeld DEF ScanBegins
<1>7. Listing'
  BY SameListing DEF FolderInv, ScanBegins
<1>8. ReportsRows'
  BY <1>1 DEF ReportsRows, Reported
<1>9. WholeScan'
  <2>1. NoRemoval' /\ HashesHold' /\ KeptHere' /\ KeptCovered' /\ KeptApart'
    BY <1>0 DEF ScanBegins, NoRemoval, NoUploads, WorkersRest, HashesHold, KeptHere, KeptCovered, KeptApart,
                Keeps, Holds, Claims
  <2>2. FilesSeen'
    BY <1>1 DEF FilesSeen, InHand, ScanBegins, todo
  <2>3. RowsHold'
    <3> SUFFICES ASSUME NEW id \in BookIds, Stored(id)
                 PROVE  shelfRow[id].path \in known
      <4>1. UNCHANGED <<shelfRow, folder>>
        BY DEF ScanBegins
      <4>2. scan'.known = known
        BY <1>1
      <4>3. QED
        BY <4>1, <4>2 DEF RowsHold, Stored
    <3>1. shelfRow[id].path \in EPUBPaths
      BY StoredTyped DEF FolderInv
    <3>2. QED
      BY <3>1 DEF known, RowsAt
  <2>4. QED
    BY <2>1, <2>2, <2>3 DEF WholeScan
<1>10. QED
  BY <1>2, <1>3, <1>4, <1>5, <1>6, <1>7, <1>8, <1>9 DEF FolderInv

(* What a step of a goroutine leaves to be shown.                          *)
LEMMA WorkerStepKeeps ==
    ASSUME FolderInv, Scanning, scan.pc = "import", scan'.pc = "import",
           UNCHANGED <<folder, ignored, listed, removal, serving, strayed, used, upload>>,
           FolderTypes', RowsApart', HashedHere', Listing', ReportsRows', WholeScan', RowsHaveFiles'
    PROVE  FolderInv'
<1>1. NoUploads /\ NoRemoval
  BY ScanAlone
<1>2. GateHeld'
  BY <1>1 DEF GateHeld, NoUploads, NoRemoval
<1>3. QED
  BY <1>1, <1>2, NoneHeld DEF FolderInv

LEMMA HashFileKeeps ==
    ASSUME FolderInv, NEW w \in ScanWorkers, HashFile(w)
    PROVE  FolderInv'
<1>1. PICK p \in scan.left :
          /\ scan' = [scan EXCEPT !.left = @ \ {p}]
          /\ worker' = IF folder[p] = NoFile THEN worker
                       ELSE [worker EXCEPT ![w] = [pc |-> "hashed", path |-> p,
                                                   content |-> folder[p], id |-> <<p, folder[p]>>]]
  BY DEF HashFile
<1>2. /\ FolderTypes /\ scan.pc = "import" /\ worker[w].pc = "idle" /\ p \in EPUBPaths
      /\ UNCHANGED <<folder, shelfRow, ignored, listed, upload, removal, serving, strayed, unlisted, used>>
  BY DEF HashFile, FolderInv, FolderTypes, FolderScans
<1>3. /\ scan' \in FolderScans /\ scan'.pc = scan.pc /\ scan'.left = scan.left \ {p}
      /\ scan'.known = scan.known /\ scan'.imported = scan.imported /\ scan'.changed = scan.changed
      /\ scan'.whole = scan.whole
  BY <1>1, <1>2 DEF FolderTypes, FolderScans
<1>4. \A v \in ScanWorkers : v # w => worker'[v] = worker[v]
  BY <1>1, <1>2 DEF FolderTypes
<1>5. /\ folder[p] = NoFile => worker'[w] = worker[w]
      /\ folder[p] # NoFile => /\ worker'[w] = [pc |-> "hashed", path |-> p, content |-> folder[p],
                                                id |-> <<p, folder[p]>>]
                               /\ worker'[w] \in Hashings
  BY <1>1, <1>2 DEF FolderTypes, Hashings, BookIds
<1>6. FolderTypes'
  <2>1. worker' \in [ScanWorkers -> {AtRest} \cup Hashings]
    BY <1>1, <1>2, <1>5 DEF FolderTypes
  <2>2. QED
    BY <1>2, <1>3, <2>1 DEF FolderTypes
<1>7. RowsApart' /\ RowsHaveFiles'
  BY <1>2, SameRowsApart, SameRowsFiled DEF FolderInv
<1>8. HashedHere'
  <2>1. p \notin ignored
    BY DEF FolderInv, HashedHere
  <2>2. ASSUME NEW v \in ScanWorkers PROVE Hashed(v)'
    BY <1>2, <1>4, <1>5, <2>1 DEF FolderInv, HashedHere, Hashed, Stored
  <2>3. QED
    BY <1>2, <1>3, <2>2 DEF FolderInv, HashedHere
<1>9. Listing' /\ ReportsRows'
  BY <1>2, <1>3, SameListing DEF FolderInv, ReportsRows, Reported, Stored
<1>10. WholeScan'
  <2> SUFFICES ASSUME scan.whole PROVE WholeScan'
    BY <1>3 DEF WholeScan
  <2>1. NoRemoval' /\ KeptHere' /\ KeptCovered' /\ KeptApart' /\ RowsHold'
    BY <1>2, <1>3 DEF FolderInv, WholeScan, NoRemoval, KeptHere, KeptCovered, KeptApart, RowsHold,
                      Keeps, Holds, Covered, RowsAt, RowsOf, Stored
  <2>2. HashesHold'
    BY <1>2, <1>4, <1>5 DEF FolderInv, WholeScan, HashesHold
  <2>3. FilesSeen'
    <3> SUFFICES ASSUME NEW q \in EPUBPaths \ (ignored \cup scan.known), folder[q] # NoFile, ~Covered(q)
                 PROVE  InHand(q)'
      BY <1>2, <1>3 DEF FilesSeen, Covered, RowsAt, RowsOf, Stored
    <3>1. InHand(q)
      BY DEF FolderInv, WholeScan, FilesSeen
    <3>2. CASE q = p
      BY <1>2, <1>5, <3>2 DEF InHand
    <3>3. CASE q # p
      BY <1>2, <1>3, <1>4, <3>1, <3>3 DEF InHand, Keeps, Holds
    <3>4. QED
      BY <3>2, <3>3
  <2>4. QED
    BY <2>1, <2>2, <2>3 DEF WholeScan
<1>11. QED
  BY <1>2, <1>3, <1>6, <1>7, <1>8, <1>9, <1>10, WorkerStepKeeps DEF Scanning

(* A goroutine that gave its file back.                                    *)
LEMMA Rested ==
    ASSUME FolderTypes, NEW w \in ScanWorkers, Rests(w)
    PROVE  /\ worker' \in [ScanWorkers -> {AtRest} \cup Hashings]
           /\ worker'[w].pc = "idle"
           /\ \A v \in ScanWorkers : v # w => worker'[v] = worker[v]
BY DEF FolderTypes, Rests, AtRest

LEMMA GivesUpKeeps ==
    ASSUME FolderInv, NEW w \in ScanWorkers, GivesUp(w)
    PROVE  FolderInv'
<1>1. /\ FolderTypes /\ scan.pc = "import" /\ Rests(w)
      /\ UNCHANGED <<folder, shelfRow, ignored, listed, upload, removal, serving, strayed, unlisted, used>>
  BY DEF GivesUp, FolderInv, GateHeld, WorkersRest
<1>2. /\ scan' \in FolderScans /\ scan'.pc = scan.pc /\ scan'.left = scan.left
      /\ scan'.imported = scan.imported /\ scan'.changed = scan.changed /\ ~scan'.whole
  BY <1>1 DEF GivesUp, Unsettles, FolderTypes, FolderScans
<1>3. FolderTypes'
  BY <1>1, <1>2, Rested DEF FolderTypes
<1>4. RowsApart' /\ RowsHaveFiles' /\ WholeScan'
  BY <1>1, <1>2, SameRowsApart, SameRowsFiled, UnsettledScan DEF FolderInv
<1>5. HashedHere'
  BY <1>1, <1>2, Rested DEF FolderInv, HashedHere, Hashed, Stored
<1>6. Listing' /\ ReportsRows'
  BY <1>1, <1>2, SameListing DEF FolderInv, ReportsRows, Reported, Stored
<1>7. QED
  BY <1>1, <1>2, <1>3, <1>4, <1>5, <1>6, WorkerStepKeeps DEF Scanning

(* A whole scan still misses nothing when a goroutine moves on in its file *)
(* or lets go of one that has a book.                                      *)
LEMMA StillWhole ==
    ASSUME FolderInv, NEW w \in ScanWorkers, scan.whole,
           UNCHANGED <<folder, shelfRow, ignored, scan, upload, removal>>,
           \A v \in ScanWorkers : v # w => worker'[v] = worker[v],
           \/ worker'[w].pc # "idle" /\ worker'[w].path = worker[w].path
                 /\ worker'[w].content = worker[w].content
           \/ worker'[w].pc = "idle" /\ Covered(worker[w].path),
           worker[w].pc # "idle"
    PROVE  WholeScan'
<1>1. NoRemoval' /\ KeptHere' /\ KeptCovered' /\ KeptApart' /\ RowsHold'
  BY DEF FolderInv, WholeScan, NoRemoval, KeptHere, KeptCovered, KeptApart, RowsHold,
         Keeps, Holds, Covered, RowsAt, RowsOf, Stored
<1>2. HashesHold'
  BY DEF FolderInv, WholeScan, HashesHold
<1>3. FilesSeen'
  <2> SUFFICES ASSUME NEW q \in EPUBPaths \ (ignored \cup scan.known), folder[q] # NoFile, ~Covered(q)
               PROVE  InHand(q)'
    BY DEF FilesSeen, Covered, RowsAt, RowsOf, Stored
  <2>1. InHand(q)
    BY DEF FolderInv, WholeScan, FilesSeen
  <2>2. CASE q = worker[w].path
    BY <2>2 DEF InHand
  <2>3. CASE q # worker[w].path
    BY <2>1, <2>3 DEF InHand, Keeps, Holds
  <2>4. QED
    BY <2>2, <2>3
<1>4. QED
  BY <1>1, <1>2, <1>3 DEF WholeScan

LEMMA LooksUpKeeps ==
    ASSUME FolderInv, NEW w \in ScanWorkers, LooksUp(w)
    PROVE  FolderInv'
<1>1. /\ FolderTypes /\ scan.pc = "import" /\ worker[w].pc = "hashed" /\ worker[w] \in Hashings
      /\ UNCHANGED <<folder, shelfRow, ignored, listed, scan, upload, removal, serving, strayed, unlisted, used>>
  BY WorkerKinds DEF LooksUp, FolderInv, GateHeld, WorkersRest
<1>2. PICK next \in Hashings \cup {AtRest} :
        /\ worker' = [worker EXCEPT ![w] = next]
        /\ \/ /\ next.pc # "idle" /\ next.path = worker[w].path /\ next.content = worker[w].content
              /\ \/ next.pc = "new" /\ next.id = worker[w].id
                 \/ next.pc = "elsewhere" /\ Stored(next.id) /\ shelfRow[next.id].content = next.content
           \/ next = AtRest /\ Covered(worker[w].path)
  <2>1. CASE RowsOf(worker[w].content) = {}
    <3>1. worker' = [worker EXCEPT ![w] = [worker[w] EXCEPT !.pc = "new"]]
      BY <2>1 DEF LooksUp
    <3>2. [worker[w] EXCEPT !.pc = "new"] \in Hashings
      BY <1>1 DEF Hashings
    <3>3. QED
      BY <1>1, <3>1, <3>2 DEF Hashings
  <2>2. CASE RowsOf(worker[w].content) # {}
    <3>1. PICK id \in RowsOf(worker[w].content) :
              IF shelfRow[id].path = worker[w].path THEN Rests(w)
              ELSE worker' = [worker EXCEPT ![w].pc = "elsewhere", ![w].id = id]
      BY <2>2 DEF LooksUp
    <3>2. id \in BookIds /\ Stored(id) /\ shelfRow[id].content = worker[w].content
      BY DEF RowsOf
    <3>3. CASE shelfRow[id].path = worker[w].path
      <4>1. Covered(worker[w].path)
        BY <3>2, <3>3 DEF Covered, RowsAt
      <4>2. QED
        BY <3>1, <3>3, <4>1 DEF Rests
    <3>4. CASE shelfRow[id].path # worker[w].path
      <4> DEFINE there == [pc |-> "elsewhere", path |-> worker[w].path, content |-> worker[w].content, id |-> id]
      <4>1. worker' = [worker EXCEPT ![w] = there]
        BY <1>1, <3>1, <3>4 DEF FolderTypes, Hashings
      <4>2. there \in Hashings
        BY <1>1, <3>2 DEF Hashings
      <4>3. /\ there.pc = "elsewhere" /\ there.path = worker[w].path /\ there.content = worker[w].content
            /\ there.id = id
        OBVIOUS
      <4> HIDE DEF there
      <4>4. QED
        BY <3>2, <4>1, <4>2, <4>3
    <3>5. QED
      BY <3>3, <3>4
  <2>3. QED
    BY <2>1, <2>2
<1>3. worker'[w] = next /\ \A v \in ScanWorkers : v # w => worker'[v] = worker[v]
  BY <1>1, <1>2 DEF FolderTypes
<1>4. FolderTypes'
  <2>1. worker' \in [ScanWorkers -> {AtRest} \cup Hashings]
    BY <1>1, <1>2 DEF FolderTypes
  <2>2. QED
    BY <1>1, <2>1 DEF FolderTypes
<1>5. RowsApart' /\ RowsHaveFiles'
  BY <1>1, SameRowsApart, SameRowsFiled DEF FolderInv
<1>6. HashedHere'
  <2>1. Hashed(w)
    BY DEF FolderInv, HashedHere
  <2>2. Hashed(w)'
    BY <1>1, <1>2, <1>3, <2>1 DEF Hashed, Stored, AtRest
  <2>3. ASSUME NEW v \in ScanWorkers, v # w PROVE Hashed(v)'
    BY <1>1, <1>3, <2>3 DEF FolderInv, HashedHere, Hashed, Stored
  <2>4. QED
    BY <1>1, <2>2, <2>3 DEF FolderInv, HashedHere
<1>7. Listing' /\ ReportsRows'
  BY <1>1, SameListing DEF FolderInv, ReportsRows, Reported, Stored
<1>8. WholeScan'
  <2>1. CASE scan.whole
    BY <1>1, <1>2, <1>3, <2>1, StillWhole DEF AtRest
  <2>2. CASE ~scan.whole
    BY <1>1, <2>2, UnsettledScan
  <2>3. QED
    BY <2>1, <2>2
<1>9. QED
  BY <1>1, <1>4, <1>5, <1>6, <1>7, <1>8, WorkerStepKeeps DEF Scanning

(* A row at the path and of the content a goroutine has hashed: a new one, *)
(* or that content's, moved here.                                          *)
Reports(id) ==
    /\ scan' \in FolderScans /\ scan'.pc = scan.pc /\ scan'.left = scan.left
    /\ scan'.known = scan.known /\ scan'.whole = scan.whole
    /\ Reported \subseteq Reported' /\ Reported' \subseteq Reported \cup {id}
    /\ unlisted \subseteq unlisted' /\ unlisted' \subseteq BookIds
    /\ id \in Reported' \cup unlisted'

LEMMA Reporting ==
    ASSUME FolderTypes, NEW id \in BookIds,
           \/ scan' = [scan EXCEPT !.changed = @ \cup {id}] /\ UNCHANGED unlisted
           \/ scan' = [scan EXCEPT !.imported = @ \cup {id}] /\ UNCHANGED unlisted
           \/ unlisted' = unlisted \cup {id} /\ UNCHANGED scan
    PROVE  Reports(id)
<1>1. CASE scan' = [scan EXCEPT !.changed = @ \cup {id}] /\ UNCHANGED unlisted
  BY <1>1 DEF FolderTypes, FolderScans, Reports, Reported
<1>2. CASE scan' = [scan EXCEPT !.imported = @ \cup {id}] /\ UNCHANGED unlisted
  BY <1>2 DEF FolderTypes, FolderScans, Reports, Reported
<1>3. CASE unlisted' = unlisted \cup {id} /\ UNCHANGED scan
  BY <1>3 DEF FolderTypes, FolderScans, Reports, Reported
<1>4. QED
  BY <1>1, <1>2, <1>3

(* The table with one row at id.                                           *)
Puts(id, row) == shelfRow' = [shelfRow EXCEPT ![id] = row]

LEMMA Putting ==
    ASSUME FolderTypes, NEW id \in BookIds,
           NEW row \in [path : EPUBPaths, content : Contents, cover : BOOLEAN], Puts(id, row)
    PROVE  /\ shelfRow' \in Tables /\ shelfRow'[id] = row /\ Stored(id)'
           /\ \A b \in BookIds : b # id => shelfRow'[b] = shelfRow[b] /\ (Stored(b)' <=> Stored(b))
BY FolderAssumption DEF FolderTypes, Tables, FolderRows, Puts, Stored, NoRow

LEMMA RowComes ==
    ASSUME FolderInv, Scanning, NEW w \in ScanWorkers, worker[w] \in Hashings,
           NEW row \in [path : EPUBPaths, content : Contents, cover : BOOLEAN],
           row.path = worker[w].path, row.content = worker[w].content, Puts(worker[w].id, row),
           RowsAt(row.path) = {},
           Stored(worker[w].id) => shelfRow[worker[w].id].content = row.content,
           Rests(w), Reports(worker[w].id),
           UNCHANGED <<folder, ignored, listed, upload, removal, serving, strayed, used>>
    PROVE  FolderInv'
<1>0. PICK id \in BookIds : id = worker[w].id
  BY DEF Hashings
<1>1. /\ FolderTypes /\ worker[w].pc # "idle" /\ scan.pc = "import" /\ Puts(id, row) /\ Reports(id)
  BY <1>0 DEF Hashings, FolderInv, GateHeld, WorkersRest
<1>2. /\ worker' \in [ScanWorkers -> {AtRest} \cup Hashings] /\ worker'[w].pc = "idle"
      /\ \A v \in ScanWorkers : v # w => worker'[v] = worker[v]
  BY <1>1, Rested
<1>3. /\ shelfRow' \in Tables /\ shelfRow'[id] = row /\ Stored(id)'
      /\ \A b \in BookIds : b # id => shelfRow'[b] = shelfRow[b] /\ (Stored(b)' <=> Stored(b))
  BY <1>1, Putting
<1>4. FolderTypes'
  BY <1>1, <1>2, <1>3 DEF FolderTypes, Reports
<1>5. Hashed(w)
  BY DEF FolderInv, HashedHere
<1>6. RowsApart'
  BY <1>3 DEF FolderInv, RowsApart, RowsAt
<1>7. RowsHaveFiles'
  BY <1>1, <1>3, <1>5 DEF FolderInv, RowsHaveFiles, Hashed
<1>8. HashedHere'
  <2>1. ASSUME NEW v \in ScanWorkers, v # w PROVE Hashed(v)'
    <3>1. Hashed(v) /\ worker'[v] = worker[v] /\ (worker[v].pc # "idle" => worker[v].id \in BookIds)
      BY <1>2, <2>1, <1>1 DEF FolderInv, HashedHere, FolderTypes, Hashings, AtRest
    <3>2. CASE worker[v].id = id
      BY <1>0, <1>3, <3>1, <3>2 DEF Hashed
    <3>3. CASE worker[v].id # id
      BY <1>3, <3>1, <3>3 DEF Hashed
    <3>4. QED
      BY <3>2, <3>3
  <2>2. Hashed(w)'
    BY <1>2 DEF Hashed
  <2>3. QED
    BY <2>1, <2>2 DEF FolderInv, HashedHere, Reports
<1>9. ReportsRows'
  <2>1. Reported \subseteq BookIds
    BY <1>1 DEF FolderTypes, FolderScans, Reported
  <2>2. \A b \in Reported' : b = id \/ (b \in Reported /\ Stored(b))
    BY <1>1 DEF FolderInv, ReportsRows, Reports
  <2>3. QED
    BY <1>3, <2>1, <2>2 DEF ReportsRows
<1>10. Listing'
  <2> SUFFICES ASSUME serving, NEW b \in BookIds \ unlisted' PROVE UpToDate(b)'
    BY DEF Listing
  <2>0. NoRemoval /\ NoUploads /\ NoRemoval'
    BY ScanAlone DEF NoRemoval
  <2>1. CASE b = id
    BY <1>1, <2>0, <2>1 DEF UpToDate, Reports
  <2>2. CASE b # id
    <3>2. UpToDate(b)
      BY DEF FolderInv, Listing, Reports
    <3>3. CASE listed[b] = shelfRow[b]
      BY <1>3, <2>0, <2>2, <3>3 DEF UpToDate
    <3>4. CASE b \in Reported
      BY <1>1, <2>0, <3>4 DEF UpToDate, Reports
    <3>5. QED
      BY <2>0, <3>2, <3>3, <3>4 DEF UpToDate, NoUploads, WillPublish
  <2>3. QED
    BY <2>1, <2>2
<1>11. WholeScan'
  <2> SUFFICES ASSUME scan.whole PROVE WholeScan'
    BY DEF WholeScan, Reports
  <2>0. NoRemoval /\ NoUploads
    BY ScanAlone
  <2>1. NoRemoval' /\ KeptHere' /\ KeptCovered' /\ KeptApart'
    BY <2>0 DEF NoRemoval, NoUploads, KeptHere, KeptCovered, KeptApart, Keeps, Holds, Claims
  <2>2. HashesHold /\ HashesHold'
    BY <1>2 DEF FolderInv, WholeScan, HashesHold
  <2>3. RowsHold'
    <3> SUFFICES ASSUME NEW b \in BookIds, Stored(b)', shelfRow'[b].path \notin scan.known
                 PROVE  folder[shelfRow'[b].path] = shelfRow'[b].content
      BY DEF RowsHold, Reports
    <3>1. CASE b = id
      BY <1>1, <1>3, <2>2, <3>1 DEF HashesHold
    <3>2. CASE b # id
      BY <1>1, <1>3, <3>2 DEF FolderInv, WholeScan, RowsHold
    <3>3. QED
      BY <3>1, <3>2
  <2>4. FilesSeen'
    <3> SUFFICES ASSUME NEW q \in EPUBPaths \ (ignored \cup scan.known), folder[q] # NoFile
                 PROVE  Covered(q)' \/ InHand(q)'
      BY DEF FilesSeen, Reports
    <3>1. ASSUME Covered(q) PROVE Covered(q)'
      <4>1. CASE RowsOf(folder[q]) # {}
        <5>1. PICK b \in BookIds : Stored(b) /\ shelfRow[b].content = folder[q]
          BY <4>1 DEF RowsOf
        <5>2. Stored(b)' /\ shelfRow'[b].content = folder[q]
          BY <1>0, <1>3, <5>1
        <5>3. QED
          BY <5>2 DEF Covered, RowsOf
      <4>2. CASE RowsAt(q) # {}
        <5>1. PICK b \in BookIds : Stored(b) /\ shelfRow[b].path = q
          BY <4>2 DEF RowsAt
        <5>2. folder[q] = shelfRow[b].content
          BY <1>1, <5>1 DEF FolderInv, WholeScan, RowsHold
        <5>3. Stored(b)' /\ shelfRow'[b].content = folder[q]
          BY <1>0, <1>3, <5>1, <5>2
        <5>4. QED
          BY <5>3 DEF Covered, RowsOf
      <4>3. CASE Stored(<<q, folder[q]>>)
        <5>1. <<q, folder[q]>> \in BookIds
          BY <1>1 DEF FolderTypes, BookIds
        <5>2. Stored(<<q, folder[q]>>)'
          BY <1>3, <4>3, <5>1
        <5>3. QED
          BY <5>2 DEF Covered
      <4>4. QED
        BY <3>1, <4>1, <4>2, <4>3 DEF Covered
    <3>2. CASE InHand(q) /\ q = worker[w].path
      <4>1. id \in RowsAt(q)'
        BY <1>1, <1>3, <3>2 DEF RowsAt
      <4>2. QED
        BY <4>1 DEF Covered
    <3>3. CASE InHand(q) /\ q # worker[w].path
      BY <1>1, <1>2, <3>3 DEF InHand, Keeps, Holds, Reports
    <3>4. Covered(q) \/ InHand(q)
      BY DEF FolderInv, WholeScan, FilesSeen
    <3>5. QED
      BY <3>1, <3>2, <3>3, <3>4
  <2>5. QED
    BY <2>1, <2>2, <2>3, <2>4 DEF WholeScan
<1>12. scan'.pc = "import"
  BY <1>1 DEF Reports
<1>13. QED
  BY <1>1, <1>4, <1>6, <1>7, <1>8, <1>9, <1>10, <1>11, <1>12, WorkerStepKeeps

(* And a goroutine whose file gets none.                                   *)
LEMMA FilePassedOver ==
    ASSUME FolderInv, Scanning, NEW w \in ScanWorkers, worker[w].pc # "idle", Rests(w),
           UNCHANGED <<folder, shelfRow, ignored, listed, scan, upload, removal, serving, strayed, unlisted, used>>,
           scan.whole => Covered(worker[w].path)
    PROVE  FolderInv'
<1>1. FolderTypes /\ scan.pc = "import"
  BY DEF FolderInv, GateHeld, WorkersRest
<1>2. /\ worker' \in [ScanWorkers -> {AtRest} \cup Hashings] /\ worker'[w].pc = "idle"
      /\ \A v \in ScanWorkers : v # w => worker'[v] = worker[v]
  BY <1>1, Rested
<1>3. FolderTypes'
  BY <1>1, <1>2 DEF FolderTypes
<1>4. RowsApart' /\ RowsHaveFiles'
  BY SameRowsApart, SameRowsFiled DEF FolderInv
<1>5. HashedHere'
  BY <1>2 DEF FolderInv, HashedHere, Hashed, Stored
<1>6. Listing' /\ ReportsRows'
  BY SameListing DEF FolderInv, ReportsRows, Reported, Stored
<1>7. WholeScan'
  <2>1. CASE scan.whole
    BY <1>2, <2>1, StillWhole
  <2>2. CASE ~scan.whole
    BY <2>2, UnsettledScan
  <2>3. QED
    BY <2>1, <2>2
<1>8. QED
  BY <1>1, <1>3, <1>4, <1>5, <1>6, <1>7, WorkerStepKeeps

LEMMA ReconcilesKeeps ==
    ASSUME FolderInv, NEW w \in ScanWorkers, Reconciles(w)
    PROVE  FolderInv'
<1> DEFINE id  == worker[w].id
           row == [path |-> worker[w].path, content |-> shelfRow[id].content, cover |-> shelfRow[id].cover]
<1>1. /\ FolderTypes /\ worker[w].pc = "elsewhere" /\ worker[w] \in Hashings /\ Rests(w)
      /\ UNCHANGED <<folder, ignored, listed, upload, removal, serving, strayed, used>>
      /\ Scanning
  BY WorkerKinds DEF Reconciles, FolderInv, Scanning
<1>2. id \in BookIds /\ Stored(id) /\ shelfRow[id].content = worker[w].content
  BY <1>1 DEF FolderInv, HashedHere, Hashed, Hashings
<1>3. CASE RowsAt(worker[w].path) # {}
  <2>1. UNCHANGED <<shelfRow, scan, unlisted>> /\ Covered(worker[w].path)
    BY <1>3 DEF Reconciles, Covered
  <2>2. QED
    BY <1>1, <2>1, FilePassedOver
<1>4. CASE RowsAt(worker[w].path) = {}
  <2>1. shelfRow[id] \in [path : EPUBPaths, content : Contents, cover : BOOLEAN]
    BY <1>1, <1>2, StoredTyped
  <2>2. row \in [path : EPUBPaths, content : Contents, cover : BOOLEAN]
    BY <1>1, <2>1 DEF Hashings
  <2>3. shelfRow' = [shelfRow EXCEPT ![id].path = worker[w].path]
    BY <1>4 DEF Reconciles
  <2>4. Puts(id, row)
    <3>1. [shelfRow[id] EXCEPT !.path = worker[w].path] = row
      BY <2>1
    <3>2. shelfRow' = [shelfRow EXCEPT ![id] = [shelfRow[id] EXCEPT !.path = worker[w].path]]
      BY <1>1, <1>2, <2>3 DEF FolderTypes, Tables
    <3>3. QED
      BY <3>1, <3>2 DEF Puts
  <2>5. Reports(id)
    <3>1. \/ scan' = [scan EXCEPT !.changed = @ \cup {id}] /\ UNCHANGED unlisted
          \/ unlisted' = unlisted \cup {id} /\ UNCHANGED scan
      BY <1>4 DEF Reconciles
    <3>2. QED
      BY <1>1, <1>2, <3>1, Reporting
  <2>6. row.path = worker[w].path /\ row.content = worker[w].content
    BY <1>2
  <2> HIDE DEF row
  <2>7. QED
    BY <1>1, <1>2, <1>4, <2>2, <2>4, <2>5, <2>6, RowComes DEF id
<1>5. QED
  BY <1>3, <1>4

LEMMA ImportsKeeps ==
    ASSUME FolderInv, NEW w \in ScanWorkers, Imports(w)
    PROVE  FolderInv'
<1> DEFINE me == worker[w]
<1>1. /\ FolderTypes /\ me.pc = "new" /\ me \in Hashings /\ Rests(w)
      /\ UNCHANGED <<folder, ignored, listed, upload, removal, serving, strayed, used>>
      /\ Scanning
  BY WorkerKinds DEF Imports, FolderInv, Scanning
<1>2. me.id = <<me.path, me.content>> /\ me.id \in BookIds
  BY <1>1 DEF FolderInv, HashedHere, Hashed, Hashings
<1>3. CASE folder[me.path] # NoFile /\ MayInsert(me.id, me.path, me.content)
  <2>1. PICK cover \in BOOLEAN :
           shelfRow' = [shelfRow EXCEPT ![me.id] = [path |-> me.path, content |-> me.content, cover |-> cover]]
    BY <1>3 DEF Imports, Inserted
  <2> DEFINE row == [path |-> me.path, content |-> me.content, cover |-> cover]
  <2>2. row \in [path : EPUBPaths, content : Contents, cover : BOOLEAN]
    BY <1>1 DEF Hashings
  <2>3. Puts(me.id, row)
    BY <2>1 DEF Puts
  <2>4. Reports(me.id)
    <3>1. \/ scan' = [scan EXCEPT !.imported = @ \cup {me.id}] /\ UNCHANGED unlisted
          \/ unlisted' = unlisted \cup {me.id} /\ UNCHANGED scan
      BY <1>3 DEF Imports
    <3>2. QED
      BY <1>1, <1>2, <3>1, Reporting
  <2>5. row.path = me.path /\ row.content = me.content
    OBVIOUS
  <2>6. RowsAt(me.path) = {} /\ ~Stored(me.id)
    BY <1>3 DEF MayInsert
  <2> HIDE DEF row
  <2>7. QED
    BY <1>1, <2>2, <2>3, <2>4, <2>5, <2>6, RowComes
<1>4. CASE ~(folder[me.path] # NoFile /\ MayInsert(me.id, me.path, me.content))
  <2>1. UNCHANGED <<shelfRow, scan, unlisted>>
    BY <1>4 DEF Imports
  <2>2. ASSUME scan.whole PROVE Covered(me.path)
    <3>1. folder[me.path] = me.content /\ me.content # NoFile
      BY <1>1, <2>2, FolderAssumption DEF FolderInv, WholeScan, HashesHold, Hashings
    <3>2. QED
      BY <1>2, <1>4, <3>1 DEF MayInsert, Covered
  <2>3. QED
    BY <1>1, <2>1, <2>2, FilePassedOver
<1>5. QED
  BY <1>3, <1>4

LEMMA ScanCanceledKeeps ==
    ASSUME FolderInv, ScanCanceled
    PROVE  FolderInv'
<1>1. /\ FolderTypes /\ scan.pc # "off"
      /\ UNCHANGED <<folder, shelfRow, ignored, listed, worker, upload, removal, serving, strayed, unlisted, used>>
  BY DEF ScanCanceled, FolderInv
<1>2. /\ scan' \in FolderScans /\ scan'.pc = scan.pc /\ scan'.left = {}
      /\ scan'.imported = scan.imported /\ scan'.changed = scan.changed /\ ~scan'.whole
  BY <1>1 DEF ScanCanceled, FolderTypes, FolderScans
<1>3. FolderTypes' /\ GateHeld'
  BY <1>1, <1>2 DEF FolderInv, FolderTypes, GateHeld, NoUploads, NoRemoval, WorkersRest
<1>4. RowsApart' /\ RowsHaveFiles' /\ WholeScan'
  BY <1>1, <1>2, SameRowsApart, SameRowsFiled, UnsettledScan DEF FolderInv
<1>5. HashedHere'
  BY <1>1, <1>2 DEF FolderInv, HashedHere, Hashed, Stored
<1>6. Listing' /\ ReportsRows'
  BY <1>1, <1>2, SameListing DEF FolderInv, ReportsRows, Reported, Stored
<1>7. HeldAlone' /\ UnlinksOwn'
  BY ScanAlone, NoneHeld DEF Scanning
<1>8. QED
  BY <1>3, <1>4, <1>5, <1>6, <1>7 DEF FolderInv

(* The scan moves on, or ends without a profile, and its tables stay.      *)
LEMMA PhaseEnds ==
    ASSUME FolderInv, Scanning, scan.pc # "off", scan.left = {}, WorkersRest, scan'.pc # "import",
           scan' \in FolderScans, scan'.pc = "off" => ~serving,
           scan'.left = {}, scan'.known = scan.known, scan'.whole = scan.whole, Reported' = Reported,
           UNCHANGED <<folder, shelfRow, ignored, listed, worker, upload, removal, serving, strayed, unlisted, used>>
    PROVE  FolderInv'
<1>1. NoUploads /\ NoRemoval
  BY ScanAlone
<1>2. FolderTypes' /\ GateHeld'
  BY <1>1 DEF FolderInv, FolderTypes, GateHeld, NoUploads, NoRemoval, WorkersRest
<1>3. RowsApart' /\ RowsHaveFiles'
  BY SameRowsApart, SameRowsFiled DEF FolderInv
<1>4. HashedHere'
  BY <1>2, NothingHashed
<1>5. HeldAlone' /\ UnlinksOwn'
  BY <1>1, NoneHeld
<1>6. Listing' /\ ReportsRows'
  <2>1. CASE scan'.pc # "off"
    BY <2>1, SameListing DEF FolderInv, ReportsRows, Stored
  <2>2. CASE scan'.pc = "off"
    BY <2>2 DEF Listing, ReportsRows
  <2>3. QED
    BY <2>1, <2>2
<1>7. WholeScan'
  <2> SUFFICES ASSUME scan.whole PROVE WholeScan'
    BY DEF WholeScan
  <2>1. NoRemoval' /\ KeptHere' /\ KeptCovered' /\ KeptApart' /\ RowsHold' /\ HashesHold'
    BY DEF FolderInv, WholeScan, NoRemoval, KeptHere, KeptCovered, KeptApart, RowsHold, HashesHold,
           Keeps, Holds, Covered, RowsAt, RowsOf, Stored
  <2>2. FilesSeen'
    BY DEF FolderInv, WholeScan, FilesSeen, InHand, Keeps, Holds, Covered, RowsAt, RowsOf, Stored
  <2>3. QED
    BY <2>1, <2>2 DEF WholeScan
<1>8. QED
  BY <1>2, <1>3, <1>4, <1>5, <1>6, <1>7 DEF FolderInv

LEMMA WalkEndsKeeps ==
    ASSUME FolderInv, WalkEnds
    PROVE  FolderInv'
<1>1. /\ FolderTypes /\ scan.pc # "off" /\ scan.left = {} /\ WorkersRest /\ Scanning
      /\ UNCHANGED <<folder, shelfRow, ignored, listed, worker, upload, removal, serving, strayed, unlisted, used>>
  BY DEF WalkEnds, WalkDone, WorkersRest, FolderInv, Scanning
<1>2. PICK pc \in {"covers", "warm", "off"} :
          scan' = [scan EXCEPT !.pc = pc] /\ (pc = "off" => ~serving)
  BY DEF WalkEnds
<1>3. /\ scan' \in FolderScans /\ scan'.pc = pc /\ scan'.left = {} /\ scan'.known = scan.known
      /\ scan'.whole = scan.whole /\ Reported' = Reported
  BY <1>1, <1>2 DEF FolderTypes, FolderScans, Reported
<1>4. scan'.pc # "import" /\ (scan'.pc = "off" => ~serving)
  BY <1>2, <1>3
<1>5. QED
  BY <1>1, <1>3, <1>4, PhaseEnds

LEMMA CoversEndKeeps ==
    ASSUME FolderInv, CoversEnd
    PROVE  FolderInv'
<1>1. /\ FolderTypes /\ scan.pc # "off" /\ scan.left = {} /\ WorkersRest /\ Scanning
      /\ UNCHANGED <<folder, shelfRow, ignored, listed, worker, upload, removal, serving, strayed, unlisted, used>>
  BY DEF CoversEnd, GateHeld, FolderInv, Scanning
<1>2. PICK pc \in {"warm", "off"} : scan' = [scan EXCEPT !.pc = pc] /\ (pc = "off" => ~serving)
  BY DEF CoversEnd
<1>3. /\ scan' \in FolderScans /\ scan'.pc = pc /\ scan'.left = {} /\ scan'.known = scan.known
      /\ scan'.whole = scan.whole /\ Reported' = Reported
  BY <1>1, <1>2 DEF FolderTypes, FolderScans, Reported
<1>4. scan'.pc # "import" /\ (scan'.pc = "off" => ~serving)
  BY <1>2, <1>3
<1>5. QED
  BY <1>1, <1>3, <1>4, PhaseEnds

LEMMA BackfillKeeps ==
    ASSUME FolderInv, NEW id \in BookIds, Backfill(id)
    PROVE  FolderInv'
<1>0. PICK found \in BOOLEAN : found
  OBVIOUS
<1> DEFINE row == [path |-> shelfRow[id].path, content |-> shelfRow[id].content, cover |-> found]
<1>1. /\ FolderTypes /\ scan.pc = "covers" /\ scan.left = {} /\ WorkersRest /\ Stored(id)
      /\ UNCHANGED <<folder, ignored, listed, worker, upload, removal, serving, strayed, used>>
      /\ NoUploads /\ NoRemoval
  BY ScanAlone DEF Backfill, GateHeld, FolderInv, Scanning
<1>2. shelfRow[id] \in [path : EPUBPaths, content : Contents, cover : BOOLEAN]
  BY <1>1, StoredTyped
<1>3. row \in [path : EPUBPaths, content : Contents, cover : BOOLEAN]
  BY <1>2
<1>4. Puts(id, row)
  <2>1. [shelfRow[id] EXCEPT !.cover = found] = row
    BY <1>2
  <2>2. shelfRow' = [shelfRow EXCEPT ![id] = [shelfRow[id] EXCEPT !.cover = found]]
    BY <1>0, <1>1 DEF Backfill, FolderTypes, Tables
  <2>3. QED
    BY <2>1, <2>2 DEF Puts
<1>5. Reports(id)
  <2>1. \/ scan' = [scan EXCEPT !.changed = @ \cup {id}] /\ UNCHANGED unlisted
        \/ unlisted' = unlisted \cup {id} /\ UNCHANGED scan
    BY DEF Backfill
  <2>2. QED
    BY <1>1, <2>1, Reporting
<1>6. row.path = shelfRow[id].path /\ row.content = shelfRow[id].content
  OBVIOUS
<1> HIDE DEF row
<1>7. /\ shelfRow' \in Tables /\ shelfRow'[id] = row /\ Stored(id)'
      /\ \A b \in BookIds : b # id => shelfRow'[b] = shelfRow[b] /\ (Stored(b)' <=> Stored(b))
  BY <1>1, <1>3, <1>4, Putting
<1>8. \A b \in BookIds : /\ Stored(b)' <=> Stored(b)
                         /\ shelfRow'[b].path = shelfRow[b].path
                         /\ shelfRow'[b].content = shelfRow[b].content
  BY <1>1, <1>6, <1>7
<1>9. FolderTypes' /\ GateHeld'
  BY <1>1, <1>5, <1>7 DEF FolderInv, FolderTypes, GateHeld, Reports, NoUploads, NoRemoval, WorkersRest
<1>10. RowsApart' /\ RowsHaveFiles'
  BY <1>1, <1>8 DEF FolderInv, RowsApart, RowsHaveFiles
<1>11. HashedHere'
  BY <1>1, <1>5, <1>9, NothingHashed DEF Reports
<1>12. HeldAlone' /\ UnlinksOwn'
  BY <1>1, NoneHeld
<1>13. ReportsRows'
  <2>1. Reported \subseteq BookIds
    BY <1>1 DEF FolderTypes, FolderScans, Reported
  <2>2. \A b \in Reported' : b = id \/ (b \in Reported /\ Stored(b))
    BY <1>1, <1>5 DEF FolderInv, ReportsRows, Reports
  <2>3. QED
    BY <1>7, <2>1, <2>2 DEF ReportsRows
<1>14. Listing'
  <2> SUFFICES ASSUME serving, NEW b \in BookIds \ unlisted' PROVE UpToDate(b)'
    BY <1>1 DEF Listing
  <2>0. NoRemoval'
    BY <1>1 DEF NoRemoval
  <2>1. CASE b = id
    BY <1>1, <1>5, <2>0, <2>1 DEF UpToDate, Reports
  <2>2. CASE b # id
    <3>1. UpToDate(b)
      BY <1>5 DEF FolderInv, Listing, Reports
    <3>2. CASE listed[b] = shelfRow[b]
      BY <1>1, <1>7, <2>0, <2>2, <3>2 DEF UpToDate
    <3>3. CASE b \in Reported
      BY <1>1, <1>5, <2>0, <3>3 DEF UpToDate, Reports
    <3>4. QED
      BY <1>1, <3>1, <3>2, <3>3 DEF UpToDate, NoUploads, WillPublish
  <2>3. QED
    BY <2>1, <2>2
<1>15. WholeScan'
  <2> SUFFICES ASSUME scan.whole PROVE WholeScan'
    BY <1>5 DEF WholeScan, Reports
  <2>1. NoRemoval' /\ KeptHere' /\ KeptCovered' /\ KeptApart' /\ HashesHold'
    BY <1>1 DEF NoRemoval, NoUploads, WorkersRest, KeptHere, KeptCovered, KeptApart, HashesHold, Keeps, Holds, Claims
  <2>2. RowsHold'
    BY <1>1, <1>5, <1>8 DEF FolderInv, WholeScan, RowsHold, Reports
  <2>3. FilesSeen'
    <3> SUFFICES ASSUME NEW q \in EPUBPaths \ (ignored \cup scan.known), folder[q] # NoFile
                 PROVE  Covered(q)'
      BY <1>1, <1>5 DEF FilesSeen, Reports
    <3>1. Covered(q)
      BY <1>1 DEF FolderInv, WholeScan, FilesSeen, InHand, WorkersRest, NoUploads, Keeps, Holds, Claims
    <3>2. RowsOf(folder[q])' = RowsOf(folder[q]) /\ RowsAt(q)' = RowsAt(q)
      BY <1>1, <1>8 DEF RowsOf, RowsAt
    <3>3. <<q, folder[q]>> \in BookIds
      BY <1>1 DEF FolderTypes, BookIds
    <3>4. QED
      BY <1>1, <1>8, <3>1, <3>2, <3>3 DEF Covered
  <2>4. QED
    BY <2>1, <2>2, <2>3 DEF WholeScan
<1>16. QED
  BY <1>9, <1>10, <1>11, <1>12, <1>13, <1>14, <1>15 DEF FolderInv

LEMMA WarmBookKeeps ==
    ASSUME FolderInv, NEW id \in BookIds, WarmBook(id)
    PROVE  FolderInv'
<1>1. /\ FolderTypes /\ scan.pc = "warm" /\ scan.left = {} /\ WorkersRest /\ NoUploads /\ NoRemoval
      /\ Stored(id)
      /\ UNCHANGED <<folder, shelfRow, ignored, worker, upload, removal, serving, strayed, used>>
  BY ScanAlone DEF WarmBook, GateHeld, FolderInv, ReportsRows, Scanning
<1>2. /\ scan' \in FolderScans /\ scan'.pc = "warm" /\ scan'.left = {} /\ scan'.known = scan.known
      /\ scan'.whole = scan.whole
  BY <1>1 DEF WarmBook, FolderTypes, FolderScans
<1>3. Reported' = Reported \ {id}
  BY <1>1 DEF WarmBook, FolderTypes, FolderScans, Reported
<1>4. \/ listed' = [listed EXCEPT ![id] = shelfRow[id]] /\ UNCHANGED unlisted
      \/ UNCHANGED listed /\ unlisted' = unlisted \cup {id}
  BY <1>1 DEF WarmBook
<1>5. listed' \in Tables /\ unlisted' \subseteq BookIds /\ unlisted \subseteq unlisted'
  BY <1>1, <1>4 DEF FolderTypes, Tables
<1>6. FolderTypes' /\ GateHeld'
  BY <1>1, <1>2, <1>5 DEF FolderInv, FolderTypes, GateHeld, NoUploads, NoRemoval, WorkersRest
<1>7. RowsApart' /\ RowsHaveFiles'
  BY <1>1, SameRowsApart, SameRowsFiled DEF FolderInv
<1>8. HashedHere' /\ HeldAlone' /\ UnlinksOwn'
  BY <1>1, <1>2, <1>6, NothingHashed, NoneHeld
<1>9. ReportsRows'
  BY <1>1, <1>3 DEF FolderInv, ReportsRows, Stored
<1>10. Listing'
  <2> SUFFICES ASSUME serving, NEW b \in BookIds \ unlisted' PROVE UpToDate(b)'
    BY <1>1 DEF Listing
  <2>0. NoRemoval'
    BY <1>1 DEF NoRemoval
  <2>1. CASE b = id
    BY <1>1, <1>4, <2>0, <2>1 DEF UpToDate, FolderTypes, Tables
  <2>2. CASE b # id
    <3>1. UpToDate(b)
      BY <1>5 DEF FolderInv, Listing
    <3>2. listed'[b] = listed[b]
      BY <1>1, <1>4, <2>2 DEF FolderTypes, Tables
    <3>3. QED
      BY <1>1, <1>2, <1>3, <2>0, <2>2, <3>1, <3>2 DEF UpToDate, NoUploads, WillPublish
  <2>3. QED
    BY <2>1, <2>2
<1>11. WholeScan'
  <2> SUFFICES ASSUME scan.whole PROVE WholeScan'
    BY <1>2 DEF WholeScan
  <2>1. NoRemoval' /\ KeptHere' /\ KeptCovered' /\ KeptApart' /\ RowsHold' /\ HashesHold'
    BY <1>1, <1>2 DEF FolderInv, WholeScan, NoRemoval, KeptHere, KeptCovered, KeptApart, RowsHold, HashesHold,
           Keeps, Holds, Covered, RowsAt, RowsOf, Stored
  <2>2. FilesSeen'
    BY <1>1, <1>2 DEF FolderInv, WholeScan, FilesSeen, InHand, Keeps, Holds, Covered, RowsAt, RowsOf, Stored
  <2>3. QED
    BY <2>1, <2>2 DEF WholeScan
<1>12. QED
  BY <1>6, <1>7, <1>8, <1>9, <1>10, <1>11 DEF FolderInv

(* The scan is over, and every book is as it is listed.                    *)
LEMMA ScanOver ==
    ASSUME FolderInv, Scanning, scan.pc = "warm",
           scan' = [scan EXCEPT !.pc = "off", !.imported = {}, !.changed = {}],
           listed' \in Tables, unlisted' \subseteq BookIds, serving' \in BOOLEAN,
           UNCHANGED <<folder, shelfRow, ignored, worker, upload, removal, strayed, used>>,
           \A id \in BookIds \ unlisted' : listed'[id] = shelfRow[id]
    PROVE  FolderInv'
<1>1. /\ FolderTypes /\ scan.left = {} /\ WorkersRest /\ NoUploads /\ NoRemoval
  BY ScanAlone DEF GateHeld, FolderInv
<1>2. /\ scan' \in FolderScans /\ scan'.pc = "off" /\ scan'.left = {} /\ scan'.known = scan.known
      /\ scan'.whole = scan.whole
  BY <1>1 DEF FolderTypes, FolderScans
<1>3. FolderTypes' /\ GateHeld'
  BY <1>1, <1>2 DEF FolderInv, FolderTypes, GateHeld, NoUploads, NoRemoval, WorkersRest
<1>4. RowsApart' /\ RowsHaveFiles'
  BY <1>1, SameRowsApart, SameRowsFiled DEF FolderInv
<1>5. HashedHere' /\ HeldAlone' /\ UnlinksOwn'
  BY <1>1, <1>2, <1>3, NothingHashed, NoneHeld
<1>6. ReportsRows' /\ Listing'
  BY <1>1, <1>2 DEF ReportsRows, Listing, UpToDate, NoRemoval
<1>7. WholeScan'
  <2> SUFFICES ASSUME scan.whole PROVE WholeScan'
    BY <1>2 DEF WholeScan
  <2>1. NoRemoval' /\ KeptHere' /\ KeptCovered' /\ KeptApart' /\ RowsHold' /\ HashesHold'
    BY <1>1, <1>2 DEF FolderInv, WholeScan, NoRemoval, KeptHere, KeptCovered, KeptApart, RowsHold, HashesHold,
           Keeps, Holds, Covered, RowsAt, RowsOf, Stored
  <2>2. FilesSeen'
    BY <1>1, <1>2 DEF FolderInv, WholeScan, FilesSeen, InHand, Keeps, Holds, Covered, RowsAt, RowsOf, Stored
  <2>3. QED
    BY <2>1, <2>2 DEF WholeScan
<1>8. QED
  BY <1>3, <1>4, <1>5, <1>6, <1>7 DEF FolderInv

LEMMA RescanEndsKeeps ==
    ASSUME FolderInv, RescanEnds
    PROVE  FolderInv'
<1>1. NoUploads /\ NoRemoval
  BY ScanAlone DEF Scanning
<1>2. \A id \in BookIds \ unlisted' : listed'[id] = shelfRow[id]
  BY <1>1 DEF RescanEnds, FolderInv, Listing, UpToDate, NoUploads, WillPublish
<1>3. QED
  BY <1>2, ScanOver DEF RescanEnds, FolderInv, FolderTypes, Scanning

LEMMA ProfileOpensKeeps ==
    ASSUME FolderInv, ProfileOpens
    PROVE  FolderInv'
BY ScanOver DEF ProfileOpens, FolderInv, FolderTypes, Scanning

(* Uploads run while no scan does.                                         *)
LEMMA UploadsOpen ==
    ASSUME FolderInv, NEW u \in Uploads, upload[u].pc # "idle"
    PROVE  /\ FolderTypes /\ serving /\ scan.pc = "off" /\ scan.left = {} /\ WorkersRest
BY DEF FolderInv, GateHeld, NoUploads

LEMMA OpenStepKeeps ==
    ASSUME FolderInv, serving, scan.pc = "off", UNCHANGED <<scan, worker, removal, serving>>,
           FolderTypes', RowsApart', HeldAlone', UnlinksOwn', Listing', WholeScan', RowsHaveFiles'
    PROVE  FolderInv'
<1>1. GateHeld'
  BY DEF FolderInv, GateHeld, WorkersRest
<1>2. HashedHere' /\ ReportsRows'
  BY <1>1, NothingHashed DEF ReportsRows
<1>3. QED
  BY <1>1, <1>2 DEF FolderInv

(* One upload moves to another state.                                      *)
Turns(u, next) == upload' = [upload EXCEPT ![u] = next]

LEMMA Turning ==
    ASSUME FolderTypes, NEW u \in Uploads, NEW next \in UploadStates, Turns(u, next)
    PROVE  /\ upload' \in [Uploads -> UploadStates] /\ upload'[u] = next
           /\ \A v \in Uploads : v # u => upload'[v] = upload[v]
BY DEF FolderTypes, Turns

(* Neither the folder nor the tables change: the upload has no file, or    *)
(* its file has a book.                                                    *)
LEMMA UploadRests ==
    ASSUME FolderInv, serving, scan.pc = "off", NEW u \in Uploads, NEW next \in UploadStates, Turns(u, next),
           upload[u].pc \notin Claims, next.pc \notin Claims \cup {"found", "redundant", "imported"},
           UNCHANGED <<folder, shelfRow, ignored, scan, worker, removal, serving, strayed>>,
           used' \in [scans : Nat, acts : Nat], listed' \in Tables, unlisted \subseteq unlisted',
           unlisted' \subseteq BookIds, Listing'
    PROVE  FolderInv'
<1>1. /\ upload' \in [Uploads -> UploadStates] /\ upload'[u] = next
      /\ \A v \in Uploads : v # u => upload'[v] = upload[v]
  BY Turning DEF FolderInv
<1>2. FolderTypes'
  BY <1>1 DEF FolderInv, FolderTypes
<1>3. RowsApart' /\ RowsHaveFiles'
  BY SameRowsApart, SameRowsFiled DEF FolderInv
<1>4. \A v \in Uploads : Keeps(v)' => v # u /\ Keeps(v) /\ (Holds(v)' <=> Holds(v))
  BY <1>1 DEF Keeps, Holds
<1>5. HeldAlone'
  <2>1. ASSUME NEW v \in Uploads PROVE Own(v)'
    BY <1>1, <1>4 DEF FolderInv, HeldAlone, Own, RowsAt, Stored, Keeps, Holds
  <2>2. QED
    BY <1>1, <1>4, <2>1 DEF FolderInv, HeldAlone, Keeps
<1>6. UnlinksOwn'
  BY <1>1, <1>4 DEF FolderInv, UnlinksOwn, NoRemoval, RowsAt, Stored, Keeps
<1>7. WholeScan'
  <2> SUFFICES ASSUME scan.whole PROVE WholeScan'
    BY DEF WholeScan
  <2>0. NoRemoval /\ FilesSeen /\ HashesHold /\ KeptHere /\ KeptCovered /\ KeptApart
    BY DEF FolderInv, WholeScan
  <2>1. NoRemoval' /\ HashesHold' /\ RowsHold'
    BY <2>0 DEF NoRemoval, HashesHold, RowsHold
  <2>2. KeptHere' /\ KeptApart'
    BY <1>1, <1>4, <2>0 DEF KeptHere, KeptApart
  <2>3. \A q : Covered(q)' <=> Covered(q)
    BY DEF Covered, RowsAt, RowsOf, Stored
  <2>4. KeptCovered'
    BY <1>1, <1>4, <2>0, <2>3 DEF KeptCovered, Keeps, Holds
  <2>5. FilesSeen'
    <3> SUFFICES ASSUME NEW q \in EPUBPaths \ (ignored \cup scan.known), folder[q] # NoFile, ~Covered(q)
                 PROVE  InHand(q)'
      BY <2>3 DEF FilesSeen
    <3>1. InHand(q)
      BY <2>0 DEF FilesSeen
    <3>2. \A v \in Uploads : Keeps(v) /\ upload[v].path = q => v # u
      BY <2>0 DEF KeptCovered, Keeps, Holds
    <3>3. \A v \in Uploads : v # u => (Keeps(v)' <=> Keeps(v)) /\ upload'[v].path = upload[v].path
      BY <1>1 DEF Keeps, Holds
    <3>4. QED
      BY <3>1, <3>2, <3>3 DEF InHand
  <2>6. QED
    BY <2>1, <2>2, <2>4, <2>5 DEF WholeScan
<1>8. QED
  BY <1>2, <1>3, <1>5, <1>6, <1>7, OpenStepKeeps

(* The upload goes on with the file it has placed.                         *)
LEMMA UploadGoesOn ==
    ASSUME FolderInv, serving, scan.pc = "off", NEW u \in Uploads, NEW next \in UploadStates, Turns(u, next),
           Holds(u), upload[u].pc # "redundant",
           next.pc \in Claims \cup {"found", "redundant", "imported"},
           next.path = upload[u].path, next.content = upload[u].content,
           UNCHANGED <<folder, shelfRow, scan, worker, removal, serving, strayed, used>>,
           ignored' \subseteq ignored, ignored \subseteq ignored' \cup {upload[u].path},
           next.pc \in {"cleared", "allowed", "unclaimed", "new"} /\ next.path \notin strayed
               => next.path \notin ignored',
           scan.whole /\ next.pc \notin Claims => Covered(next.path),
           listed' \in Tables, UNCHANGED unlisted, Listing'
    PROVE  FolderInv'
<1>1. /\ upload' \in [Uploads -> UploadStates] /\ upload'[u] = next
      /\ \A v \in Uploads : v # u => upload'[v] = upload[v]
  BY Turning DEF FolderInv
<1>2. FolderTypes'
  BY <1>1 DEF FolderInv, FolderTypes
<1>3. RowsApart' /\ RowsHaveFiles'
  BY SameRowsApart, SameRowsFiled DEF FolderInv
<1>4. \A v \in Uploads : /\ Holds(v)' => Holds(v)
                         /\ Keeps(v)' <=> Keeps(v)
                         /\ upload'[v].path = upload[v].path /\ upload'[v].content = upload[v].content
  BY <1>1 DEF Keeps, Holds
<1>5. HeldAlone'
  <2>1. ASSUME NEW v \in Uploads PROVE Own(v)'
    <3>1. Own(v)
      BY DEF FolderInv, HeldAlone
    <3>2. CASE v = u
      BY <1>1, <1>4, <3>1, <3>2 DEF Own, RowsAt, Stored
    <3>3. CASE v # u
      BY <1>1, <1>4, <3>1, <3>3 DEF Own, RowsAt, Stored
    <3>4. QED
      BY <3>2, <3>3
  <2>2. QED
    BY <1>4, <2>1 DEF FolderInv, HeldAlone
<1>6. UnlinksOwn'
  BY <1>4 DEF FolderInv, UnlinksOwn, NoRemoval, RowsAt, Stored
<1>7. WholeScan'
  <2> SUFFICES ASSUME scan.whole PROVE WholeScan'
    BY DEF WholeScan
  <2>0. NoRemoval /\ FilesSeen /\ HashesHold /\ KeptHere /\ KeptCovered /\ KeptApart
    BY DEF FolderInv, WholeScan
  <2>1. NoRemoval' /\ HashesHold' /\ RowsHold'
    BY <2>0 DEF NoRemoval, HashesHold, RowsHold
  <2>2. KeptHere' /\ KeptApart'
    BY <1>4, <2>0 DEF KeptHere, KeptApart
  <2>3. \A q : Covered(q)' <=> Covered(q)
    BY DEF Covered, RowsAt, RowsOf, Stored
  <2>4. KeptCovered'
    <3>1. ASSUME NEW v \in Uploads, upload'[v].pc \in {"found", "redundant", "imported"}
          PROVE  Covered(upload[v].path)
      BY <1>1, <2>0, <3>1 DEF KeptCovered, Claims
    <3>2. QED
      BY <1>4, <2>3, <3>1 DEF KeptCovered
  <2>5. FilesSeen'
    <3> SUFFICES ASSUME NEW q \in EPUBPaths \ (ignored' \cup scan.known), folder[q] # NoFile, ~Covered(q)
                 PROVE  InHand(q)'
      BY <2>3 DEF FilesSeen
    <3>1. CASE q = upload[u].path
      BY <1>4, <3>1 DEF InHand, Keeps
    <3>2. CASE q # upload[u].path
      <4>1. InHand(q)
        BY <2>0, <3>2 DEF FilesSeen
      <4>2. QED
        BY <1>4, <4>1 DEF InHand
    <3>3. QED
      BY <3>1, <3>2
  <2>6. QED
    BY <2>1, <2>2, <2>4, <2>5 DEF WholeScan
<1>8. QED
  BY <1>2, <1>3, <1>5, <1>6, <1>7, OpenStepKeeps

(* The upload takes the file it has placed away.                           *)
LEMMA UploadUnlinks ==
    ASSUME FolderInv, NEW u \in Uploads, Holds(u), Answered(u),
           folder' = [folder EXCEPT ![upload[u].path] = NoFile],
           UNCHANGED <<shelfRow, ignored, listed, scan, worker, removal, serving, strayed, unlisted, used>>
    PROVE  FolderInv'
<1>0. PICK file \in EPUBPaths : file = upload[u].path
  BY UploadKinds DEF Holds, FolderInv, Claiming, Decided
<1>1. FolderTypes /\ serving /\ scan.pc = "off" /\ upload[u].pc # "imported" /\ AtRest \in UploadStates
  BY UploadsOpen DEF Holds, Claims, UploadStates
<1>2. /\ upload' \in [Uploads -> UploadStates] /\ upload'[u] = AtRest
      /\ \A v \in Uploads : v # u => upload'[v] = upload[v]
  BY <1>1, Turning DEF Turns, Answered
<1>3. /\ folder' \in [EPUBPaths -> Contents \cup {NoFile}] /\ folder'[file] = NoFile
      /\ \A q \in EPUBPaths : q # file => folder'[q] = folder[q]
  BY <1>0, <1>1 DEF FolderTypes
<1>4. FolderTypes'
  BY <1>1, <1>2, <1>3 DEF FolderTypes
<1>5. RowsApart'
  BY SameRowsApart DEF FolderInv
<1>6. file \notin strayed => RowsAt(file) = {} /\ \A v \in Uploads : Holds(v) /\ upload[v].path = file => v = u
  BY <1>0 DEF FolderInv, HeldAlone, Own
<1>7. RowsHaveFiles'
  <2> SUFFICES ASSUME NEW id \in BookIds, Stored(id), shelfRow[id].path \notin strayed
               PROVE  folder'[shelfRow[id].path] = shelfRow[id].content /\ shelfRow[id].path \notin ignored
    BY DEF RowsHaveFiles, Stored
  <2>1. shelfRow[id].path \in EPUBPaths /\ shelfRow[id].path # file
    BY <1>1, <1>6, StoredTyped DEF RowsAt
  <2>2. QED
    BY <1>3, <2>1 DEF FolderInv, RowsHaveFiles
<1>8. \A v \in Uploads : Keeps(v)' => /\ v # u /\ Keeps(v) /\ (Holds(v)' <=> Holds(v)) /\ upload'[v] = upload[v]
                                      /\ upload[v].path \in EPUBPaths
  <2>1. \A v \in Uploads : Keeps(v)' => v # u
    BY <1>2 DEF Keeps, Holds, Claims, AtRest
  <2>2. \A v \in Uploads : Keeps(v) => upload[v].path \in EPUBPaths
    BY <1>1, UploadKinds DEF Keeps, Holds, Claiming, Decided
  <2>3. QED
    BY <1>2, <2>1, <2>2 DEF Keeps, Holds
<1>9. HeldAlone'
  <2>1. ASSUME NEW v \in Uploads PROVE Own(v)'
    <3> SUFFICES ASSUME Holds(v)', upload[v].path \notin strayed PROVE Own(v)'
      BY <1>8 DEF Own, Keeps
    <3>1. v # u /\ Holds(v) /\ upload'[v] = upload[v] /\ upload[v].path \in EPUBPaths
      BY <1>8 DEF Keeps
    <3>2. upload[v].path # file
      BY <1>6, <3>1
    <3>3. QED
      BY <1>3, <3>1, <3>2 DEF FolderInv, HeldAlone, Own, RowsAt, Stored
  <2>2. QED
    BY <1>8, <2>1 DEF FolderInv, HeldAlone, Keeps
<1>10. UnlinksOwn'
  <2> SUFFICES ASSUME ~NoRemoval, removal.id \notin unlisted, removal.path \notin strayed
               PROVE  /\ RowsAt(removal.path) = {} /\ folder'[removal.path] # NoFile
                      /\ \A v \in Uploads : Holds(v)' => upload'[v].path # removal.path
    BY DEF UnlinksOwn, NoRemoval, RowsAt, Stored
  <2>1. /\ RowsAt(removal.path) = {} /\ folder[removal.path] # NoFile
        /\ \A v \in Uploads : Holds(v) => upload[v].path # removal.path
    BY DEF FolderInv, UnlinksOwn
  <2>2. removal.path \in EPUBPaths
    BY <1>1 DEF FolderTypes, Deletions, NoRemoval, AtRest
  <2>3. QED
    BY <1>0, <1>3, <1>8, <2>1, <2>2 DEF Keeps
<1>11. Listing'
  BY <1>1, <1>2, SameListing DEF FolderInv
<1>12. WholeScan'
  <2> SUFFICES ASSUME scan.whole PROVE WholeScan'
    BY DEF WholeScan
  <2>0. NoRemoval /\ FilesSeen /\ HashesHold /\ KeptHere /\ KeptCovered /\ KeptApart /\ WorkersRest
    BY <1>1 DEF FolderInv, WholeScan, GateHeld
  <2>1. NoRemoval' /\ HashesHold' /\ RowsHold'
    BY <1>1, <2>0 DEF NoRemoval, HashesHold, RowsHold, WorkersRest
  <2>2. \A v \in Uploads : Keeps(v)' => upload[v].path # file
    BY <1>0, <1>8, <2>0 DEF KeptApart, Keeps
  <2>3. KeptHere' /\ KeptApart'
    BY <1>3, <1>8, <2>0, <2>2 DEF KeptHere, KeptApart
  <2>4. \A q \in EPUBPaths : q # file => (Covered(q)' <=> Covered(q))
    BY <1>3 DEF Covered, RowsAt, RowsOf, Stored
  <2>5. KeptCovered'
    <3> SUFFICES ASSUME NEW v \in Uploads, upload'[v].pc \in {"found", "redundant", "imported"}
                 PROVE  Covered(upload[v].path)'
      BY DEF KeptCovered
    <3>1. Keeps(v)'
      BY DEF Keeps, Holds
    <3>2. PICK q \in EPUBPaths : q = upload[v].path
      BY <1>8, <3>1
    <3>3. q # file /\ q = upload'[v].path /\ Covered(q)
      BY <1>8, <2>0, <2>2, <3>1, <3>2 DEF KeptCovered
    <3>4. Covered(q)'
      BY <2>4, <3>3
    <3>5. QED
      BY <3>3, <3>4
  <2>6. FilesSeen'
    <3> SUFFICES ASSUME NEW q \in EPUBPaths \ (ignored \cup scan.known), folder'[q] # NoFile, ~Covered(q)'
                 PROVE  InHand(q)'
      BY DEF FilesSeen
    <3>1. q # file /\ InHand(q)
      BY <1>3, <2>0, <2>4 DEF FilesSeen
    <3>2. \A v \in Uploads : v # u => (Keeps(v)' <=> Keeps(v)) /\ upload'[v].path = upload[v].path
      BY <1>2 DEF Keeps, Holds
    <3>3. QED
      BY <1>0, <3>1, <3>2 DEF InHand
  <2>7. QED
    BY <2>1, <2>3, <2>5, <2>6 DEF WholeScan
<1>13. QED
  BY <1>1, <1>4, <1>5, <1>7, <1>9, <1>10, <1>11, <1>12, OpenStepKeeps

LEMMA UploadBeginsKeeps ==
    ASSUME FolderInv, NEW u \in Uploads, UploadBegins(u)
    PROVE  FolderInv'
<1>1. /\ FolderTypes /\ serving /\ scan.pc = "off" /\ upload[u].pc = "idle"
      /\ UNCHANGED <<folder, shelfRow, ignored, listed, scan, worker, removal, serving, strayed, unlisted>>
  BY DEF UploadBegins, Shared, FolderInv, scanVars
<1>8. used' \in [scans : Nat, acts : Nat]
  <2>1. Count("acts")
    BY DEF UploadBegins
  <2>2. QED
    BY <2>1 DEF Count, FolderInv, FolderTypes
<1>2. PICK next \in Begun \cup Repeats : Turns(u, next)
  <2>1. PICK c \in Contents :
          \/ \E id \in RowsOf(c) :
                upload' = [upload EXCEPT ![u] = [AtRest EXCEPT !.pc = "duplicate", !.content = c, !.id = id]]
          \/ upload' = [upload EXCEPT ![u] = [AtRest EXCEPT !.pc = "placing", !.content = c]]
    BY DEF UploadBegins
  <2>2. CASE upload' = [upload EXCEPT ![u] = [AtRest EXCEPT !.pc = "placing", !.content = c]]
    <3>1. [AtRest EXCEPT !.pc = "placing", !.content = c] \in Begun
      BY DEF AtRest, Begun
    <3>2. QED
      BY <2>2, <3>1 DEF Turns
  <2>3. ASSUME NEW id \in RowsOf(c),
               upload' = [upload EXCEPT ![u] = [AtRest EXCEPT !.pc = "duplicate", !.content = c, !.id = id]]
        PROVE  \E next \in Begun \cup Repeats : Turns(u, next)
    <3>1. [AtRest EXCEPT !.pc = "duplicate", !.content = c, !.id = id] \in Repeats
      BY DEF AtRest, Repeats, RowsOf
    <3>2. QED
      BY <2>3, <3>1 DEF Turns
  <2>4. QED
    BY <2>1, <2>2, <2>3
<1>3. next \in UploadStates /\ next.pc \in {"placing", "duplicate"}
  BY DEF Begun, Repeats, UploadStates
<1>4. Listing'
  <2>1. \A v \in Uploads : upload[v].pc = "imported" => UNCHANGED upload[v]
    BY <1>1, <1>2, <1>3, Turning
  <2>2. QED
    BY <1>1, <2>1, SameListing DEF FolderInv
<1>5. /\ listed' \in Tables /\ unlisted' \subseteq BookIds /\ unlisted \subseteq unlisted'
  BY <1>1 DEF FolderTypes
<1>6. /\ upload[u].pc \notin Claims /\ next.pc \notin Claims \cup {"found", "redundant", "imported"}
  BY <1>1, <1>3 DEF Claims
<1>7. QED
  BY <1>1, <1>2, <1>3, <1>4, <1>5, <1>6, <1>8, UploadRests

LEMMA AnswersDuplicateKeeps ==
    ASSUME FolderInv, NEW u \in Uploads, AnswersDuplicate(u)
    PROVE  FolderInv'
<1>1. /\ FolderTypes /\ serving /\ scan.pc = "off" /\ upload[u].pc = "duplicate" /\ NoRemoval
      /\ upload[u].id \in BookIds /\ Turns(u, AtRest) /\ AtRest \in UploadStates
      /\ UNCHANGED <<folder, shelfRow, ignored, scan, worker, removal, serving, strayed, unlisted, used>>
  BY UploadsOpen, UploadKinds DEF AnswersDuplicate, Answered, Turns, UploadStates, Repeats, FolderInv, scanVars
<1>2. PICK id \in BookIds : id = upload[u].id
  BY <1>1
<1>3. UNCHANGED listed \/ listed' = [listed EXCEPT ![id] = shelfRow[id]]
  BY <1>2 DEF AnswersDuplicate
<1>4. /\ listed' \in Tables /\ \A b \in BookIds : listed'[b] = listed[b] \/ listed'[b] = shelfRow[b]
  BY <1>1, <1>3 DEF FolderTypes, Tables
<1>5. Listing'
  <2>1. \A b \in BookIds : WillPublish(b) => WillPublish(b)'
    BY <1>1, Turning DEF WillPublish
  <2> SUFFICES ASSUME NEW b \in BookIds \ unlisted PROVE UpToDate(b)'
    BY <1>1 DEF Listing
  <2>2. UpToDate(b)
    BY <1>1 DEF FolderInv, Listing
  <2>3. QED
    BY <1>1, <1>4, <2>1, <2>2 DEF UpToDate, NoRemoval
<1>6. used' \in [scans : Nat, acts : Nat] /\ unlisted' \subseteq BookIds /\ unlisted \subseteq unlisted'
  BY <1>1 DEF FolderTypes
<1>7. /\ upload[u].pc \notin Claims /\ AtRest.pc \notin Claims \cup {"found", "redundant", "imported"}
  BY <1>1 DEF Claims, AtRest
<1>8. QED
  BY <1>1, <1>4, <1>5, <1>6, <1>7, UploadRests

(* A step that changes nothing but an upload's state.                      *)
LEMMA QuietListing ==
    ASSUME FolderInv, NEW u \in Uploads, NEW next \in UploadStates, Turns(u, next), upload[u].pc # "imported",
           UNCHANGED <<shelfRow, listed, scan, removal, serving, unlisted>>
    PROVE  Listing'
<1>1. \A v \in Uploads : upload[v].pc = "imported" => UNCHANGED upload[v]
  BY Turning DEF FolderInv
<1>2. QED
  BY <1>1, SameListing DEF FolderInv, Reported

LEMMA ClearsTombstoneKeeps ==
    ASSUME FolderInv, NEW u \in Uploads, ClearsTombstone(u)
    PROVE  FolderInv'
<1> DEFINE next == [upload[u] EXCEPT !.pc = "cleared"]
<1>1. /\ FolderTypes /\ serving /\ scan.pc = "off" /\ upload[u].pc = "placed" /\ upload[u] \in Claiming
      /\ ignored' = ignored \ {upload[u].path}
      /\ UNCHANGED <<folder, shelfRow, listed, scan, worker, removal, serving, strayed, unlisted, used>>
  BY UploadsOpen, UploadKinds DEF ClearsTombstone, Claims, FolderInv, scanVars
<1>2. Turns(u, next)
  BY <1>1 DEF ClearsTombstone, Turns, FolderTypes
<1>3. /\ next \in UploadStates /\ next.pc = "cleared" /\ next.path = upload[u].path
      /\ next.content = upload[u].content
  BY <1>1 DEF Claiming, Claims, UploadStates
<1> HIDE DEF next
<1>4. Listing' /\ Holds(u) /\ listed' \in Tables /\ next.pc \in Claims
  BY <1>1, <1>2, <1>3, QuietListing DEF Holds, Claims, FolderTypes
<1>5. QED
  BY <1>1, <1>2, <1>3, <1>4, UploadGoesOn

LEMMA ChecksIgnoredKeeps ==
    ASSUME FolderInv, NEW u \in Uploads, ChecksIgnored(u)
    PROVE  FolderInv'
<1> DEFINE next == [upload[u] EXCEPT !.pc = "allowed"]
<1>1. /\ FolderTypes /\ serving /\ scan.pc = "off" /\ upload[u].pc = "cleared" /\ upload[u] \in Claiming
      /\ upload[u].path \notin ignored
      /\ UNCHANGED <<folder, shelfRow, ignored, listed, scan, worker, removal, serving, strayed, unlisted, used>>
  BY UploadsOpen, UploadKinds DEF ChecksIgnored, Claims, FolderInv, scanVars
<1>2. Turns(u, next)
  BY <1>1 DEF ChecksIgnored, Turns, FolderTypes
<1>3. /\ next \in UploadStates /\ next.pc = "allowed" /\ next.path = upload[u].path
      /\ next.content = upload[u].content
  BY <1>1 DEF Claiming, Claims, UploadStates
<1> HIDE DEF next
<1>4. Listing' /\ Holds(u) /\ listed' \in Tables /\ next.pc \in Claims
  BY <1>1, <1>2, <1>3, QuietListing DEF Holds, Claims, FolderTypes
<1>5. QED
  BY <1>1, <1>2, <1>3, <1>4, UploadGoesOn

(* The two lookups, and the insert that finds the content taken.           *)
LEMMA FindsBookKeeps ==
    ASSUME FolderInv, NEW u \in Uploads, upload[u].pc \in {"allowed", "unclaimed", "new"},
           NEW next \in UploadStates, Turns(u, next), next.path = upload[u].path, next.content = upload[u].content,
           next.pc \in {"unclaimed", "new", "found", "imported"},
           next.pc \in {"found", "imported"} =>
               RowsAt(upload[u].path) # {} \/ RowsOf(upload[u].content) # {},
           UNCHANGED <<folder, shelfRow, ignored, listed, scan, worker, removal, serving, strayed, unlisted, used>>
    PROVE  FolderInv'
<1>1. /\ FolderTypes /\ serving /\ scan.pc = "off" /\ Holds(u)
  BY UploadsOpen DEF Holds, Claims
<1>2. Listing' /\ listed' \in Tables
  BY <1>1, QuietListing DEF FolderTypes
<1>3. ASSUME scan.whole, next.pc \notin Claims PROVE Covered(next.path)
  BY <1>1, <1>3 DEF FolderInv, WholeScan, KeptHere, Keeps, Covered, Claims
<1>4. next.path \notin strayed => next.path \notin ignored
  BY <1>1 DEF FolderInv, HeldAlone, Own
<1>5. next.pc \in Claims \cup {"found", "redundant", "imported"} /\ upload[u].pc # "redundant"
  BY DEF Claims
<1>6. QED
  BY <1>1, <1>2, <1>3, <1>4, <1>5, UploadGoesOn

LEMMA ChecksKeep ==
    ASSUME FolderInv, NEW u \in Uploads, upload[u].pc \in {"allowed", "unclaimed"},
           NEW ids, NEW next \in {"unclaimed", "new"}, FindsBook(u, ids, next),
           ids = RowsAt(upload[u].path) \/ ids = RowsOf(upload[u].content)
    PROVE  FolderInv'
<1>2. /\ FolderTypes /\ upload[u] \in Claiming /\ ids \subseteq BookIds
      /\ UNCHANGED <<folder, shelfRow, ignored, listed, scan, worker, removal, serving, strayed, unlisted, used>>
  BY UploadKinds DEF FindsBook, Claims, FolderInv, RowsAt, RowsOf, scanVars
<1>3. CASE ids = {}
  <2> DEFINE me == [upload[u] EXCEPT !.pc = next]
  <2>1. Turns(u, me)
    BY <1>2, <1>3 DEF FindsBook, Turns, FolderTypes
  <2>2. me \in UploadStates /\ me.pc = next /\ me.path = upload[u].path /\ me.content = upload[u].content
    BY <1>2 DEF Claiming, Claims, UploadStates
  <2> HIDE DEF me
  <2>3. QED
    BY <1>2, <2>1, <2>2, FindsBookKeeps
<1>4. CASE ids # {}
  <2>1. PICK id \in ids : upload' = [upload EXCEPT ![u].pc = "found", ![u].id = id]
    BY <1>4 DEF FindsBook
  <2> DEFINE me == [upload[u] EXCEPT !.pc = "found", !.id = id]
  <2>2. Turns(u, me)
    BY <1>2, <2>1 DEF FolderTypes, Turns
  <2>3. me \in UploadStates /\ me.pc = "found" /\ me.path = upload[u].path /\ me.content = upload[u].content
    BY <1>2 DEF Claiming, Decided, UploadStates
  <2> HIDE DEF me
  <2>4. QED
    BY <1>2, <1>4, <2>2, <2>3, FindsBookKeeps
<1>5. QED
  BY <1>3, <1>4

LEMMA ChecksPathKeeps ==
    ASSUME FolderInv, NEW u \in Uploads, ChecksPath(u)
    PROVE  FolderInv'
<1>1. PICK ids : ids = RowsAt(upload[u].path)
  OBVIOUS
<1>2. upload[u].pc = "allowed" /\ FindsBook(u, ids, "unclaimed")
  BY <1>1 DEF ChecksPath, FindsBook
<1>3. QED
  BY <1>1, <1>2, ChecksKeep

LEMMA ChecksHashKeeps ==
    ASSUME FolderInv, NEW u \in Uploads, ChecksHash(u)
    PROVE  FolderInv'
<1>1. PICK ids : ids = RowsOf(upload[u].content)
  OBVIOUS
<1>2. upload[u].pc = "unclaimed" /\ FindsBook(u, ids, "new")
  BY <1>1 DEF ChecksHash, FindsBook
<1>3. QED
  BY <1>1, <1>2, ChecksKeep

LEMMA PlacesFileKeeps ==
    ASSUME FolderInv, NEW u \in Uploads, PlacesFile(u)
    PROVE  FolderInv'
<1>1. /\ FolderTypes /\ serving /\ scan.pc = "off" /\ WorkersRest /\ upload[u].pc = "placing" /\ upload[u] \in Begun
      /\ UNCHANGED <<shelfRow, ignored, listed, scan, worker, removal, serving, strayed, unlisted, used>>
  BY UploadsOpen, UploadKinds DEF PlacesFile, FolderInv, scanVars
<1>2. CASE Answered(u) /\ UNCHANGED folder
  <2>1. Turns(u, AtRest) /\ AtRest \in UploadStates
    BY <1>2 DEF Answered, Turns, UploadStates
  <2>2. Listing'
    BY <1>1, <2>1, QuietListing
  <2>3. /\ listed' \in Tables /\ unlisted' \subseteq BookIds /\ unlisted \subseteq unlisted'
        /\ used' \in [scans : Nat, acts : Nat]
    BY <1>1 DEF FolderTypes
  <2>4. upload[u].pc \notin Claims /\ AtRest.pc \notin Claims \cup {"found", "redundant", "imported"}
    BY <1>1 DEF Claims, AtRest
  <2>5. QED
    BY <1>1, <1>2, <2>1, <2>2, <2>3, <2>4, UploadRests
<1>3. ASSUME NEW p \in EPUBPaths, folder[p] = NoFile,
             folder' = [folder EXCEPT ![p] = upload[u].content],
             upload' = [upload EXCEPT ![u].pc = "placed", ![u].path = p]
      PROVE  FolderInv'
  <2> DEFINE next == [upload[u] EXCEPT !.pc = "placed", !.path = p]
  <2>1. Turns(u, next)
    BY <1>1, <1>3 DEF FolderTypes, Turns
  <2>2. next \in UploadStates /\ next.pc = "placed" /\ next.path = p /\ next.content = upload[u].content
    BY <1>1 DEF Begun, Claiming, Claims, UploadStates
  <2> HIDE DEF next
  <2>3. /\ upload' \in [Uploads -> UploadStates] /\ upload'[u] = next
        /\ \A v \in Uploads : v # u => upload'[v] = upload[v]
    BY <1>1, <2>1, <2>2, Turning
  <2>4. /\ folder' \in [EPUBPaths -> Contents \cup {NoFile}] /\ folder'[p] = upload[u].content
        /\ \A q \in EPUBPaths : q # p => folder'[q] = folder[q]
        /\ upload[u].content # NoFile
    BY <1>1, <1>3, FolderAssumption DEF FolderTypes, Begun
  <2>5. FolderTypes'
    BY <1>1, <2>3, <2>4 DEF FolderTypes
  <2>6. RowsApart'
    BY <1>1, SameRowsApart DEF FolderInv
  <2>7. p \notin strayed => RowsAt(p) = {} /\ \A v \in Uploads : Holds(v) => upload[v].path # p
    <3> SUFFICES ASSUME p \notin strayed
                 PROVE  RowsAt(p) = {} /\ \A v \in Uploads : Holds(v) => upload[v].path # p
      OBVIOUS
    <3>1. ASSUME NEW id \in BookIds, Stored(id), shelfRow[id].path = p PROVE FALSE
      BY <1>1, <1>3, <3>1, StoredTyped DEF FolderInv, RowsHaveFiles
    <3>2. ASSUME NEW v \in Uploads, Holds(v), upload[v].path = p PROVE FALSE
      <4>1. upload[v].content \in Contents
        BY <1>1, <3>2, UploadKinds DEF Holds, Claiming, Decided
      <4>2. QED
        BY <1>3, <3>2, <4>1, FolderAssumption DEF FolderInv, HeldAlone, Own
    <3>3. QED
      BY <3>1, <3>2 DEF RowsAt
  <2>8. RowsHaveFiles'
    <3> SUFFICES ASSUME NEW id \in BookIds, Stored(id), shelfRow[id].path \notin strayed
                 PROVE  folder'[shelfRow[id].path] = shelfRow[id].content /\ shelfRow[id].path \notin ignored
      BY <1>1 DEF RowsHaveFiles, Stored
    <3>1. shelfRow[id].path \in EPUBPaths /\ shelfRow[id].path # p
      BY <1>1, <2>7, StoredTyped DEF RowsAt
    <3>2. QED
      BY <2>4, <3>1 DEF FolderInv, RowsHaveFiles
  <2>9. \A v \in Uploads : v # u => /\ upload'[v] = upload[v]
                                    /\ Keeps(v)' <=> Keeps(v)
                                    /\ Holds(v)' <=> Holds(v)
                                    /\ Keeps(v) => upload[v].path \in EPUBPaths /\ upload[v].content # NoFile
    <3>1. \A v \in Uploads : Keeps(v) => upload[v].path \in EPUBPaths /\ upload[v].content \in Contents
      BY <1>1, UploadKinds DEF Keeps, Holds, Claiming, Decided
    <3>2. QED
      BY <2>3, <3>1, FolderAssumption DEF Keeps, Holds
  <2>10. HeldAlone'
    <3>1. Own(u)'
      BY <1>1, <2>2, <2>3, <2>4, <2>7 DEF Own, RowsAt, Stored
    <3>2. ASSUME NEW v \in Uploads, v # u PROVE Own(v)'
      <4> SUFFICES ASSUME Holds(v), upload[v].path \notin strayed PROVE Own(v)'
        BY <1>1, <2>9, <3>2 DEF Own
      <4>1. upload[v].path \in EPUBPaths /\ upload[v].path # p
        BY <2>7, <2>9, <3>2 DEF Keeps
      <4>2. QED
        BY <1>1, <2>4, <2>9, <3>2, <4>1 DEF FolderInv, HeldAlone, Own, RowsAt, Stored
    <3>3. QED
      BY <1>1, <2>2, <2>3, <2>7, <2>9, <3>1, <3>2 DEF FolderInv, HeldAlone
  <2>11. UnlinksOwn'
    <3> SUFFICES ASSUME ~NoRemoval, removal.id \notin unlisted, removal.path \notin strayed
                 PROVE  /\ RowsAt(removal.path) = {} /\ folder'[removal.path] # NoFile
                        /\ \A v \in Uploads : Holds(v)' => upload'[v].path # removal.path
      BY <1>1 DEF UnlinksOwn, NoRemoval, RowsAt, Stored
    <3>1. /\ RowsAt(removal.path) = {} /\ folder[removal.path] # NoFile
          /\ \A v \in Uploads : Holds(v) => upload[v].path # removal.path
      BY DEF FolderInv, UnlinksOwn
    <3>2. removal.path \in EPUBPaths /\ removal.path # p
      BY <1>1, <1>3, <3>1 DEF FolderTypes, Deletions, NoRemoval, AtRest
    <3>3. QED
      BY <2>2, <2>3, <2>4, <2>9, <3>1, <3>2
  <2>12. Listing'
    BY <1>1, <2>1, <2>2, QuietListing
  <2>13. WholeScan'
    <3> SUFFICES ASSUME scan.whole PROVE WholeScan'
      BY <1>1 DEF WholeScan
    <3>0. NoRemoval /\ FilesSeen /\ KeptHere /\ KeptCovered /\ KeptApart
      BY DEF FolderInv, WholeScan
    <3>1. NoRemoval' /\ HashesHold' /\ RowsHold'
      BY <1>1, <3>0 DEF NoRemoval, HashesHold, RowsHold, WorkersRest
    <3>2. \A v \in Uploads : Keeps(v) => upload[v].path # p
      BY <1>3, <2>9, <3>0, <1>1 DEF KeptHere, Keeps, Holds, Claims
    <3>3. ~Keeps(u) /\ Keeps(u)'
      BY <1>1, <2>2, <2>3 DEF Keeps, Holds, Claims
    <3>4. KeptHere' /\ KeptApart'
      BY <2>2, <2>3, <2>4, <2>9, <3>0, <3>2 DEF KeptHere, KeptApart
    <3>5. \A q \in EPUBPaths : q # p => (Covered(q)' <=> Covered(q))
      BY <1>1, <2>4 DEF Covered, RowsAt, RowsOf, Stored
    <3>6. KeptCovered'
      <4> SUFFICES ASSUME NEW v \in Uploads, upload'[v].pc \in {"found", "redundant", "imported"}
                   PROVE  Covered(upload[v].path)' /\ v # u
        BY <2>2, <2>3 DEF KeptCovered
      <4>1. v # u /\ Keeps(v)
        BY <2>2, <2>3 DEF Keeps, Holds
      <4>2. PICK q \in EPUBPaths : q = upload[v].path
        BY <2>9, <4>1
      <4>3. q # p /\ q = upload'[v].path /\ Covered(q)
        BY <2>9, <3>0, <3>2, <4>1, <4>2 DEF KeptCovered
      <4>4. Covered(q)'
        BY <3>5, <4>3
      <4>5. QED
        BY <4>1, <4>3, <4>4
    <3>7. FilesSeen'
      <4> SUFFICES ASSUME NEW q \in EPUBPaths \ (ignored \cup scan.known), folder'[q] # NoFile, ~Covered(q)'
                   PROVE  InHand(q)'
        BY <1>1 DEF FilesSeen
      <4>1. CASE q = p
        BY <2>2, <2>3, <3>3, <4>1 DEF InHand
      <4>2. CASE q # p
        <5>1. InHand(q)
          BY <2>4, <3>0, <3>5, <4>2 DEF FilesSeen
        <5>2. QED
          BY <1>1, <2>9, <3>3, <5>1 DEF InHand
      <4>3. QED
        BY <4>1, <4>2
    <3>8. QED
      BY <3>1, <3>4, <3>6, <3>7 DEF WholeScan
  <2>14. QED
    BY <1>1, <2>5, <2>6, <2>8, <2>10, <2>11, <2>12, <2>13, OpenStepKeeps
<1>4. QED
  BY <1>2, <1>3 DEF PlacesFile

LEMMA ImportFailsKeeps ==
    ASSUME FolderInv, NEW u \in Uploads, ImportFails(u)
    PROVE  FolderInv'
<1>1. Holds(u)
  BY DEF ImportFails, Holds, Claims
<1>2. QED
  BY <1>1, UploadUnlinks DEF ImportFails, scanVars

LEMMA RemovesCopyKeeps ==
    ASSUME FolderInv, NEW u \in Uploads, RemovesCopy(u)
    PROVE  FolderInv'
<1>1. /\ Holds(u) /\ FolderTypes /\ serving /\ scan.pc = "off" /\ upload[u].pc = "redundant"
      /\ UNCHANGED <<shelfRow, ignored, listed, scan, worker, removal, serving, strayed, unlisted, used>>
  BY UploadsOpen DEF RemovesCopy, Holds, scanVars
<1>2. CASE folder' = [folder EXCEPT ![upload[u].path] = NoFile]
  BY <1>1, <1>2, UploadUnlinks DEF RemovesCopy
<1>3. CASE UNCHANGED folder
  <2>1. Turns(u, AtRest) /\ AtRest \in UploadStates
    BY DEF RemovesCopy, Answered, Turns, UploadStates
  <2>2. Listing'
    BY <1>1, <2>1, QuietListing
  <2>3. /\ listed' \in Tables /\ unlisted' \subseteq BookIds /\ unlisted \subseteq unlisted'
        /\ used' \in [scans : Nat, acts : Nat]
    BY <1>1 DEF FolderTypes
  <2>4. upload[u].pc \notin Claims /\ AtRest.pc \notin Claims \cup {"found", "redundant", "imported"}
    BY <1>1 DEF Claims, AtRest
  <2>5. QED
    BY <1>1, <1>3, <2>1, <2>2, <2>3, <2>4, UploadRests
<1>4. QED
  BY <1>2, <1>3 DEF RemovesCopy

LEMMA PublishesKeeps ==
    ASSUME FolderInv, NEW u \in Uploads, Publishes(u)
    PROVE  FolderInv'
<1>0. PICK id \in BookIds : id = upload[u].id
  BY UploadKinds DEF Publishes, Decided, FolderInv
<1>1. /\ FolderTypes /\ serving /\ scan.pc = "off" /\ upload[u].pc \in {"imported", "found"}
      /\ upload[u] \in Decided /\ NoRemoval /\ NoRemoval'
      /\ UNCHANGED <<folder, shelfRow, ignored, scan, worker, removal, serving, strayed, used>>
  BY UploadsOpen, UploadKinds DEF Publishes, FolderInv, scanVars, NoRemoval
<1>2. /\ unlisted' \subseteq BookIds /\ unlisted \subseteq unlisted'
      /\ listed' \in Tables
      /\ \A b \in BookIds : b # id => listed'[b] = listed[b]
      /\ id \notin unlisted' => listed'[id] = shelfRow[id] \/ (~Stored(id) /\ listed'[id] = listed[id])
  <2>1. CASE Stored(id) /\ listed' = [listed EXCEPT ![id] = shelfRow[id]] /\ UNCHANGED unlisted
    BY <1>0, <1>1, <2>1 DEF FolderTypes, Tables
  <2>2. CASE ~Stored(id) /\ UNCHANGED <<listed, unlisted>>
    BY <1>0, <1>1, <2>2 DEF FolderTypes, Tables
  <2>3. CASE unlisted' = unlisted \cup {id} /\ UNCHANGED listed
    BY <1>0, <1>1, <2>3 DEF FolderTypes, Tables
  <2>4. QED
    BY <1>0, <2>1, <2>2, <2>3 DEF Publishes
<1>3. used' \in [scans : Nat, acts : Nat]
  BY <1>1 DEF FolderTypes
<1>4. ASSUME \A v \in Uploads : v # u => upload'[v] = upload[v] PROVE Listing'
  <2> SUFFICES ASSUME NEW b \in BookIds \ unlisted' PROVE UpToDate(b)'
    BY DEF Listing
  <2>1. UpToDate(b)
    BY <1>1, <1>2 DEF FolderInv, Listing
  <2>2. CASE b = id
    BY <1>0, <1>1, <1>2, <2>1, <2>2 DEF UpToDate, Stored
  <2>3. CASE b # id
    <3>1. WillPublish(b) => WillPublish(b)'
      BY <1>0, <1>4, <2>3 DEF WillPublish
    <3>2. QED
      BY <1>1, <1>2, <2>1, <2>3, <3>1 DEF UpToDate
  <2>4. QED
    BY <2>2, <2>3
<1>5. CASE Answered(u)
  <2>1. Turns(u, AtRest) /\ AtRest \in UploadStates
    BY <1>5 DEF Answered, Turns, UploadStates
  <2>2. Listing'
    BY <1>1, <1>4, <2>1, Turning
  <2>3. upload[u].pc \notin Claims /\ AtRest.pc \notin Claims \cup {"found", "redundant", "imported"}
    BY <1>1 DEF Claims, AtRest
  <2>4. QED
    BY <1>1, <1>2, <1>3, <2>1, <2>2, <2>3, UploadRests
<1>6. CASE ~Answered(u)
  <2> DEFINE next == [upload[u] EXCEPT !.pc = "redundant"]
  <2>1. /\ Turns(u, next) /\ upload[u].pc = "found" /\ UNCHANGED unlisted
    <3>1. /\ Stored(upload[u].id) /\ UNCHANGED unlisted
          /\ upload' = [upload EXCEPT ![u] =
                IF upload[u].pc = "imported" \/ shelfRow[upload[u].id].path = upload[u].path THEN AtRest
                ELSE next]
      BY <1>6 DEF Publishes
    <3>2. QED
      BY <1>1, <1>6, <3>1 DEF Answered, Turns
  <2>2. /\ next \in UploadStates /\ next.pc = "redundant" /\ next.path = upload[u].path
        /\ next.content = upload[u].content
    BY <1>1 DEF Decided, UploadStates
  <2> HIDE DEF next
  <2>3. Listing' /\ Holds(u)
    BY <1>1, <1>4, <2>1, <2>2, Turning DEF Holds
  <2>4. scan.whole => Covered(next.path)
    BY <1>1, <2>2 DEF FolderInv, WholeScan, KeptCovered
  <2>5. upload[u].pc # "redundant" /\ next.pc \in Claims \cup {"found", "redundant", "imported"}
    BY <2>1, <2>2
  <2>6. ignored' \subseteq ignored /\ ignored \subseteq ignored' \cup {upload[u].path}
        /\ next.pc \notin {"cleared", "allowed", "unclaimed", "new"}
    BY <1>1, <2>2
  <2>7. QED
    BY <1>1, <1>2, <2>1, <2>2, <2>3, <2>4, <2>5, <2>6, UploadGoesOn
<1>7. QED
  BY <1>5, <1>6

LEMMA InsertsBookKeeps ==
    ASSUME FolderInv, NEW u \in Uploads, InsertsBook(u)
    PROVE  FolderInv'
<1> DEFINE me == upload[u]
<1>1. /\ FolderTypes /\ serving /\ scan.pc = "off" /\ WorkersRest /\ me.pc = "new" /\ me \in Claiming
      /\ me.path \in EPUBPaths /\ me.content \in Contents /\ me.content # NoFile
      /\ UNCHANGED <<ignored, listed, scan, worker, removal, serving, used>>
  BY UploadsOpen, UploadKinds, FolderAssumption DEF InsertsBook, Claims, Claiming, FolderInv, scanVars
<1>2. PICK id \in BookIds : id = <<me.path, me.content>>
  BY <1>1 DEF BookIds
<1>3. Holds(u) /\ Keeps(u) /\ Own(u)
  BY <1>1 DEF Holds, Keeps, Claims, FolderInv, HeldAlone
<1>4. ASSUME NEW other \in RowsOf(me.content), NEW pc \in {"imported", "found"},
             upload' = [upload EXCEPT ![u].pc = pc, ![u].id = other],
             UNCHANGED <<folder, shelfRow, strayed, unlisted>>
      PROVE  FolderInv'
  <2> DEFINE next == [me EXCEPT !.pc = pc, !.id = other]
  <2>1. Turns(u, next)
    BY <1>1, <1>4 DEF FolderTypes, Turns
  <2>2. next \in UploadStates /\ next.pc = pc /\ next.path = me.path /\ next.content = me.content
    BY <1>1 DEF Claiming, Decided, UploadStates, RowsOf
  <2> HIDE DEF next
  <2>3. QED
    BY <1>1, <1>4, <2>1, <2>2, FindsBookKeeps
<1>5. ASSUME NEW cover \in BOOLEAN, MayInsert(id, me.path, me.content), folder[me.path] # NoFile,
             shelfRow' = [shelfRow EXCEPT ![id] = [path |-> me.path, content |-> me.content, cover |-> cover]],
             \/ /\ upload' = [upload EXCEPT ![u].pc = "imported", ![u].id = id]
                /\ UNCHANGED <<folder, strayed, unlisted>>
             \/ /\ folder' = [folder EXCEPT ![me.path] = NoFile] /\ Answered(u)
                /\ strayed' = strayed \cup {me.path} /\ unlisted' = unlisted \cup {id}
      PROVE  FolderInv'
  <2> DEFINE row == [path |-> me.path, content |-> me.content, cover |-> cover]
  <2>1. /\ row \in [path : EPUBPaths, content : Contents, cover : BOOLEAN] /\ Puts(id, row)
        /\ row.path = me.path /\ row.content = me.content
    BY <1>1, <1>5 DEF Puts
  <2> HIDE DEF row
  <2>2. /\ shelfRow' \in Tables /\ shelfRow'[id] = row /\ Stored(id)'
        /\ \A b \in BookIds : b # id => shelfRow'[b] = shelfRow[b] /\ (Stored(b)' <=> Stored(b))
    BY <1>1, <2>1, Putting
  <2>3. ~Stored(id) /\ RowsAt(me.path) = {} /\ RowsOf(me.content) = {}
    BY <1>5 DEF MayInsert
  <2>4. RowsApart'
    BY <2>1, <2>2, <2>3 DEF FolderInv, RowsApart, RowsAt
  <2>5. \A q \in EPUBPaths : q # me.path => RowsAt(q)' = RowsAt(q)
    BY <2>1, <2>2, <2>3 DEF RowsAt
  <2>6. \A v \in Uploads : Keeps(v) => upload[v].path \in EPUBPaths
    BY <1>1, UploadKinds DEF Keeps, Holds, Claiming, Decided
  <2>7. CASE /\ upload' = [upload EXCEPT ![u].pc = "imported", ![u].id = id]
             /\ UNCHANGED <<folder, strayed, unlisted>>
    <3>0. UNCHANGED <<folder, strayed, unlisted>>
      BY <2>7
    <3> DEFINE next == [me EXCEPT !.pc = "imported", !.id = id]
    <3>1. Turns(u, next)
      BY <1>1, <2>7 DEF FolderTypes, Turns
    <3>2. /\ next \in UploadStates /\ next.pc = "imported" /\ next.path = me.path /\ next.content = me.content
          /\ next.id = id
      BY <1>1 DEF Claiming, Decided, UploadStates
    <3> HIDE DEF next
    <3>3. /\ upload' \in [Uploads -> UploadStates] /\ upload'[u] = next
          /\ \A v \in Uploads : v # u => upload'[v] = upload[v]
      BY <1>1, <3>1, <3>2, Turning
    <3>4. FolderTypes'
      BY <1>1, <2>2, <3>0, <3>3 DEF FolderTypes
    <3>5. RowsHaveFiles'
      BY <1>1, <1>3, <2>1, <2>2, <3>0 DEF FolderInv, RowsHaveFiles, Own
    <3>6. \A v \in Uploads : /\ Holds(v)' => v # u /\ Holds(v)
                             /\ Keeps(v)' <=> Keeps(v)
                             /\ upload'[v].path = upload[v].path /\ upload'[v].content = upload[v].content
      BY <1>3, <3>2, <3>3 DEF Keeps, Holds, Claims
    <3>7. HeldAlone'
      <4>1. ASSUME NEW v \in Uploads PROVE Own(v)'
        <5> SUFFICES ASSUME Holds(v)', upload[v].path \notin strayed PROVE Own(v)'
          BY <3>0, <3>6 DEF Own
        <5>1. v # u /\ Holds(v) /\ upload[v].path # me.path /\ upload[v].path \in EPUBPaths /\ upload'[v] = upload[v]
          BY <1>3, <2>6, <3>3, <3>6 DEF FolderInv, HeldAlone, Keeps
        <5>2. QED
          BY <1>1, <2>5, <3>0, <5>1 DEF FolderInv, HeldAlone, Own
      <4>2. QED
        BY <3>0, <3>6, <4>1 DEF FolderInv, HeldAlone
    <3>8. UnlinksOwn'
      <4> SUFFICES ASSUME ~NoRemoval, removal.id \notin unlisted, removal.path \notin strayed
                   PROVE  /\ RowsAt(removal.path)' = {} /\ folder[removal.path] # NoFile
                          /\ \A v \in Uploads : Holds(v)' => upload'[v].path # removal.path
        BY <1>1, <3>0 DEF UnlinksOwn, NoRemoval, RowsAt, Stored
      <4>1. /\ RowsAt(removal.path) = {} /\ folder[removal.path] # NoFile
            /\ \A v \in Uploads : Holds(v) => upload[v].path # removal.path
        BY DEF FolderInv, UnlinksOwn
      <4>2. PICK q \in EPUBPaths : q = removal.path
        BY <1>1 DEF FolderTypes, Deletions, NoRemoval, AtRest
      <4>3. RowsAt(q)' = {}
        BY <1>3, <2>5, <4>1, <4>2
      <4>4. RowsAt(removal.path)' = {}
        BY <1>1, <4>2, <4>3 DEF RowsAt
      <4>5. QED
        BY <3>6, <4>1, <4>4
    <3>9. Listing'
      <4>1. \A b \in BookIds : WillPublish(b) => WillPublish(b)'
        BY <1>1, <3>3 DEF WillPublish
      <4>2. WillPublish(id)'
        BY <3>2, <3>3 DEF WillPublish
      <4> SUFFICES ASSUME NEW b \in BookIds \ unlisted PROVE UpToDate(b)'
        BY <3>0 DEF Listing
      <4>3. UpToDate(b)
        BY <1>1 DEF FolderInv, Listing
      <4>4. CASE b = id
        BY <1>1, <2>3, <4>2, <4>3, <4>4 DEF UpToDate, Stored, NoRemoval
      <4>5. CASE b # id
        BY <1>1, <2>2, <4>1, <4>3, <4>5 DEF UpToDate, NoRemoval
      <4>6. QED
        BY <4>4, <4>5
    <3>10. WholeScan'
      <4> SUFFICES ASSUME scan.whole PROVE WholeScan'
        BY <1>1 DEF WholeScan
      <4>0. NoRemoval /\ FilesSeen /\ KeptHere /\ KeptCovered /\ KeptApart
        BY DEF FolderInv, WholeScan
      <4>1. NoRemoval' /\ HashesHold' /\ RowsHold'
        BY <1>1, <4>0 DEF NoRemoval, HashesHold, RowsHold, WorkersRest
      <4>2. KeptHere' /\ KeptApart'
        BY <3>0, <3>6, <4>0 DEF KeptHere, KeptApart
      <4>3. \A q \in EPUBPaths : folder[q] # NoFile /\ Covered(q) => Covered(q)'
        <5> SUFFICES ASSUME NEW q \in EPUBPaths, folder[q] # NoFile, Covered(q) PROVE Covered(q)'
          OBVIOUS
        <5>1. RowsOf(folder[q]) \subseteq RowsOf(folder[q])' /\ RowsAt(q) \subseteq RowsAt(q)'
          BY <2>2, <2>3, <3>0 DEF RowsOf, RowsAt
        <5>2. Stored(<<q, folder[q]>>) => Stored(<<q, folder[q]>>)'
          <6>1. <<q, folder[q]>> \in BookIds
            BY <1>1 DEF FolderTypes, BookIds
          <6>2. QED
            BY <2>2, <3>0, <6>1
        <5>3. QED
          BY <5>1, <5>2 DEF Covered
      <4> PICK file \in EPUBPaths : file = me.path
        BY <1>1
      <4>4. Covered(file)'
        BY <2>1, <2>2 DEF Covered, RowsAt
      <4>5. KeptCovered'
        <5> SUFFICES ASSUME NEW v \in Uploads, upload'[v].pc \in {"found", "redundant", "imported"}
                     PROVE  Covered(upload[v].path)'
          BY DEF KeptCovered
        <5>1. Keeps(v)
          BY <3>6 DEF Keeps, Holds
        <5>2. PICK q \in EPUBPaths : q = upload[v].path
          BY <2>6, <5>1
        <5>3. q = upload'[v].path
          BY <3>6, <5>2
        <5>4. Covered(q)'
          <6>1. CASE v = u
            BY <4>4, <5>2, <6>1
          <6>2. CASE v # u
            <7>1. Covered(q)
              BY <3>3, <4>0, <5>2, <6>2 DEF KeptCovered
            <7>2. upload[v].content \in Contents
              BY <1>1, <5>1, UploadKinds DEF Keeps, Holds, Claiming, Decided
            <7>3. folder[q] # NoFile
              BY <4>0, <5>1, <5>2, <7>2, FolderAssumption DEF KeptHere
            <7>4. QED
              BY <4>3, <7>1, <7>3
          <6>3. QED
            BY <6>1, <6>2
        <5>5. QED
          BY <5>3, <5>4
      <4>6. FilesSeen'
        <5> SUFFICES ASSUME NEW q \in EPUBPaths \ (ignored \cup scan.known), folder[q] # NoFile, ~Covered(q)'
                     PROVE  InHand(q)'
          BY <1>1, <3>0 DEF FilesSeen
        <5>1. InHand(q)
          BY <4>0, <4>3 DEF FilesSeen
        <5>2. QED
          BY <1>1, <3>6, <5>1 DEF InHand
      <4>7. QED
        BY <4>1, <4>2, <4>5, <4>6 DEF WholeScan
    <3>11. QED
      BY <1>1, <2>4, <3>4, <3>5, <3>7, <3>8, <3>9, <3>10, OpenStepKeeps
  <2>8. CASE /\ folder' = [folder EXCEPT ![me.path] = NoFile] /\ Answered(u)
             /\ strayed' = strayed \cup {me.path} /\ unlisted' = unlisted \cup {id}
    <3>0. PICK file \in EPUBPaths : file = me.path
      BY <1>1
    <3>1. /\ upload' \in [Uploads -> UploadStates] /\ upload'[u] = AtRest
          /\ \A v \in Uploads : v # u => upload'[v] = upload[v]
      BY <1>1, <2>8, Turning DEF Turns, Answered, UploadStates
    <3>2. /\ folder' \in [EPUBPaths -> Contents \cup {NoFile}] /\ folder'[file] = NoFile
          /\ \A q \in EPUBPaths : q # file => folder'[q] = folder[q]
      BY <1>1, <2>8, <3>0 DEF FolderTypes
    <3>3. /\ strayed' = strayed \cup {file} /\ unlisted' = unlisted \cup {id}
      BY <2>8, <3>0
    <3>4. FolderTypes'
      BY <1>1, <2>2, <3>1, <3>2, <3>3 DEF FolderTypes
    <3>5. RowsHaveFiles'
      <4> SUFFICES ASSUME NEW b \in BookIds, Stored(b)', shelfRow'[b].path \notin strayed'
                   PROVE  folder'[shelfRow'[b].path] = shelfRow'[b].content /\ shelfRow'[b].path \notin ignored
        BY <1>1 DEF RowsHaveFiles
      <4>1. b # id /\ Stored(b) /\ shelfRow'[b] = shelfRow[b]
        BY <2>1, <2>2, <3>0, <3>3
      <4>2. shelfRow[b].path \in EPUBPaths /\ shelfRow[b].path # file
        BY <1>1, <3>3, <4>1, StoredTyped
      <4>3. QED
        BY <3>2, <3>3, <4>1, <4>2 DEF FolderInv, RowsHaveFiles
    <3>6. \A v \in Uploads : Keeps(v)' => v # u /\ Keeps(v) /\ upload'[v] = upload[v] /\ (Holds(v)' <=> Holds(v))
      <4>1. \A v \in Uploads : Keeps(v)' => v # u
        BY <3>1 DEF Keeps, Holds, Claims, AtRest
      <4>2. QED
        BY <3>1, <4>1 DEF Keeps, Holds
    <3>7. HeldAlone'
      <4>1. ASSUME NEW v \in Uploads PROVE Own(v)'
        <5> SUFFICES ASSUME Holds(v)', upload[v].path \notin strayed' PROVE Own(v)'
          BY <3>6 DEF Own, Keeps
        <5>1. /\ v # u /\ Holds(v) /\ upload[v].path # file /\ upload[v].path \in EPUBPaths
              /\ upload'[v] = upload[v] /\ upload[v].path \notin strayed
          BY <2>6, <3>3, <3>6 DEF Keeps
        <5>2. QED
          BY <1>1, <2>5, <3>0, <3>2, <5>1 DEF FolderInv, HeldAlone, Own
      <4>2. QED
        BY <3>3, <3>6, <4>1 DEF FolderInv, HeldAlone, Keeps
    <3>8. UnlinksOwn'
      <4> SUFFICES ASSUME ~NoRemoval, removal.id \notin unlisted, removal.path \notin strayed, removal.path # file
                   PROVE  /\ RowsAt(removal.path)' = {} /\ folder'[removal.path] # NoFile
                          /\ \A v \in Uploads : Holds(v)' => upload'[v].path # removal.path
        BY <1>1, <3>3 DEF UnlinksOwn, NoRemoval, RowsAt, Stored
      <4>1. /\ RowsAt(removal.path) = {} /\ folder[removal.path] # NoFile
            /\ \A v \in Uploads : Holds(v) => upload[v].path # removal.path
        BY DEF FolderInv, UnlinksOwn
      <4>2. PICK q \in EPUBPaths : q = removal.path
        BY <1>1 DEF FolderTypes, Deletions, NoRemoval, AtRest
      <4>3. RowsAt(q)' = {}
        BY <2>5, <3>0, <4>1, <4>2
      <4>4. RowsAt(removal.path)' = {}
        BY <1>1, <4>2, <4>3 DEF RowsAt
      <4>5. QED
        BY <3>2, <3>6, <4>1, <4>2, <4>4 DEF Keeps
    <3>9. Listing'
      <4>1. \A b \in BookIds : WillPublish(b) => WillPublish(b)'
        BY <1>1, <3>1 DEF WillPublish
      <4> SUFFICES ASSUME NEW b \in BookIds \ unlisted' PROVE UpToDate(b)'
        BY DEF Listing
      <4>2. UpToDate(b) /\ b # id
        BY <1>1, <3>3 DEF FolderInv, Listing
      <4>3. QED
        BY <1>1, <2>2, <4>1, <4>2 DEF UpToDate, NoRemoval
    <3>10. WholeScan'
      <4> SUFFICES ASSUME scan.whole PROVE WholeScan'
        BY <1>1 DEF WholeScan
      <4>0. NoRemoval /\ FilesSeen /\ KeptHere /\ KeptCovered /\ KeptApart
        BY DEF FolderInv, WholeScan
      <4>1. NoRemoval' /\ HashesHold' /\ RowsHold'
        BY <1>1, <4>0 DEF NoRemoval, HashesHold, RowsHold, WorkersRest
      <4>2. \A v \in Uploads : Keeps(v)' => upload[v].path \in EPUBPaths /\ upload[v].path # file
        BY <1>3, <2>6, <3>0, <3>6, <4>0 DEF KeptApart
      <4>3. KeptHere' /\ KeptApart'
        BY <3>2, <3>6, <4>0, <4>2 DEF KeptHere, KeptApart
      <4>4. \A q \in EPUBPaths : q # file /\ folder[q] # NoFile /\ Covered(q) => Covered(q)'
        <5> SUFFICES ASSUME NEW q \in EPUBPaths, q # file, folder[q] # NoFile, Covered(q) PROVE Covered(q)'
          OBVIOUS
        <5>1. folder'[q] = folder[q] /\ <<q, folder[q]>> \in BookIds
          BY <1>1, <3>2 DEF FolderTypes, BookIds
        <5>2. RowsOf(folder[q]) \subseteq RowsOf(folder[q])' /\ RowsAt(q) \subseteq RowsAt(q)'
          BY <2>2, <2>3, <5>1 DEF RowsOf, RowsAt
        <5>3. Stored(<<q, folder[q]>>) => Stored(<<q, folder[q]>>)'
          BY <2>2, <5>1
        <5>4. QED
          BY <5>2, <5>3 DEF Covered
      <4>5. KeptCovered'
        <5> SUFFICES ASSUME NEW v \in Uploads, upload'[v].pc \in {"found", "redundant", "imported"}
                     PROVE  Covered(upload[v].path)'
          BY DEF KeptCovered
        <5>1. Keeps(v)'
          BY DEF Keeps, Holds
        <5>2. Keeps(v) /\ upload'[v] = upload[v]
          BY <3>6, <5>1
        <5>3. PICK q \in EPUBPaths : q = upload[v].path
          BY <4>2, <5>1
        <5>4. Covered(q) /\ q # file /\ q = upload'[v].path
          BY <4>0, <4>2, <5>1, <5>2, <5>3 DEF KeptCovered
        <5>5. upload[v].content \in Contents
          BY <1>1, <5>2, UploadKinds DEF Keeps, Holds, Claiming, Decided
        <5>6. folder[q] # NoFile
          BY <4>0, <5>2, <5>3, <5>5, FolderAssumption DEF KeptHere
        <5>7. Covered(q)'
          BY <4>4, <5>4, <5>6
        <5>8. QED
          BY <5>4, <5>7
      <4>6. FilesSeen'
        <5> SUFFICES ASSUME NEW q \in EPUBPaths \ (ignored \cup scan.known), folder'[q] # NoFile, ~Covered(q)'
                     PROVE  InHand(q)'
          BY <1>1 DEF FilesSeen
        <5>1. q # file /\ InHand(q)
          BY <3>2, <4>0, <4>4 DEF FilesSeen
        <5>2. \A v \in Uploads : v # u => (Keeps(v)' <=> Keeps(v)) /\ upload'[v].path = upload[v].path
          BY <3>1 DEF Keeps, Holds
        <5>3. QED
          BY <1>1, <3>0, <5>1, <5>2 DEF InHand
      <4>7. QED
        BY <4>1, <4>3, <4>5, <4>6 DEF WholeScan
    <3>11. QED
      BY <1>1, <2>4, <3>4, <3>5, <3>7, <3>8, <3>9, <3>10, OpenStepKeeps
  <2>9. QED
    BY <1>5, <2>7, <2>8
<1>6. QED
  BY <1>2, <1>4, <1>5 DEF InsertsBook, Inserted

LEMMA ActCounted ==
    ASSUME FolderInv, Count("acts")
    PROVE  used' \in [scans : Nat, acts : Nat]
BY DEF Count, FolderInv, FolderTypes

LEMMA Unsettling ==
    ASSUME FolderTypes, Unsettles
    PROVE  /\ scan' \in FolderScans /\ scan'.pc = scan.pc /\ scan'.left = scan.left /\ ~scan'.whole
           /\ Reported' = Reported
BY DEF FolderTypes, FolderScans, Unsettles, Reported

LEMMA DeletesRowKeeps ==
    ASSUME FolderInv, NEW id \in BookIds, DeletesRow(id)
    PROVE  FolderInv'
<1>1. /\ FolderTypes /\ serving /\ scan.pc = "off" /\ NoRemoval /\ Stored(id)
      /\ UNCHANGED <<folder, listed, worker, upload, serving, strayed, unlisted>>
      /\ shelfRow' = [shelfRow EXCEPT ![id] = NoRow] /\ ignored' = ignored \cup {shelfRow[id].path}
      /\ Unsettles /\ Count("acts")
  BY DEF DeletesRow, Shared, FolderInv
<1>2. PICK file \in EPUBPaths : file = shelfRow[id].path
  BY <1>1, StoredTyped
<1>3. PICK at \in EPUBPaths : at = IF listed[id] # NoRow THEN listed[id].path ELSE shelfRow[id].path
  BY <1>1, <1>2 DEF FolderTypes, Tables, FolderRows
<1>4. removal' = [AtRest EXCEPT !.pc = "deleted", !.id = id, !.path = at]
  BY <1>3 DEF DeletesRow
<1>5. /\ removal' \in Deletions /\ removal'.pc = "deleted" /\ removal'.id = id /\ removal'.path = at
  BY <1>4 DEF AtRest, Deletions
<1>6. /\ shelfRow' \in Tables /\ ~Stored(id)'
      /\ \A b \in BookIds : b # id => shelfRow'[b] = shelfRow[b] /\ (Stored(b)' <=> Stored(b))
  BY <1>1 DEF FolderTypes, Tables, FolderRows, Stored
<1>7. FolderTypes'
  BY <1>1, <1>2, <1>5, <1>6, ActCounted, Unsettling DEF FolderTypes
<1>8. /\ scan' \in FolderScans /\ scan'.pc = "off" /\ scan'.left = scan.left /\ ~scan'.whole /\ ~NoRemoval'
  BY <1>1, <1>5, Unsettling DEF NoRemoval
<1>9. GateHeld'
  BY <1>1, <1>8 DEF FolderInv, GateHeld, WorkersRest
<1>10. HashedHere' /\ ReportsRows' /\ WholeScan'
  BY <1>8, <1>9, NothingHashed, UnsettledScan DEF ReportsRows
<1>11. RowsApart'
  BY <1>6 DEF FolderInv, RowsApart
<1>12. RowsHaveFiles'
  BY <1>1, <1>6 DEF FolderInv, RowsHaveFiles, RowsApart
<1>13. \A q \in EPUBPaths : RowsAt(q)' \subseteq RowsAt(q)
  BY <1>6 DEF RowsAt
<1>14. HeldAlone'
  <2>1. ASSUME NEW u \in Uploads PROVE Own(u)'
    <3> SUFFICES ASSUME Holds(u), upload[u].path \notin strayed PROVE Own(u)'
      BY <1>1 DEF Own, Holds
    <3>1. PICK q \in EPUBPaths : q = upload[u].path
      BY <1>1, UploadKinds DEF Holds, Claiming, Decided
    <3>2. Own(u) /\ RowsAt(q) = {}
      BY <3>1 DEF FolderInv, HeldAlone, Own
    <3>3. q # file
      BY <1>1, <1>2, <3>2 DEF RowsAt
    <3>4. RowsAt(q)' = {}
      BY <1>13, <3>2
    <3>5. RowsAt(upload[u].path)' = {}
      BY <1>1, <3>1, <3>4 DEF RowsAt
    <3>6. QED
      BY <1>1, <1>2, <3>1, <3>2, <3>3, <3>5 DEF Own
  <2>2. QED
    BY <1>1, <2>1 DEF FolderInv, HeldAlone, Holds
<1>15. UnlinksOwn'
  <2> SUFFICES ASSUME id \notin unlisted, at \notin strayed
               PROVE  /\ RowsAt(removal.path)' = {} /\ folder[at] # NoFile
                      /\ \A u \in Uploads : Holds(u) => upload[u].path # at
    BY <1>1, <1>5 DEF UnlinksOwn, Holds
  <2>1. UpToDate(id)
    BY <1>1 DEF FolderInv, Listing
  <2>2. at = file
    BY <1>1, <1>2, <1>3, <2>1 DEF UpToDate, Stored
  <2>3. RowsAt(at)' = {}
    BY <1>1, <1>2, <1>6, <2>2 DEF FolderInv, RowsApart, RowsAt
  <2>4. RowsAt(removal.path)' = {}
    BY <1>5, <2>3 DEF RowsAt
  <2>5. shelfRow[id].content # NoFile
    BY <1>1, StoredTyped
  <2>6. folder[at] # NoFile
    BY <1>1, <1>2, <2>2, <2>5 DEF FolderInv, RowsHaveFiles
  <2>7. ASSUME NEW u \in Uploads, Holds(u), upload[u].path = at PROVE FALSE
    BY <1>1, <1>2, <2>2, <2>7 DEF FolderInv, HeldAlone, Own, RowsAt
  <2>8. QED
    BY <2>4, <2>6, <2>7
<1>16. Listing'
  <2> SUFFICES ASSUME NEW b \in BookIds \ unlisted PROVE UpToDate(b)'
    BY <1>1 DEF Listing
  <2>1. UpToDate(b)
    BY <1>1 DEF FolderInv, Listing
  <2>2. WillPublish(b) => WillPublish(b)'
    BY <1>1 DEF WillPublish
  <2>3. CASE b = id
    BY <1>5, <1>6, <1>8, <2>3 DEF UpToDate
  <2>4. CASE b # id
    BY <1>1, <1>5, <1>6, <2>1, <2>2, <2>4 DEF UpToDate
  <2>5. QED
    BY <2>3, <2>4
<1>17. QED
  BY <1>7, <1>9, <1>10, <1>11, <1>12, <1>14, <1>15, <1>16 DEF FolderInv

LEMMA RemovesFileKeeps ==
    ASSUME FolderInv, RemovesFile
    PROVE  FolderInv'
<1>1. /\ FolderTypes /\ serving /\ scan.pc = "off" /\ WorkersRest /\ removal \in Deletions /\ ~NoRemoval
      /\ UNCHANGED <<shelfRow, ignored, scan, worker, upload, serving, unlisted, used>>
      /\ removal' = AtRest /\ listed' = [listed EXCEPT ![removal.id] = NoRow]
  BY DEF RemovesFile, FolderInv, FolderTypes, GateHeld, AtRest, NoRemoval, scanVars
<1>2. PICK file \in EPUBPaths, id \in BookIds : file = removal.path /\ id = removal.id
  BY <1>1 DEF Deletions
<1>3. /\ folder' = folder \/ folder' = [folder EXCEPT ![file] = NoFile]
      /\ strayed' = IF id \in unlisted THEN strayed \cup {file} ELSE strayed
  BY <1>2 DEF RemovesFile
<1>4. /\ folder' \in [EPUBPaths -> Contents \cup {NoFile}] /\ strayed' \subseteq EPUBPaths /\ strayed \subseteq strayed'
      /\ \A q \in EPUBPaths : q # file => folder'[q] = folder[q]
      /\ listed' \in Tables /\ listed'[id] = NoRow /\ \A b \in BookIds : b # id => listed'[b] = listed[b]
      /\ NoRemoval'
  BY <1>1, <1>2, <1>3 DEF FolderTypes, Tables, FolderRows, NoRemoval, AtRest
<1>5. FolderTypes'
  BY <1>1, <1>4 DEF FolderTypes
<1>6. GateHeld'
  BY <1>1, <1>4 DEF FolderInv, GateHeld, WorkersRest
<1>7. RowsApart'
  BY <1>1, SameRowsApart DEF FolderInv
<1>8. HashedHere' /\ ReportsRows' /\ UnlinksOwn'
  BY <1>1, <1>4, <1>6, NothingHashed DEF ReportsRows, UnlinksOwn
<1>9. WholeScan'
  BY <1>1 DEF FolderInv, WholeScan
<1>10. file \notin strayed' => RowsAt(file) = {} /\ \A u \in Uploads : Holds(u) => upload[u].path # file
  BY <1>1, <1>2, <1>3 DEF FolderInv, UnlinksOwn
<1>11. RowsHaveFiles'
  <2> SUFFICES ASSUME NEW b \in BookIds, Stored(b), shelfRow[b].path \notin strayed'
               PROVE  folder'[shelfRow[b].path] = shelfRow[b].content /\ shelfRow[b].path \notin ignored
    BY <1>1 DEF RowsHaveFiles, Stored
  <2>1. shelfRow[b].path \in EPUBPaths /\ shelfRow[b].path # file
    BY <1>1, <1>10, StoredTyped DEF RowsAt
  <2>2. QED
    BY <1>4, <2>1 DEF FolderInv, RowsHaveFiles
<1>12. HeldAlone'
  <2>1. ASSUME NEW u \in Uploads PROVE Own(u)'
    <3> SUFFICES ASSUME Holds(u), upload[u].path \notin strayed' PROVE Own(u)'
      BY <1>1 DEF Own, Holds
    <3>1. upload[u].path \in EPUBPaths /\ upload[u].path # file
      BY <1>1, <1>10, UploadKinds DEF Holds, Claiming, Decided
    <3>2. QED
      BY <1>1, <1>4, <3>1 DEF FolderInv, HeldAlone, Own, RowsAt, Stored
  <2>2. QED
    BY <1>1, <1>4, <2>1 DEF FolderInv, HeldAlone, Holds
<1>13. Listing'
  <2> SUFFICES ASSUME NEW b \in BookIds \ unlisted PROVE UpToDate(b)'
    BY <1>1 DEF Listing
  <2>1. UpToDate(b)
    BY <1>1 DEF FolderInv, Listing
  <2>2. WillPublish(b) => WillPublish(b)'
    BY <1>1 DEF WillPublish
  <2>3. CASE b = id
    BY <1>1, <1>2, <1>4, <2>1, <2>2, <2>3 DEF UpToDate, Stored
  <2>4. CASE b # id
    BY <1>1, <1>2, <1>4, <2>1, <2>2, <2>4 DEF UpToDate
  <2>5. QED
    BY <2>3, <2>4
<1>14. QED
  BY <1>5, <1>6, <1>7, <1>8, <1>9, <1>11, <1>12, <1>13 DEF FolderInv

LEMMA EditsBookKeeps ==
    ASSUME FolderInv, NEW id \in BookIds, NEW c \in Contents, EditsBook(id, c)
    PROVE  FolderInv'
<1>1. /\ FolderTypes /\ serving /\ scan.pc = "off" /\ NoRemoval /\ Stored(id) /\ listed[id] = shelfRow[id]
      /\ folder' = [folder EXCEPT ![shelfRow[id].path] = c]
      /\ shelfRow' = [shelfRow EXCEPT ![id].content = c]
      /\ listed' = [listed EXCEPT ![id] = shelfRow'[id]]
      /\ UNCHANGED <<ignored, worker, upload, removal, serving, strayed, unlisted>>
      /\ Unsettles /\ Count("acts")
  BY DEF EditsBook, Shared, FolderInv
<1>2. PICK file \in EPUBPaths : file = shelfRow[id].path
  BY <1>1, StoredTyped
<1> DEFINE row == [shelfRow[id] EXCEPT !.content = c]
<1>3. /\ row \in [path : EPUBPaths, content : Contents, cover : BOOLEAN]
      /\ row.path = file /\ row.content = c /\ Puts(id, row)
  <2>1. shelfRow[id] \in [path : EPUBPaths, content : Contents, cover : BOOLEAN]
    BY <1>1, StoredTyped
  <2>2. QED
    BY <1>1, <1>2, <2>1 DEF Puts, FolderTypes, Tables
<1> HIDE DEF row
<1>4. /\ shelfRow' \in Tables /\ shelfRow'[id] = row /\ Stored(id)'
      /\ \A b \in BookIds : b # id => shelfRow'[b] = shelfRow[b] /\ (Stored(b)' <=> Stored(b))
  BY <1>1, <1>3, Putting
<1>5. /\ folder' \in [EPUBPaths -> Contents \cup {NoFile}] /\ folder'[file] = c
      /\ \A q \in EPUBPaths : q # file => folder'[q] = folder[q]
  BY <1>1, <1>2 DEF FolderTypes
<1>6. /\ listed' \in Tables /\ listed'[id] = shelfRow'[id]
      /\ \A b \in BookIds : b # id => listed'[b] = listed[b]
  BY <1>1, <1>4 DEF FolderTypes, Tables
<1>7. FolderTypes'
  BY <1>1, <1>4, <1>5, <1>6, ActCounted, Unsettling DEF FolderTypes
<1>8. /\ scan'.pc = "off" /\ scan'.left = scan.left /\ ~scan'.whole /\ NoRemoval'
  BY <1>1, Unsettling DEF NoRemoval
<1>9. GateHeld'
  BY <1>1, <1>8 DEF FolderInv, GateHeld, WorkersRest, NoUploads
<1>10. HashedHere' /\ ReportsRows' /\ WholeScan' /\ UnlinksOwn'
  BY <1>8, <1>9, NothingHashed, UnsettledScan DEF ReportsRows, UnlinksOwn
<1>11. \A b \in BookIds : (Stored(b)' <=> Stored(b)) /\ shelfRow'[b].path = shelfRow[b].path
  BY <1>1, <1>2, <1>3, <1>4
<1>12. RowsApart'
  BY <1>11 DEF FolderInv, RowsApart
<1>13. RowsHaveFiles'
  <2> SUFFICES ASSUME NEW b \in BookIds, Stored(b), shelfRow[b].path \notin strayed
               PROVE  folder'[shelfRow[b].path] = shelfRow'[b].content /\ shelfRow[b].path \notin ignored
    BY <1>1, <1>11 DEF RowsHaveFiles
  <2>1. CASE b = id
    BY <1>1, <1>2, <1>3, <1>4, <1>5, <2>1 DEF FolderInv, RowsHaveFiles
  <2>2. CASE b # id
    <3>1. shelfRow[b].path \in EPUBPaths /\ shelfRow[b].path # file
      BY <1>1, <1>2, <2>2, StoredTyped DEF FolderInv, RowsApart
    <3>2. QED
      BY <1>4, <1>5, <2>2, <3>1 DEF FolderInv, RowsHaveFiles
  <2>3. QED
    BY <2>1, <2>2
<1>14. HeldAlone'
  <2>1. ASSUME NEW u \in Uploads PROVE Own(u)'
    <3> SUFFICES ASSUME Holds(u), upload[u].path \notin strayed PROVE Own(u)'
      BY <1>1 DEF Own, Holds
    <3>1. PICK q \in EPUBPaths : q = upload[u].path
      BY <1>1, UploadKinds DEF Holds, Claiming, Decided
    <3>2. Own(u) /\ RowsAt(q) = {}
      BY <3>1 DEF FolderInv, HeldAlone, Own
    <3>3. q # file
      BY <1>1, <1>2, <3>2 DEF RowsAt
    <3>4. RowsAt(q)' = {}
      BY <1>11, <3>2 DEF RowsAt
    <3>5. RowsAt(upload[u].path)' = {}
      BY <1>1, <3>1, <3>4 DEF RowsAt
    <3>6. QED
      BY <1>1, <1>5, <3>1, <3>2, <3>3, <3>5 DEF Own
  <2>2. QED
    BY <1>1, <2>1 DEF FolderInv, HeldAlone, Holds
<1>15. Listing'
  <2> SUFFICES ASSUME NEW b \in BookIds \ unlisted PROVE UpToDate(b)'
    BY <1>1 DEF Listing
  <2>1. UpToDate(b)
    BY <1>1 DEF FolderInv, Listing
  <2>2. WillPublish(b) => WillPublish(b)'
    BY <1>1 DEF WillPublish
  <2>3. CASE b = id
    BY <1>6, <1>8, <2>3 DEF UpToDate
  <2>4. CASE b # id
    BY <1>1, <1>4, <1>6, <1>8, <2>1, <2>2, <2>4 DEF UpToDate
  <2>5. QED
    BY <2>3, <2>4
<1>16. QED
  BY <1>7, <1>9, <1>10, <1>12, <1>13, <1>14, <1>15 DEF FolderInv

LEMMA ServerRestartsKeeps ==
    ASSUME FolderInv, ServerRestarts
    PROVE  FolderInv'
<1>1. /\ scan' = NoScan /\ worker' = [w \in ScanWorkers |-> AtRest] /\ upload' = [u \in Uploads |-> AtRest]
      /\ removal' = AtRest /\ ~serving' /\ listed' = [id \in BookIds |-> NoRow]
      /\ UNCHANGED <<folder, shelfRow, ignored, strayed, unlisted>> /\ Count("acts")
  BY DEF ServerRestarts
<1>2. NoScan \in FolderScans /\ NoScan.pc = "off" /\ NoScan.left = {} /\ ~NoScan.whole /\ AtRest.pc = "idle"
  BY DEF NoScan, FolderScans, AtRest
<1>3. listed' \in Tables /\ upload' \in [Uploads -> UploadStates] /\ serving' \in BOOLEAN
  BY <1>1 DEF Tables, FolderRows, UploadStates, ServerRestarts
<1>4. FolderTypes'
  BY <1>1, <1>2, <1>3, ActCounted DEF FolderInv, FolderTypes
<1>5. NoUploads' /\ NoRemoval' /\ WorkersRest' /\ GateHeld'
  BY <1>1, <1>2 DEF NoUploads, NoRemoval, WorkersRest, GateHeld
<1>6. RowsApart' /\ RowsHaveFiles' /\ WholeScan'
  BY <1>1, <1>2, SameRowsApart, SameRowsFiled, UnsettledScan DEF FolderInv
<1>7. HashedHere' /\ ReportsRows' /\ Listing' /\ UnlinksOwn'
  BY <1>1, <1>2, <1>5, NothingHashed DEF ReportsRows, Listing, UnlinksOwn
<1>8. HeldAlone'
  BY <1>5 DEF NoUploads, HeldAlone, Own, Holds, Claims
<1>9. QED
  BY <1>4, <1>5, <1>6, <1>7, <1>8 DEF FolderInv

(* The user's file manager, at any time.                                   *)
LEMMA FolderTouched ==
    ASSUME FolderInv, folder' \in [EPUBPaths -> Contents \cup {NoFile}],
           strayed \subseteq strayed', strayed' \subseteq EPUBPaths,
           \A p \in EPUBPaths : folder'[p] = folder[p] \/ folder[p] = NoFile \/ p \in strayed',
           Unsettles, Count("acts"),
           UNCHANGED <<shelfRow, ignored, listed, worker, upload, removal, serving, unlisted>>
    PROVE  FolderInv'
<1>1. FolderTypes /\ scan' \in FolderScans /\ scan'.pc = scan.pc /\ scan'.left = scan.left /\ ~scan'.whole
      /\ Reported' = Reported
  BY Unsettling DEF FolderInv
<1>2. FolderTypes'
  BY <1>1, ActCounted DEF FolderTypes
<1>3. GateHeld'
  BY <1>1 DEF FolderInv, GateHeld, WorkersRest, NoUploads, NoRemoval
<1>4. RowsApart' /\ WholeScan'
  BY <1>1, SameRowsApart, UnsettledScan DEF FolderInv
<1>5. HashedHere'
  <2>1. ASSUME NEW w \in ScanWorkers PROVE Hashed(w)'
    <3> SUFFICES ASSUME worker[w].pc # "idle" PROVE Hashed(w)'
      BY DEF Hashed
    <3>1. Hashed(w) /\ worker[w].path \in EPUBPaths /\ worker[w].content # NoFile
      BY <1>1, WorkerKinds, FolderAssumption DEF FolderInv, HashedHere, Hashings
    <3>2. QED
      BY <1>1, <3>1 DEF Hashed, Stored
  <2>2. QED
    BY <1>1, <2>1 DEF FolderInv, HashedHere
<1>6. RowsHaveFiles'
  <2> SUFFICES ASSUME NEW b \in BookIds, Stored(b), shelfRow[b].path \notin strayed'
               PROVE  folder'[shelfRow[b].path] = shelfRow[b].content /\ shelfRow[b].path \notin ignored
    BY DEF RowsHaveFiles, Stored
  <2>1. shelfRow[b].path \in EPUBPaths /\ shelfRow[b].content # NoFile
    BY <1>1, StoredTyped
  <2>2. QED
    BY <2>1 DEF FolderInv, RowsHaveFiles
<1>7. HeldAlone'
  <2>1. ASSUME NEW u \in Uploads PROVE Own(u)'
    <3> SUFFICES ASSUME Holds(u), upload[u].path \notin strayed' PROVE Own(u)'
      BY DEF Own, Holds
    <3>1. upload[u].path \in EPUBPaths /\ upload[u].content # NoFile
      BY <1>1, UploadKinds, FolderAssumption DEF Holds, Claiming, Decided
    <3>2. QED
      BY <3>1 DEF FolderInv, HeldAlone, Own, RowsAt, Stored
  <2>2. QED
    BY <2>1 DEF FolderInv, HeldAlone, Holds
<1>8. UnlinksOwn'
  <2> SUFFICES ASSUME ~NoRemoval, removal.id \notin unlisted, removal.path \notin strayed'
               PROVE  /\ RowsAt(removal.path) = {} /\ folder'[removal.path] # NoFile
                      /\ \A u \in Uploads : Holds(u) => upload[u].path # removal.path
    BY DEF UnlinksOwn, NoRemoval, RowsAt, Stored, Holds
  <2>1. removal.path \in EPUBPaths
    BY <1>1 DEF FolderTypes, Deletions, NoRemoval, AtRest
  <2>2. QED
    BY <2>1 DEF FolderInv, UnlinksOwn
<1>9. Listing' /\ ReportsRows'
  BY <1>1, SameListing DEF FolderInv, ReportsRows, Stored
<1>10. QED
  BY <1>2, <1>3, <1>4, <1>5, <1>6, <1>7, <1>8, <1>9 DEF FolderInv

LEMMA UserActsKeep ==
    ASSUME FolderInv, NEW p \in EPUBPaths,
           \/ \E q \in EPUBPaths : UserMoves(p, q)
           \/ UserDeletes(p) \/ \E c \in Contents : UserCopies(p, c)
    PROVE  FolderInv'
<1>1. FolderTypes
  BY DEF FolderInv
<1>2. ASSUME NEW q \in EPUBPaths, UserMoves(p, q) PROVE FolderInv'
  <2>1. /\ folder' \in [EPUBPaths -> Contents \cup {NoFile}]
        /\ strayed \subseteq strayed' /\ strayed' \subseteq EPUBPaths
        /\ \A x \in EPUBPaths : folder'[x] = folder[x] \/ folder[x] = NoFile \/ x \in strayed'
    BY <1>1, <1>2 DEF UserMoves, FolderTypes
  <2>2. QED
    BY <1>2, <2>1, FolderTouched DEF UserMoves
<1>3. CASE UserDeletes(p)
  <2>1. /\ folder' \in [EPUBPaths -> Contents \cup {NoFile}]
        /\ strayed \subseteq strayed' /\ strayed' \subseteq EPUBPaths
        /\ \A x \in EPUBPaths : folder'[x] = folder[x] \/ folder[x] = NoFile \/ x \in strayed'
    BY <1>1, <1>3 DEF UserDeletes, FolderTypes
  <2>2. QED
    BY <1>3, <2>1, FolderTouched DEF UserDeletes
<1>4. ASSUME NEW c \in Contents, UserCopies(p, c) PROVE FolderInv'
  <2>1. /\ folder' \in [EPUBPaths -> Contents \cup {NoFile}]
        /\ strayed \subseteq strayed' /\ strayed' \subseteq EPUBPaths
        /\ \A x \in EPUBPaths : folder'[x] = folder[x] \/ folder[x] = NoFile \/ x \in strayed'
    BY <1>1, <1>4 DEF UserCopies, FolderTypes
  <2>2. QED
    BY <1>4, <2>1, FolderTouched DEF UserCopies
<1>5. QED
  BY <1>2, <1>3, <1>4

(* FolderInv is inductive, and the two properties of the library follow.   *)
LEMMA FolderStarts ==
    ASSUME FolderInit
    PROVE  FolderInv
<1>1. NoScan \in FolderScans /\ NoScan.pc = "off" /\ NoScan.left = {} /\ ~NoScan.whole /\ AtRest.pc = "idle"
  BY DEF NoScan, FolderScans, AtRest
<1>2. shelfRow \in Tables /\ (\A id \in BookIds : ~Stored(id))
  BY DEF FolderInit, Tables, FolderRows, Stored
<1>3. NoUploads /\ NoRemoval /\ WorkersRest
  BY <1>1 DEF FolderInit, NoUploads, NoRemoval, WorkersRest
<1>4. FolderTypes
  <2>1. used \in [scans : Nat, acts : Nat]
    BY DEF FolderInit
  <2>2. upload \in [Uploads -> UploadStates] /\ worker \in [ScanWorkers -> {AtRest} \cup Hashings]
    BY DEF FolderInit, UploadStates
  <2>3. QED
    BY <1>1, <1>2, <2>1, <2>2 DEF FolderInit, FolderTypes
<1>5. GateHeld /\ HashedHere /\ UnlinksOwn
  BY <1>1, <1>3 DEF FolderInit, GateHeld, HashedHere, Hashed, WorkersRest, UnlinksOwn
<1>6. RowsApart /\ RowsHaveFiles
  BY <1>2 DEF RowsApart, RowsHaveFiles
<1>7. HeldAlone
  BY <1>3 DEF NoUploads, HeldAlone, Own, Holds, Claims
<1>8. Listing /\ ReportsRows /\ WholeScan
  BY <1>1 DEF FolderInit, Listing, ReportsRows, WholeScan
<1>9. QED
  BY <1>4, <1>5, <1>6, <1>7, <1>8 DEF FolderInv

LEMMA FolderStep ==
    ASSUME FolderInv, [FolderNext]_folderVars
    PROVE  FolderInv'
<1>1. CASE Scanning
  <2>1. CASE ScanBegins
    BY <2>1, ScanBeginsKeeps
  <2>2. CASE ScanCanceled
    BY <2>2, ScanCanceledKeeps
  <2>3. CASE WalkEnds
    BY <2>3, WalkEndsKeeps
  <2>4. CASE CoversEnd
    BY <2>4, CoversEndKeeps
  <2>5. CASE RescanEnds
    BY <2>5, RescanEndsKeeps
  <2>6. CASE ProfileOpens
    BY <2>6, ProfileOpensKeeps
  <2>7. ASSUME NEW w \in ScanWorkers, HashFile(w) \/ LooksUp(w) \/ Reconciles(w) \/ Imports(w) \/ GivesUp(w)
        PROVE  FolderInv'
    BY <2>7, HashFileKeeps, LooksUpKeeps, ReconcilesKeeps, ImportsKeeps, GivesUpKeeps
  <2>8. ASSUME NEW id \in BookIds, Backfill(id) \/ WarmBook(id) PROVE FolderInv'
    BY <2>8, BackfillKeeps, WarmBookKeeps
  <2>9. QED
    BY <1>1, <2>1, <2>2, <2>3, <2>4, <2>5, <2>6, <2>7, <2>8 DEF Scanning
<1>2. ASSUME NEW u \in Uploads, UploadStep(u) PROVE FolderInv'
  BY <1>2, UploadBeginsKeeps, AnswersDuplicateKeeps, PlacesFileKeeps, ImportFailsKeeps, ClearsTombstoneKeeps,
     ChecksIgnoredKeeps, ChecksPathKeeps, ChecksHashKeeps, InsertsBookKeeps, PublishesKeeps, RemovesCopyKeeps
  DEF UploadStep
<1>3. CASE RemovesFile
  BY <1>3, RemovesFileKeeps
<1>4. CASE ServerRestarts
  BY <1>4, ServerRestartsKeeps
<1>5. ASSUME NEW id \in BookIds, DeletesRow(id) PROVE FolderInv'
  BY <1>5, DeletesRowKeeps
<1>6. ASSUME NEW id \in BookIds, NEW c \in Contents, EditsBook(id, c) PROVE FolderInv'
  BY <1>6, EditsBookKeeps
<1>7. ASSUME NEW p \in EPUBPaths, NEW q \in EPUBPaths, UserMoves(p, q) PROVE FolderInv'
  BY <1>7, UserActsKeep
<1>8. ASSUME NEW p \in EPUBPaths, UserDeletes(p) \/ \E c \in Contents : UserCopies(p, c) PROVE FolderInv'
  BY <1>8, UserActsKeep
<1>9. CASE UNCHANGED folderVars
  <2>1. FolderTypes' /\ GateHeld' /\ RowsApart' /\ HashedHere' /\ HeldAlone'
    BY <1>9 DEF folderVars, scanVars, FolderInv, FolderTypes, GateHeld, NoUploads, NoRemoval, WorkersRest,
                RowsApart, HashedHere, Hashed, HeldAlone, Own, Holds, RowsAt, Stored
  <2>2. UnlinksOwn' /\ Listing' /\ ReportsRows'
    BY <1>9 DEF folderVars, scanVars, FolderInv, UnlinksOwn, Listing, UpToDate, WillPublish, ReportsRows, Reported,
                NoRemoval, Holds, RowsAt, Stored
  <2>3. WholeScan' /\ RowsHaveFiles'
    BY <1>9 DEF folderVars, scanVars, FolderInv, WholeScan, FilesSeen, HashesHold, RowsHold, KeptHere, KeptCovered,
                KeptApart, Covered, InHand, Keeps, Holds, RowsOf, RowsAt, Stored, NoRemoval, RowsHaveFiles
  <2>4. QED
    BY <2>1, <2>2, <2>3 DEF FolderInv
<1>10. QED
  BY <1>1, <1>2, <1>3, <1>4, <1>5, <1>6, <1>7, <1>8, <1>9 DEF FolderNext

THEOREM FolderStays == FolderSpec => []FolderInv
<1>1. FolderInit => FolderInv
  BY FolderStarts
<1>2. FolderInv /\ [FolderNext]_folderVars => FolderInv'
  BY FolderStep
<1>3. QED
  BY <1>1, <1>2, PTL DEF FolderSpec

(* Whenever no scan, upload or deletion is under way, the list the server  *)
(* answers with is the books table (BookCache against books, scanner.go,   *)
(* upload.go, deleteBookHandler), but for books whose change could not be  *)
(* reported or reloaded.                                                   *)
THEOREM ShelfIsTheTable == FolderSpec => []ShelfShowsRows
<1>1. FolderInv => ShelfShowsRows
  BY DEF FolderInv, Listing, UpToDate, WillPublish, NoUploads, ShelfShowsRows, AtWork
<1>2. QED
  BY <1>1, FolderStays, PTL

(* No cleanup takes a book's file away and no tombstone lies on one, and a *)
(* whole scan misses no file of the folder.                                *)
THEOREM FolderIsShelved == FolderSpec => []FolderIsTheLibrary
<1>1. FolderInv => FolderIsTheLibrary
  <2> SUFFICES ASSUME FolderInv PROVE FolderIsTheLibrary
    OBVIOUS
  <2>1. FilesHaveRows
    <3> SUFFICES ASSUME scan.whole, ~AtWork PROVE \A p \in EPUBPaths \ (ignored \cup scan.known) :
                                                     folder[p] # NoFile => Covered(p)
      BY DEF FilesHaveRows, Covered
    <3>1. scan.left = {} /\ WorkersRest /\ NoUploads /\ FilesSeen
      BY DEF FolderInv, GateHeld, WholeScan, AtWork
    <3>2. QED
      BY <3>1 DEF FilesSeen, InHand, WorkersRest, NoUploads, Keeps, Holds, Claims
  <2>2. QED
    BY <2>1 DEF FolderInv, FolderIsTheLibrary
<1>2. QED
  BY <1>1, FolderStays, PTL
=============================================================================
