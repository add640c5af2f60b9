----------------------------- MODULE SpineCache -----------------------------
(***************************************************************************)
(* The parsed spine that BookCache keeps per book (internal/storage/       *)
(* bookcache.go), for one book.  GetSpine loads it on first use: one load  *)
(* per generation of the record, shared by those who wait and finished     *)
(* even when all of them have gone.  Its callers hold the read side of     *)
(* bookReplaceMu for as long as they use what they get; but an abandoned   *)
(* load holds nothing, so the book may be replaced, deleted and imported   *)
(* while it reads.  An edition is the content of the books row.            *)
(***************************************************************************)
EXTENDS Naturals

CONSTANTS
    SpineCallers,     \* requests that need the spine
    MaxSpineEditions, \* bound: contents of the row
    MaxGen            \* bound: nextGeneration

ASSUME SpineAssumption == {MaxSpineEditions, MaxGen} \subseteq Nat

VARIABLES
    bookRow,     \* the edition in the books table, 0 without a row
    made,        \* editions so far
    cached,      \* byID and generations
    nextGen,     \* nextGeneration
    memo,        \* spines: the edition the parsed spine is of, 0 without one
    flight,      \* spineLoads: the load of each generation
    spineWriter, \* between its commit and its refresh an edit or deletion is "committed"
    caller       \* what each request does, and the edition it was given

spineVars == <<bookRow, made, cached, nextGen, memo, flight, spineWriter, caller>>

-----------------------------------------------------------------------------
(* Every record is made of a summary and lacks the spine's text.           *)
NoSpineRecord == [known |-> FALSE, gen |-> 0, edition |-> 0]

SpineRecord(gen, edition) == [known |-> TRUE, gen |-> gen, edition |-> edition]

NoFlight == [phase |-> "none", book |-> NoSpineRecord, read |-> 0]

Outside == [pc |-> "out", gen |-> 0, got |-> 0]

Using(e) == [pc |-> "using", gen |-> 0, got |-> e]

WriteGate == spineWriter = "committed"

NobodyReads == \A c \in SpineCallers : caller[c] = Outside

(* NewBookCache: records of summaries, with generation 0.                  *)
SpineInit ==
    /\ bookRow = 1 /\ made = 1 /\ nextGen = 0 /\ memo = 0
    /\ cached = SpineRecord(0, 1)
    /\ flight = [g \in 0..MaxGen |-> NoFlight]
    /\ spineWriter = "idle"
    /\ caller = [c \in SpineCallers |-> Outside]

-----------------------------------------------------------------------------
(* BookCache.Add and Remove.                                               *)
CacheAdd ==
    /\ nextGen < MaxGen
    /\ nextGen' = nextGen + 1
    /\ cached' = SpineRecord(nextGen + 1, bookRow)
    /\ memo' = 0

CacheRemove ==
    /\ nextGen < MaxGen
    /\ nextGen' = IF cached.known THEN nextGen + 1 ELSE nextGen
    /\ cached' = NoSpineRecord
    /\ memo' = 0

-----------------------------------------------------------------------------
(* GetSpine under the read gate: the memo, no book, or a load to wait for. *)
Look(c) ==
    /\ \/ caller[c] = Outside /\ ~WriteGate
       \/ caller[c].pc = "again"
    /\ IF memo # 0 THEN caller' = [caller EXCEPT ![c] = Using(memo)] /\ UNCHANGED flight
       ELSE IF ~cached.known THEN caller' = [caller EXCEPT ![c] = Outside] /\ UNCHANGED flight
       ELSE /\ caller' = [caller EXCEPT ![c] = [pc |-> "waiting", gen |-> cached.gen, got |-> 0]]
            /\ flight' = [flight EXCEPT ![cached.gen] =
                             IF @.phase = "none"
                                THEN [phase |-> "begun", book |-> cached, read |-> 0] ELSE @]
    /\ UNCHANGED <<bookRow, made, cached, nextGen, memo, spineWriter>>

(* The request is answered, or canceled: the load goes on.                 *)
Leave(c) ==
    /\ caller[c] # Outside
    /\ caller' = [caller EXCEPT ![c] = Outside]
    /\ UNCHANGED <<bookRow, made, cached, nextGen, memo, flight, spineWriter>>

(* spineLoadStateLocked: what everybody who waits is told when the memo, a *)
(* removal or a replacement has settled the load.                          *)
Settled(g) == memo # 0 \/ ~cached.known \/ cached.gen # g \/ cached # flight[g].book

Verdict == IF memo # 0 THEN Using(memo)
           ELSE IF ~cached.known THEN Outside
           ELSE [pc |-> "again", gen |-> 0, got |-> 0]

Tell(g, what) ==
    /\ caller' = [c \in SpineCallers |->
          IF caller[c].pc = "waiting" /\ caller[c].gen = g THEN what ELSE caller[c]]
    /\ flight' = [flight EXCEPT ![g] = NoFlight]

(* Faulty FlightEnds: what was read is published.                          *)
FlightEndsUnchecked(g) ==
    LET f == flight[g] IN
    /\ f.phase = "read"
    /\ IF f.read = 0 THEN Tell(g, Outside) /\ UNCHANGED memo
       ELSE Tell(g, Using(f.read)) /\ memo' = f.read
    /\ UNCHANGED <<bookRow, made, cached, nextGen, spineWriter>>

FlightBegins(g) ==
    /\ flight[g].phase = "begun"
    /\ IF Settled(g) THEN Tell(g, Verdict)
       ELSE flight' = [flight EXCEPT ![g].phase = "loading"] /\ UNCHANGED caller
    /\ UNCHANGED <<bookRow, made, cached, nextGen, memo, spineWriter>>

(* loadBookContent, outside every lock; 0 is a failed or empty query.      *)
FlightReads(g) ==
    LET f == flight[g] IN
    /\ f.phase = "loading"
    /\ \E e \in {bookRow, 0} :
          flight' = [flight EXCEPT ![g] = [phase |-> "read", book |-> f.book, read |-> e]]
    /\ UNCHANGED <<bookRow, made, cached, nextGen, memo, spineWriter, caller>>

FlightEnds(g) ==
    LET f == flight[g] IN
    /\ f.phase = "read"
    /\ IF Settled(g) THEN Tell(g, Verdict) /\ UNCHANGED memo
       ELSE IF f.read = 0 THEN Tell(g, Outside) /\ UNCHANGED memo
       ELSE Tell(g, Using(f.read)) /\ memo' = f.read
    /\ UNCHANGED <<bookRow, made, cached, nextGen, spineWriter>>

-----------------------------------------------------------------------------
(* A replacement or deletion commits with the write gate held ...          *)
Commit ==
    /\ ~WriteGate /\ NobodyReads /\ bookRow # 0 /\ cached.known
    /\ \/ bookRow' = 0 /\ UNCHANGED made
       \/ made < MaxSpineEditions /\ bookRow' = made + 1 /\ made' = made + 1
    /\ spineWriter' = "committed"
    /\ UNCHANGED <<cached, nextGen, memo, flight, caller>>

(* ... and refreshes the cache; a refresh that fails removes the book.     *)
Refresh ==
    /\ WriteGate
    /\ \/ CacheRemove
       \/ bookRow # 0 /\ CacheAdd
    /\ spineWriter' = "idle"
    /\ UNCHANGED <<bookRow, made, flight, caller>>

(* An import makes the row first ...                                       *)
ImportBook ==
    /\ bookRow = 0 /\ ~cached.known /\ ~WriteGate /\ made < MaxSpineEditions
    /\ bookRow' = made + 1 /\ made' = made + 1
    /\ UNCHANGED <<cached, nextGen, memo, flight, spineWriter, caller>>

(* ... and it, or a rescan, puts the row into the cache while others read. *)
Warm ==
    /\ ~WriteGate /\ bookRow # 0
    /\ CacheAdd
    /\ UNCHANGED <<bookRow, made, flight, spineWriter, caller>>

SpineNext == \/ \E c \in SpineCallers : Look(c) \/ Leave(c)
        \/ \E g \in 0..MaxGen : FlightBegins(g) \/ FlightReads(g) \/ FlightEnds(g)
        \/ Commit \/ Refresh \/ ImportBook \/ Warm

SpineSpec == SpineInit /\ [][SpineNext]_spineVars

-----------------------------------------------------------------------------
(* Outside the write gate the spine that is kept, and the one a request    *)
(* holds, are of the book's present content, whatever loads were under     *)
(* way or abandoned while it was replaced, deleted and imported again.     *)
SpineFollowsBook ==
    /\ ~WriteGate => memo \in {0, bookRow}
    /\ \A c \in SpineCallers : caller[c].pc = "using" => caller[c].got = bookRow
=============================================================================
