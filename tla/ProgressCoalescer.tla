------------------------- MODULE ProgressCoalescer -------------------------
(***************************************************************************)
(* The write-behind buffer for reading positions                           *)
(* (internal/api/progress_coalescer.go) together with the storage it       *)
(* flushes to (internal/storage/progress.go).                              *)
(*                                                                         *)
(* One coalescer serves one open profile.  Handlers stage positions in     *)
(* memory and answer at once; a single flusher goroutine copies the buffer *)
(* and saves the copy to the database outside the mutex, entry by entry.   *)
(* Deleting and replacing a book are two steps each, a database            *)
(* transaction and then a call on the coalescer, and the flusher runs      *)
(* between them.  Every profile has the one user "default" (getUserID), so *)
(* a key is a book.                                                        *)
(*                                                                         *)
(* A position is abstracted to the number of the write that produced it    *)
(* and the file generation its chapter index is counted in.                *)
(***************************************************************************)
EXTENDS Naturals, FiniteSets

CONSTANTS
    Books,       \* books of the profile
    NoBook,      \* the absent book
    SoftLimit,   \* progressMaxPending
    MaxWrites,   \* bound: positions accepted
    MaxIncidents \* bound: failed saves, repeated imports, replaced files and
                 \* restarts, together

ASSUME NoBookAssumption == NoBook \notin Books
ASSUME BoundsAssumption ==
    /\ SoftLimit \in Nat \ {0}
    /\ MaxWrites \in Nat /\ MaxIncidents \in Nat

VARIABLES
    pending,     \* pending: the buffered entry of each book
    nextVersion, \* nextVersion: the last version handed out
    flushSignal, \* flushSignal: the one-slot channel is full
    done,        \* done: the channel is closed
    pc,          \* where the flusher goroutine is
    batch,       \* flush's copy of pending: the entries still to be saved
    saved,       \* the book whose save has returned, discardSaved still due
    failed,      \* books whose save this flush gave up on
    present,     \* the books row exists
    row,         \* the progress row
    op,          \* the delete or replace that holds bookReplaceMu
    issued,      \* how many positions were ever accepted
    born,        \* issued at the time the books row was inserted
    incidents    \* how much of MaxIncidents is used

buffer  == <<pending, nextVersion, flushSignal>>
flusher == <<pc, batch, saved, failed>>
storage == <<present, row>>
history == <<issued, born>>
vars    == <<buffer, done, flusher, storage, op, history, incidents>>

-----------------------------------------------------------------------------
Record == [id : Nat, gen : Nat]
Entry  == [rec : Record, version : Nat]

NoRecord == [id |-> 0, gen |-> 0]
NoEntry  == [rec |-> NoRecord, version |-> 0]
NoOp     == [kind |-> "none", book |-> NoBook]

(* Something that happens MaxIncidents times at most.                      *)
Incident == incidents < MaxIncidents /\ incidents' = incidents + 1

Buffered == {b \in Books : pending[b] # NoEntry}
Unsaved  == {b \in Books : batch[b] # NoEntry}

(* The position a GET returns: get reads through the buffer to the row.    *)
Current(b) == IF pending[b] # NoEntry THEN pending[b].rec ELSE row[b]

(* ChapterRemap.Apply, as far as numbering goes.                           *)
Moved(rec) == [rec EXCEPT !.gen = @ + 1]

TypeOK ==
    /\ pending \in [Books -> Entry]
    /\ nextVersion \in Nat
    /\ \A b \in Books : pending[b] # NoEntry =>
          pending[b].rec.id > 0 /\ pending[b].version \in 1..nextVersion
    /\ flushSignal \in BOOLEAN
    /\ done \in BOOLEAN
    /\ pc \in {"idle", "flush", "drain", "exited"}
    /\ batch \in [Books -> Entry]
    /\ saved \in Books \cup {NoBook}
    /\ failed \subseteq Books
    /\ present \in [Books -> BOOLEAN]
    /\ row \in [Books -> Record]
    /\ op \in [kind : {"none", "delete", "replace"}, book : Books \cup {NoBook}]
    /\ issued \in Nat
    /\ born \in [Books -> Nat]
    /\ incidents \in Nat

Init ==
    /\ pending = [b \in Books |-> NoEntry]
    /\ nextVersion = 0
    /\ flushSignal = FALSE
    /\ done = FALSE
    /\ pc = "idle"
    /\ batch = [b \in Books |-> NoEntry]
    /\ saved = NoBook
    /\ failed = {}
    /\ present = [b \in Books |-> TRUE]
    /\ row = [b \in Books |-> NoRecord]
    /\ op = NoOp
    /\ issued = 0
    /\ born = [b \in Books |-> 0]
    /\ incidents = 0

(* The flusher can save the batch's entry for b.                            *)
CanSave(b) == /\ pc \in {"flush", "drain"}
              /\ saved = NoBook
              /\ b \in Unsaved

-----------------------------------------------------------------------------
(* Faulty variants of the actions below.  No specification uses them: each *)
(* is a slip the code could have, put in the place of the action to see    *)
(* that a property notices.                                                *)

(* ReplaceRow with INSERT OR REPLACE: the cascade takes the progress row.  *)
ReplaceRowCascades(b) ==
    /\ ~done /\ op = NoOp /\ present[b]
    /\ Incident
    /\ row' = [row EXCEPT ![b] = NoRecord]
    /\ op' = [kind |-> "replace", book |-> b]
    /\ UNCHANGED <<buffer, done, flusher, present, history>>

(* FlushOnDone without the final drain.                                    *)
ExitOnDone ==
    /\ pc = "idle" /\ done
    /\ pc' = "exited"
    /\ UNCHANGED <<buffer, done, batch, saved, failed, storage, op, history, incidents>>

(* SaveViolatesKey as a transient error, to be tried again.                *)
RetryMissingBook(b) ==
    /\ CanSave(b) /\ ~present[b]
    /\ batch' = [batch EXCEPT ![b] = NoEntry]
    /\ UNCHANGED <<buffer, done, pc, saved, failed, storage, op, history, incidents>>

(* DiscardSaved that does not compare the versions.                        *)
DiscardAnyVersion(b) ==
    /\ saved = b
    /\ saved' = NoBook
    /\ batch' = [batch EXCEPT ![b] = NoEntry]
    /\ pending' = [pending EXCEPT ![b] = NoEntry]
    /\ UNCHANGED <<nextVersion, flushSignal, done, pc, failed, storage, op, history, incidents>>

-----------------------------------------------------------------------------
(* Callers of the coalescer.                                               *)

(* stage, called by the PUT and beacon handlers.  They looked the book up  *)
(* before they read the request body, so a deleted book can be staged.     *)
Stage(b, gen) ==
    /\ ~done
    /\ issued < MaxWrites
    /\ issued' = issued + 1
    /\ nextVersion' = nextVersion + 1
    /\ pending' = [pending EXCEPT ![b] =
          [rec |-> [id |-> issued', gen |-> gen], version |-> nextVersion']]
    /\ flushSignal' = (flushSignal
          \/ Cardinality({c \in Books : pending'[c] # NoEntry}) >= SoftLimit)
    /\ UNCHANGED <<done, flusher, storage, op, born, incidents>>

(* DeleteBook's transaction: the progress row goes with the books row.     *)
DeleteRow(b) ==
    /\ ~done /\ op = NoOp /\ present[b]
    /\ present' = [present EXCEPT ![b] = FALSE]
    /\ row' = [row EXCEPT ![b] = NoRecord]
    /\ op' = [kind |-> "delete", book |-> b]
    /\ UNCHANGED <<buffer, done, flusher, history, incidents>>

(* dropBook, called by deleteBookHandler after its transaction.            *)
DropBook(b) ==
    /\ op = [kind |-> "delete", book |-> b]
    /\ pending' = [pending EXCEPT ![b] = NoEntry]
    /\ op' = NoOp
    /\ UNCHANGED <<nextVersion, flushSignal, done, flusher, storage, history, incidents>>

(* ReplaceBookFileContext: moves the persisted position.                   *)
ReplaceRow(b) ==
    /\ ~done /\ op = NoOp /\ present[b]
    /\ Incident
    /\ row' = [row EXCEPT ![b] = IF @ = NoRecord THEN @ ELSE Moved(@)]
    /\ op' = [kind |-> "replace", book |-> b]
    /\ UNCHANGED <<buffer, done, flusher, present, history>>

(* remapBook: moves the buffered position, under a fresh version.          *)
RemapBook(b) ==
    /\ op = [kind |-> "replace", book |-> b]
    /\ op' = NoOp
    /\ IF pending[b] = NoEntry
          THEN UNCHANGED <<pending, nextVersion>>
          ELSE /\ nextVersion' = nextVersion + 1
               /\ pending' = [pending EXCEPT ![b] =
                     [rec |-> Moved(@.rec), version |-> nextVersion']]
    /\ UNCHANGED <<flushSignal, done, flusher, storage, history, incidents>>

(* The same file is uploaded again: same path and bytes, so the same ID.   *)
(* The old file is gone only when its deletion has ended.                  *)
Import(b) ==
    /\ ~done /\ ~present[b] /\ op.book # b
    /\ Incident
    /\ present' = [present EXCEPT ![b] = TRUE]
    /\ born' = [born EXCEPT ![b] = issued]
    /\ UNCHANGED <<buffer, done, flusher, row, op, issued>>

(* stop, called by closeProfile once the profile's references are drained. *)
Stop ==
    /\ ~done /\ op = NoOp
    /\ done' = TRUE
    /\ UNCHANGED <<buffer, flusher, storage, op, history, incidents>>

-----------------------------------------------------------------------------
(* The flusher goroutine.                                                  *)

StartFlush ==
    /\ batch' = pending
    /\ failed' = {}
    /\ UNCHANGED <<pending, nextVersion, done, saved, storage, op, history, incidents>>

FlushOnTick ==
    /\ pc = "idle" /\ Buffered # {}
    /\ pc' = "flush"
    /\ StartFlush
    /\ UNCHANGED flushSignal

FlushOnSignal ==
    /\ pc = "idle" /\ flushSignal
    /\ flushSignal' = FALSE
    /\ pc' = IF Buffered = {} THEN "idle" ELSE "flush"
    /\ StartFlush

FlushOnDone ==
    /\ pc = "idle" /\ done
    /\ pc' = "drain"
    /\ StartFlush
    /\ UNCHANGED flushSignal

(* saveOne succeeds: the upsert overwrites the row.                        *)
SaveSucceeds(b) ==
    /\ CanSave(b) /\ present[b]
    /\ row' = [row EXCEPT ![b] = batch[b].rec]
    /\ saved' = b
    /\ UNCHANGED <<buffer, done, pc, batch, failed, present, op, history, incidents>>

(* saveOne meets the foreign key: the book is gone.                        *)
SaveViolatesKey(b) ==
    /\ CanSave(b) /\ ~present[b]
    /\ saved' = b
    /\ UNCHANGED <<buffer, done, pc, batch, failed, storage, op, history, incidents>>

(* saveOne returns any other error; when the write timeout fires at the    *)
(* commit, the row may have been written all the same.                     *)
SaveFails(b) ==
    /\ CanSave(b)
    /\ Incident
    /\ batch' = [batch EXCEPT ![b] = NoEntry]
    /\ failed' = failed \cup {b}
    /\ \/ UNCHANGED row
       \/ present[b] /\ row' = [row EXCEPT ![b] = batch[b].rec]
    /\ UNCHANGED <<buffer, done, pc, saved, present, op, history>>

(* discardSaved: only the version that was saved is acknowledged.          *)
DiscardSaved(b) ==
    /\ saved = b
    /\ saved' = NoBook
    /\ batch' = [batch EXCEPT ![b] = NoEntry]
    /\ pending' = IF pending[b].version = batch[b].version
                     THEN [pending EXCEPT ![b] = NoEntry]
                     ELSE pending
    /\ UNCHANGED <<nextVersion, flushSignal, done, pc, failed, storage, op, history, incidents>>

EndFlush ==
    /\ pc \in {"flush", "drain"} /\ saved = NoBook /\ Unsaved = {}
    /\ pc' = IF pc = "drain" THEN "exited" ELSE "idle"
    /\ UNCHANGED <<buffer, done, batch, saved, failed, storage, op, history, incidents>>

-----------------------------------------------------------------------------
(* The process dies, or the stopped profile is opened again: the database  *)
(* keeps what is committed and a new coalescer starts empty.               *)
Restart ==
    /\ Incident
    /\ pending' = [b \in Books |-> NoEntry]
    /\ nextVersion' = 0
    /\ flushSignal' = FALSE
    /\ done' = FALSE
    /\ pc' = "idle"
    /\ batch' = [b \in Books |-> NoEntry]
    /\ saved' = NoBook
    /\ failed' = {}
    /\ op' = NoOp
    /\ UNCHANGED <<storage, history>>

Callers(b) == DeleteRow(b) \/ DropBook(b) \/ ReplaceRow(b) \/ RemapBook(b) \/ Import(b)

Save(b) == SaveSucceeds(b) \/ SaveViolatesKey(b)

Flusher == \/ FlushOnTick \/ FlushOnSignal \/ FlushOnDone \/ EndFlush
           \/ \E b \in Books : Save(b) \/ SaveFails(b) \/ DiscardSaved(b)

Next == \/ \E b \in Books : Stage(b, 0) \/ Callers(b)
        \/ Stop
        \/ Flusher
        \/ Restart

Spec == Init /\ [][Next]_vars

(* The flusher goroutine is scheduled and its ticker ticks; the book       *)
(* operation that holds the gate goes on.                                  *)
Fairness == /\ WF_vars(Flusher)
            /\ \A b \in Books : WF_vars(DropBook(b) \/ RemapBook(b))

FairSpec == Spec /\ Fairness

-----------------------------------------------------------------------------
(* A stopped flusher leaves a position in memory only when the final drain *)
(* logged a failed save for it (stop).                                     *)
StopDrains == pc = "exited" => Buffered \subseteq failed

(* The row of a book moves only to newer positions while the book exists:  *)
(* one flusher saves the batches in order (flush).                         *)
RowMovesForward ==
    [][\A b \in Books : present'[b] => row'[b].id >= row[b].id]_vars

(* What clients may rely on: a position that was accepted is what every    *)
(* later read returns until a newer one replaces it, whatever save ends    *)
(* late, fails or is repeated (discardSaved, get); only a crash loses one, *)
(* and only one that was not yet saved.                                    *)
Register == INSTANCE ProgressRegister WITH
    latest  <- [b \in Books |-> Current(b).id],
    durable <- [b \in Books |-> row[b].id],
    faults  <- incidents

ImplementsRegister == Register!Spec

(* A buffered position does not stay buffered once the database stops      *)
(* failing: it or a newer one is saved, or it is dropped with its book,    *)
(* also when it was staged after dropBook (the foreign-key failure), or    *)
(* the final drain gave up on it.                                          *)
EventuallySettled ==
    \A b \in Books : \A n \in 1..MaxWrites :
        pending[b].rec.id = n ~> \/ row[b].id >= n
                                 \/ pending[b].rec.id < n
                                 \/ pc = "exited" /\ b \in failed
=============================================================================
