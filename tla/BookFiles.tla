----------------------------- MODULE BookFiles -----------------------------
(***************************************************************************)
(* In-place changes of a book's EPUB next to everything that reads it      *)
(* (internal/api/bookreplace.go, bookedit.go, progress.go, books.go,       *)
(* library.go, internal/storage/bookreplace.go), composed with             *)
(* ProgressCoalescer.                                                      *)
(*                                                                         *)
(* A book is in four places: the file on disk, the books row, the record   *)
(* in BookCache, and the chapter numbers of every stored position.  Edits, *)
(* replacements and deletions change them one after the other under        *)
(* bookReplaceMu; chapter readers and cache warming share its read side,   *)
(* while the PUT that saves a position and the flusher do not take it.     *)
(*                                                                         *)
(* bookEditMu admits one edit at a time and bookReplaceMu's write side one *)
(* deletion, so one editor and one deleter stand for all of them.  The     *)
(* staging of the new file happens before any lock and is left out, and so *)
(* is the rescan, which libraryScanMu keeps apart from all of this.        *)
(***************************************************************************)
EXTENDS ProgressCoalescer

CONSTANTS
    Writers,    \* open readers that save positions
    Readers,    \* requests for chapters and covers
    MaxEditions \* bound: files ever built

ASSUME EditionsAssumption == MaxEditions \in Nat

VARIABLES
    disk,     \* the EPUB on disk
    books,    \* file_hash and spine_json of the books row
    cache,    \* BookCache's record
    editions, \* how many different files were built
    editor,   \* the handler that holds bookEditMu
    deleter,  \* the delete handler
    reader,   \* the chapter and cover handlers
    warmer,   \* a handler that reloads a book into BookCache
    writer,   \* each client's view of its book, and its PUT
    mishaps   \* history: what went wrong around a change of a book

files    == <<disk, books, cache>>
handlers == <<editor, deleter, reader, warmer, writer>>
bvars    == <<vars, files, editions, handlers, mishaps>>

-----------------------------------------------------------------------------
(* One version of a file: hash names the bytes, spine the chapter          *)
(* numbering.                                                              *)
Edition   == [hash : Nat, spine : Nat]
NoEdition == [hash |-> 0, spine |-> 0]
Original  == [hash |-> 1, spine |-> 0]

(* Who holds which side of bookReplaceMu.                                  *)
GateWritten == \/ editor.pc \in {"publishing", "swapped", "committed", "remapped"}
               \/ deleter.pc # "idle"

GateRead == \/ editor.pc = "preparing"
            \/ warmer.pc # "idle"
            \/ \E r \in Readers : reader[r].pc # "idle"

(* checkBookEditSnapshot.                                                  *)
SnapshotCurrent == cache[editor.book] = editor.base

(* A replacement publishes the uploaded file, an edit the installed one    *)
(* with another title, author or cover.                                    *)
IsReplacement == editor.kind = "replace"

EditorAtRest == [pc |-> "idle", kind |-> "edit", book |-> NoBook, base |-> NoEdition,
                 backup |-> NoEdition, new |-> NoEdition]

(* A handler of the read side that has answered.                           *)
NotServing == [pc |-> "idle", book |-> NoBook, base |-> NoEdition]

BookFilesTypeOK ==
    /\ disk \in [Books -> Edition] /\ books \in [Books -> Edition]
    /\ cache \in [Books -> Edition] /\ editions \in Nat
    /\ editor \in [pc : {"idle", "locked", "preparing", "prepared", "publishing",
                         "swapped", "committed", "remapped"},
                   kind : {"edit", "replace"}, book : Books \cup {NoBook},
                   base : Edition, backup : Edition, new : Edition]
    /\ deleter \in [pc : {"idle", "deleted", "uncached", "dropped"},
                    book : Books \cup {NoBook}]
    /\ reader \in [Readers -> [pc : {"idle", "reading"},
                               book : Books \cup {NoBook}, base : Edition]]
    /\ warmer \in [pc : {"idle", "loaded"}, book : Books \cup {NoBook}, base : Edition]
    /\ writer \in [Writers -> [pc : {"idle", "open", "checked", "refused"},
                               book : Books \cup {NoBook},
                               view : Edition, snapshot : Edition]]
    /\ mishaps \subseteq (Books \X {"saved", "put", "restore", "receipt", "unlink"})
    /\ \A b \in Books : present[b] <=> books[b] # NoEdition
    /\ op.kind = "delete" <=> deleter.pc \in {"deleted", "uncached"}
    /\ op.kind = "replace" <=> editor.pc = "committed"

BookFilesInit ==
    /\ Init
    /\ disk = [b \in Books |-> Original]
    /\ books = disk
    /\ cache = disk
    /\ editions = 1
    /\ editor = EditorAtRest
    /\ deleter = [pc |-> "idle", book |-> NoBook]
    /\ reader = [r \in Readers |-> NotServing]
    /\ warmer = NotServing
    /\ writer = [w \in Writers |-> [pc |-> "idle", book |-> NoBook,
                                    view |-> NoEdition, snapshot |-> NoEdition]]
    /\ mishaps = {}

EditorStep(pc1, pc2)  == editor.pc = pc1 /\ editor' = [editor EXCEPT !.pc = pc2]
DeleterStep(pc1, pc2) == deleter.pc = pc1 /\ deleter' = [deleter EXCEPT !.pc = pc2]

-----------------------------------------------------------------------------
(* Faulty variants of actions below, as in ProgressCoalescer.              *)

(* EditAcquire that trusts the check made under the read side.             *)
EditAcquireUnchecked ==
    /\ ~GateWritten /\ ~GateRead
    /\ EditorStep("prepared", "publishing")
    /\ UNCHANGED <<vars, files, editions, deleter, reader, warmer, writer, mishaps>>

(* EditAcquire that does not wait for the readers.                         *)
EditAcquireIgnoresReaders ==
    /\ ~GateWritten
    /\ EditorStep("prepared", IF SnapshotCurrent THEN "publishing" ELSE "idle")
    /\ UNCHANGED <<vars, files, editions, deleter, reader, warmer, writer, mishaps>>

(* EditRemap that leaves the buffered position as it is.                   *)
EditRemapForgets ==
    /\ EditorStep("committed", "remapped")
    /\ op' = NoOp
    /\ UNCHANGED <<buffer, done, flusher, storage, history, incidents>>
    /\ UNCHANGED <<files, editions, deleter, reader, warmer, writer, mishaps>>

-----------------------------------------------------------------------------
(* The editor: replaceBookHandler, updateBookHandler, uploadCoverHandler.  *)

(* bookEditMu is taken and the record read.                                *)
EditBegin(b) ==
    /\ editor.pc = "idle" /\ cache[b] # NoEdition
    /\ editor' = [EditorAtRest EXCEPT !.pc = "locked", !.book = b, !.base = cache[b]]
    /\ UNCHANGED <<vars, files, editions, deleter, reader, warmer, writer, mishaps>>

(* prepareReplacement, prepareBookFile: under the read side the snapshot   *)
(* is checked, the old spine or file read, and a backup made.              *)
EditPrepare ==
    /\ ~GateWritten
    /\ EditorStep("locked", IF SnapshotCurrent THEN "preparing" ELSE "idle")
    /\ UNCHANGED <<vars, files, editions, deleter, reader, warmer, writer, mishaps>>

(* The backup and the new file: a replacement has another spine than the   *)
(* row, an edited title or cover other bytes only.                         *)
EditPrepared ==
    /\ editor.pc = "preparing"
    /\ editions < MaxEditions
    /\ editions' = editions + 1
    /\ \E kind \in {"edit", "replace"} : LET old == disk[editor.book] IN
          editor' = [editor EXCEPT !.pc = "prepared", !.kind = kind, !.backup = old,
                        !.new = [hash |-> editions',
                                 spine |-> IF kind = "edit" THEN old.spine
                                                            ELSE editor.base.spine + 1]]
    /\ UNCHANGED <<vars, files, deleter, reader, warmer, writer, mishaps>>

(* The write side is not an upgrade of the read side: the snapshot is      *)
(* checked again.                                                          *)
EditAcquire ==
    /\ ~GateWritten /\ ~GateRead
    /\ EditorStep("prepared", IF SnapshotCurrent THEN "publishing" ELSE "idle")
    /\ UNCHANGED <<vars, files, editions, deleter, reader, warmer, writer, mishaps>>

(* replaceBookFile: the rename.                                            *)
EditSwap ==
    /\ EditorStep("publishing", "swapped")
    /\ disk' = [disk EXCEPT ![editor.book] = editor.new]
    /\ UNCHANGED <<vars, books, cache, editions, deleter, reader, warmer, writer, mishaps>>

(* The new file cannot be built, or TryCloseForReplace or the rename fails: *)
(* nothing has changed.                                                    *)
EditRefused ==
    /\ \E pc1 \in {"preparing", "publishing"} : EditorStep(pc1, "idle")
    /\ UNCHANGED <<vars, files, editions, deleter, reader, warmer, writer, mishaps>>

(* ReplaceBookFileContext: the row and the stored positions.               *)
CommitReplacement ==
    /\ IsReplacement
    /\ EditorStep("swapped", "committed")
    /\ ReplaceRow(editor.book)
    /\ books' = [books EXCEPT ![editor.book] = editor.new]
    /\ UNCHANGED <<disk, cache, editions, deleter, reader, warmer, writer, mishaps>>

(* UpdateBookMetadataAndFileContext, UpdateBookCoverAndFileContext: of the *)
(* edition the row gets the hash.                                          *)
RowEdited ==
    /\ ~IsReplacement /\ present[editor.book]
    /\ books' = [books EXCEPT ![editor.book].hash = editor.new.hash]

CommitEdit ==
    /\ EditorStep("swapped", "remapped")
    /\ RowEdited
    /\ UNCHANGED <<vars, disk, cache, editions, deleter, reader, warmer, writer, mishaps>>

(* rollbackBookEdit puts the backup back, or, when that fails too, takes   *)
(* the book out of the cache.                                              *)
BackupRestored == disk' = [disk EXCEPT ![editor.book] = editor.backup] /\ UNCHANGED cache
BackupKept     == cache' = [cache EXCEPT ![editor.book] = NoEdition] /\ UNCHANGED disk

Mishap(what) == mishaps' = mishaps \cup {<<editor.book, what>>}

(* The write reported an error.  A replacement's transaction is then       *)
(* undone; an edit is one autocommitted statement, which the deadline of   *)
(* commitCtx can end when it is visible already, so that the old file      *)
(* comes back under the new row.                                           *)
EditRollback ==
    /\ EditorStep("swapped", "idle")
    /\ \/ UNCHANGED books /\ BackupRestored /\ UNCHANGED mishaps
       \/ UNCHANGED books /\ BackupKept /\ Mishap("restore")
       \/ RowEdited /\ BackupRestored /\ Mishap("receipt")
       \/ RowEdited /\ BackupKept /\ UNCHANGED mishaps
    /\ UNCHANGED <<vars, editions, deleter, reader, warmer, writer>>

(* Progress.remapBook.                                                     *)
EditRemap ==
    /\ EditorStep("committed", "remapped")
    /\ RemapBook(editor.book)
    /\ UNCHANGED <<files, editions, deleter, reader, warmer, writer, mishaps>>

(* refreshBookCache, which removes the record when it cannot reload it;    *)
(* the locks are released.                                                 *)
EditRefresh ==
    /\ EditorStep("remapped", "idle")
    /\ \E e \in {books[editor.book], NoEdition} :
          cache' = [cache EXCEPT ![editor.book] = e]
    /\ UNCHANGED <<vars, disk, books, editions, deleter, reader, warmer, writer, mishaps>>

Editor == \/ \E b \in Books : EditBegin(b)
          \/ EditPrepare \/ EditPrepared \/ EditAcquire
          \/ EditSwap \/ EditRefused
          \/ CommitReplacement \/ CommitEdit \/ EditRollback
          \/ EditRemap \/ EditRefresh

-----------------------------------------------------------------------------
(* deleteBookHandler.                                                      *)

DeleteBegin(b) ==
    /\ ~GateWritten /\ ~GateRead
    /\ DeleteRow(b)
    /\ books' = [books EXCEPT ![b] = NoEdition]
    /\ deleter' = [pc |-> "deleted", book |-> b]
    /\ UNCHANGED <<disk, cache, editions, editor, reader, warmer, writer, mishaps>>

DeleteUncache ==
    /\ DeleterStep("deleted", "uncached")
    /\ cache' = [cache EXCEPT ![deleter.book] = NoEdition]
    /\ UNCHANGED <<vars, disk, books, editions, editor, reader, warmer, writer, mishaps>>

DeleteDrop ==
    /\ DeleterStep("uncached", "dropped")
    /\ DropBook(deleter.book)
    /\ UNCHANGED <<files, editions, editor, reader, warmer, writer, mishaps>>

(* removeManagedLibraryFile: a file that cannot be removed is only logged; *)
(* the transaction's ignored_files entry keeps rescans away from it.       *)
DeleteUnlink ==
    /\ DeleterStep("dropped", "idle")
    /\ \E left \in {NoEdition, disk[deleter.book]} :
          /\ disk' = [disk EXCEPT ![deleter.book] = left]
          /\ mishaps' = IF left = NoEdition THEN mishaps
                        ELSE mishaps \cup {<<deleter.book, "unlink">>}
    /\ UNCHANGED <<vars, books, cache, editions, editor, reader, warmer, writer>>

(* The book is gone already: whatever is left of it in memory goes too.    *)
DeleteMissing(b) ==
    /\ ~GateWritten /\ ~GateRead /\ ~present[b]
    /\ cache' = [cache EXCEPT ![b] = NoEdition]
    /\ pending' = [pending EXCEPT ![b] = NoEntry]
    /\ UNCHANGED <<nextVersion, flushSignal, done, flusher, storage, op, history, incidents>>
    /\ UNCHANGED <<disk, books, editions, handlers, mishaps>>

Deleter == \/ \E b \in Books : DeleteBegin(b) \/ DeleteMissing(b)
           \/ DeleteUncache \/ DeleteDrop \/ DeleteUnlink

-----------------------------------------------------------------------------
(* Chapters and covers are served, and a book is reloaded into the cache   *)
(* (warmBook, loadAndWarm), under the read side.                           *)

ReadBegin(r, b) ==
    /\ ~GateWritten /\ reader[r].pc = "idle" /\ cache[b] # NoEdition
    /\ reader' = [reader EXCEPT ![r] = [pc |-> "reading", book |-> b, base |-> cache[b]]]
    /\ UNCHANGED <<vars, files, editions, editor, deleter, warmer, writer, mishaps>>

ReadEnd(r) ==
    /\ reader[r].pc = "reading"
    /\ reader' = [reader EXCEPT ![r] = NotServing]
    /\ UNCHANGED <<vars, files, editions, editor, deleter, warmer, writer, mishaps>>

WarmLoad(b) ==
    /\ ~GateWritten /\ warmer.pc = "idle" /\ present[b]
    /\ warmer' = [pc |-> "loaded", book |-> b, base |-> books[b]]
    /\ UNCHANGED <<vars, files, editions, editor, deleter, reader, writer, mishaps>>

WarmAdd ==
    /\ warmer.pc = "loaded"
    /\ warmer' = NotServing
    /\ cache' = [cache EXCEPT ![warmer.book] = warmer.base]
    /\ UNCHANGED <<vars, disk, books, editions, editor, deleter, reader, writer, mishaps>>

Serving == \/ \E r \in Readers : ReadEnd(r) \/ \E b \in Books : ReadBegin(r, b)
           \/ WarmAdd \/ \E b \in Books : WarmLoad(b)

-----------------------------------------------------------------------------
(* The reader in the browser and putProgressHandler, beaconProgressHandler.*)

(* A client opens the book: it has the chapters and their generation.      *)
Open(w, b) ==
    /\ writer[w].pc # "checked" /\ cache[b] # NoEdition
    /\ writer' = [writer EXCEPT ![w] = [pc |-> "open", book |-> b,
                                       view |-> cache[b], snapshot |-> NoEdition]]
    /\ UNCHANGED <<vars, files, editions, editor, deleter, reader, warmer, mishaps>>

(* The handler's Books.Get, before it reads the body.                      *)
PutBegin(w) ==
    /\ writer[w].pc = "open" /\ cache[writer[w].book] # NoEdition
    /\ writer' = [writer EXCEPT ![w].pc = "checked",
                               ![w].snapshot = cache[writer[w].book]]
    /\ UNCHANGED <<vars, files, editions, editor, deleter, reader, warmer, mishaps>>

(* staleGeneration, against the record read before.                        *)
Stale(w) == writer[w].view.hash # writer[w].snapshot.hash

PutStages(w) ==
    /\ writer[w].pc = "checked" /\ ~Stale(w)
    /\ Stage(writer[w].book, writer[w].view.spine)
    /\ writer' = [writer EXCEPT ![w].pc = "open", ![w].snapshot = NoEdition]
    /\ mishaps' = IF writer[w].view = books[writer[w].book]
                     THEN mishaps
                     ELSE mishaps \cup {<<writer[w].book, "put">>}
    /\ UNCHANGED <<files, editions, editor, deleter, reader, warmer>>

(* 409: the client stops saving until the book is opened again.            *)
PutRefused(w) ==
    /\ writer[w].pc = "checked" /\ Stale(w)
    /\ writer' = [writer EXCEPT ![w].pc = "refused"]
    /\ UNCHANGED <<vars, files, editions, editor, deleter, reader, warmer, mishaps>>

Writing == \E w \in Writers : \/ PutBegin(w) \/ PutStages(w) \/ PutRefused(w)
                              \/ \E b \in Books : Open(w, b)

-----------------------------------------------------------------------------
(* The flusher, noting a save that falls between the transaction of a      *)
(* replacement and its remapBook.                                          *)
Flushing ==
    /\ Flusher
    /\ mishaps' = mishaps \cup {<<b, "saved">> : b \in
          {c \in Books : /\ op = [kind |-> "replace", book |-> c]
                         /\ saved' = c \/ row'[c] # row[c]}}
    /\ UNCHANGED <<files, editions, handlers>>

BookFilesNext == Editor \/ Deleter \/ Serving \/ Writing \/ Flushing

BookFilesSpec == BookFilesInit /\ [][BookFilesNext]_bvars

-----------------------------------------------------------------------------
(* Nothing parted the file and the row of a book for good: neither a       *)
(* backup that could not be put back, nor one that was put back under an   *)
(* edit whose receipt was lost.                                            *)
Whole(b) == {<<b, "restore">>, <<b, "receipt">>} \cap mishaps = {}

(* Between changes the file, the row and the cached record of a book are   *)
(* one edition, or the cache has no record: a write that failed, a cache   *)
(* that could not be reloaded and a deletion that came in between leave    *)
(* nothing half-done (rollbackBookEdit, refreshBookCache), with the two    *)
(* exceptions of Whole.  A deleted book's file does not come back either;  *)
(* it can only have stayed.                                                *)
FilesAgree ==
    ~GateWritten => \A b \in Books : Whole(b) =>
        /\ disk[b] = books[b] \/ (~present[b] /\ <<b, "unlink">> \in mishaps)
        /\ cache[b] \in {books[b], NoEdition}

(* A chapter is never read from other bytes than its ETag and resource     *)
(* token were made for (replaceBookFile), with the same exceptions.        *)
ReadersSeeOneFile ==
    \A r \in Readers : LET b == reader[r].book IN
        reader[r].pc = "reading" /\ Whole(b) => disk[b] = reader[r].base

Numbered(b) ==
    ~GateWritten /\ present[b] /\ Current(b) # NoRecord => Current(b).gen = books[b].spine

(* Between changes a stored position counts chapters as the row does: the  *)
(* transaction and remapBook together move each position once.  The two    *)
(* windows this leaves open are excluded here and shown by runs of their   *)
(* own: a save of the old position between transaction and remapBook, and  *)
(* a PUT that was checked against the old record.                          *)
PositionsFollowFile ==
    \A b \in Books : {<<b, "saved">>, <<b, "put">>} \cap mishaps = {} => Numbered(b)

(* bookreplace.go: "Staged progress is keyed by the old numbering too;     *)
(* left alone, the next flush would overwrite the remapped row with a      *)
(* stale chapter": the remap takes care of staged positions.               *)
StagedPositionsFollowFile ==
    \A b \in Books : <<b, "put">> \notin mishaps => Numbered(b)

(* progress.go: a write that carries another generation than the installed *)
(* one "is refused instead of applied", so none puts a chapter of the      *)
(* replaced file over the moved position of a book that is there.          *)
StaleWritesRefused ==
    \A b \in Books : <<b, "saved">> \notin mishaps => Numbered(b)

(* progress.go: the generation does not move "for a title or cover edit    *)
(* that leaves every chapter index valid": only a client with another      *)
(* chapter numbering is refused.                                           *)
OnlyStaleNumberingRefused ==
    \A w \in Writers : writer[w].pc = "refused" =>
        writer[w].view.spine # writer[w].snapshot.spine
=============================================================================
