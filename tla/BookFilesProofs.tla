-------------------------- MODULE BookFilesProofs --------------------------
(* Proofs, for any books, readers, writers and number of changes, that the *)
(* places a book is kept in agree whenever no change of it is under way,   *)
(* and that a request reads one file only.                                 *)
EXTENDS BookFiles, TLAPS

-----------------------------------------------------------------------------
Editors  == [pc : {"idle", "locked", "preparing", "prepared", "publishing",
                   "swapped", "committed", "remapped"},
             kind : {"edit", "replace"}, book : Books \cup {NoBook},
             base : Edition, backup : Edition, new : Edition]
Deleters == [pc : {"idle", "deleted", "uncached", "dropped"}, book : Books \cup {NoBook}]
Requests == [pc : {"idle", "reading"}, book : Books \cup {NoBook}, base : Edition]
Warmers  == [pc : {"idle", "loaded"}, book : Books \cup {NoBook}, base : Edition]

FilesTypeOK ==
    /\ disk \in [Books -> Edition]
    /\ books \in [Books -> Edition]
    /\ cache \in [Books -> Edition]
    /\ present \in [Books -> BOOLEAN]
    /\ editions \in Nat
    /\ editor \in Editors
    /\ deleter \in Deleters
    /\ reader \in [Readers -> Requests]
    /\ warmer \in Warmers

(* What the restore of a backup and the removal of a file left undone.     *)
Broken(b) == <<b, "restore">> \in mishaps \/ <<b, "receipt">> \in mishaps
Left(b)   == <<b, "unlink">> \in mishaps

(* The gate: one writer, and no reader with it.                            *)
Publishing == editor.pc \in {"publishing", "swapped", "committed", "remapped"}
Deleting   == deleter.pc # "idle"
ReadBusy   == \E r \in Readers : reader[r].pc # "idle"

OneWriter ==
    /\ ~(Publishing /\ Deleting)
    /\ Publishing \/ Deleting => ~ReadBusy /\ warmer.pc = "idle"
    /\ Deleting => editor.pc # "preparing"

(* What each handler has found.                                            *)
EditorHas ==
    /\ editor.pc # "idle" => editor.book \in Books /\ editor.base # NoEdition
    /\ editor.pc \in {"prepared", "publishing", "swapped", "committed", "remapped"} =>
          editor.new.hash > 0

DeleterHas == Deleting => deleter.book \in Books /\ ~present[deleter.book]

WarmerHas == warmer.pc = "loaded" => warmer.book \in Books /\ warmer.base = books[warmer.book]

ReaderHas == \A r \in Readers : reader[r].pc = "reading" =>
    /\ reader[r].book \in Books
    /\ ~Broken(reader[r].book) => disk[reader[r].book] = reader[r].base

RowsPresent == \A b \in Books : present[b] <=> books[b] # NoEdition

(* A book is settled unless a writer has begun to change it.               *)
InHand(b) == \/ editor.pc \in {"swapped", "committed", "remapped"} /\ editor.book = b
             \/ Deleting /\ deleter.book = b

Settled(b) == /\ disk[b] = books[b] \/ (~present[b] /\ Left(b))
              /\ cache[b] \in {books[b], NoEdition}

OthersSettled == \A b \in Books : ~Broken(b) /\ ~InHand(b) => Settled(b)

(* How far the writer is with its book: a change of a whole book starts    *)
(* from the file the record was of.                                        *)
FromBase == /\ editor.backup = editor.base
            /\ ~IsReplacement => editor.new.spine = editor.base.spine

EditorDone ==
    /\ editor.pc = "publishing" => cache[editor.book] = editor.base
    /\ ~Broken(editor.book) =>
         /\ editor.pc = "preparing" => disk[editor.book] = editor.base
         /\ editor.pc \in {"prepared", "publishing", "swapped"} => FromBase
         /\ editor.pc = "swapped" => /\ disk[editor.book] = editor.new
                                     /\ books[editor.book] = editor.base
                                     /\ cache[editor.book] = editor.base
         /\ editor.pc \in {"committed", "remapped"} =>
               disk[editor.book] = editor.new /\ books[editor.book] = editor.new

DeleterDone ==
    deleter.pc \in {"uncached", "dropped"} => cache[deleter.book] = NoEdition

IInv == /\ FilesTypeOK
        /\ OneWriter
        /\ EditorHas
        /\ DeleterHas
        /\ WarmerHas
        /\ ReaderHas
        /\ RowsPresent
        /\ OthersSettled
        /\ EditorDone
        /\ DeleterDone

Parts == <<disk, books, cache, present, editions, editor, deleter, reader, warmer>>

LEMMA GateIs == /\ GateWritten <=> Publishing \/ Deleting
                /\ GateRead <=> editor.pc = "preparing" \/ warmer.pc # "idle" \/ ReadBusy
  BY DEF GateWritten, GateRead, Publishing, Deleting, ReadBusy

LEMMA NoneEdition == NoEdition \in Edition /\ Original \in Edition /\ NoEdition # Original
                     /\ \A e \in Edition : e.hash > 0 => e # NoEdition
  BY DEF NoEdition, Edition, Original

-----------------------------------------------------------------------------
THEOREM BookFilesInitIInv == BookFilesInit => IInv
<1> SUFFICES ASSUME BookFilesInit PROVE IInv
  OBVIOUS
<1> USE DEF BookFilesInit
<1>1. FilesTypeOK
  <2>1. /\ disk \in [Books -> Edition] /\ books \in [Books -> Edition]
        /\ cache \in [Books -> Edition] /\ editions \in Nat
    BY NoneEdition
  <2>2. present \in [Books -> BOOLEAN]
    BY DEF Init
  <2>3. editor \in Editors
    BY NoneEdition DEF Editors, EditorAtRest
  <2>4. deleter \in Deleters
    BY DEF Deleters
  <2>5. reader \in [Readers -> Requests]
    BY NoneEdition DEF Requests, NotServing
  <2>6. warmer \in Warmers
    BY NoneEdition DEF Warmers, NotServing
  <2> QED BY <2>1, <2>2, <2>3, <2>4, <2>5, <2>6 DEF FilesTypeOK
<1>2. OneWriter /\ EditorHas /\ DeleterHas /\ WarmerHas /\ ReaderHas /\ EditorDone /\ DeleterDone
  BY DEF OneWriter, Publishing, Deleting, EditorHas, DeleterHas, WarmerHas, ReaderHas, EditorDone,
         DeleterDone, EditorAtRest, NotServing
<1>3. RowsPresent
  BY NoneEdition DEF RowsPresent, Init
<1>4. OthersSettled
  BY DEF OthersSettled, Settled
<1> QED BY <1>1, <1>2, <1>3, <1>4 DEF IInv

(* Steps of the coalescer and of the clients that save positions.          *)
LEMMA PartsStep ==
  ASSUME IInv, UNCHANGED Parts,
         \A b \in Books : (Broken(b) => Broken(b)') /\ (Left(b) => Left(b)'),
         Broken(editor.book) => Broken(editor.book)'
  PROVE  IInv'
<1>1. FilesTypeOK'
  BY DEF Parts, IInv, FilesTypeOK
<1>2. OneWriter' /\ EditorHas' /\ DeleterHas' /\ WarmerHas' /\ RowsPresent' /\ DeleterDone'
  BY DEF Parts, IInv, OneWriter, Publishing, Deleting, ReadBusy, EditorHas, DeleterHas, WarmerHas,
         RowsPresent, DeleterDone
<1>3. ReaderHas'
  <2> USE DEF Parts
  <2> SUFFICES ASSUME NEW r \in Readers, reader[r].pc = "reading"
               PROVE  /\ reader[r].book \in Books
                      /\ ~Broken(reader[r].book)' => disk[reader[r].book] = reader[r].base
    BY DEF ReaderHas, Broken
  <2> QED BY DEF IInv, ReaderHas
<1>4. OthersSettled'
  <2> SUFFICES ASSUME NEW b \in Books, ~Broken(b)', ~InHand(b)'
               PROVE  Settled(b)'
    BY DEF OthersSettled
  <2>1. InHand(b)' <=> InHand(b)
    BY DEF Parts, InHand, Deleting
  <2>2. Settled(b)
    BY <2>1 DEF IInv, OthersSettled
  <2> QED BY <2>2 DEF Parts, Settled
<1>5. EditorDone'
  BY DEF Parts, IInv, EditorDone, Broken, FromBase, IsReplacement
<1> QED BY <1>1, <1>2, <1>3, <1>4, <1>5 DEF IInv

(* Steps of the editor that leave the files alone, before it has touched   *)
(* them.                                                                   *)
LEMMA EditorStepKeeps ==
  ASSUME IInv, UNCHANGED <<disk, books, cache, present, deleter, reader, warmer, mishaps>>,
         editions' \in Nat, editor' \in Editors,
         editor.pc \in {"idle", "locked", "preparing", "prepared", "publishing"},
         editor'.pc \in {"idle", "locked", "preparing", "prepared", "publishing"},
         editor'.pc = "publishing" => ~Deleting /\ ~ReadBusy /\ warmer.pc = "idle",
         editor'.pc = "preparing" => ~Deleting,
         EditorHas', EditorDone'
  PROVE  IInv'
<1>1. FilesTypeOK'
  BY DEF IInv, FilesTypeOK
<1>2. OneWriter'
  BY DEF IInv, OneWriter, Publishing, Deleting, ReadBusy
<1>3. DeleterHas' /\ WarmerHas' /\ RowsPresent' /\ DeleterDone'
  BY DEF IInv, DeleterHas, WarmerHas, RowsPresent, DeleterDone, Deleting
<1>4. ReaderHas'
  BY DEF IInv, ReaderHas, Broken
<1>5. OthersSettled'
  <2> SUFFICES ASSUME NEW b \in Books, ~Broken(b)', ~InHand(b)'
               PROVE  Settled(b)'
    BY DEF OthersSettled
  <2>1. ~Broken(b) /\ ~InHand(b)
    BY DEF Broken, InHand, Deleting
  <2>2. Settled(b)
    BY <2>1 DEF IInv, OthersSettled
  <2> QED BY <2>2 DEF Settled, Left
<1> QED BY <1>1, <1>2, <1>3, <1>4, <1>5 DEF IInv

EditorPcs == {"idle", "locked", "preparing", "prepared", "publishing", "swapped", "committed", "remapped"}

(* The editor is with the same change as before.                           *)
SameChange == /\ editor'.book = editor.book /\ editor'.base = editor.base
              /\ editor'.new = editor.new /\ editor'.backup = editor.backup
              /\ editor'.kind = editor.kind

LEMMA EditorMoved ==
  ASSUME IInv, NEW pc1, NEW pc2 \in EditorPcs, EditorStep(pc1, pc2)
  PROVE  /\ editor.pc = pc1 /\ editor' \in Editors /\ editor'.pc = pc2
         /\ SameChange
<1>1. editor \in Editors /\ editor.pc = pc1 /\ editor' = [editor EXCEPT !.pc = pc2]
  BY DEF EditorStep, IInv, FilesTypeOK
<1> QED BY <1>1 DEF Editors, EditorPcs, SameChange

LEMMA DeleterMoved ==
  ASSUME IInv, NEW pc1, NEW pc2 \in {"idle", "deleted", "uncached", "dropped"}, DeleterStep(pc1, pc2)
  PROVE  deleter.pc = pc1 /\ deleter' \in Deleters /\ deleter'.pc = pc2 /\ deleter'.book = deleter.book
<1>1. deleter \in Deleters /\ deleter.pc = pc1 /\ deleter' = [deleter EXCEPT !.pc = pc2]
  BY DEF DeleterStep, IInv, FilesTypeOK
<1> QED BY <1>1 DEF Deleters

-----------------------------------------------------------------------------
(* The editor before it renames the file.                                  *)
LEMMA EditBeginKeeps ==
  ASSUME IInv, NEW b \in Books, EditBegin(b)
  PROVE  IInv'
<1>1. /\ editor.pc = "idle" /\ cache[b] # NoEdition
      /\ editor' = [pc |-> "locked", kind |-> "edit", book |-> b, base |-> cache[b],
                    backup |-> NoEdition, new |-> NoEdition]
      /\ UNCHANGED <<disk, books, cache, present, editions, deleter, reader, warmer, mishaps>>
  BY DEF EditBegin, EditorAtRest, vars, storage, files
<1>2. cache[b] \in Edition
  BY DEF IInv, FilesTypeOK
<1>3. editor' \in Editors
  BY <1>1, <1>2, NoneEdition DEF Editors
<1>4. EditorHas' /\ EditorDone'
  BY <1>1 DEF EditorHas, EditorDone
<1>5. editions' \in Nat
  BY <1>1 DEF IInv, FilesTypeOK
<1> QED BY <1>1, <1>3, <1>4, <1>5, EditorStepKeeps

(* While nobody has the write gate, an edit whose snapshot is current      *)
(* starts from the row and from its file.                                  *)
LEMMA SnapshotSettled ==
  ASSUME IInv, editor.pc # "idle", ~GateWritten, SnapshotCurrent, ~Broken(editor.book)
  PROVE  disk[editor.book] = editor.base
<1>1. editor.book \in Books /\ editor.base # NoEdition /\ cache[editor.book] = editor.base
  BY DEF IInv, EditorHas, SnapshotCurrent
<1>2. Settled(editor.book)
  BY <1>1, GateIs DEF IInv, OthersSettled, InHand, Publishing
<1>3. books[editor.book] = editor.base /\ present[editor.book]
  BY <1>1, <1>2 DEF Settled, IInv, RowsPresent
<1> QED BY <1>2, <1>3 DEF Settled

LEMMA EditPrepareKeeps ==
  ASSUME IInv, EditPrepare
  PROVE  IInv'
<1>1. PICK pc2 \in {"preparing", "idle"} :
        EditorStep("locked", pc2) /\ (pc2 = "preparing" => SnapshotCurrent)
  BY DEF EditPrepare
<1>2. /\ ~GateWritten
      /\ UNCHANGED <<disk, books, cache, present, editions, deleter, reader, warmer, mishaps>>
  BY DEF EditPrepare, vars, storage, files
<1>3. /\ editor.pc = "locked" /\ editor' \in Editors /\ editor'.pc = pc2
      /\ SameChange
  BY <1>1, EditorMoved DEF EditorPcs
<1>4. EditorHas' /\ editions' \in Nat
  BY <1>2, <1>3 DEF IInv, FilesTypeOK, EditorHas, SameChange
<1>5. EditorDone'
  BY <1>1, <1>2, <1>3, SnapshotSettled DEF EditorDone, SameChange, Broken
<1> QED BY <1>2, <1>3, <1>4, <1>5, GateIs, EditorStepKeeps

(* The new file, of an edit with the numbering of the old one.             *)
LEMMA PreparedIs ==
  ASSUME IInv, EditPrepared
  PROVE  /\ editor.pc = "preparing" /\ editor.book \in Books /\ editor.base # NoEdition
         /\ editions \in Nat /\ editions' = editions + 1
         /\ UNCHANGED <<disk, books, cache, present, deleter, reader, warmer, writer, mishaps>>
         /\ editor' \in Editors /\ editor'.pc = "prepared"
         /\ editor'.book = editor.book /\ editor'.base = editor.base
         /\ editor'.backup = disk[editor.book] /\ editor'.new.hash = editions'
         /\ editor'.kind # "replace" => editor'.new.spine = disk[editor.book].spine
         /\ editor'.kind = "replace" => editor'.new.spine = editor.base.spine + 1
<1>1. /\ editor.pc = "preparing" /\ editions' = editions + 1
      /\ UNCHANGED <<disk, books, cache, present, deleter, reader, warmer, writer, mishaps>>
  BY DEF EditPrepared, vars, storage, files
<1>2. editor \in Editors /\ editions \in Nat /\ editor.book \in Books /\ editor.base # NoEdition
  BY <1>1 DEF IInv, FilesTypeOK, EditorHas
<1> DEFINE old == disk[editor.book]
           spine(k) == IF k = "edit" THEN old.spine ELSE editor.base.spine + 1
<1>3. PICK kind \in {"edit", "replace"} :
        editor' = [editor EXCEPT !.pc = "prepared", !.kind = kind, !.backup = old,
                                 !.new = [hash |-> editions', spine |-> spine(kind)]]
  BY DEF EditPrepared
<1>4. old \in Edition /\ editor.base \in Edition
  BY <1>2 DEF IInv, FilesTypeOK, Editors
<1>5. spine(kind) \in Nat
  BY <1>4 DEF Edition
<1> DEFINE new == [hash |-> editions', spine |-> spine(kind)]
<1>6. new \in Edition
  BY <1>1, <1>2, <1>5 DEF Edition
<1>7. new.hash = editions' /\ new.spine = spine(kind)
  OBVIOUS
<1>8. editor' = [editor EXCEPT !.pc = "prepared", !.kind = kind, !.backup = old, !.new = new]
  BY <1>3
<1> HIDE DEF new, old
<1>9. /\ editor' \in Editors /\ editor'.pc = "prepared" /\ editor'.book = editor.book
      /\ editor'.base = editor.base /\ editor'.backup = old /\ editor'.new = new
      /\ editor'.kind = kind
  BY <1>2, <1>4, <1>6, <1>8 DEF Editors
<1> QED BY <1>1, <1>2, <1>7, <1>9 DEF old

LEMMA EditPreparedKeeps ==
  ASSUME IInv, EditPrepared
  PROVE  IInv'
<1>1. EditorHas' /\ editions' \in Nat
  BY PreparedIs DEF EditorHas
<1>2. EditorDone'
  <2>1. ~Broken(editor.book) => disk[editor.book] = editor.base
    BY PreparedIs DEF IInv, EditorDone
  <2> QED BY <2>1, PreparedIs DEF EditorDone, FromBase, IsReplacement, Broken
<1> QED BY <1>1, <1>2, PreparedIs, EditorStepKeeps

LEMMA EditAcquireKeeps ==
  ASSUME IInv, EditAcquire
  PROVE  IInv'
<1>1. PICK pc2 \in {"publishing", "idle"} :
        EditorStep("prepared", pc2) /\ (pc2 = "publishing" => SnapshotCurrent)
  BY DEF EditAcquire
<1>2. /\ ~GateWritten /\ ~GateRead
      /\ UNCHANGED <<disk, books, cache, present, editions, deleter, reader, warmer, mishaps>>
  BY DEF EditAcquire, vars, storage, files
<1>3. /\ editor.pc = "prepared" /\ editor' \in Editors /\ editor'.pc = pc2
      /\ SameChange
  BY <1>1, EditorMoved DEF EditorPcs
<1>4. EditorHas' /\ editions' \in Nat
  BY <1>2, <1>3 DEF IInv, FilesTypeOK, EditorHas, SameChange
<1>5. EditorDone'
  <2>1. pc2 = "publishing" => cache[editor'.book] = editor'.base
    BY <1>1, <1>3 DEF SnapshotCurrent, SameChange
  <2> QED BY <1>2, <1>3, <2>1 DEF IInv, EditorDone, FromBase, IsReplacement, Broken, SameChange
<1> QED BY <1>2, <1>3, <1>4, <1>5, GateIs, EditorStepKeeps

LEMMA EditRefusedKeeps ==
  ASSUME IInv, EditRefused
  PROVE  IInv'
<1>1. PICK pc1 \in {"preparing", "publishing"} : EditorStep(pc1, "idle")
  BY DEF EditRefused
<1>2. UNCHANGED <<disk, books, cache, present, editions, deleter, reader, warmer, mishaps>>
  BY DEF EditRefused, vars, storage, files
<1>3. /\ editor.pc = pc1 /\ editor' \in Editors /\ editor'.pc = "idle"
  BY <1>1, EditorMoved DEF EditorPcs
<1>4. EditorHas' /\ EditorDone' /\ editions' \in Nat
  BY <1>2, <1>3 DEF IInv, FilesTypeOK, EditorHas, EditorDone
<1> QED BY <1>2, <1>3, <1>4, EditorStepKeeps

-----------------------------------------------------------------------------
(* The editor with the write gate: it touches its book alone, and nobody   *)
(* reads.                                                                  *)
LEMMA PublishStep ==
  ASSUME IInv, Publishing, UNCHANGED <<present, editions, deleter, reader, warmer>>,
         editor' \in Editors,
         disk' \in [Books -> Edition], books' \in [Books -> Edition], cache' \in [Books -> Edition],
         \A b \in Books : b # editor.book =>
            disk'[b] = disk[b] /\ books'[b] = books[b] /\ cache'[b] = cache[b],
         \A b \in Books : (Broken(b) => Broken(b)') /\ (b # editor.book => (Broken(b)' => Broken(b)))
                          /\ (Left(b) <=> Left(b)'),
         editor'.pc \in {"idle", "swapped", "committed", "remapped"},
         SameChange,
         books'[editor.book] # NoEdition <=> books[editor.book] # NoEdition,
         editor'.pc = "idle" /\ ~Broken(editor.book)' => Settled(editor.book)',
         EditorDone'
  PROVE  IInv'
<1>1. editor.book \in Books /\ editor.base # NoEdition /\ editor.new.hash > 0 /\ editor \in Editors
  BY DEF Publishing, IInv, EditorHas, FilesTypeOK
<1>2. ~Deleting /\ ~ReadBusy /\ warmer.pc = "idle"
  BY DEF IInv, OneWriter
<1>3. FilesTypeOK'
  BY DEF IInv, FilesTypeOK
<1>4. OneWriter'
  BY <1>2 DEF OneWriter, Publishing, Deleting, ReadBusy
<1>5. EditorHas'
  BY <1>1 DEF EditorHas, SameChange
<1>6. DeleterHas' /\ WarmerHas' /\ DeleterDone'
  BY <1>2 DEF DeleterHas, WarmerHas, DeleterDone, Deleting
<1>7. ReaderHas'
  BY <1>2 DEF ReaderHas, ReadBusy
<1>8. RowsPresent'
  BY <1>1 DEF IInv, RowsPresent
<1>9. OthersSettled'
  <2> SUFFICES ASSUME NEW b \in Books, ~Broken(b)', ~InHand(b)'
               PROVE  Settled(b)'
    BY DEF OthersSettled
  <2>1. CASE b = editor.book
    <3>1. editor'.pc = "idle"
      BY <2>1 DEF InHand, SameChange
    <3> QED BY <2>1, <3>1 DEF SameChange
  <2>2. CASE b # editor.book
    <3>1. ~Broken(b) /\ ~InHand(b)
      BY <1>2, <2>2 DEF InHand, SameChange
    <3>2. Settled(b)
      BY <3>1 DEF IInv, OthersSettled
    <3> QED BY <2>2, <3>2 DEF Settled
  <2> QED BY <2>1, <2>2
<1> QED BY <1>3, <1>4, <1>5, <1>6, <1>7, <1>8, <1>9 DEF IInv

LEMMA EditSwapKeeps ==
  ASSUME IInv, EditSwap
  PROVE  IInv'
<1>1. /\ editor.pc = "publishing" /\ editor' \in Editors /\ editor'.pc = "swapped"
      /\ SameChange
  BY EditorMoved DEF EditSwap, EditorPcs
<1>2. /\ disk' = [disk EXCEPT ![editor.book] = editor.new]
      /\ UNCHANGED <<books, cache, present, editions, deleter, reader, warmer, mishaps>>
  BY DEF EditSwap, vars, storage
<1>3. editor.book \in Books /\ editor.new \in Edition /\ editor.base # NoEdition
  BY <1>1 DEF IInv, FilesTypeOK, EditorHas, Editors
<1>4. /\ disk' \in [Books -> Edition] /\ books' \in [Books -> Edition] /\ cache' \in [Books -> Edition]
      /\ \A b \in Books : disk'[b] = IF b = editor.book THEN editor.new ELSE disk[b]
  BY <1>2, <1>3 DEF IInv, FilesTypeOK
<1>5. Publishing
  BY <1>1 DEF Publishing
<1>6. EditorDone'
  <2>1. ASSUME ~Broken(editor.book)'
        PROVE  disk'[editor.book] = editor.new /\ books[editor.book] = editor.base /\ cache[editor.book] = editor.base
    <3>1. ~Broken(editor.book) /\ ~InHand(editor.book)
      BY <1>1, <1>2, <1>5, <2>1 DEF Broken, InHand, IInv, OneWriter, SameChange
    <3>2. Settled(editor.book) /\ cache[editor.book] = editor.base
      BY <1>1, <1>3, <3>1 DEF IInv, OthersSettled, EditorDone
    <3> QED BY <1>3, <1>4, <3>2 DEF Settled
  <2>2. ~Broken(editor.book)' => FromBase'
    BY <1>1, <1>2 DEF IInv, EditorDone, FromBase, IsReplacement, Broken, SameChange
  <2> QED BY <1>1, <1>2, <2>1, <2>2 DEF EditorDone, Broken, SameChange
<1>7. \A b \in Books : (Broken(b) <=> Broken(b)') /\ (Left(b) <=> Left(b)')
  BY <1>2 DEF Broken, Left
<1> QED BY <1>1, <1>2, <1>4, <1>5, <1>6, <1>7, PublishStep

(* An edit leaves the row with the installed file's edition.               *)
LEMMA RowEditedIs ==
  ASSUME IInv, editor.pc = "swapped", RowEdited
  PROVE  /\ books' \in [Books -> Edition] /\ ~IsReplacement /\ present[editor.book]
         /\ \A b \in Books : b # editor.book => books'[b] = books[b]
         /\ books[editor.book] # NoEdition /\ books'[editor.book] # NoEdition
         /\ books'[editor.book].spine = books[editor.book].spine
         /\ books'[editor.book].hash = editor.new.hash
         /\ ~Broken(editor.book) => books'[editor.book] = editor.new
<1>1. /\ editor.book \in Books /\ editor.new \in Edition /\ editor.new.hash > 0
      /\ books \in [Books -> Edition]
  BY DEF IInv, FilesTypeOK, EditorHas, Editors
<1> DEFINE old == books[editor.book]
           row1 == [hash |-> editor.new.hash, spine |-> old.spine]
<1>2. old \in Edition
  BY <1>1
<1>3. [old EXCEPT !.hash = editor.new.hash] = row1
  BY <1>2 DEF Edition
<1>4. row1 \in Edition /\ row1 # NoEdition
  BY <1>1, <1>2, NoneEdition DEF Edition
<1>5. books' = [books EXCEPT ![editor.book] = row1] /\ ~IsReplacement /\ present[editor.book]
  BY <1>3 DEF RowEdited
<1>6. ~Broken(editor.book) => row1 = editor.new
  <2> SUFFICES ASSUME ~Broken(editor.book)
               PROVE  row1 = editor.new
    OBVIOUS
  <2>1. old = editor.base /\ editor.new.spine = editor.base.spine
    BY <1>5 DEF IInv, EditorDone, FromBase
  <2> QED BY <1>1, <2>1 DEF Edition
<1>7. old # NoEdition
  BY <1>1, <1>5 DEF IInv, RowsPresent
<1>8. row1.spine = old.spine /\ row1.hash = editor.new.hash
  OBVIOUS
<1> HIDE DEF row1
<1> QED BY <1>1, <1>4, <1>5, <1>6, <1>7, <1>8

(* So does the transaction of a replacement.                               *)
LEMMA RowCommitted ==
  ASSUME IInv, CommitReplacement \/ CommitEdit
  PROVE  /\ editor.pc = "swapped" /\ editor' \in Editors /\ SameChange
         /\ editor'.pc \in {"committed", "remapped"}
         /\ UNCHANGED <<disk, cache, present, editions, deleter, reader, warmer, writer, mishaps>>
         /\ books' \in [Books -> Edition] /\ present[editor.book]
         /\ \A b \in Books : b # editor.book => books'[b] = books[b]
         /\ books[editor.book] # NoEdition /\ books'[editor.book] # NoEdition
         /\ books'[editor.book].hash = editor.new.hash
         /\ ~Broken(editor.book) => books'[editor.book] = editor.new
<1>1. CASE CommitReplacement
  <2>1. editor.pc = "swapped" /\ editor' \in Editors /\ editor'.pc = "committed" /\ SameChange
    BY <1>1, EditorMoved DEF CommitReplacement, EditorPcs
  <2>2. /\ books' = [books EXCEPT ![editor.book] = editor.new] /\ present[editor.book]
        /\ UNCHANGED <<disk, cache, present, editions, deleter, reader, warmer, writer, mishaps>>
    BY <1>1 DEF CommitReplacement, ReplaceRow
  <2>3. /\ editor.book \in Books /\ editor.new \in Edition /\ editor.new.hash > 0
        /\ books \in [Books -> Edition]
    BY <2>1 DEF IInv, FilesTypeOK, EditorHas, Editors
  <2>4. books[editor.book] # NoEdition
    BY <2>2, <2>3 DEF IInv, RowsPresent
  <2> QED BY <2>1, <2>2, <2>3, <2>4, NoneEdition
<1>2. CASE CommitEdit
  <2>1. editor.pc = "swapped" /\ editor' \in Editors /\ editor'.pc = "remapped" /\ SameChange
    BY <1>2, EditorMoved DEF CommitEdit, EditorPcs
  <2>2. /\ UNCHANGED <<disk, cache, present, editions, deleter, reader, warmer, writer, mishaps>>
        /\ RowEdited
    BY <1>2 DEF CommitEdit, vars, storage
  <2> QED BY <2>1, <2>2, RowEditedIs
<1> QED BY <1>1, <1>2

LEMMA CommitKeeps ==
  ASSUME IInv, CommitReplacement \/ CommitEdit
  PROVE  IInv'
<1>1. /\ disk' \in [Books -> Edition] /\ cache' \in [Books -> Edition] /\ Publishing
  BY RowCommitted DEF IInv, FilesTypeOK, Publishing
<1>2. EditorDone'
  <2>1. ~Broken(editor.book)' => disk'[editor.book] = editor.new /\ books'[editor.book] = editor.new
    BY RowCommitted DEF IInv, EditorDone, Broken, SameChange
  <2> QED BY <2>1, RowCommitted DEF EditorDone, Broken, SameChange
<1>3. \A b \in Books : (Broken(b) <=> Broken(b)') /\ (Left(b) <=> Left(b)')
  BY RowCommitted DEF Broken, Left
<1> QED BY <1>1, <1>2, <1>3, RowCommitted, PublishStep

(* The backup is put back, or the book leaves the cache, with the row as   *)
(* it was or written after all.                                            *)
LEMMA EditRollbackKeeps ==
  ASSUME IInv, EditRollback
  PROVE  IInv'
<1>1. /\ editor.pc = "swapped" /\ editor' \in Editors /\ editor'.pc = "idle"
      /\ SameChange
  BY EditorMoved DEF EditRollback, EditorPcs
<1>2. UNCHANGED <<present, editions, deleter, reader, warmer>>
  BY DEF EditRollback, vars, storage
<1>3. /\ editor.book \in Books /\ editor.backup \in Edition /\ editor.base # NoEdition
  BY <1>1 DEF IInv, FilesTypeOK, EditorHas, Editors
<1>4. Publishing /\ EditorDone'
  BY <1>1 DEF Publishing, EditorDone
<1>5. /\ books' \in [Books -> Edition]
      /\ \A b \in Books : b # editor.book => books'[b] = books[b]
      /\ books'[editor.book] # NoEdition <=> books[editor.book] # NoEdition
  BY <1>1, RowEditedIs DEF EditRollback, IInv, FilesTypeOK
<1>6. /\ disk' \in [Books -> Edition] /\ cache' \in [Books -> Edition]
      /\ \A b \in Books : b # editor.book => disk'[b] = disk[b] /\ cache'[b] = cache[b]
  BY <1>3, NoneEdition DEF EditRollback, BackupRestored, BackupKept, IInv, FilesTypeOK
<1>7. \A b \in Books : /\ Broken(b) => Broken(b)'
                       /\ b # editor.book => (Broken(b)' => Broken(b))
                       /\ Left(b) <=> Left(b)'
  BY DEF EditRollback, Mishap, Broken, Left
<1>8. ~Broken(editor.book)' => Settled(editor.book)'
  <2> SUFFICES ASSUME ~Broken(editor.book)'
               PROVE  Settled(editor.book)'
    BY <1>1 DEF SameChange, Broken
  <2>1. /\ ~Broken(editor.book)
        /\ \/ UNCHANGED books /\ BackupRestored
           \/ RowEdited /\ BackupKept
    BY <1>1, <1>3 DEF EditRollback, Mishap, Broken, SameChange
  <2>2. /\ books[editor.book] = editor.base /\ cache[editor.book] = editor.base
        /\ disk[editor.book] = editor.new /\ editor.backup = editor.base
    BY <1>1, <2>1 DEF IInv, EditorDone, FromBase
  <2>3. CASE UNCHANGED books /\ BackupRestored
    BY <1>1, <1>3, <2>2, <2>3 DEF BackupRestored, Settled, SameChange, IInv, FilesTypeOK
  <2>4. CASE RowEdited /\ BackupKept
    <3>1. books'[editor.book] = editor.new
      BY <1>1, <2>1, <2>4, RowEditedIs
    <3> QED BY <1>1, <1>3, <2>2, <2>4, <3>1 DEF BackupKept, Settled, SameChange, IInv, FilesTypeOK
  <2> QED BY <2>1, <2>3, <2>4
<1> QED BY <1>1, <1>2, <1>4, <1>5, <1>6, <1>7, <1>8, PublishStep

LEMMA EditRemapKeeps ==
  ASSUME IInv, EditRemap
  PROVE  IInv'
<1>1. /\ editor.pc = "committed" /\ editor' \in Editors /\ editor'.pc = "remapped"
      /\ SameChange
  BY EditorMoved DEF EditRemap, EditorPcs
<1>2. UNCHANGED <<disk, books, cache, present, editions, deleter, reader, warmer, mishaps>>
  BY DEF EditRemap, RemapBook, files, storage
<1>3. /\ disk' \in [Books -> Edition] /\ books' \in [Books -> Edition] /\ cache' \in [Books -> Edition]
  BY <1>2 DEF IInv, FilesTypeOK
<1>4. Publishing
  BY <1>1 DEF Publishing
<1>5. EditorDone'
  BY <1>1, <1>2 DEF IInv, EditorDone, Broken, SameChange
<1>6. \A b \in Books : (Broken(b) <=> Broken(b)') /\ (Left(b) <=> Left(b)')
  BY <1>2 DEF Broken, Left
<1> QED BY <1>1, <1>2, <1>3, <1>4, <1>5, <1>6, PublishStep

LEMMA EditRefreshKeeps ==
  ASSUME IInv, EditRefresh
  PROVE  IInv'
<1>1. /\ editor.pc = "remapped" /\ editor' \in Editors /\ editor'.pc = "idle"
      /\ SameChange
  BY EditorMoved DEF EditRefresh, EditorPcs
<1>2. UNCHANGED <<disk, books, present, editions, deleter, reader, warmer, mishaps>>
  BY DEF EditRefresh, vars, storage
<1>3. PICK e \in {books[editor.book], NoEdition} : cache' = [cache EXCEPT ![editor.book] = e]
  BY DEF EditRefresh
<1>4. editor.book \in Books
  BY <1>1 DEF IInv, EditorHas
<1>5. /\ disk' \in [Books -> Edition] /\ books' \in [Books -> Edition] /\ cache' \in [Books -> Edition]
      /\ \A b \in Books : cache'[b] = IF b = editor.book THEN e ELSE cache[b]
  BY <1>2, <1>3, <1>4, NoneEdition DEF IInv, FilesTypeOK
<1>6. Publishing
  BY <1>1 DEF Publishing
<1>7. EditorDone'
  BY <1>1 DEF EditorDone
<1>8. \A b \in Books : (Broken(b) <=> Broken(b)') /\ (Left(b) <=> Left(b)')
  BY <1>2 DEF Broken, Left
<1>9. ~Broken(editor.book)' => Settled(editor.book)'
  <2> SUFFICES ASSUME ~Broken(editor.book)
               PROVE  Settled(editor.book)'
    BY <1>1, <1>2 DEF Broken, SameChange
  <2>1. disk[editor.book] = books[editor.book]
    BY <1>1 DEF IInv, EditorDone
  <2> QED BY <1>1, <1>2, <1>4, <1>5, <2>1 DEF Settled, SameChange
<1> QED BY <1>1, <1>2, <1>5, <1>6, <1>7, <1>8, <1>9, PublishStep

-----------------------------------------------------------------------------
(* A deletion holds the write gate from its transaction to the end.        *)
LEMMA DeleteStep ==
  ASSUME IInv, NEW b \in Books, ~Publishing, ~ReadBusy, warmer.pc = "idle", editor.pc # "preparing",
         UNCHANGED <<editions, editor, reader, warmer>>,
         deleter' \in Deleters, deleter'.book = b,
         disk' \in [Books -> Edition], books' \in [Books -> Edition], cache' \in [Books -> Edition],
         present' \in [Books -> BOOLEAN],
         \A c \in Books : c # b => /\ disk'[c] = disk[c] /\ books'[c] = books[c]
                                   /\ cache'[c] = cache[c] /\ (present'[c] <=> present[c]),
         \A c \in Books : (Broken(c) <=> Broken(c)') /\ (Left(c) => Left(c)'),
         ~present'[b] /\ books'[b] = NoEdition,
         deleter.pc = "idle" \/ deleter.book = b,
         deleter'.pc = "idle" => Settled(b)',
         DeleterDone'
  PROVE  IInv'
<1>1. FilesTypeOK'
  BY DEF IInv, FilesTypeOK
<1>2. OneWriter'
  BY DEF OneWriter, Publishing, Deleting, ReadBusy
<1>3. EditorHas' /\ WarmerHas' /\ ReaderHas'
  BY DEF IInv, EditorHas, WarmerHas, ReaderHas, ReadBusy, FilesTypeOK, Warmers
<1>4. DeleterHas'
  BY DEF DeleterHas, Deleting
<1>5. RowsPresent'
  BY DEF IInv, RowsPresent
<1>6. OthersSettled'
  <2> SUFFICES ASSUME NEW c \in Books, ~Broken(c)', ~InHand(c)'
               PROVE  Settled(c)'
    BY DEF OthersSettled
  <2>1. CASE c = b
    <3>1. deleter'.pc = "idle"
      BY <2>1 DEF InHand, Deleting
    <3> QED BY <2>1, <3>1
  <2>2. CASE c # b
    <3>1. ~Broken(c) /\ ~InHand(c)
      BY <2>2 DEF InHand, Deleting, Publishing
    <3>2. Settled(c)
      BY <3>1 DEF IInv, OthersSettled
    <3> QED BY <2>2, <3>2 DEF Settled
  <2> QED BY <2>1, <2>2
<1>7. EditorDone'
  <2>1. editor.pc # "idle" => (Broken(editor.book)' <=> Broken(editor.book))
    BY DEF IInv, EditorHas
  <2> QED BY <2>1 DEF IInv, EditorDone, FromBase, IsReplacement, Publishing
<1> QED BY <1>1, <1>2, <1>3, <1>4, <1>5, <1>6, <1>7 DEF IInv

LEMMA DeleteBeginKeeps ==
  ASSUME IInv, NEW b \in Books, DeleteBegin(b)
  PROVE  IInv'
<1>1. /\ ~Publishing /\ ~Deleting /\ ~ReadBusy /\ warmer.pc = "idle" /\ editor.pc # "preparing"
  BY GateIs DEF DeleteBegin
<1>2. /\ UNCHANGED <<disk, cache, editions, editor, reader, warmer, mishaps>>
      /\ books' = [books EXCEPT ![b] = NoEdition] /\ deleter' = [pc |-> "deleted", book |-> b]
      /\ present' = [present EXCEPT ![b] = FALSE]
  BY DEF DeleteBegin, DeleteRow
<1>3. deleter' \in Deleters /\ deleter'.book = b /\ deleter'.pc = "deleted"
  BY <1>2 DEF Deleters
<1>4. /\ disk' \in [Books -> Edition] /\ books' \in [Books -> Edition] /\ cache' \in [Books -> Edition]
      /\ \A c \in Books : books'[c] = IF c = b THEN NoEdition ELSE books[c]
  BY <1>2, NoneEdition DEF IInv, FilesTypeOK
<1>5. present' \in [Books -> BOOLEAN] /\ ~present'[b] /\ \A c \in Books : c # b => (present'[c] <=> present[c])
  BY <1>2 DEF IInv, FilesTypeOK
<1>6. \A c \in Books : (Broken(c) <=> Broken(c)') /\ (Left(c) <=> Left(c)')
  BY <1>2 DEF Broken, Left
<1>7. DeleterDone'
  BY <1>3 DEF DeleterDone
<1>8. deleter.pc = "idle"
  BY <1>1 DEF Deleting
<1> QED BY <1>1, <1>2, <1>3, <1>4, <1>5, <1>6, <1>7, <1>8, DeleteStep

(* The steps of a deletion under way.                                      *)
LEMMA DeletingHas ==
  ASSUME IInv, Deleting
  PROVE  /\ ~Publishing /\ ~ReadBusy /\ warmer.pc = "idle" /\ editor.pc # "preparing"
         /\ deleter.book \in Books /\ ~present[deleter.book] /\ books[deleter.book] = NoEdition
  BY DEF IInv, OneWriter, DeleterHas, RowsPresent

LEMMA DeleteUncacheKeeps ==
  ASSUME IInv, DeleteUncache
  PROVE  IInv'
<1>1. deleter.pc = "deleted" /\ deleter' \in Deleters /\ deleter'.pc = "uncached" /\ deleter'.book = deleter.book
  BY DeleterMoved DEF DeleteUncache
<1>2. /\ UNCHANGED <<disk, books, present, editions, editor, reader, warmer, mishaps>>
      /\ cache' = [cache EXCEPT ![deleter.book] = NoEdition]
  BY DEF DeleteUncache, vars, storage
<1>3. Deleting
  BY <1>1 DEF Deleting
<1>4. /\ disk' \in [Books -> Edition] /\ books' \in [Books -> Edition] /\ cache' \in [Books -> Edition]
      /\ present' \in [Books -> BOOLEAN]
      /\ \A c \in Books : cache'[c] = IF c = deleter.book THEN NoEdition ELSE cache[c]
  BY <1>2, NoneEdition DEF IInv, FilesTypeOK
<1>5. \A c \in Books : (Broken(c) <=> Broken(c)') /\ (Left(c) <=> Left(c)')
  BY <1>2 DEF Broken, Left
<1>6. DeleterDone'
  BY <1>1, <1>3, <1>4, DeletingHas DEF DeleterDone
<1> QED BY <1>1, <1>2, <1>3, <1>4, <1>5, <1>6, DeletingHas, DeleteStep

LEMMA DeleteDropKeeps ==
  ASSUME IInv, DeleteDrop
  PROVE  IInv'
<1>1. deleter.pc = "uncached" /\ deleter' \in Deleters /\ deleter'.pc = "dropped" /\ deleter'.book = deleter.book
  BY DeleterMoved DEF DeleteDrop
<1>2. UNCHANGED <<disk, books, cache, present, editions, editor, reader, warmer, mishaps>>
  BY DEF DeleteDrop, DropBook, files, storage
<1>3. Deleting
  BY <1>1 DEF Deleting
<1>4. /\ disk' \in [Books -> Edition] /\ books' \in [Books -> Edition] /\ cache' \in [Books -> Edition]
      /\ present' \in [Books -> BOOLEAN]
  BY <1>2 DEF IInv, FilesTypeOK
<1>5. \A c \in Books : (Broken(c) <=> Broken(c)') /\ (Left(c) <=> Left(c)')
  BY <1>2 DEF Broken, Left
<1>6. DeleterDone'
  BY <1>1, <1>2 DEF IInv, DeleterDone
<1> QED BY <1>1, <1>2, <1>3, <1>4, <1>5, <1>6, DeletingHas, DeleteStep

LEMMA DeleteUnlinkKeeps ==
  ASSUME IInv, DeleteUnlink
  PROVE  IInv'
<1>1. deleter.pc = "dropped" /\ deleter' \in Deleters /\ deleter'.pc = "idle" /\ deleter'.book = deleter.book
  BY DeleterMoved DEF DeleteUnlink
<1>2. UNCHANGED <<books, cache, present, editions, editor, reader, warmer>>
  BY DEF DeleteUnlink, vars, storage
<1>3. Deleting
  BY <1>1 DEF Deleting
<1>4. PICK left \in {NoEdition, disk[deleter.book]} :
        /\ disk' = [disk EXCEPT ![deleter.book] = left]
        /\ mishaps' = IF left = NoEdition THEN mishaps ELSE mishaps \cup {<<deleter.book, "unlink">>}
  BY DEF DeleteUnlink
<1>5. deleter.book \in Books /\ ~present[deleter.book] /\ books[deleter.book] = NoEdition
  BY <1>3, DeletingHas
<1>6. /\ disk' \in [Books -> Edition] /\ books' \in [Books -> Edition] /\ cache' \in [Books -> Edition]
      /\ present' \in [Books -> BOOLEAN]
      /\ \A c \in Books : disk'[c] = IF c = deleter.book THEN left ELSE disk[c]
  BY <1>2, <1>4, <1>5, NoneEdition DEF IInv, FilesTypeOK
<1>7. \A c \in Books : (Broken(c) <=> Broken(c)') /\ (Left(c) => Left(c)')
  BY <1>4 DEF Broken, Left
<1>8. left # NoEdition => Left(deleter.book)'
  BY <1>1, <1>4 DEF Left
<1>9. Settled(deleter.book)'
  <2>1. cache[deleter.book] = NoEdition
    BY <1>1 DEF IInv, DeleterDone
  <2> QED BY <1>1, <1>2, <1>5, <1>6, <1>8, <2>1 DEF Settled
<1>10. DeleterDone'
  BY <1>1 DEF DeleterDone
<1> DEFINE b == deleter.book
<1>11. deleter'.book = b /\ b \in Books /\ Settled(b)'
  BY <1>1, <1>5, <1>9
<1> QED BY <1>1, <1>2, <1>3, <1>5, <1>6, <1>7, <1>10, <1>11, DeletingHas, DeleteStep

LEMMA DeleteMissingKeeps ==
  ASSUME IInv, NEW b \in Books, DeleteMissing(b)
  PROVE  IInv'
<1>1. ~Publishing /\ ~Deleting
  BY GateIs DEF DeleteMissing
<1>2. /\ UNCHANGED <<disk, books, present, editions, editor, deleter, reader, warmer, mishaps>>
      /\ cache' = [cache EXCEPT ![b] = NoEdition]
  BY DEF DeleteMissing, handlers, storage
<1>3. \A c \in Books : cache'[c] = IF c = b THEN NoEdition ELSE cache[c]
  BY <1>2 DEF IInv, FilesTypeOK
<1>4. FilesTypeOK'
  BY <1>2, NoneEdition DEF IInv, FilesTypeOK
<1>5. OneWriter' /\ EditorHas' /\ DeleterHas' /\ WarmerHas' /\ ReaderHas' /\ RowsPresent'
  BY <1>2 DEF IInv, OneWriter, Publishing, Deleting, ReadBusy, EditorHas, DeleterHas, WarmerHas,
              ReaderHas, RowsPresent, Broken
<1>6. EditorDone' /\ DeleterDone'
  BY <1>1, <1>2 DEF IInv, EditorDone, DeleterDone, Publishing, Deleting, FromBase, IsReplacement, Broken
<1>7. OthersSettled'
  <2> SUFFICES ASSUME NEW c \in Books, ~Broken(c)', ~InHand(c)'
               PROVE  Settled(c)'
    BY DEF OthersSettled
  <2>1. Settled(c)
    BY <1>2 DEF IInv, OthersSettled, Broken, InHand, Deleting
  <2> QED BY <1>2, <1>3, <2>1 DEF Settled, Left
<1> QED BY <1>4, <1>5, <1>6, <1>7 DEF IInv

-----------------------------------------------------------------------------
(* Requests and reloads, under the read side.                              *)
LEMMA ReadBeginKeeps ==
  ASSUME IInv, NEW r \in Readers, NEW b \in Books, ReadBegin(r, b)
  PROVE  IInv'
<1>1. ~Publishing /\ ~Deleting
  BY GateIs DEF ReadBegin
<1> DEFINE new == [pc |-> "reading", book |-> b, base |-> cache[b]]
<1>2. /\ UNCHANGED <<disk, books, cache, present, editions, editor, deleter, warmer, mishaps>>
      /\ reader' = [reader EXCEPT ![r] = new] /\ cache[b] # NoEdition
  BY DEF ReadBegin, vars, storage, files
<1>3. new \in Requests
  BY DEF IInv, FilesTypeOK, Requests
<1>4. FilesTypeOK'
  BY <1>2, <1>3 DEF IInv, FilesTypeOK
<1>5. ~Broken(b) => disk[b] = cache[b]
  <2> SUFFICES ASSUME ~Broken(b)
               PROVE  disk[b] = cache[b]
    OBVIOUS
  <2>1. Settled(b)
    BY <1>1 DEF IInv, OthersSettled, InHand, Publishing
  <2>2. cache[b] = books[b] /\ present[b]
    BY <1>2, <2>1 DEF Settled, IInv, RowsPresent
  <2> QED BY <2>1, <2>2 DEF Settled
<1>6. ReaderHas'
  <2> SUFFICES ASSUME NEW q \in Readers, reader'[q].pc = "reading"
               PROVE  /\ reader'[q].book \in Books
                      /\ ~Broken(reader'[q].book) => disk[reader'[q].book] = reader'[q].base
    BY <1>2 DEF ReaderHas, Broken
  <2>1. CASE q = r
    BY <1>2, <1>5, <2>1 DEF IInv, FilesTypeOK
  <2>2. CASE q # r
    BY <1>2, <2>2 DEF IInv, FilesTypeOK, ReaderHas
  <2> QED BY <2>1, <2>2
<1>7. OneWriter'
  BY <1>1, <1>2 DEF OneWriter, Publishing, Deleting
<1>8. EditorHas' /\ DeleterHas' /\ WarmerHas' /\ RowsPresent' /\ EditorDone' /\ DeleterDone'
  BY <1>2 DEF IInv, EditorHas, DeleterHas, WarmerHas, RowsPresent, EditorDone, DeleterDone, Deleting, Broken,
              FromBase, IsReplacement
<1>9. OthersSettled'
  BY <1>2 DEF IInv, OthersSettled, Settled, InHand, Deleting, Broken, Left
<1> QED BY <1>4, <1>6, <1>7, <1>8, <1>9 DEF IInv

LEMMA ReadEndKeeps ==
  ASSUME IInv, NEW r \in Readers, ReadEnd(r)
  PROVE  IInv'
<1>1. /\ UNCHANGED <<disk, books, cache, present, editions, editor, deleter, warmer, mishaps>>
      /\ reader' = [reader EXCEPT ![r] = NotServing]
  BY DEF ReadEnd, vars, storage, files
<1>2. /\ reader' \in [Readers -> Requests] /\ reader'[r].pc = "idle"
      /\ \A q \in Readers : q # r => reader'[q] = reader[q]
  BY <1>1, NoneEdition DEF IInv, FilesTypeOK, Requests, NotServing
<1>3. FilesTypeOK'
  BY <1>1, <1>2 DEF IInv, FilesTypeOK
<1>4. ReaderHas'
  BY <1>1, <1>2 DEF IInv, ReaderHas, Broken
<1>5. OneWriter'
  BY <1>1, <1>2 DEF IInv, OneWriter, Publishing, Deleting, ReadBusy
<1>6. EditorHas' /\ DeleterHas' /\ WarmerHas' /\ RowsPresent' /\ EditorDone' /\ DeleterDone'
  BY <1>1 DEF IInv, EditorHas, DeleterHas, WarmerHas, RowsPresent, EditorDone, DeleterDone, Deleting, Broken,
              FromBase, IsReplacement
<1>7. OthersSettled'
  BY <1>1 DEF IInv, OthersSettled, Settled, InHand, Deleting, Broken, Left
<1> QED BY <1>3, <1>4, <1>5, <1>6, <1>7 DEF IInv

LEMMA WarmLoadKeeps ==
  ASSUME IInv, NEW b \in Books, WarmLoad(b)
  PROVE  IInv'
<1>1. ~Publishing /\ ~Deleting
  BY GateIs DEF WarmLoad
<1>2. /\ UNCHANGED <<disk, books, cache, present, editions, editor, deleter, reader, mishaps>>
      /\ warmer' = [pc |-> "loaded", book |-> b, base |-> books[b]]
  BY DEF WarmLoad, vars, storage, files
<1>3. FilesTypeOK'
  BY <1>2 DEF IInv, FilesTypeOK, Warmers
<1>4. WarmerHas'
  BY <1>2 DEF WarmerHas
<1>5. OneWriter'
  BY <1>1, <1>2 DEF OneWriter, Publishing, Deleting
<1>6. EditorHas' /\ DeleterHas' /\ ReaderHas' /\ RowsPresent' /\ EditorDone' /\ DeleterDone'
  BY <1>2 DEF IInv, EditorHas, DeleterHas, ReaderHas, RowsPresent, EditorDone, DeleterDone, Deleting, Broken,
              FromBase, IsReplacement
<1>7. OthersSettled'
  BY <1>2 DEF IInv, OthersSettled, Settled, InHand, Deleting, Broken, Left
<1> QED BY <1>3, <1>4, <1>5, <1>6, <1>7 DEF IInv

LEMMA WarmAddKeeps ==
  ASSUME IInv, WarmAdd
  PROVE  IInv'
<1>1. /\ warmer.pc = "loaded" /\ warmer' = NotServing
      /\ cache' = [cache EXCEPT ![warmer.book] = warmer.base]
      /\ UNCHANGED <<disk, books, present, editions, editor, deleter, reader, mishaps>>
  BY DEF WarmAdd, vars, storage
<1>2. warmer.book \in Books /\ warmer.base = books[warmer.book] /\ ~Publishing /\ ~Deleting
  BY <1>1 DEF IInv, WarmerHas, OneWriter
<1>3. warmer' \in Warmers /\ warmer'.pc = "idle"
  BY <1>1, NoneEdition DEF Warmers, NotServing
<1>4. /\ cache' \in [Books -> Edition]
      /\ \A c \in Books : cache'[c] = IF c = warmer.book THEN books[c] ELSE cache[c]
  BY <1>1, <1>2 DEF IInv, FilesTypeOK
<1>5. FilesTypeOK'
  BY <1>1, <1>3, <1>4 DEF IInv, FilesTypeOK
<1>6. WarmerHas' /\ OneWriter'
  BY <1>1, <1>2, <1>3 DEF WarmerHas, OneWriter, Publishing, Deleting
<1>7. EditorHas' /\ DeleterHas' /\ ReaderHas' /\ RowsPresent'
  BY <1>1 DEF IInv, EditorHas, DeleterHas, ReaderHas, RowsPresent, Deleting, Broken
<1>8. EditorDone' /\ DeleterDone'
  BY <1>1, <1>2 DEF IInv, EditorDone, DeleterDone, Publishing, Deleting, FromBase, IsReplacement, Broken
<1>9. OthersSettled'
  <2> SUFFICES ASSUME NEW c \in Books, ~Broken(c)', ~InHand(c)'
               PROVE  Settled(c)'
    BY DEF OthersSettled
  <2>1. Settled(c)
    BY <1>1 DEF IInv, OthersSettled, Broken, InHand, Deleting
  <2> QED BY <1>1, <1>4, <2>1 DEF Settled, Left
<1> QED BY <1>5, <1>6, <1>7, <1>8, <1>9 DEF IInv

-----------------------------------------------------------------------------
(* Saves and flushes change neither a file nor a row of books.             *)
LEMMA WritingKeeps ==
  ASSUME IInv, Writing
  PROVE  IInv'
<1>1. UNCHANGED Parts
  BY DEF Writing, Open, PutBegin, PutStages, PutRefused, Stage, Parts, vars, storage, files
<1>2. mishaps \subseteq mishaps'
  BY DEF Writing, Open, PutBegin, PutStages, PutRefused
<1>3. /\ \A b \in Books : (Broken(b) => Broken(b)') /\ (Left(b) => Left(b)')
      /\ Broken(editor.book) => Broken(editor.book)'
  BY <1>1, <1>2 DEF Broken, Left, Parts
<1> QED BY <1>1, <1>3, PartsStep

LEMMA FlushingKeeps ==
  ASSUME IInv, Flushing
  PROVE  IInv'
<1>1. UNCHANGED present
  BY DEF Flushing, Flusher, FlushOnTick, FlushOnSignal, FlushOnDone, StartFlush, EndFlush, Save,
         SaveSucceeds, SaveViolatesKey, SaveFails, DiscardSaved, storage
<1>2. UNCHANGED <<files, editions, handlers>> /\ mishaps \subseteq mishaps'
  BY DEF Flushing
<1>3. UNCHANGED Parts
  BY <1>1, <1>2 DEF Parts, files, handlers
<1>4. /\ \A b \in Books : (Broken(b) => Broken(b)') /\ (Left(b) => Left(b)')
      /\ Broken(editor.book) => Broken(editor.book)'
  BY <1>2, <1>3 DEF Broken, Left, Parts
<1> QED BY <1>3, <1>4, PartsStep

LEMMA BookFilesNextIInv ==
  ASSUME IInv, [BookFilesNext]_bvars
  PROVE  IInv'
<1>1. CASE UNCHANGED bvars
  <2>1. UNCHANGED Parts /\ UNCHANGED mishaps
    BY <1>1 DEF bvars, Parts, vars, storage, files, handlers
  <2>2. /\ \A b \in Books : (Broken(b) => Broken(b)') /\ (Left(b) => Left(b)')
        /\ Broken(editor.book) => Broken(editor.book)'
    BY <2>1 DEF Broken, Left, Parts
  <2> QED BY <2>1, <2>2, PartsStep
<1>2. CASE Editor
  BY <1>2, EditBeginKeeps, EditPrepareKeeps, EditPreparedKeeps, EditAcquireKeeps, EditRefusedKeeps,
     EditSwapKeeps, CommitKeeps, EditRollbackKeeps, EditRemapKeeps, EditRefreshKeeps DEF Editor
<1>3. CASE Deleter
  BY <1>3, DeleteBeginKeeps, DeleteUncacheKeeps, DeleteDropKeeps, DeleteUnlinkKeeps,
     DeleteMissingKeeps DEF Deleter
<1>4. CASE Serving
  BY <1>4, ReadBeginKeeps, ReadEndKeeps, WarmLoadKeeps, WarmAddKeeps DEF Serving
<1>5. CASE Writing \/ Flushing
  BY <1>5, WritingKeeps, FlushingKeeps
<1> QED BY <1>1, <1>2, <1>3, <1>4, <1>5 DEF BookFilesNext

LEMMA BookFilesIInv == BookFilesSpec => []IInv
<1>1. IInv /\ [BookFilesNext]_bvars => IInv'
  BY BookFilesNextIInv
<1> QED BY BookFilesInitIInv, <1>1, PTL DEF BookFilesSpec

(* Between changes (bookReplaceMu is not held for writing) the file, the   *)
(* books row and the cached record of every book are one edition, however  *)
(* edits, replacements, deletions, reloads and saves were interleaved and  *)
(* whichever of their steps failed, with three exceptions: a backup that   *)
(* could not be put back, a backup put back though the edit's row was      *)
(* written and only its receipt lost, and a file that could not be removed. *)
THEOREM PlacesAgree == BookFilesSpec => []FilesAgree
<1>1. IInv => FilesAgree
  <2> SUFFICES ASSUME IInv, ~GateWritten, NEW b \in Books, ~Broken(b)
               PROVE  Settled(b)
    BY DEF FilesAgree, Settled, Whole, Broken, Left
  <2> QED BY GateIs DEF IInv, OthersSettled, InHand, Publishing
<1> QED BY BookFilesIInv, <1>1, PTL

(* A request that holds the read side of the gate reads the bytes its ETag *)
(* and resource token were made for (replaceBookFile), unless a failed     *)
(* restore or a lost receipt has parted file and row before.               *)
THEOREM OneFileRead == BookFilesSpec => []ReadersSeeOneFile
<1>1. IInv => ReadersSeeOneFile
  BY DEF IInv, ReaderHas, ReadersSeeOneFile, Whole, Broken
<1> QED BY BookFilesIInv, <1>1, PTL

-----------------------------------------------------------------------------
(* Stored positions.  What the flusher has in hand, of a book that is      *)
(* there, is what is buffered or older.                                    *)
Clients == [pc : {"idle", "open", "checked", "refused"}, book : Books \cup {NoBook},
            view : Edition, snapshot : Edition]

PlacesTypeOK ==
    /\ pending \in [Books -> Entry] /\ batch \in [Books -> Entry]
    /\ row \in [Books -> Record]
    /\ nextVersion \in Nat /\ issued \in Nat
    /\ writer \in [Writers -> Clients]
    /\ \A w \in Writers : writer[w].pc # "idle" => writer[w].book \in Books

Versions == \A b \in Books : pending[b] # NoEntry => pending[b].version \in 1..nextVersion

BatchBehind == \A b \in Books : present[b] /\ batch[b] # NoEntry =>
    /\ pending[b] # NoEntry
    /\ batch[b] = pending[b] \/ batch[b].version < pending[b].version

OneSave == pc \in {"idle", "exited"} => saved = NoBook

(* A replacement is under way between its transaction and its remap.       *)
Moving(b) == editor.pc = "committed" /\ editor.book = b

OpFollows == \A b \in Books : op = [kind |-> "replace", book |-> b] <=> Moving(b)

(* A cached record counts chapters as the row does, also where the file is *)
(* another; a replacement moves the numbering by one, and an edit leaves   *)
(* the row's.                                                              *)
RecordFits(b) == present[b] /\ cache[b].spine = books[b].spine

CacheFits == \A b \in Books : ~InHand(b) /\ cache[b] # NoEdition => RecordFits(b)

EditFits ==
    /\ editor.pc \in {"publishing", "swapped"} =>
          cache[editor.book] = editor.base /\ RecordFits(editor.book)
    /\ editor.pc \in {"prepared", "publishing", "swapped"} /\ IsReplacement =>
          editor.new.spine = editor.base.spine + 1
    /\ editor.pc = "committed" => /\ books[editor.book] = editor.new
                                  /\ editor.new.spine = editor.base.spine + 1

(* Nobody has seen the new edition before it is published.                 *)
Before(n) == /\ \A b \in Books : cache[b].hash < n
             /\ \A w \in Writers : writer[w].view.hash < n
             /\ warmer.pc = "loaded" => warmer.base.hash < n

Unseen ==
    /\ Before(editions + 1) /\ editor.new.hash < editions + 1
    /\ \A b \in Books : books[b].hash < editions + 1
    /\ editor.pc \in {"prepared", "publishing", "swapped", "committed"} =>
          Before(editor.new.hash)
    /\ editor.pc \in {"prepared", "publishing", "swapped"} =>
          \A b \in Books : books[b].hash < editor.new.hash

FilesFit == CacheFits /\ EditFits /\ Unseen

(* No save of the old position fell between transaction and remap, and no  *)
(* PUT was checked against the old record.                                 *)
Clean(b) == {<<b, "saved">>, <<b, "put">>} \cap mishaps = {}

RowRight(b) == row[b] # NoRecord => row[b].gen = books[b].spine

(* The numbering of what is buffered.                                      *)
BufferGen(b) == IF Moving(b) THEN editor.base.spine ELSE books[b].spine

Counted(b) ==
    /\ pending[b] # NoEntry => pending[b].rec.gen = BufferGen(b)
    /\ pending[b] = NoEntry => RowRight(b)
    /\ saved = b /\ batch[b] = pending[b] => RowRight(b)

AllCounted == \A b \in Books : Clean(b) /\ present[b] => Counted(b)

PlacesFit == Versions /\ BatchBehind /\ OneSave /\ OpFollows /\ AllCounted

NInv == PlacesTypeOK /\ FilesFit /\ PlacesFit


LEMMA EditionTypes ==
  ASSUME IInv, PlacesTypeOK
  PROVE  /\ editions \in Nat
         /\ \A b \in Books : /\ books[b] \in Edition /\ books[b].hash \in Nat /\ books[b].spine \in Nat
                             /\ cache[b] \in Edition /\ cache[b].hash \in Nat
                             /\ disk[b] \in Edition /\ disk[b].spine \in Nat
         /\ \A w \in Writers : writer[w].view.hash \in Nat /\ writer[w].view.spine \in Nat
         /\ editor.new.hash \in Nat /\ editor.new.spine \in Nat
         /\ editor.base.hash \in Nat /\ editor.base.spine \in Nat
         /\ warmer.base.hash \in Nat
  BY DEF IInv, FilesTypeOK, PlacesTypeOK, Edition, Editors, Warmers, Clients

(* A step that changes no file, record or row, and nobody's view.          *)
LEMMA FilesStill ==
  ASSUME FilesFit, UNCHANGED <<disk, books, cache, present, editions, editor, warmer>>,
         deleter'.book = deleter.book, Deleting' <=> Deleting,
         \A w \in Writers : writer'[w].view = writer[w].view
  PROVE  FilesFit'
<1>1. CacheFits'
  BY DEF FilesFit, CacheFits, InHand, RecordFits
<1>2. EditFits'
  BY DEF FilesFit, EditFits, RecordFits, IsReplacement
<1>3. Unseen'
  BY DEF FilesFit, Unseen, Before
<1> QED BY <1>1, <1>2, <1>3 DEF FilesFit

Waiting == {"idle", "locked", "preparing", "prepared", "publishing"}

(* The editor goes on without touching a file.                             *)
LEMMA EditorGoesOn ==
  ASSUME FilesFit, UNCHANGED <<disk, books, cache, present, deleter, warmer, writer>>,
         editor.pc \in Waiting, editor'.pc \in Waiting, EditFits', Unseen'
  PROVE  FilesFit'
<1>1. CacheFits'
  BY DEF FilesFit, CacheFits, InHand, Deleting, Waiting, RecordFits
<1> QED BY <1>1 DEF FilesFit

LEMMA EditBeginFits ==
  ASSUME IInv, PlacesTypeOK, FilesFit, NEW b \in Books, EditBegin(b)
  PROVE  FilesFit'
<1>1. /\ editor.pc = "idle"
      /\ editor' = [pc |-> "locked", kind |-> "edit", book |-> b, base |-> cache[b],
                    backup |-> NoEdition, new |-> NoEdition]
      /\ UNCHANGED <<disk, books, cache, present, editions, deleter, reader, warmer, writer>>
  BY DEF EditBegin, EditorAtRest, vars, storage, files
<1>2. EditFits'
  BY <1>1 DEF EditFits
<1>3. editor'.new.hash < editions' + 1
  BY <1>1, EditionTypes DEF NoEdition
<1>4. Unseen'
  BY <1>1, <1>3 DEF Unseen, Before, FilesFit
<1> QED BY <1>1, <1>2, <1>4, EditorGoesOn DEF Waiting

(* While nobody has the write gate, a change whose snapshot is current     *)
(* starts from the row's numbering.                                        *)
LEMMA SnapshotIsRow ==
  ASSUME IInv, FilesFit, editor.pc # "idle", ~GateWritten, SnapshotCurrent
  PROVE  cache[editor.book] = editor.base /\ RecordFits(editor.book)
<1>1. editor.book \in Books /\ editor.base # NoEdition
  BY DEF IInv, EditorHas
<1>2. ~InHand(editor.book)
  BY GateIs DEF InHand, Publishing
<1> QED BY <1>1, <1>2 DEF FilesFit, CacheFits, SnapshotCurrent

LEMMA EditPrepareFits ==
  ASSUME IInv, PlacesTypeOK, FilesFit, EditPrepare
  PROVE  FilesFit'
<1>1. PICK pc2 \in {"preparing", "idle"} : EditorStep("locked", pc2)
  BY DEF EditPrepare
<1>2. UNCHANGED <<disk, books, cache, present, editions, deleter, reader, warmer, writer>>
  BY DEF EditPrepare, vars, storage, files
<1>3. editor.pc = "locked" /\ editor'.pc = pc2 /\ SameChange
  BY <1>1, EditorMoved DEF EditorPcs
<1>4. EditFits'
  BY <1>3 DEF EditFits
<1>5. Unseen'
  BY <1>2, <1>3 DEF Unseen, Before, FilesFit, SameChange
<1> QED BY <1>2, <1>3, <1>4, <1>5, EditorGoesOn DEF Waiting

LEMMA EditPreparedFits ==
  ASSUME IInv, PlacesTypeOK, FilesFit, EditPrepared
  PROVE  FilesFit'
<1>1. EditFits'
  BY PreparedIs DEF EditFits, IsReplacement
<1>2. Unseen'
  <2>1. editions \in Nat
    BY EditionTypes
  <2>2. Before(editions + 1) /\ \A b \in Books : books[b].hash < editions + 1
    BY DEF FilesFit, Unseen
  <2>3. Before(editions + 1)' /\ \A b \in Books : books'[b].hash < editions' + 1
    BY PreparedIs, <2>1, <2>2, EditionTypes DEF Before
  <2>4. Before(editor.new.hash)' /\ \A b \in Books : books'[b].hash < editor'.new.hash
    BY PreparedIs, <2>2 DEF Before
  <2> QED BY PreparedIs, <2>1, <2>3, <2>4 DEF Unseen
<1> QED BY <1>1, <1>2, PreparedIs, EditorGoesOn DEF Waiting

LEMMA EditAcquireFits ==
  ASSUME IInv, PlacesTypeOK, FilesFit, EditAcquire
  PROVE  FilesFit'
<1>1. PICK pc2 \in {"publishing", "idle"} :
        EditorStep("prepared", pc2) /\ (pc2 = "publishing" => SnapshotCurrent)
  BY DEF EditAcquire
<1>2. /\ ~GateWritten
      /\ UNCHANGED <<disk, books, cache, present, editions, deleter, reader, warmer, writer>>
  BY DEF EditAcquire, vars, storage, files
<1>3. editor.pc = "prepared" /\ editor'.pc = pc2 /\ SameChange
  BY <1>1, EditorMoved DEF EditorPcs
<1>4. EditFits'
  BY <1>1, <1>2, <1>3, SnapshotIsRow DEF EditFits, FilesFit, RecordFits, IsReplacement, SameChange
<1>5. Unseen'
  BY <1>2, <1>3 DEF Unseen, Before, FilesFit, SameChange
<1> QED BY <1>2, <1>3, <1>4, <1>5, EditorGoesOn DEF Waiting

LEMMA EditRefusedFits ==
  ASSUME IInv, PlacesTypeOK, FilesFit, EditRefused
  PROVE  FilesFit'
<1>1. PICK pc1 \in {"preparing", "publishing"} : EditorStep(pc1, "idle")
  BY DEF EditRefused
<1>2. UNCHANGED <<disk, books, cache, present, editions, deleter, reader, warmer, writer>>
  BY DEF EditRefused, vars, storage, files
<1>3. editor.pc = pc1 /\ editor'.pc = "idle" /\ editor'.new = editor.new
  BY <1>1, EditorMoved DEF EditorPcs, SameChange
<1>4. EditFits'
  BY <1>3 DEF EditFits
<1>5. Unseen'
  BY <1>2, <1>3 DEF Unseen, Before, FilesFit
<1> QED BY <1>2, <1>3, <1>4, <1>5, EditorGoesOn DEF Waiting

-----------------------------------------------------------------------------
(* The editor with the write gate changes nothing of another book.         *)
LEMMA PublishFits ==
  ASSUME IInv, FilesFit, Publishing, UNCHANGED <<present, deleter>>,
         \A b \in Books : b # editor.book => books'[b] = books[b] /\ cache'[b] = cache[b],
         editor'.book = editor.book,
         editor'.pc = "idle" /\ cache'[editor.book] # NoEdition => RecordFits(editor.book)',
         editor'.pc \in {"idle", "swapped", "committed", "remapped"},
         EditFits', Unseen'
  PROVE  FilesFit'
<1>1. CacheFits'
  <2> SUFFICES ASSUME NEW b \in Books, ~InHand(b)', cache'[b] # NoEdition
               PROVE  RecordFits(b)'
    BY DEF CacheFits
  <2>1. CASE b = editor.book
    BY <2>1 DEF InHand
  <2>2. CASE b # editor.book
    BY <2>2 DEF FilesFit, CacheFits, InHand, Deleting, RecordFits
  <2> QED BY <2>1, <2>2
<1> QED BY <1>1 DEF FilesFit

LEMMA EditSwapFits ==
  ASSUME IInv, PlacesTypeOK, FilesFit, EditSwap
  PROVE  FilesFit'
<1>1. editor.pc = "publishing" /\ editor'.pc = "swapped" /\ SameChange
  BY EditorMoved DEF EditSwap, EditorPcs
<1>2. UNCHANGED <<books, cache, present, editions, deleter, reader, warmer, writer>>
  BY DEF EditSwap, vars, storage
<1>3. Publishing
  BY <1>1 DEF Publishing
<1>4. EditFits'
  BY <1>1, <1>2 DEF EditFits, FilesFit, RecordFits, IsReplacement, SameChange
<1>5. Unseen'
  BY <1>1, <1>2 DEF Unseen, Before, FilesFit, SameChange
<1> QED BY <1>1, <1>2, <1>3, <1>4, <1>5, PublishFits DEF SameChange

LEMMA CommitFits ==
  ASSUME IInv, PlacesTypeOK, FilesFit, CommitReplacement \/ CommitEdit
  PROVE  FilesFit'
<1>1. editor'.pc = "committed" => IsReplacement /\ books'[editor.book] = editor.new
  <2>1. CASE CommitReplacement
    <3>1. editor.book \in Books
      BY RowCommitted DEF IInv, EditorHas
    <3> QED BY <2>1, <3>1 DEF CommitReplacement, IInv, FilesTypeOK
  <2>2. CASE CommitEdit
    BY <2>2, EditorMoved DEF CommitEdit, EditorPcs
  <2> QED BY <2>1, <2>2
<1>2. EditFits'
  BY <1>1, RowCommitted DEF EditFits, FilesFit, SameChange
<1>3. Unseen'
  <2>1. editor.new.hash < editions + 1 /\ \A b \in Books : books'[b].hash < editions + 1
    BY RowCommitted DEF Unseen, FilesFit
  <2> QED BY <2>1, RowCommitted DEF Unseen, Before, FilesFit, SameChange
<1>4. Publishing /\ editor'.book = editor.book
  BY RowCommitted DEF Publishing, SameChange
<1> QED BY <1>2, <1>3, <1>4, RowCommitted, PublishFits

LEMMA EditRollbackFits ==
  ASSUME IInv, PlacesTypeOK, FilesFit, EditRollback
  PROVE  FilesFit'
<1>1. editor.pc = "swapped" /\ editor'.pc = "idle" /\ SameChange
  BY EditorMoved DEF EditRollback, EditorPcs
<1>2. UNCHANGED <<present, editions, deleter, reader, warmer, writer>>
  BY DEF EditRollback, vars, storage
<1>3. editor.book \in Books /\ Publishing
  BY <1>1 DEF IInv, EditorHas, Publishing
<1>4. RecordFits(editor.book) /\ editor.new.hash < editions + 1
  BY <1>1 DEF FilesFit, EditFits, Unseen
<1>5. /\ \A b \in Books : b # editor.book => books'[b] = books[b]
      /\ books'[editor.book].spine = books[editor.book].spine
      /\ books'[editor.book].hash \in {books[editor.book].hash, editor.new.hash}
  BY <1>1, <1>3, RowEditedIs DEF EditRollback
<1>6. /\ \A b \in Books : b # editor.book => cache'[b] = cache[b]
      /\ cache'[editor.book] \in {cache[editor.book], NoEdition}
  BY <1>3 DEF EditRollback, BackupRestored, BackupKept, IInv, FilesTypeOK
<1>7. EditFits'
  BY <1>1 DEF EditFits
<1>8. Unseen'
  <2>1. \A b \in Books : cache'[b].hash < editions + 1
    BY <1>6, EditionTypes DEF FilesFit, Unseen, Before, NoEdition
  <2>2. \A b \in Books : books'[b].hash < editions + 1
    BY <1>4, <1>5 DEF FilesFit, Unseen
  <2> QED BY <1>1, <1>2, <2>1, <2>2 DEF Unseen, Before, FilesFit, SameChange
<1>9. cache'[editor.book] # NoEdition => RecordFits(editor.book)'
  BY <1>1, <1>2, <1>4, <1>5, <1>6 DEF RecordFits, SameChange
<1> QED BY <1>1, <1>2, <1>3, <1>5, <1>6, <1>7, <1>8, <1>9, PublishFits DEF SameChange

LEMMA EditRemapFits ==
  ASSUME IInv, PlacesTypeOK, FilesFit, EditRemap
  PROVE  FilesFit'
<1>1. editor.pc = "committed" /\ editor'.pc = "remapped" /\ SameChange
  BY EditorMoved DEF EditRemap, EditorPcs
<1>2. UNCHANGED <<disk, books, cache, present, editions, deleter, reader, warmer, writer>>
  BY DEF EditRemap, RemapBook, files, storage
<1>3. EditFits' /\ Publishing
  BY <1>1 DEF EditFits, Publishing
<1>4. Unseen'
  BY <1>1, <1>2 DEF Unseen, Before, FilesFit, SameChange
<1> QED BY <1>1, <1>2, <1>3, <1>4, PublishFits DEF SameChange

LEMMA EditRefreshFits ==
  ASSUME IInv, PlacesTypeOK, FilesFit, EditRefresh
  PROVE  FilesFit'
<1>1. editor.pc = "remapped" /\ editor'.pc = "idle" /\ SameChange
  BY EditorMoved DEF EditRefresh, EditorPcs
<1>2. UNCHANGED <<disk, books, present, editions, deleter, reader, warmer, writer>>
  BY DEF EditRefresh, vars, storage
<1>3. PICK e \in {books[editor.book], NoEdition} : cache' = [cache EXCEPT ![editor.book] = e]
  BY DEF EditRefresh
<1>4. editor.book \in Books /\ Publishing
  BY <1>1 DEF IInv, EditorHas, Publishing
<1>5. \A b \in Books : cache'[b] = IF b = editor.book THEN e ELSE cache[b]
  BY <1>3 DEF IInv, FilesTypeOK
<1>6. cache'[editor.book] # NoEdition => RecordFits(editor.book)'
  BY <1>1, <1>2, <1>4, <1>5 DEF RecordFits, SameChange, IInv, RowsPresent
<1>7. EditFits'
  BY <1>1 DEF EditFits
<1>8. Unseen'
  <2>1. \A b \in Books : cache'[b].hash < editions + 1
    BY <1>3, <1>4, <1>5, EditionTypes DEF FilesFit, Unseen, Before, NoEdition
  <2> QED BY <1>1, <1>2, <2>1 DEF Unseen, Before, FilesFit, SameChange
<1> QED BY <1>1, <1>2, <1>4, <1>5, <1>6, <1>7, <1>8, PublishFits DEF SameChange



-----------------------------------------------------------------------------
(* Deletions hold the write gate, reloads the read side.                   *)
LEMMA DeleteBeginFits ==
  ASSUME IInv, PlacesTypeOK, FilesFit, NEW b \in Books, DeleteBegin(b)
  PROVE  FilesFit'
<1>1. /\ ~Publishing /\ ~Deleting /\ editor.pc # "preparing"
  BY GateIs DEF DeleteBegin
<1>2. /\ UNCHANGED <<disk, cache, editions, editor, reader, warmer, writer>>
      /\ books' = [books EXCEPT ![b] = NoEdition] /\ deleter' = [pc |-> "deleted", book |-> b]
      /\ present' = [present EXCEPT ![b] = FALSE]
  BY DEF DeleteBegin, DeleteRow
<1>3. \A c \in Books : /\ books'[c] = IF c = b THEN NoEdition ELSE books[c]
                       /\ present'[c] = IF c = b THEN FALSE ELSE present[c]
  BY <1>2 DEF IInv, FilesTypeOK
<1>4. CacheFits'
  BY <1>1, <1>2, <1>3 DEF FilesFit, CacheFits, InHand, Deleting, Publishing, RecordFits
<1>5. EditFits'
  BY <1>1, <1>2, <1>3 DEF FilesFit, EditFits, Publishing, RecordFits, IsReplacement
<1>6. Unseen'
  <2>1. \A c \in Books : books'[c].hash <= books[c].hash /\ books'[c].hash \in Nat
    <3> SUFFICES ASSUME NEW c \in Books
                 PROVE  books'[c].hash <= books[c].hash /\ books'[c].hash \in Nat
      OBVIOUS
    <3>1. books[c].hash \in Nat
      BY EditionTypes
    <3>2. NoEdition.hash = 0
      BY DEF NoEdition
    <3>3. books'[c] = NoEdition \/ books'[c] = books[c]
      BY <1>3
    <3>4. books'[c].hash = 0 \/ books'[c].hash = books[c].hash
      BY <3>2, <3>3
    <3> QED BY <3>1, <3>4
  <2>2. \A n \in Nat : (\A c \in Books : books[c].hash < n) => \A c \in Books : books'[c].hash < n
    BY <2>1, EditionTypes
  <2>3. \A n : Before(n) => Before(n)'
    BY <1>2 DEF Before
  <2>4. editions + 1 \in Nat /\ editor.new.hash \in Nat
    BY EditionTypes
  <2> QED BY <1>2, <2>2, <2>3, <2>4 DEF FilesFit, Unseen
<1> QED BY <1>4, <1>5, <1>6 DEF FilesFit

(* A record leaves the cache.                                              *)
LEMMA UncacheFits ==
  ASSUME IInv, PlacesTypeOK, FilesFit, NEW b \in Books, ~Publishing, editor.pc # "preparing",
         UNCHANGED <<disk, books, present, editions, editor, warmer, writer>>,
         deleter'.book = deleter.book, Deleting' <=> Deleting,
         cache' = [cache EXCEPT ![b] = NoEdition]
  PROVE  FilesFit'
<1>1. \A c \in Books : cache'[c] = IF c = b THEN NoEdition ELSE cache[c]
  BY DEF IInv, FilesTypeOK
<1>2. CacheFits'
  BY <1>1 DEF FilesFit, CacheFits, InHand, RecordFits
<1>3. EditFits'
  BY DEF FilesFit, EditFits, Publishing, RecordFits, IsReplacement
<1>4. Unseen'
  <2>1. \A c \in Books : cache'[c].hash <= cache[c].hash /\ cache'[c].hash \in Nat
    BY <1>1, EditionTypes DEF NoEdition
  <2>2. Before(editions + 1)'
    BY <2>1, EditionTypes DEF FilesFit, Unseen, Before
  <2>3. Before(editor.new.hash) => Before(editor.new.hash)'
    BY <2>1, EditionTypes DEF Before
  <2> QED BY <2>2, <2>3 DEF FilesFit, Unseen
<1> QED BY <1>2, <1>3, <1>4 DEF FilesFit

LEMMA DeleteUncacheFits ==
  ASSUME IInv, PlacesTypeOK, FilesFit, DeleteUncache
  PROVE  FilesFit'
<1>1. deleter.pc = "deleted" /\ deleter'.pc = "uncached" /\ deleter'.book = deleter.book
  BY DeleterMoved DEF DeleteUncache
<1>2. /\ UNCHANGED <<disk, books, present, editions, editor, warmer, writer>>
      /\ cache' = [cache EXCEPT ![deleter.book] = NoEdition]
  BY DEF DeleteUncache, vars, storage
<1>3. Deleting /\ Deleting'
  BY <1>1 DEF Deleting
<1> DEFINE b == deleter.book
<1>4. b \in Books /\ cache' = [cache EXCEPT ![b] = NoEdition] /\ deleter'.book = b
  BY <1>1, <1>2, <1>3, DeletingHas
<1> HIDE DEF b
<1> QED BY <1>1, <1>2, <1>3, <1>4, DeletingHas, UncacheFits DEF b

LEMMA DeleteDropFits ==
  ASSUME IInv, PlacesTypeOK, FilesFit, DeleteDrop
  PROVE  FilesFit'
<1>1. deleter.pc = "uncached" /\ deleter'.pc = "dropped" /\ deleter'.book = deleter.book
  BY DeleterMoved DEF DeleteDrop
<1>2. UNCHANGED <<disk, books, cache, present, editions, editor, warmer, writer>>
  BY DEF DeleteDrop, DropBook, files, storage
<1> QED BY <1>1, <1>2, FilesStill DEF Deleting

LEMMA DeleteUnlinkFits ==
  ASSUME IInv, PlacesTypeOK, FilesFit, DeleteUnlink
  PROVE  FilesFit'
<1>1. deleter.pc = "dropped" /\ deleter'.pc = "idle" /\ deleter'.book = deleter.book
  BY DeleterMoved DEF DeleteUnlink
<1>2. UNCHANGED <<books, cache, present, editions, editor, warmer, writer>>
  BY DEF DeleteUnlink, vars, storage
<1>3. /\ Deleting /\ deleter.book \in Books /\ ~present[deleter.book]
      /\ ~Publishing /\ editor.pc # "preparing" /\ cache[deleter.book] = NoEdition
  BY <1>1, DeletingHas DEF Deleting, IInv, DeleterDone
<1>4. \A c \in Books : c # deleter.book => disk'[c] = disk[c]
  BY DEF DeleteUnlink, IInv, FilesTypeOK
<1>5. CacheFits'
  BY <1>1, <1>2, <1>3 DEF FilesFit, CacheFits, InHand, RecordFits
<1>6. EditFits'
  BY <1>2, <1>3, <1>4 DEF FilesFit, EditFits, Publishing, RecordFits, IsReplacement
<1>7. Unseen'
  BY <1>2 DEF FilesFit, Unseen, Before
<1> QED BY <1>5, <1>6, <1>7 DEF FilesFit

LEMMA DeleteMissingFits ==
  ASSUME IInv, PlacesTypeOK, FilesFit, NEW b \in Books, DeleteMissing(b)
  PROVE  FilesFit'
<1>1. ~Publishing /\ editor.pc # "preparing"
  BY GateIs DEF DeleteMissing
<1>2. /\ UNCHANGED <<disk, books, present, editions, editor, deleter, warmer, writer>>
      /\ cache' = [cache EXCEPT ![b] = NoEdition]
  BY DEF DeleteMissing, handlers, storage
<1>3. Deleting' <=> Deleting
  BY <1>2 DEF Deleting
<1> QED BY <1>1, <1>2, <1>3, UncacheFits

LEMMA WarmLoadFits ==
  ASSUME IInv, PlacesTypeOK, FilesFit, NEW b \in Books, WarmLoad(b)
  PROVE  FilesFit'
<1>1. ~Publishing
  BY GateIs DEF WarmLoad
<1>2. /\ UNCHANGED <<disk, books, cache, present, editions, editor, deleter, writer>>
      /\ warmer' = [pc |-> "loaded", book |-> b, base |-> books[b]]
  BY DEF WarmLoad, vars, storage, files
<1>3. CacheFits' /\ EditFits'
  BY <1>2 DEF FilesFit, CacheFits, EditFits, InHand, Deleting, RecordFits, IsReplacement
<1>4. Unseen'
  <2>1. books[b].hash < editions + 1 /\ (editor.pc = "prepared" => books[b].hash < editor.new.hash)
    BY DEF FilesFit, Unseen
  <2> QED BY <1>1, <1>2, <2>1 DEF FilesFit, Unseen, Before, Publishing
<1> QED BY <1>3, <1>4 DEF FilesFit

LEMMA WarmAddFits ==
  ASSUME IInv, PlacesTypeOK, FilesFit, WarmAdd
  PROVE  FilesFit'
<1>1. /\ warmer.pc = "loaded" /\ warmer' = NotServing
      /\ cache' = [cache EXCEPT ![warmer.book] = warmer.base]
      /\ UNCHANGED <<disk, books, present, editions, editor, deleter, writer>>
  BY DEF WarmAdd, vars, storage
<1>2. warmer.book \in Books /\ warmer.base = books[warmer.book] /\ ~Publishing
  BY <1>1 DEF IInv, WarmerHas, OneWriter
<1>3. warmer'.pc = "idle"
  BY <1>1 DEF NotServing
<1>4. \A c \in Books : cache'[c] = IF c = warmer.book THEN books[c] ELSE cache[c]
  BY <1>1, <1>2 DEF IInv, FilesTypeOK
<1>5. CacheFits'
  BY <1>1, <1>4 DEF FilesFit, CacheFits, InHand, Deleting, RecordFits, IInv, RowsPresent
<1>6. EditFits'
  <2>1. editor.pc = "preparing" => editor.book \in Books
    BY DEF IInv, EditorHas
  <2> QED BY <1>1, <1>2, <1>4, <2>1 DEF FilesFit, EditFits, Publishing, RecordFits, IsReplacement
<1>7. Unseen'
  BY <1>1, <1>2, <1>3, <1>4 DEF FilesFit, Unseen, Before, Publishing
<1> QED BY <1>5, <1>6, <1>7 DEF FilesFit

LEMMA ReadingFits ==
  ASSUME FilesFit, NEW r \in Readers, ReadEnd(r) \/ \E b \in Books : ReadBegin(r, b)
  PROVE  FilesFit'
<1>1. UNCHANGED <<disk, books, cache, present, editions, editor, deleter, warmer, writer>>
  BY DEF ReadBegin, ReadEnd, vars, storage, files
<1> QED BY <1>1, FilesStill DEF Deleting

(* Clients: opening a book takes what the cache has.                       *)
LEMMA OpenFits ==
  ASSUME IInv, PlacesTypeOK, FilesFit, NEW w \in Writers, NEW b \in Books, Open(w, b)
  PROVE  FilesFit'
<1>1. /\ UNCHANGED <<disk, books, cache, present, editions, editor, deleter, warmer>>
      /\ writer' = [writer EXCEPT ![w] = [pc |-> "open", book |-> b,
                                          view |-> cache[b], snapshot |-> NoEdition]]
  BY DEF Open, vars, storage, files
<1>2. \A v \in Writers : writer'[v].view = IF v = w THEN cache[b] ELSE writer[v].view
  BY <1>1 DEF PlacesTypeOK
<1>3. CacheFits' /\ EditFits'
  BY <1>1 DEF FilesFit, CacheFits, EditFits, InHand, Deleting, RecordFits, IsReplacement
<1>4. \A n : Before(n) => \A v \in Writers : writer'[v].view.hash < n
  BY <1>2 DEF Before
<1>5. Unseen'
  BY <1>1, <1>4 DEF FilesFit, Unseen, Before
<1> QED BY <1>3, <1>5 DEF FilesFit

LEMMA PutFits ==
  ASSUME PlacesTypeOK, FilesFit, NEW w \in Writers, PutBegin(w) \/ PutStages(w) \/ PutRefused(w)
  PROVE  FilesFit'
<1>1. UNCHANGED <<disk, books, cache, present, editions, editor, deleter, warmer>>
  BY DEF PutBegin, PutStages, PutRefused, Stage, vars, storage, files
<1>2. \A v \in Writers : writer'[v].view = writer[v].view
  BY DEF PutBegin, PutStages, PutRefused, PlacesTypeOK, Clients
<1> QED BY <1>1, <1>2, FilesStill DEF Deleting

LEMMA FlushingFits ==
  ASSUME FilesFit, Flushing
  PROVE  FilesFit'
<1>1. UNCHANGED present
  BY DEF Flushing, Flusher, FlushOnTick, FlushOnSignal, FlushOnDone, StartFlush, EndFlush, Save,
         SaveSucceeds, SaveViolatesKey, SaveFails, DiscardSaved, storage
<1>2. UNCHANGED <<disk, books, cache, editions, editor, deleter, warmer, writer>>
  BY DEF Flushing, files, handlers
<1> QED BY <1>1, <1>2, FilesStill DEF Deleting

LEMMA NextFilesFit ==
  ASSUME IInv, PlacesTypeOK, FilesFit, [BookFilesNext]_bvars
  PROVE  FilesFit'
<1>1. CASE UNCHANGED bvars
  <2>1. UNCHANGED <<disk, books, cache, present, editions, editor, deleter, warmer, writer>>
    BY <1>1 DEF bvars, vars, storage, files, handlers
  <2> QED BY <2>1, FilesStill DEF Deleting
<1>2. CASE Editor
  BY <1>2, EditBeginFits, EditPrepareFits, EditPreparedFits, EditAcquireFits, EditRefusedFits,
     EditSwapFits, CommitFits, EditRollbackFits, EditRemapFits, EditRefreshFits DEF Editor
<1>3. CASE Deleter
  BY <1>3, DeleteBeginFits, DeleteUncacheFits, DeleteDropFits, DeleteUnlinkFits,
     DeleteMissingFits DEF Deleter
<1>4. CASE Serving
  BY <1>4, ReadingFits, WarmLoadFits, WarmAddFits DEF Serving
<1>5. CASE Writing
  BY <1>5, OpenFits, PutFits DEF Writing
<1>6. CASE Flushing
  BY <1>6, FlushingFits
<1> QED BY <1>1, <1>2, <1>3, <1>4, <1>5, <1>6 DEF BookFilesNext


-----------------------------------------------------------------------------
(* Types of what the coalescer and the clients keep.                       *)
Kept == <<pending, batch, row, nextVersion, issued, writer>>

LEMMA EntryTypes ==
  /\ NoRecord \in Record /\ NoEntry \in Entry /\ NoEntry.version = 0
  /\ \A r \in Record : Moved(r) \in Record /\ Moved(r).gen = r.gen + 1
  /\ \A r \in Record, n \in Nat : [rec |-> r, version |-> n] \in Entry
  BY DEF NoRecord, NoEntry, Record, Entry, Moved

LEMMA EditorTypes ==
  ASSUME PlacesTypeOK, Editor
  PROVE  PlacesTypeOK'
<1>1. UNCHANGED <<batch, issued, writer>>
  BY DEF Editor, EditBegin, EditPrepare, EditPrepared, EditAcquire, EditSwap, EditRefused, CommitReplacement,
         CommitEdit, EditRollback, EditRemap, EditRefresh, ReplaceRow, RemapBook, vars, flusher, history
<1>2. CASE CommitReplacement
  <2>1. /\ UNCHANGED <<pending, nextVersion>>
        /\ row' = [row EXCEPT ![editor.book] = IF @ = NoRecord THEN @ ELSE Moved(@)]
    BY <1>2 DEF CommitReplacement, ReplaceRow, buffer
  <2>2. row' \in [Books -> Record]
    BY <2>1, EntryTypes DEF PlacesTypeOK
  <2> QED BY <1>1, <2>1, <2>2 DEF PlacesTypeOK
<1>3. CASE EditRemap
  <2>1. /\ UNCHANGED row
        /\ \/ UNCHANGED <<pending, nextVersion>>
           \/ /\ nextVersion' = nextVersion + 1
              /\ pending' = [pending EXCEPT ![editor.book] =
                    [rec |-> Moved(pending[editor.book].rec), version |-> nextVersion']]
    BY <1>3 DEF EditRemap, RemapBook, storage
  <2>2. pending' \in [Books -> Entry] /\ nextVersion' \in Nat
    <3>1. editor.book \in Books => pending[editor.book].rec \in Record
      BY DEF PlacesTypeOK, Entry
    <3>2. nextVersion + 1 \in Nat
      BY DEF PlacesTypeOK
    <3> QED BY <2>1, <3>1, <3>2, EntryTypes DEF PlacesTypeOK
  <2> QED BY <1>1, <2>1, <2>2 DEF PlacesTypeOK
<1>4. CASE ~CommitReplacement /\ ~EditRemap
  <2>1. UNCHANGED <<pending, nextVersion, row>>
    BY <1>4 DEF Editor, EditBegin, EditPrepare, EditPrepared, EditAcquire, EditSwap, EditRefused,
                CommitEdit, EditRollback, EditRefresh, vars, buffer, storage
  <2> QED BY <1>1, <2>1 DEF PlacesTypeOK
<1> QED BY <1>2, <1>3, <1>4

LEMMA DeleterTypes ==
  ASSUME PlacesTypeOK, Deleter
  PROVE  PlacesTypeOK'
<1>1. UNCHANGED <<batch, nextVersion, issued, writer>>
  BY DEF Deleter, DeleteBegin, DeleteUncache, DeleteDrop, DeleteUnlink, DeleteMissing, DeleteRow, DropBook,
         vars, buffer, flusher, history, handlers
<1>2. UNCHANGED row \/ \E b \in Books : row' = [row EXCEPT ![b] = NoRecord]
  BY DEF Deleter, DeleteBegin, DeleteUncache, DeleteDrop, DeleteUnlink, DeleteMissing, DeleteRow, DropBook,
         vars, storage
<1>3. UNCHANGED pending \/ \E b : pending' = [pending EXCEPT ![b] = NoEntry]
  BY DEF Deleter, DeleteBegin, DeleteUncache, DeleteDrop, DeleteUnlink, DeleteMissing, DeleteRow, DropBook,
         vars, buffer
<1>4. row' \in [Books -> Record] /\ pending' \in [Books -> Entry]
  BY <1>2, <1>3, EntryTypes DEF PlacesTypeOK
<1> QED BY <1>1, <1>4 DEF PlacesTypeOK

LEMMA WritingTypes ==
  ASSUME IInv, PlacesTypeOK, Writing
  PROVE  PlacesTypeOK'
<1>1. CASE \E w \in Writers : PutStages(w)
  <2>1. PICK w \in Writers : PutStages(w)
    BY <1>1
  <2>2. /\ issued' = issued + 1 /\ nextVersion' = nextVersion + 1
        /\ pending' = [pending EXCEPT ![writer[w].book] =
              [rec |-> [id |-> issued', gen |-> writer[w].view.spine], version |-> nextVersion']]
        /\ UNCHANGED <<batch, row>>
        /\ writer' = [writer EXCEPT ![w].pc = "open", ![w].snapshot = NoEdition]
    BY <2>1 DEF PutStages, Stage, flusher, storage
  <2>3. [id |-> issued', gen |-> writer[w].view.spine] \in Record
    BY <2>2, EditionTypes DEF PlacesTypeOK, Record
  <2>4. pending' \in [Books -> Entry]
    <3> DEFINE rec == [id |-> issued', gen |-> writer[w].view.spine]
               new == [rec |-> rec, version |-> nextVersion']
    <3>1. nextVersion' \in Nat
      BY <2>2 DEF PlacesTypeOK
    <3>2. new \in Entry /\ pending' = [pending EXCEPT ![writer[w].book] = new]
      BY <2>2, <2>3, <3>1, EntryTypes
    <3> HIDE DEF rec, new
    <3> QED BY <3>2 DEF PlacesTypeOK
  <2>5. /\ writer' \in [Writers -> Clients]
        /\ \A v \in Writers : writer'[v].pc # "idle" => writer'[v].book \in Books
    <3>1. writer[w].pc = "checked"
      BY <2>1 DEF PutStages
    <3> QED BY <2>2, <3>1, NoneEdition DEF PlacesTypeOK, Clients
  <2> QED BY <2>2, <2>4, <2>5 DEF PlacesTypeOK
<1>2. CASE \E w \in Writers : \/ PutBegin(w) \/ PutRefused(w)
                              \/ \E b \in Books : Open(w, b)
  <2>1. UNCHANGED <<pending, batch, row, nextVersion, issued>>
    BY <1>2 DEF PutBegin, PutRefused, Open, vars, buffer, flusher, storage, history
  <2>2. /\ writer' \in [Writers -> Clients]
        /\ \A v \in Writers : writer'[v].pc # "idle" => writer'[v].book \in Books
    <3>1. CASE \E w \in Writers : PutBegin(w)
      <4>1. PICK w \in Writers : PutBegin(w)
        BY <3>1
      <4>2. /\ writer[w].pc = "open" /\ cache[writer[w].book] # NoEdition
            /\ writer' = [writer EXCEPT ![w].pc = "checked",
                                        ![w].snapshot = cache[writer[w].book]]
        BY <4>1 DEF PutBegin
      <4>3. writer[w].book \in Books /\ cache[writer[w].book] \in Edition
        BY <4>2 DEF IInv, FilesTypeOK, PlacesTypeOK
      <4> QED BY <4>2, <4>3 DEF PlacesTypeOK, Clients
    <3>2. CASE \E w \in Writers : PutRefused(w)
      BY <3>2 DEF PutRefused, PlacesTypeOK, Clients
    <3>3. CASE \E w \in Writers, b \in Books : Open(w, b)
      <4>1. PICK w \in Writers, b \in Books : Open(w, b)
        BY <3>3
      <4> DEFINE new == [pc |-> "open", book |-> b, view |-> cache[b], snapshot |-> NoEdition]
      <4>2. new \in Clients /\ new.book \in Books
        BY NoneEdition DEF IInv, FilesTypeOK, Clients
      <4>3. writer' = [writer EXCEPT ![w] = new]
        BY <4>1 DEF Open
      <4> HIDE DEF new
      <4> QED BY <4>2, <4>3 DEF PlacesTypeOK
    <3> QED BY <1>2, <3>1, <3>2, <3>3
  <2> QED BY <2>1, <2>2 DEF PlacesTypeOK
<1> QED BY <1>1, <1>2 DEF Writing

LEMMA FlushingTypes ==
  ASSUME PlacesTypeOK, Flushing
  PROVE  PlacesTypeOK'
<1>1. UNCHANGED <<nextVersion, issued, writer>>
  BY DEF Flushing, Flusher, FlushOnTick, FlushOnSignal, FlushOnDone, StartFlush, EndFlush, Save,
         SaveSucceeds, SaveViolatesKey, SaveFails, DiscardSaved, handlers, history, buffer
<1>2. \/ batch' \in {batch, pending}
      \/ \E b \in Books : batch' = [batch EXCEPT ![b] = NoEntry]
  BY DEF Flushing, Flusher, FlushOnTick, FlushOnSignal, FlushOnDone, StartFlush, EndFlush, Save,
         SaveSucceeds, SaveViolatesKey, SaveFails, DiscardSaved
<1>3. UNCHANGED row \/ \E b \in Books : row' = [row EXCEPT ![b] = batch[b].rec]
  BY DEF Flushing, Flusher, FlushOnTick, FlushOnSignal, FlushOnDone, StartFlush, EndFlush, Save,
         SaveSucceeds, SaveViolatesKey, SaveFails, DiscardSaved, storage
<1>4. UNCHANGED pending \/ \E b \in Books : pending' = [pending EXCEPT ![b] = NoEntry]
  BY DEF Flushing, Flusher, FlushOnTick, FlushOnSignal, FlushOnDone, StartFlush, EndFlush, Save,
         SaveSucceeds, SaveViolatesKey, SaveFails, DiscardSaved, buffer
<1>5. \A b \in Books : batch[b].rec \in Record
  BY DEF PlacesTypeOK, Entry
<1>6. /\ batch' \in [Books -> Entry] /\ row' \in [Books -> Record] /\ pending' \in [Books -> Entry]
  BY <1>2, <1>3, <1>4, <1>5, EntryTypes DEF PlacesTypeOK
<1> QED BY <1>1, <1>6 DEF PlacesTypeOK

LEMMA NextPlacesTypes ==
  ASSUME IInv, PlacesTypeOK, [BookFilesNext]_bvars
  PROVE  PlacesTypeOK'
<1>1. CASE UNCHANGED bvars \/ Serving
  <2>1. UNCHANGED Kept
    BY <1>1 DEF bvars, Kept, Serving, ReadBegin, ReadEnd, WarmLoad, WarmAdd, vars, buffer, flusher, storage,
                history, handlers
  <2> QED BY <2>1 DEF PlacesTypeOK, Kept
<1> QED BY <1>1, EditorTypes, DeleterTypes, WritingTypes, FlushingTypes DEF BookFilesNext


-----------------------------------------------------------------------------
(* The numbering of what is stored and buffered.                           *)
LEMMA CleanBefore ==
  ASSUME mishaps \subseteq mishaps', NEW b, Clean(b)'
  PROVE  Clean(b)
  BY DEF Clean

(* Steps that touch no position, and no numbering of a book that is there. *)
LEMMA PlacesStill ==
  ASSUME PlacesFit, UNCHANGED vars, mishaps \subseteq mishaps',
         \A b \in Books : present[b] => books'[b].spine = books[b].spine,
         \A b \in Books : Moving(b)' <=> Moving(b),
         \A b \in Books : Moving(b) => editor'.base = editor.base
  PROVE  PlacesFit'
<1> USE DEF vars, buffer, flusher, storage
<1>1. Versions' /\ BatchBehind' /\ OneSave' /\ OpFollows'
  BY DEF PlacesFit, Versions, BatchBehind, OneSave, OpFollows
<1>2. AllCounted'
  <2> SUFFICES ASSUME NEW b \in Books, Clean(b)', present[b]
               PROVE  Counted(b)'
    BY DEF AllCounted
  <2>1. Counted(b)
    BY CleanBefore DEF PlacesFit, AllCounted
  <2> QED BY <2>1 DEF Counted, RowRight, BufferGen
<1> QED BY <1>1, <1>2 DEF PlacesFit

(* Steps of the editor on either side of the transaction and the remap.    *)
LEMMA EditorStill ==
  ASSUME PlacesFit, UNCHANGED vars, mishaps \subseteq mishaps',
         \A b \in Books : present[b] => books'[b].spine = books[b].spine,
         editor.pc # "committed", editor'.pc # "committed"
  PROVE  PlacesFit'
  BY PlacesStill DEF Moving

LEMMA CommitReplacementCounts ==
  ASSUME IInv, PlacesTypeOK, FilesFit, PlacesFit, CommitReplacement
  PROVE  PlacesFit'
<1>1. /\ editor.pc = "swapped" /\ editor'.pc = "committed"
      /\ SameChange
  BY EditorMoved DEF CommitReplacement, EditorPcs
<1>2. /\ UNCHANGED <<pending, nextVersion, pc, batch, saved, present, mishaps>>
      /\ row' = [row EXCEPT ![editor.book] = IF @ = NoRecord THEN @ ELSE Moved(@)]
      /\ op' = [kind |-> "replace", book |-> editor.book]
      /\ books' = [books EXCEPT ![editor.book] = editor.new]
  BY DEF CommitReplacement, ReplaceRow, buffer, flusher
<1>3. editor.book \in Books /\ books[editor.book].spine = editor.base.spine
  BY <1>1 DEF IInv, EditorHas, FilesFit, EditFits, RecordFits
<1>4. editor.new.spine = editor.base.spine + 1
  BY <1>1 DEF FilesFit, EditFits, CommitReplacement
<1>5. \A b \in Books : /\ books'[b] = IF b = editor.book THEN editor.new ELSE books[b]
                       /\ b # editor.book => row'[b] = row[b]
  BY <1>2 DEF IInv, FilesTypeOK, PlacesTypeOK
<1>6. row'[editor.book] = IF row[editor.book] = NoRecord THEN NoRecord ELSE Moved(row[editor.book])
  BY <1>2, <1>3 DEF PlacesTypeOK
<1>7. Versions' /\ BatchBehind' /\ OneSave'
  BY <1>2 DEF PlacesFit, Versions, BatchBehind, OneSave
<1>8. OpFollows'
  BY <1>1, <1>2 DEF OpFollows, Moving, SameChange
<1>9. AllCounted'
  <2> SUFFICES ASSUME NEW b \in Books, Clean(b)', present[b]
               PROVE  Counted(b)'
    BY <1>2 DEF AllCounted
  <2>1. Counted(b) /\ ~Moving(b)
    BY <1>1, <1>2, CleanBefore DEF PlacesFit, AllCounted, Moving
  <2>2. BufferGen(b)' = BufferGen(b)
    BY <1>1, <1>3, <1>5, <2>1 DEF BufferGen, Moving, SameChange
  <2>3. RowRight(b) => RowRight(b)'
    <3>1. CASE b = editor.book
      <4>1. row[b] \in Record
        BY DEF PlacesTypeOK
      <4> QED BY <1>3, <1>4, <1>5, <1>6, <3>1, <4>1, EntryTypes DEF RowRight
    <3>2. CASE b # editor.book
      BY <1>5, <3>2 DEF RowRight
    <3> QED BY <3>1, <3>2
  <2> QED BY <1>2, <2>1, <2>2, <2>3 DEF Counted
<1> QED BY <1>7, <1>8, <1>9 DEF PlacesFit

LEMMA EditRemapCounts ==
  ASSUME IInv, PlacesTypeOK, FilesFit, PlacesFit, EditRemap
  PROVE  PlacesFit'
<1>1. /\ editor.pc = "committed" /\ editor'.pc = "remapped" /\ editor'.book = editor.book
  BY EditorMoved DEF EditRemap, EditorPcs, SameChange
<1>2. /\ op = [kind |-> "replace", book |-> editor.book] /\ op' = NoOp
      /\ UNCHANGED <<pc, batch, saved, present, row, books, mishaps>>
  BY DEF EditRemap, RemapBook, flusher, storage, files
<1>3. editor.book \in Books /\ editor.base.spine \in Nat /\ books[editor.book].spine = editor.base.spine + 1
  BY <1>1, EditionTypes DEF IInv, EditorHas, FilesFit, EditFits
<1> DEFINE moved == [rec |-> Moved(pending[editor.book].rec), version |-> nextVersion + 1]
<1>4. \/ pending[editor.book] = NoEntry /\ UNCHANGED <<pending, nextVersion>>
      \/ /\ pending[editor.book] # NoEntry /\ nextVersion' = nextVersion + 1
         /\ \A b \in Books : pending'[b] = IF b = editor.book THEN moved ELSE pending[b]
  <2>1. \/ pending[editor.book] = NoEntry /\ UNCHANGED <<pending, nextVersion>>
        \/ /\ pending[editor.book] # NoEntry /\ nextVersion' = nextVersion + 1
           /\ pending' = [pending EXCEPT ![editor.book] = moved]
    BY DEF EditRemap, RemapBook
  <2> QED BY <2>1 DEF PlacesTypeOK
<1>5. moved.rec.gen = pending[editor.book].rec.gen + 1 /\ moved.version = nextVersion + 1 /\ moved # NoEntry
  <2>1. pending[editor.book].rec \in Record /\ nextVersion \in Nat
    BY <1>3 DEF PlacesTypeOK, Entry
  <2> QED BY <2>1, EntryTypes
<1> HIDE DEF moved
<1>6. nextVersion \in Nat /\ \A b \in Books : batch[b].version \in Nat /\ pending[b].version \in Nat
  BY DEF PlacesTypeOK, Entry
<1>7. Versions'
  BY <1>4, <1>5, <1>6 DEF PlacesFit, Versions
<1>8. \A b \in Books : present[b] /\ batch[b] # NoEntry => batch[b].version < nextVersion + 1
  BY <1>6 DEF PlacesFit, Versions, BatchBehind
<1>9. BatchBehind'
  BY <1>2, <1>4, <1>5, <1>8 DEF PlacesFit, BatchBehind
<1>10. OneSave' /\ OpFollows'
  BY <1>1, <1>2 DEF PlacesFit, OneSave, OpFollows, Moving, NoOp
<1>11. AllCounted'
  <2> SUFFICES ASSUME NEW b \in Books, Clean(b)', present[b]
               PROVE  Counted(b)'
    BY <1>2 DEF AllCounted
  <2>1. Counted(b) /\ (RowRight(b) <=> RowRight(b)')
    BY <1>2, CleanBefore DEF PlacesFit, AllCounted, RowRight
  <2>2. BufferGen(b)' = books[b].spine
    BY <1>1, <1>2 DEF BufferGen, Moving
  <2>3. CASE b # editor.book \/ pending[editor.book] = NoEntry
    <3>1. pending'[b] = pending[b] /\ (pending[b] # NoEntry => BufferGen(b)' = BufferGen(b))
      BY <1>4, <2>2, <2>3 DEF BufferGen, Moving
    <3> QED BY <1>2, <2>1, <3>1 DEF Counted
  <2>4. CASE b = editor.book /\ pending[editor.book] # NoEntry
    <3>1. pending'[b] = moved /\ pending[b].rec.gen = editor.base.spine
      BY <1>1, <1>4, <2>1, <2>4 DEF Counted, BufferGen, Moving
    <3>2. batch[b] # moved
      <4>1. CASE batch[b] = NoEntry
        BY <1>5, <4>1
      <4>2. CASE batch[b] # NoEntry
        BY <1>5, <1>6, <1>8, <4>2
      <4> QED BY <4>1, <4>2
    <3> QED BY <1>2, <1>3, <1>5, <2>2, <2>4, <3>1, <3>2 DEF Counted
  <2> QED BY <2>3, <2>4
<1> QED BY <1>7, <1>9, <1>10, <1>11 DEF PlacesFit

LEMMA EditorCounts ==
  ASSUME IInv, PlacesTypeOK, FilesFit, PlacesFit, Editor
  PROVE  PlacesFit'
<1>1. CASE \E b \in Books : EditBegin(b)
  <2>1. PICK b \in Books : EditBegin(b)
    BY <1>1
  <2>2. /\ editor.pc = "idle" /\ editor'.pc = "locked" /\ UNCHANGED <<vars, books, mishaps>>
    BY <2>1 DEF EditBegin, files
  <2> QED BY <2>2, EditorStill
<1>2. CASE EditPrepare \/ EditAcquire \/ EditRefused
  <2>1. UNCHANGED <<vars, books, mishaps>>
    BY <1>2 DEF EditPrepare, EditAcquire, EditRefused, files
  <2>2. PICK pc1 \in {"locked", "prepared", "preparing", "publishing"},
             pc2 \in {"idle", "preparing", "publishing"} : EditorStep(pc1, pc2)
    BY <1>2 DEF EditPrepare, EditAcquire, EditRefused
  <2>3. editor.pc = pc1 /\ editor'.pc = pc2
    BY <2>2, EditorMoved DEF EditorPcs
  <2> QED BY <2>1, <2>3, EditorStill
<1>3. CASE EditPrepared
  <2>1. UNCHANGED <<vars, books, mishaps>>
    BY <1>3 DEF EditPrepared, files
  <2> QED BY <1>3, <2>1, PreparedIs, EditorStill
<1>4. CASE EditSwap \/ EditRefresh
  <2>1. UNCHANGED <<vars, books, mishaps>>
    BY <1>4 DEF EditSwap, EditRefresh
  <2>2. PICK pc1 \in {"publishing", "remapped"}, pc2 \in {"swapped", "idle"} : EditorStep(pc1, pc2)
    BY <1>4 DEF EditSwap, EditRefresh
  <2>3. editor.pc = pc1 /\ editor'.pc = pc2
    BY <2>2, EditorMoved DEF EditorPcs
  <2> QED BY <2>1, <2>3, EditorStill
<1>5. CASE EditRollback \/ CommitEdit
  <2>1. UNCHANGED vars /\ mishaps \subseteq mishaps'
    BY <1>5 DEF EditRollback, CommitEdit, Mishap
  <2>2. editor.pc = "swapped" /\ editor'.pc \in {"idle", "remapped"}
    BY <1>5, EditorMoved DEF EditRollback, CommitEdit, EditorPcs
  <2>3. UNCHANGED books \/ RowEdited
    BY <1>5 DEF EditRollback, CommitEdit
  <2>4. \A b \in Books : books'[b].spine = books[b].spine
    BY <2>2, <2>3, RowEditedIs
  <2> QED BY <2>1, <2>2, <2>4, EditorStill
<1> QED BY <1>1, <1>2, <1>3, <1>4, <1>5, CommitReplacementCounts, EditRemapCounts DEF Editor

(* A book that is not there has no position to speak of.                   *)
LEMMA DeleterCounts ==
  ASSUME IInv, PlacesTypeOK, FilesFit, PlacesFit, Deleter
  PROVE  PlacesFit'
<1>1. CASE DeleteUncache \/ DeleteUnlink
  <2>1. UNCHANGED <<vars, books, editor>> /\ mishaps \subseteq mishaps'
    BY <1>1 DEF DeleteUncache, DeleteUnlink
  <2> QED BY <2>1, PlacesStill DEF Moving
<1>2. CASE \E b \in Books : DeleteBegin(b)
  <2>1. PICK b \in Books : DeleteBegin(b)
    BY <1>2
  <2>2. /\ ~Publishing /\ editor' = editor /\ mishaps' = mishaps
        /\ UNCHANGED <<pending, nextVersion, pc, batch, saved>>
        /\ books' = [books EXCEPT ![b] = NoEdition] /\ present' = [present EXCEPT ![b] = FALSE]
        /\ row' = [row EXCEPT ![b] = NoRecord] /\ op' = [kind |-> "delete", book |-> b]
    BY <2>1, GateIs DEF DeleteBegin, DeleteRow, buffer, flusher
  <2>3. \A c \in Books : present'[c] =>
          present[c] /\ c # b /\ books'[c] = books[c] /\ row'[c] = row[c]
    BY <2>2 DEF IInv, FilesTypeOK, PlacesTypeOK
  <2>4. Versions' /\ BatchBehind' /\ OneSave'
    BY <2>2, <2>3 DEF PlacesFit, Versions, BatchBehind, OneSave
  <2>5. OpFollows'
    BY <2>2 DEF OpFollows, Moving, Publishing
  <2>6. AllCounted'
    <3> SUFFICES ASSUME NEW c \in Books, Clean(c)', present'[c]
                 PROVE  Counted(c)'
      BY DEF AllCounted
    <3>1. Counted(c)
      BY <2>2, <2>3, CleanBefore DEF PlacesFit, AllCounted
    <3> QED BY <2>2, <2>3, <3>1 DEF Counted, RowRight, BufferGen, Moving
  <2> QED BY <2>4, <2>5, <2>6 DEF PlacesFit
<1>3. CASE DeleteDrop \/ \E b \in Books : DeleteMissing(b)
  <2>1. PICK b \in Books : /\ ~present[b] /\ ~Publishing /\ op' \in {op, NoOp}
                           /\ pending' = [pending EXCEPT ![b] = NoEntry]
    <3>1. CASE DeleteDrop
      <4>1. Deleting
        BY <3>1 DEF DeleteDrop, DeleterStep, Deleting
      <4> QED BY <3>1, <4>1, DeletingHas DEF DeleteDrop, DropBook
    <3>2. CASE \E b \in Books : DeleteMissing(b)
      BY <3>2, GateIs DEF DeleteMissing
    <3> QED BY <1>3, <3>1, <3>2
  <2>2. UNCHANGED <<nextVersion, pc, batch, saved, present, row, books, editor, mishaps>>
    BY <1>3 DEF DeleteDrop, DropBook, DeleteMissing, flusher, storage, files, handlers
  <2>3. \A c \in Books : pending'[c] = IF c = b THEN NoEntry ELSE pending[c]
    BY <2>1 DEF PlacesTypeOK
  <2>4. Versions' /\ BatchBehind' /\ OneSave'
    BY <2>1, <2>2, <2>3 DEF PlacesFit, Versions, BatchBehind, OneSave
  <2>5. OpFollows'
    BY <2>1, <2>2 DEF PlacesFit, OpFollows, Moving, Publishing, NoOp
  <2>6. AllCounted'
    <3> SUFFICES ASSUME NEW c \in Books, Clean(c)', present[c]
                 PROVE  Counted(c)'
      BY <2>2 DEF AllCounted
    <3>1. Counted(c) /\ pending'[c] = pending[c]
      BY <2>1, <2>2, <2>3, CleanBefore DEF PlacesFit, AllCounted
    <3> QED BY <2>2, <3>1 DEF Counted, RowRight, BufferGen, Moving
  <2> QED BY <2>4, <2>5, <2>6 DEF PlacesFit
<1> QED BY <1>1, <1>2, <1>3 DEF Deleter


(* A position is staged under the numbering of the client's view.          *)
LEMMA PutStagesCounts ==
  ASSUME IInv, PlacesTypeOK, FilesFit, PlacesFit, NEW w \in Writers, PutStages(w)
  PROVE  PlacesFit'
<1> DEFINE v == writer[w].view
           c == writer[w].book
           new == [rec |-> [id |-> issued + 1, gen |-> v.spine], version |-> nextVersion + 1]
<1>1. /\ UNCHANGED <<pc, batch, saved, present, row, op, books, editor>> /\ mishaps \subseteq mishaps'
      /\ nextVersion' = nextVersion + 1
      /\ pending' = [pending EXCEPT ![c] = new]
      /\ v # books[c] => <<c, "put">> \in mishaps'
      /\ c \in Books
  BY DEF PutStages, Stage, flusher, storage, files, PlacesTypeOK
<1>2. new.rec.gen = v.spine /\ new.version = nextVersion + 1
  OBVIOUS
<1>3. v.hash < editor.new.hash \/ editor.pc # "committed"
  BY DEF FilesFit, Unseen, Before
<1> HIDE DEF new
<1>4. \A b \in Books : pending'[b] = IF b = c THEN new ELSE pending[b]
  BY <1>1 DEF PlacesTypeOK
<1>5. nextVersion \in Nat /\ \A b \in Books : batch[b].version \in Nat /\ pending[b].version \in Nat
  BY DEF PlacesTypeOK, Entry
<1>6. new # NoEntry
  BY <1>2, <1>5, EntryTypes
<1>7. Versions'
  BY <1>1, <1>2, <1>4, <1>5 DEF PlacesFit, Versions
<1>8. \A b \in Books : present[b] /\ batch[b] # NoEntry => batch[b].version < nextVersion + 1
  BY <1>5 DEF PlacesFit, Versions, BatchBehind
<1>9. BatchBehind'
  BY <1>1, <1>2, <1>4, <1>6, <1>8 DEF PlacesFit, BatchBehind
<1>10. OneSave' /\ OpFollows'
  BY <1>1 DEF PlacesFit, OneSave, OpFollows, Moving
<1>11. AllCounted'
  <2> SUFFICES ASSUME NEW b \in Books, Clean(b)', present[b]
               PROVE  Counted(b)'
    BY <1>1 DEF AllCounted
  <2>1. Counted(b) /\ (RowRight(b) <=> RowRight(b)') /\ BufferGen(b)' = BufferGen(b)
    BY <1>1, CleanBefore DEF PlacesFit, AllCounted, RowRight, BufferGen, Moving
  <2>2. CASE b # c
    BY <1>1, <1>4, <2>1, <2>2 DEF Counted
  <2>3. CASE b = c
    <3>1. v = books[b]
      BY <1>1, <2>3 DEF Clean
    <3>2. ~Moving(b)
      <4>1. ASSUME Moving(b) PROVE FALSE
        <5>1. v = editor.new /\ editor.new.hash \in Nat /\ editor.pc = "committed"
          BY <3>1, <4>1, EditionTypes DEF Moving, FilesFit, EditFits
        <5> QED BY <1>3, <5>1
      <4> QED BY <4>1
    <3>3. batch[b] # new
      <4>1. CASE batch[b] = NoEntry
        BY <1>6, <4>1
      <4>2. CASE batch[b] # NoEntry
        BY <1>2, <1>5, <1>8, <4>2
      <4> QED BY <4>1, <4>2
    <3> QED BY <1>1, <1>2, <1>4, <1>6, <2>1, <2>3, <3>1, <3>2, <3>3 DEF Counted, BufferGen
  <2> QED BY <2>2, <2>3
<1> QED BY <1>7, <1>9, <1>10, <1>11 DEF PlacesFit

LEMMA WritingCounts ==
  ASSUME IInv, PlacesTypeOK, FilesFit, PlacesFit, Writing
  PROVE  PlacesFit'
<1>1. CASE \E w \in Writers : PutStages(w)
  BY <1>1, PutStagesCounts
<1>2. CASE ~\E w \in Writers : PutStages(w)
  <2>1. UNCHANGED <<vars, books, editor, mishaps>>
    BY <1>2 DEF Writing, PutBegin, PutRefused, Open, files
  <2> QED BY <2>1, PlacesStill DEF Moving
<1> QED BY <1>1, <1>2

-----------------------------------------------------------------------------
(* The flusher leaves the files and the editor alone.                      *)
LEMMA FlushFrame ==
  ASSUME Flushing
  PROVE  /\ UNCHANGED <<books, editor, present, nextVersion, op>> /\ mishaps \subseteq mishaps'
         /\ \A b \in Books : op = [kind |-> "replace", book |-> b] /\ (saved' = b \/ row'[b] # row[b])
                                => <<b, "saved">> \in mishaps'
<1>1. UNCHANGED <<present, nextVersion, op>>
  BY DEF Flushing, Flusher, FlushOnTick, FlushOnSignal, FlushOnDone, StartFlush, EndFlush, Save,
         SaveSucceeds, SaveViolatesKey, SaveFails, DiscardSaved, storage, buffer
<1> QED BY <1>1 DEF Flushing, files, handlers

LEMMA StartFlushCounts ==
  ASSUME PlacesTypeOK, PlacesFit, Flushing, FlushOnTick \/ FlushOnSignal \/ FlushOnDone
  PROVE  PlacesFit'
<1>1. /\ pc = "idle" /\ batch' = pending /\ UNCHANGED <<pending, saved, row>>
  BY DEF FlushOnTick, FlushOnSignal, FlushOnDone, StartFlush, storage
<1>2. saved = NoBook
  BY <1>1 DEF PlacesFit, OneSave
<1>3. Versions' /\ BatchBehind' /\ OneSave' /\ OpFollows'
  BY <1>1, <1>2, FlushFrame DEF PlacesFit, Versions, BatchBehind, OneSave, OpFollows, Moving
<1>4. AllCounted'
  <2> SUFFICES ASSUME NEW b \in Books, Clean(b)', present[b]
               PROVE  Counted(b)'
    BY FlushFrame DEF AllCounted
  <2>1. Counted(b) /\ saved # b
    BY <1>2, FlushFrame, CleanBefore, NoBookAssumption DEF PlacesFit, AllCounted
  <2> QED BY <1>1, <2>1, FlushFrame DEF Counted, RowRight, BufferGen, Moving
<1> QED BY <1>3, <1>4 DEF PlacesFit

(* A save writes what the batch has: of the present book, what is buffered *)
(* or something older, and then what is buffered is still to be saved.     *)
LEMMA SaveCounts ==
  ASSUME PlacesTypeOK, PlacesFit, Flushing, NEW b \in Books, SaveSucceeds(b) \/ SaveViolatesKey(b)
  PROVE  PlacesFit'
<1>1. /\ CanSave(b) /\ saved' = b /\ UNCHANGED <<pending, pc, batch>>
      /\ present[b] => row' = [row EXCEPT ![b] = batch[b].rec]
      /\ ~present[b] => UNCHANGED row
  BY DEF SaveSucceeds, SaveViolatesKey, buffer, storage
<1>2. batch[b] # NoEntry /\ pc \in {"flush", "drain"} /\ saved = NoBook
  BY <1>1 DEF CanSave, Unsaved
<1>3. \A c \in Books : row'[c] = IF c = b /\ present[b] THEN batch[b].rec ELSE row[c]
  BY <1>1 DEF PlacesTypeOK
<1>4. Versions' /\ BatchBehind' /\ OneSave' /\ OpFollows'
  BY <1>1, <1>2, FlushFrame DEF PlacesFit, Versions, BatchBehind, OneSave, OpFollows, Moving
<1>5. AllCounted'
  <2> SUFFICES ASSUME NEW c \in Books, Clean(c)', present[c]
               PROVE  Counted(c)'
    BY FlushFrame DEF AllCounted
  <2>1. Counted(c) /\ BufferGen(c)' = BufferGen(c)
    BY FlushFrame, CleanBefore DEF PlacesFit, AllCounted, BufferGen, Moving
  <2>2. CASE c # b
    BY <1>1, <1>3, <2>1, <2>2, FlushFrame DEF Counted, RowRight
  <2>3. CASE c = b
    <3>1. pending[b] # NoEntry
      BY <1>2, <2>3 DEF PlacesFit, BatchBehind
    <3>2. ~Moving(b)
      BY <1>1, <2>3, FlushFrame DEF Clean, PlacesFit, OpFollows
    <3>3. row'[b] = batch[b].rec /\ BufferGen(b) = books[b].spine
      BY <1>3, <2>3, <3>2 DEF BufferGen
    <3>4. batch[b] = pending[b] => RowRight(b)'
      BY <2>1, <2>3, <3>1, <3>3, FlushFrame DEF Counted, RowRight
    <3> QED BY <1>1, <2>1, <2>3, <3>1, <3>4 DEF Counted
  <2> QED BY <2>2, <2>3
<1> QED BY <1>4, <1>5 DEF PlacesFit

LEMMA SaveFailsCounts ==
  ASSUME PlacesTypeOK, PlacesFit, Flushing, NEW b \in Books, SaveFails(b)
  PROVE  PlacesFit'
<1>1. /\ CanSave(b) /\ UNCHANGED <<pending, pc, saved>>
      /\ batch' = [batch EXCEPT ![b] = NoEntry]
      /\ UNCHANGED row \/ row' = [row EXCEPT ![b] = batch[b].rec]
  BY DEF SaveFails, buffer
<1>2. batch[b] # NoEntry /\ saved = NoBook
  BY <1>1 DEF CanSave, Unsaved
<1>3. \A c \in Books : /\ batch'[c] = IF c = b THEN NoEntry ELSE batch[c]
                       /\ c # b => row'[c] = row[c]
  BY <1>1 DEF PlacesTypeOK
<1>4. Versions' /\ BatchBehind' /\ OneSave' /\ OpFollows'
  BY <1>1, <1>3, FlushFrame DEF PlacesFit, Versions, BatchBehind, OneSave, OpFollows, Moving
<1>5. AllCounted'
  <2> SUFFICES ASSUME NEW c \in Books, Clean(c)', present[c]
               PROVE  Counted(c)'
    BY FlushFrame DEF AllCounted
  <2>1. Counted(c) /\ BufferGen(c)' = BufferGen(c) /\ saved # c
    BY <1>2, FlushFrame, CleanBefore, NoBookAssumption DEF PlacesFit, AllCounted, BufferGen, Moving
  <2>2. CASE c # b
    BY <1>1, <1>3, <2>1, <2>2, FlushFrame DEF Counted, RowRight
  <2>3. CASE c = b
    <3>1. pending[b] # NoEntry
      BY <1>2, <2>3 DEF PlacesFit, BatchBehind
    <3> QED BY <1>1, <2>1, <2>3, <3>1 DEF Counted
  <2> QED BY <2>2, <2>3
<1> QED BY <1>4, <1>5 DEF PlacesFit

(* Only what was saved leaves the buffer, and then the row has it.         *)
LEMMA DiscardSavedCounts ==
  ASSUME PlacesTypeOK, PlacesFit, Flushing, NEW b \in Books, DiscardSaved(b)
  PROVE  PlacesFit'
<1>1. /\ saved = b /\ saved' = NoBook /\ UNCHANGED <<pc, row>>
      /\ batch' = [batch EXCEPT ![b] = NoEntry]
      /\ pending' = IF pending[b].version = batch[b].version
                       THEN [pending EXCEPT ![b] = NoEntry] ELSE pending
  BY DEF DiscardSaved, storage
<1>2. \A c \in Books : /\ batch'[c] = IF c = b THEN NoEntry ELSE batch[c]
                       /\ c # b => pending'[c] = pending[c]
                       /\ pending'[c] \in {pending[c], NoEntry}
  BY <1>1 DEF PlacesTypeOK
<1>3. pending[b].version # batch[b].version => pending'[b] = pending[b]
  BY <1>1
<1>4. /\ nextVersion \in Nat /\ \A c \in Books : batch[c].version \in Nat /\ pending[c].version \in Nat
  BY DEF PlacesTypeOK, Entry
<1>5. Versions' /\ OneSave' /\ OpFollows'
  BY <1>1, <1>2, FlushFrame DEF PlacesFit, Versions, OneSave, OpFollows, Moving
<1>6. BatchBehind'
  BY <1>2, FlushFrame DEF PlacesFit, BatchBehind
<1>7. AllCounted'
  <2> SUFFICES ASSUME NEW c \in Books, Clean(c)', present[c]
               PROVE  Counted(c)'
    BY FlushFrame DEF AllCounted
  <2>1. /\ Counted(c) /\ BufferGen(c)' = BufferGen(c) /\ saved' # c
        /\ RowRight(c) <=> RowRight(c)'
    BY <1>1, FlushFrame, CleanBefore, NoBookAssumption
       DEF PlacesFit, AllCounted, BufferGen, Moving, RowRight
  <2>2. CASE pending'[c] = pending[c]
    BY <2>1, <2>2 DEF Counted
  <2>3. CASE pending'[c] # pending[c]
    <3>1. c = b /\ pending'[c] = NoEntry /\ pending[b].version = batch[b].version /\ pending[b] # NoEntry
      BY <1>2, <1>3, <2>3
    <3>2. batch[b] = pending[b]
      <4>1. pending[b].version \in 1..nextVersion
        BY <3>1 DEF PlacesFit, Versions
      <4>2. batch[b] # NoEntry
        BY <3>1, <4>1, <1>4, EntryTypes
      <4> QED BY <1>4, <3>1, <4>2 DEF PlacesFit, BatchBehind
    <3> QED BY <1>1, <2>1, <3>1, <3>2 DEF Counted
  <2> QED BY <2>2, <2>3
<1> QED BY <1>5, <1>6, <1>7 DEF PlacesFit

LEMMA FlushingCounts ==
  ASSUME PlacesTypeOK, PlacesFit, Flushing
  PROVE  PlacesFit'
<1>1. CASE EndFlush
  <2>1. saved = NoBook /\ UNCHANGED <<pending, nextVersion, batch, saved, row>>
    BY <1>1 DEF EndFlush, buffer, storage
  <2>2. Versions' /\ BatchBehind' /\ OneSave' /\ OpFollows'
    BY <2>1, FlushFrame DEF PlacesFit, Versions, BatchBehind, OneSave, OpFollows, Moving
  <2>3. AllCounted'
    <3> SUFFICES ASSUME NEW b \in Books, Clean(b)', present[b]
                 PROVE  Counted(b)'
      BY FlushFrame DEF AllCounted
    <3>1. Counted(b)
      BY FlushFrame, CleanBefore DEF PlacesFit, AllCounted
    <3> QED BY <2>1, <3>1, FlushFrame DEF Counted, RowRight, BufferGen, Moving
  <2> QED BY <2>2, <2>3 DEF PlacesFit
<1>2. CASE ~EndFlush
  <2>1. \/ FlushOnTick \/ FlushOnSignal \/ FlushOnDone
        \/ \E b \in Books : SaveSucceeds(b) \/ SaveViolatesKey(b) \/ SaveFails(b) \/ DiscardSaved(b)
    BY <1>2 DEF Flushing, Flusher, Save
  <2> QED BY <2>1, StartFlushCounts, SaveCounts, SaveFailsCounts, DiscardSavedCounts
<1> QED BY <1>1, <1>2

LEMMA NextPlacesFit ==
  ASSUME IInv, PlacesTypeOK, FilesFit, PlacesFit, [BookFilesNext]_bvars
  PROVE  PlacesFit'
<1>1. CASE UNCHANGED bvars \/ Serving
  <2>1. UNCHANGED <<vars, books, editor, mishaps>>
    BY <1>1 DEF bvars, Serving, ReadBegin, ReadEnd, WarmLoad, WarmAdd, files, handlers
  <2> QED BY <2>1, PlacesStill DEF Moving
<1> QED BY <1>1, EditorCounts, DeleterCounts, WritingCounts, FlushingCounts DEF BookFilesNext

LEMMA BookFilesInitNInv == BookFilesInit => NInv
<1> SUFFICES ASSUME BookFilesInit PROVE NInv
  OBVIOUS
<1> USE DEF BookFilesInit, Init
<1>1. PlacesTypeOK
  <2>1. writer \in [Writers -> Clients]
    BY NoneEdition DEF Clients
  <2> QED BY <2>1, EntryTypes DEF PlacesTypeOK
<1>2. Original.hash = 1 /\ NoEdition.hash = 0 /\ Original.spine = 0
  BY DEF Original, NoEdition
<1>3. FilesFit
  BY <1>2 DEF FilesFit, CacheFits, EditFits, RecordFits, IsReplacement, EditorAtRest, NotServing, Unseen, Before
<1>4. Versions /\ BatchBehind /\ OneSave /\ OpFollows
  BY DEF Versions, BatchBehind, OneSave, OpFollows, Moving, NoOp, EditorAtRest
<1>5. AllCounted
  BY NoBookAssumption DEF AllCounted, Counted, RowRight
<1> QED BY <1>1, <1>3, <1>4, <1>5 DEF NInv, PlacesFit

(* Between changes a stored position counts the chapters of the installed  *)
(* file: the replacement's transaction moves the row and remapBook the     *)
(* buffered position, each once, whatever the flusher had in hand.  What a *)
(* save between the two leaves behind, and a PUT that was checked against  *)
(* the old record, are excepted; runs of their own show them.              *)
THEOREM PositionsFollow == BookFilesSpec => []PositionsFollowFile
<1>1. IInv /\ NInv /\ [BookFilesNext]_bvars => NInv'
  BY NextPlacesTypes, NextFilesFit, NextPlacesFit DEF NInv
<1>2. NInv => PositionsFollowFile
  <2> SUFFICES ASSUME NInv, NEW b \in Books, Clean(b), ~GateWritten, present[b], Current(b) # NoRecord
               PROVE  Current(b).gen = books[b].spine
    BY DEF PositionsFollowFile, Numbered, Clean
  <2>1. Counted(b) /\ BufferGen(b) = books[b].spine
    BY GateIs DEF NInv, PlacesFit, AllCounted, BufferGen, Moving, Publishing
  <2> QED BY <2>1 DEF Current, Counted, RowRight
<1> QED BY BookFilesIInv, BookFilesInitNInv, <1>1, <1>2, PTL DEF BookFilesSpec

-----------------------------------------------------------------------------
(* Types: the operation of the coalescer's caller is that of the handler   *)
(* that is between its transaction and the call, and what went wrong went  *)
(* wrong with a book.                                                      *)
Mishaps == Books \X {"saved", "put", "restore", "receipt", "unlink"}

OpKinds == /\ op.kind = "delete" <=> deleter.pc \in {"deleted", "uncached"}
           /\ op.kind = "replace" <=> editor.pc = "committed"

LEMMA NextMishaps ==
  ASSUME IInv, PlacesTypeOK, mishaps \subseteq Mishaps, [BookFilesNext]_bvars
  PROVE  (mishaps \subseteq Mishaps)'
<1>1. CASE Editor
  <2>1. CASE EditRollback
    <3>1. \/ UNCHANGED mishaps
          \/ /\ editor.pc = "swapped"
             /\ \E what \in {"restore", "receipt"} : mishaps' = mishaps \cup {<<editor.book, what>>}
      BY <2>1 DEF EditRollback, EditorStep, Mishap
    <3> QED BY <3>1 DEF Mishaps, IInv, EditorHas
  <2>2. CASE ~EditRollback
    BY <1>1, <2>2 DEF Editor, EditBegin, EditPrepare, EditPrepared, EditAcquire, EditSwap, EditRefused,
                      CommitReplacement, CommitEdit, EditRemap, EditRefresh
  <2> QED BY <2>1, <2>2
<1>2. CASE Deleter
  <2>1. \/ UNCHANGED mishaps
        \/ deleter.pc = "dropped" /\ mishaps' = mishaps \cup {<<deleter.book, "unlink">>}
    BY <1>2 DEF Deleter, DeleteBegin, DeleteUncache, DeleteDrop, DeleteUnlink, DeleteMissing, DeleterStep
  <2> QED BY <2>1 DEF Mishaps, IInv, DeleterHas, Deleting
<1>3. CASE Writing
  <2>1. \/ UNCHANGED mishaps
        \/ \E w \in Writers : /\ writer[w].pc = "checked"
                              /\ mishaps' = mishaps \cup {<<writer[w].book, "put">>}
    BY <1>3 DEF Writing, PutBegin, PutStages, PutRefused, Open
  <2> QED BY <2>1 DEF Mishaps, PlacesTypeOK
<1>4. CASE Flushing
  <2>1. PICK late \in SUBSET Books : mishaps' = mishaps \cup {<<b, "saved">> : b \in late}
    BY <1>4 DEF Flushing
  <2> QED BY <2>1 DEF Mishaps
<1>5. CASE Serving \/ UNCHANGED bvars
  BY <1>5 DEF Serving, ReadBegin, ReadEnd, WarmLoad, WarmAdd, bvars
<1> QED BY <1>1, <1>2, <1>3, <1>4, <1>5 DEF BookFilesNext

LEMMA NextOpKinds ==
  ASSUME IInv, OpKinds, [BookFilesNext]_bvars
  PROVE  OpKinds'
<1>1. CASE CommitReplacement
  <2>1. /\ op = NoOp /\ \E b : op' = [kind |-> "replace", book |-> b]
        /\ editor'.pc = "committed" /\ UNCHANGED deleter
    BY <1>1 DEF CommitReplacement, ReplaceRow, EditorStep, IInv, FilesTypeOK, Editors
  <2> QED BY <2>1 DEF OpKinds, NoOp
<1>2. CASE EditRemap
  <2>1. /\ \E b : op = [kind |-> "replace", book |-> b]
        /\ op' = NoOp /\ editor'.pc = "remapped" /\ UNCHANGED deleter
    BY <1>2 DEF EditRemap, RemapBook, EditorStep, IInv, FilesTypeOK, Editors
  <2> QED BY <2>1 DEF OpKinds, NoOp
<1>3. CASE Editor /\ ~CommitReplacement /\ ~EditRemap
  <2>1. editor \in Editors
    BY DEF IInv, FilesTypeOK
  <2>2. UNCHANGED <<op, deleter>>
    BY <1>3 DEF Editor, EditBegin, EditPrepare, EditPrepared, EditAcquire, EditSwap, EditRefused,
                CommitEdit, EditRollback, EditRefresh, vars
  <2>3. CASE EditPrepared \/ \E b \in Books : EditBegin(b)
    <3>1. editor.pc \in {"idle", "preparing"}
      BY <2>3 DEF EditBegin, EditPrepared
    <3>2. editor'.pc \in {"locked", "prepared"}
      <4>1. CASE EditPrepared
        BY <4>1, PreparedIs
      <4> QED BY <2>3, <4>1 DEF EditBegin, EditorAtRest
    <3> QED BY <2>2, <3>1, <3>2 DEF OpKinds
  <2>4. CASE EditPrepare \/ EditAcquire \/ EditSwap \/ EditRefused \/ CommitEdit \/ EditRollback \/ EditRefresh
    <3>1. editor.pc # "committed" /\ editor'.pc # "committed"
      BY <2>1, <2>4 DEF EditPrepare, EditAcquire, EditSwap, EditRefused, CommitEdit, EditRollback,
                        EditRefresh, EditorStep, Editors
    <3> QED BY <2>2, <3>1 DEF OpKinds
  <2> QED BY <1>3, <2>3, <2>4 DEF Editor
<1>4. CASE \E b \in Books : DeleteBegin(b)
  <2>1. PICK b \in Books : DeleteBegin(b)
    BY <1>4
  <2>2. /\ op = NoOp /\ op' = [kind |-> "delete", book |-> b]
        /\ deleter' = [pc |-> "deleted", book |-> b] /\ UNCHANGED editor
    BY <2>1 DEF DeleteBegin, DeleteRow
  <2> QED BY <2>2 DEF OpKinds, NoOp
<1>5. CASE DeleteDrop
  <2>1. /\ \E b : op = [kind |-> "delete", book |-> b]
        /\ op' = NoOp /\ deleter'.pc = "dropped" /\ UNCHANGED editor
    BY <1>5 DEF DeleteDrop, DropBook, DeleterStep, IInv, FilesTypeOK, Deleters
  <2> QED BY <2>1 DEF OpKinds, NoOp
<1>6. CASE DeleteUncache \/ DeleteUnlink \/ \E b \in Books : DeleteMissing(b)
  <2>1. /\ UNCHANGED <<op, editor>>
        /\ deleter'.pc \in {"deleted", "uncached"} <=> deleter.pc \in {"deleted", "uncached"}
    BY <1>6 DEF DeleteUncache, DeleteUnlink, DeleteMissing, DeleterStep, vars, handlers,
                IInv, FilesTypeOK, Deleters
  <2> QED BY <2>1 DEF OpKinds
<1>7. CASE Serving \/ Writing \/ Flushing \/ UNCHANGED bvars
  <2>1. UNCHANGED <<op, editor, deleter>>
    BY <1>7 DEF Serving, ReadBegin, ReadEnd, WarmLoad, WarmAdd, Writing, PutBegin, PutStages, PutRefused,
                Open, Stage, Flushing, Flusher, FlushOnTick, FlushOnSignal, FlushOnDone, StartFlush,
                EndFlush, Save, SaveSucceeds, SaveViolatesKey, SaveFails, DiscardSaved, vars, handlers, bvars
  <2> QED BY <2>1 DEF OpKinds
<1> QED BY <1>1, <1>2, <1>3, <1>4, <1>5, <1>6, <1>7 DEF BookFilesNext, Deleter

(* The phases, books and editions of the handlers are of their kinds; a    *)
(* row is there exactly while its book is, and the call the coalescer      *)
(* waits for is that of the handler that has just changed the row          *)
(* (deleteBookHandler, replaceBookHandler).                                *)
THEOREM BookFilesTypeCorrect == BookFilesSpec => []BookFilesTypeOK
<1> DEFINE Typed == PlacesTypeOK /\ mishaps \subseteq Mishaps /\ OpKinds
<1>1. BookFilesInit => Typed
  <2> SUFFICES ASSUME BookFilesInit PROVE Typed
    OBVIOUS
  <2>1. PlacesTypeOK
    BY BookFilesInitNInv DEF NInv
  <2>2. mishaps = {} /\ op = NoOp /\ deleter.pc = "idle" /\ editor.pc = "idle"
    BY DEF BookFilesInit, Init, EditorAtRest
  <2> QED BY <2>1, <2>2 DEF OpKinds, NoOp
<1>2. IInv /\ Typed /\ [BookFilesNext]_bvars => Typed'
  BY NextPlacesTypes, NextMishaps, NextOpKinds
<1>3. ASSUME IInv, Typed PROVE BookFilesTypeOK
  BY <1>3 DEF BookFilesTypeOK, IInv, FilesTypeOK, PlacesTypeOK, Mishaps, OpKinds, RowsPresent,
              Editors, Deleters, Requests, Warmers, Clients
<1> HIDE DEF Typed
<1> QED BY BookFilesIInv, <1>1, <1>2, <1>3, PTL DEF BookFilesSpec
=============================================================================
