----------------------- MODULE ProgressCoalescerProofs -----------------------
(***************************************************************************)
(* Proofs about ProgressCoalescer: types, rows that move only forward, and *)
(* that the coalescer implements ProgressRegister, for every set of books  *)
(* and every bound.                                                        *)
(***************************************************************************)
EXTENDS ProgressCoalescer, TLAPS

(* What is in memory is never older than what is saved, entry by entry:    *)
(* the batch is at most as new as the buffer it was copied from, and at    *)
(* least as new as the row.  An entry of the batch that has no entry in    *)
(* the buffer was dropped, so it precedes the book as now imported.        *)
BatchOrder(b) ==
    batch[b] # NoEntry =>
       /\ batch[b].rec.id > 0 /\ batch[b].rec.id <= issued
       /\ batch[b].version \in 1..nextVersion
       /\ row[b].id <= batch[b].rec.id
       /\ pending[b] # NoEntry => batch[b].rec.id <= pending[b].rec.id
       /\ pending[b] = NoEntry => ~present[b] \/ batch[b].rec.id <= born[b]

(* Versions identify records.                                              *)
BatchVersion(b) ==
    batch[b] # NoEntry /\ pending[b].version = batch[b].version =>
       pending[b].rec.id = batch[b].rec.id

BufferOrder(b) ==
    /\ row[b].id <= issued
    /\ born[b] <= issued
    /\ pending[b] # NoEntry => /\ pending[b].rec.id <= issued
                               /\ row[b].id <= pending[b].rec.id

(* Between a save and its discardSaved the row holds what was saved.       *)
SavedRow(b) ==
    saved = b => /\ batch[b] # NoEntry
                 /\ present[b] => \/ row[b].id = batch[b].rec.id
                                  \/ batch[b].rec.id <= born[b]

DeleteGate == \A b \in Books : op = [kind |-> "delete", book |-> b] => ~present[b]

(* The final drain covers everything buffered: nothing is staged or moved  *)
(* once done is closed.                                                    *)
Draining(b) ==
    /\ pc = "exited" => batch[b] = NoEntry
    /\ pc \in {"drain", "exited"} /\ pending[b] # NoEntry =>
          \/ b \in failed
          \/ batch[b] # NoEntry /\ batch[b].version = pending[b].version

Phases ==
    /\ pc \in {"idle", "exited"} => saved = NoBook
    /\ pc \in {"drain", "exited"} => done
    /\ done => op = NoOp

Inv(b) == /\ BatchOrder(b) /\ BatchVersion(b) /\ BufferOrder(b)
          /\ SavedRow(b) /\ Draining(b)

IInv == TypeOK /\ DeleteGate /\ Phases /\ \A b \in Books : Inv(b)

USE DEF Record, Entry, NoRecord, NoEntry, NoOp

LEMMA AbsentTypes ==
    /\ NoRecord \in Record /\ NoEntry \in Entry
    /\ NoOp \in [kind : {"none", "delete", "replace"}, book : Books \cup {NoBook}]
  OBVIOUS

LEMMA EmptyBuffer ==
    [b \in Books |-> NoEntry] \in [Books -> Entry]
  BY AbsentTypes

LEMMA MovedRecord ==
    ASSUME NEW rec \in Record
    PROVE  Moved(rec) \in Record /\ Moved(rec).id = rec.id
  BY DEF Moved

LEMMA TypeInit == Init => TypeOK
<1> SUFFICES ASSUME Init PROVE TypeOK
  OBVIOUS
<1>1. row \in [Books -> Record]
  BY AbsentTypes DEF Init
<1>2. pending \in [Books -> Entry] /\ batch \in [Books -> Entry]
  BY EmptyBuffer DEF Init
<1>3. op \in [kind : {"none", "delete", "replace"}, book : Books \cup {NoBook}]
  BY AbsentTypes DEF Init
<1> QED
  BY <1>1, <1>2, <1>3 DEF Init, TypeOK

LEMMA TypeNext == TypeOK /\ [Next]_vars => TypeOK'
<1> SUFFICES ASSUME TypeOK, [Next]_vars PROVE TypeOK'
  OBVIOUS
<1> USE NoBookAssumption DEF TypeOK, buffer, flusher, storage, history
<1>1. ASSUME NEW b \in Books, Stage(b, 0) PROVE TypeOK'
  BY <1>1 DEF Stage
<1>2. ASSUME NEW b \in Books, DeleteRow(b) PROVE TypeOK'
  BY <1>2 DEF DeleteRow
<1>3. ASSUME NEW b \in Books, DropBook(b) PROVE TypeOK'
  BY <1>3 DEF DropBook
<1>4. ASSUME NEW b \in Books, ReplaceRow(b) PROVE TypeOK'
  BY <1>4 DEF ReplaceRow, Incident, Moved
<1>5. ASSUME NEW b \in Books, RemapBook(b) PROVE TypeOK'
  <2>1. CASE pending[b] = NoEntry
    BY <1>5, <2>1 DEF RemapBook
  <2>2. CASE pending[b] # NoEntry
    <3>1. Moved(pending[b].rec) \in Record /\ Moved(pending[b].rec).id > 0
      <4>1. pending[b].rec \in Record /\ pending[b].rec.id > 0
        BY <2>2
      <4> QED
        BY <4>1, MovedRecord
    <3>2. nextVersion' = nextVersion + 1
      BY <1>5, <2>2 DEF RemapBook
    <3>3. pending' = [pending EXCEPT ![b] =
             [rec |-> Moved(pending[b].rec), version |-> nextVersion + 1]]
      BY <1>5, <2>2, <3>2 DEF RemapBook
    <3> QED
      BY <1>5, <2>2, <3>1, <3>2, <3>3 DEF RemapBook
  <2> QED
    BY <2>1, <2>2
<1>6. ASSUME NEW b \in Books, Import(b) PROVE TypeOK'
  BY <1>6 DEF Import, Incident
<1>7. CASE Stop
  BY <1>7 DEF Stop
<1>8. CASE FlushOnTick \/ FlushOnSignal \/ FlushOnDone
  BY <1>8 DEF FlushOnTick, FlushOnSignal, FlushOnDone, StartFlush
<1>9. ASSUME NEW b \in Books, SaveSucceeds(b) PROVE TypeOK'
  BY <1>9 DEF SaveSucceeds, CanSave
<1>10. ASSUME NEW b \in Books, SaveViolatesKey(b) PROVE TypeOK'
  BY <1>10 DEF SaveViolatesKey, CanSave
<1>11. ASSUME NEW b \in Books, SaveFails(b) PROVE TypeOK'
  <2>1. batch' \in [Books -> Entry]
    BY <1>11, AbsentTypes DEF SaveFails
  <2>2. row' \in [Books -> Record]
    BY <1>11 DEF SaveFails
  <2> QED
    BY <1>11, <2>1, <2>2 DEF SaveFails, Incident
<1>12. ASSUME NEW b \in Books, DiscardSaved(b) PROVE TypeOK'
  BY <1>12 DEF DiscardSaved
<1>13. CASE EndFlush
  BY <1>13 DEF EndFlush
<1>14. CASE Restart
  <2>1. /\ pending' \in [Books -> Entry] /\ batch' \in [Books -> Entry]
        /\ \A b \in Books : pending'[b] = NoEntry
    BY <1>14, EmptyBuffer DEF Restart
  <2>2. op' \in [kind : {"none", "delete", "replace"}, book : Books \cup {NoBook}]
    BY <1>14, AbsentTypes DEF Restart
  <2>3. /\ nextVersion' = 0 /\ flushSignal' = FALSE /\ done' = FALSE /\ pc' = "idle"
        /\ saved' = NoBook /\ failed' = {} /\ incidents' = incidents + 1
    BY <1>14 DEF Restart, Incident
  <2>4. UNCHANGED <<present, row, issued, born>>
    BY <1>14 DEF Restart
  <2>5. \A b \in Books : pending'[b] # NoEntry =>
            pending'[b].rec.id > 0 /\ pending'[b].version \in 1..nextVersion'
    BY <2>1
  <2>6. /\ nextVersion' \in Nat /\ flushSignal' \in BOOLEAN /\ done' \in BOOLEAN
        /\ pc' \in {"idle", "flush", "drain", "exited"}
    BY <2>3
  <2>7. saved' \in Books \cup {NoBook} /\ failed' \subseteq Books
    BY <2>3
  <2>8. incidents' \in Nat
    BY <2>3
  <2>9. /\ present' \in [Books -> BOOLEAN] /\ row' \in [Books -> Record]
        /\ issued' \in Nat /\ born' \in [Books -> Nat]
    BY <2>4
  <2> HIDE DEF NoEntry, Entry, NoOp, Record
  <2> QED
    BY <2>1, <2>2, <2>5, <2>6, <2>7, <2>8, <2>9
<1>15. CASE UNCHANGED vars
  BY <1>15 DEF vars
<1> QED
  BY <1>1, <1>2, <1>3, <1>4, <1>5, <1>6, <1>7, <1>8, <1>9, <1>10, <1>11, <1>12,
     <1>13, <1>14, <1>15 DEF Next, Callers, Flusher, Save

(* Every reachable state of the coalescer and its database has the types   *)
(* of progressCoalescer's fields, and no buffered entry carries a version  *)
(* that was not handed out.                                                *)
THEOREM TypeCorrect == Spec => []TypeOK
  BY TypeInit, TypeNext, PTL DEF Spec

HIDE DEF Record, Entry, NoRecord, NoEntry, NoOp

LEMMA EntryTypes ==
    ASSUME TypeOK, NEW b \in Books
    PROVE  /\ pending[b].rec.id \in Nat /\ pending[b].version \in Nat
           /\ batch[b].rec.id \in Nat /\ batch[b].version \in Nat
           /\ row[b].id \in Nat /\ born[b] \in Nat
           /\ pending[b] # NoEntry => pending[b].rec.id > 0 /\ pending[b].version > 0
                                       /\ pending[b].version <= nextVersion
  BY DEF TypeOK, Entry, Record

LEMMA AbsentFields == NoEntry.version = 0 /\ NoEntry.rec.id = 0 /\ NoRecord.id = 0
  BY DEF NoEntry, NoRecord

LEMMA InvInit == Init => IInv
<1> SUFFICES ASSUME Init PROVE IInv
  OBVIOUS
<1>1. DeleteGate /\ Phases
  BY DEF Init, DeleteGate, Phases, NoOp
<1>2. ASSUME NEW b \in Books PROVE Inv(b)
  <2>1. /\ pending[b] = NoEntry /\ batch[b] = NoEntry /\ row[b].id = 0 /\ born[b] = 0
        /\ issued = 0 /\ saved # b /\ pc = "idle"
    BY NoBookAssumption, AbsentFields DEF Init
  <2> QED
    BY <2>1 DEF Inv, BatchOrder, BatchVersion, BufferOrder, SavedRow, Draining
<1> QED
  BY <1>1, <1>2, TypeInit DEF IInv

LEMMA InvNext ==
    ASSUME IInv, [Next]_vars, TypeOK', NEW c \in Books
    PROVE  Inv(c)'
<1> USE EntryTypes, AbsentFields, NoBookAssumption
    DEF IInv, TypeOK, Inv, BatchOrder, BatchVersion, BufferOrder, SavedRow, DeleteGate,
        Draining, Phases, buffer, flusher, storage, history
<1>1. ASSUME NEW b \in Books, Stage(b, 0) PROVE Inv(c)'
  BY <1>1 DEF Stage
<1>2. ASSUME NEW b \in Books, DeleteRow(b) PROVE Inv(c)'
  BY <1>2 DEF DeleteRow
<1>3. ASSUME NEW b \in Books, DropBook(b) PROVE Inv(c)'
  BY <1>3 DEF DropBook
<1>4. ASSUME NEW b \in Books, ReplaceRow(b) PROVE Inv(c)'
  BY <1>4 DEF ReplaceRow, Moved
<1>5. ASSUME NEW b \in Books, RemapBook(b) PROVE Inv(c)'
  <2>1. CASE pending[b] = NoEntry
    BY <1>5, <2>1 DEF RemapBook
  <2>2. CASE pending[b] # NoEntry
    <3>1. Moved(pending[b].rec).id = pending[b].rec.id
      BY MovedRecord DEF Entry
    <3>2. /\ pending'[b] = [rec |-> Moved(pending[b].rec), version |-> nextVersion + 1]
          /\ c # b => pending'[c] = pending[c]
          /\ nextVersion' = nextVersion + 1 /\ op # NoOp
          /\ UNCHANGED <<done, flusher, storage, history>>
      BY <1>5, <2>2 DEF RemapBook, NoOp
    <3>3. pending'[b].rec.id = pending[b].rec.id /\ pending'[b].version = nextVersion + 1
      BY <3>1, <3>2
    <3>4. pending'[b] # NoEntry
      BY <3>3
    <3>5. CASE c = b
      BY <2>2, <3>2, <3>3, <3>4, <3>5
    <3>6. CASE c # b
      BY <3>2, <3>6
    <3> QED
      BY <3>5, <3>6
  <2> QED
    BY <2>1, <2>2
<1>6. ASSUME NEW b \in Books, Import(b) PROVE Inv(c)'
  BY <1>6 DEF Import
<1>7. CASE Stop
  BY <1>7 DEF Stop
<1>8. CASE FlushOnTick \/ FlushOnSignal \/ FlushOnDone
  BY <1>8 DEF FlushOnTick, FlushOnSignal, FlushOnDone, StartFlush
<1>9. ASSUME NEW b \in Books, SaveSucceeds(b) PROVE Inv(c)'
  BY <1>9 DEF SaveSucceeds, CanSave, Unsaved
<1>10. ASSUME NEW b \in Books, SaveViolatesKey(b) PROVE Inv(c)'
  BY <1>10 DEF SaveViolatesKey, CanSave, Unsaved
<1>11. ASSUME NEW b \in Books, SaveFails(b) PROVE Inv(c)'
  BY <1>11 DEF SaveFails, CanSave, Unsaved
<1>12. ASSUME NEW b \in Books, DiscardSaved(b) PROVE Inv(c)'
  BY <1>12 DEF DiscardSaved
<1>13. CASE EndFlush
  BY <1>13 DEF EndFlush, Unsaved
<1>14. CASE Restart
  BY <1>14 DEF Restart
<1>15. CASE UNCHANGED vars
  BY <1>15 DEF vars
<1> QED
  BY <1>1, <1>2, <1>3, <1>4, <1>5, <1>6, <1>7, <1>8, <1>9, <1>10, <1>11, <1>12,
     <1>13, <1>14, <1>15 DEF Next, Callers, Flusher, Save

LEMMA PhasesNext ==
    ASSUME IInv, [Next]_vars
    PROVE  DeleteGate' /\ Phases'
<1> USE NoBookAssumption DEF IInv, TypeOK, DeleteGate, Phases, NoOp, buffer, flusher, storage, history
<1>1. ASSUME NEW b \in Books, Stage(b, 0) PROVE DeleteGate' /\ Phases'
  BY <1>1 DEF Stage
<1>2. ASSUME NEW b \in Books, Callers(b) PROVE DeleteGate' /\ Phases'
  BY <1>2 DEF Callers, DeleteRow, DropBook, ReplaceRow, RemapBook, Import
<1>3. CASE Stop
  BY <1>3 DEF Stop
<1>4. CASE FlushOnTick \/ FlushOnSignal \/ FlushOnDone \/ EndFlush
  BY <1>4 DEF FlushOnTick, FlushOnSignal, FlushOnDone, StartFlush, EndFlush
<1>5. ASSUME NEW b \in Books, Save(b) \/ SaveFails(b) PROVE DeleteGate' /\ Phases'
  BY <1>5 DEF Save, SaveSucceeds, SaveViolatesKey, SaveFails, CanSave
<1>6. ASSUME NEW b \in Books, DiscardSaved(b) PROVE DeleteGate' /\ Phases'
  BY <1>6 DEF DiscardSaved
<1>7. CASE Restart
  BY <1>7 DEF Restart
<1>8. CASE UNCHANGED vars
  BY <1>8 DEF vars
<1> QED
  BY <1>1, <1>2, <1>3, <1>4, <1>5, <1>6, <1>7, <1>8 DEF Next, Flusher

LEMMA Invariance == Spec => []IInv
<1>1. IInv /\ [Next]_vars => IInv'
  BY TypeNext, PhasesNext, InvNext DEF IInv
<1> QED
  BY InvInit, <1>1, PTL DEF Spec

(* However stop interleaves with flushes that are under way, the flusher   *)
(* exits with nothing in memory but what the final drain failed to save.   *)
THEOREM DrainedWhenStopped == Spec => []StopDrains
<1>1. IInv => StopDrains
  BY DEF IInv, Inv, Draining, StopDrains, Buffered
<1> QED
  BY <1>1, Invariance, PTL

(* No save, late or repeated, takes the row of a stored book back to an    *)
(* older position.                                                         *)
THEOREM RowForward == Spec => RowMovesForward
<1> USE DEF IInv, TypeOK, storage
<1>1. ASSUME IInv, Next, NEW b \in Books, present'[b] PROVE row'[b].id >= row[b].id
  <2> USE <1>1, EntryTypes
  <2>1. ASSUME NEW c \in Books, Stage(c, 0) PROVE row'[b].id >= row[b].id
    BY <2>1 DEF Stage
  <2>2. ASSUME NEW c \in Books, DeleteRow(c) PROVE row'[b].id >= row[b].id
    BY <2>2 DEF DeleteRow
  <2>3. ASSUME NEW c \in Books, ReplaceRow(c) PROVE row'[b].id >= row[b].id
    <3>1. row'[b] = row[b] \/ row'[b] = Moved(row[b])
      BY <2>3 DEF ReplaceRow
    <3> QED
      BY <3>1, MovedRecord
  <2>4. ASSUME NEW c \in Books, DropBook(c) \/ RemapBook(c) \/ Import(c)
        PROVE row'[b].id >= row[b].id
    BY <2>4 DEF DropBook, RemapBook, Import
  <2>5. ASSUME NEW c \in Books, Save(c) \/ SaveFails(c) PROVE row'[b].id >= row[b].id
    BY <2>5 DEF Save, SaveSucceeds, SaveViolatesKey, SaveFails, CanSave, Unsaved,
                      Inv, BatchOrder
  <2>6. ASSUME Stop \/ EndFlush \/ FlushOnTick \/ FlushOnSignal \/ FlushOnDone \/ Restart
        PROVE row'[b].id >= row[b].id
    BY <2>6 DEF Stop, EndFlush, FlushOnTick, FlushOnSignal, FlushOnDone, StartFlush, Restart
  <2>7. ASSUME NEW c \in Books, DiscardSaved(c) PROVE row'[b].id >= row[b].id
    BY <2>7 DEF DiscardSaved
  <2> QED
    BY <1>1, <2>1, <2>2, <2>3, <2>4, <2>5, <2>6, <2>7 DEF Next, Callers, Flusher
<1>2. IInv /\ [Next]_vars => [\A b \in Books : present'[b] => row'[b].id >= row[b].id]_vars
  BY <1>1
<1> QED
  BY <1>2, Invariance, PTL DEF Spec, RowMovesForward

-----------------------------------------------------------------------------
(* The refinement of ProgressRegister.                                     *)

Latest  == [b \in Books |-> Current(b).id]
Durable == [b \in Books |-> row[b].id]

LEMMA RegisterInit == Init => Register!Init
<1> SUFFICES ASSUME Init PROVE Register!Init
  OBVIOUS
<1>1. \A b \in Books : Current(b).id = 0 /\ row[b].id = 0
  BY AbsentFields DEF Init, Current
<1> QED
  BY <1>1 DEF Init, Register!Init

(* The register does not notice the step.                                  *)
Unnoticed == Latest' = Latest /\ Durable' = Durable /\ UNCHANGED <<present, issued, born>>

(* A step is seen by the register as a change of at most one book.         *)
LEMMA Pointwise ==
    ASSUME NEW b \in Books, NEW l \in Nat,
           Current(b)'.id = l,
           \A c \in Books \ {b} : Current(c)'.id = Current(c).id
    PROVE  Latest' = [Latest EXCEPT ![b] = l]
  BY DEF Latest

LEMMA PointwiseRow ==
    ASSUME NEW b \in Books, NEW l \in Nat,
           row'[b].id = l,
           \A c \in Books \ {b} : row'[c].id = row[c].id
    PROVE  Durable' = [Durable EXCEPT ![b] = l]
  BY DEF Durable

LEMMA RegisterNext == IInv /\ IInv' /\ [Next]_vars => [Register!Next]_(Register!rvars)
<1> SUFFICES ASSUME IInv, IInv', [Next]_vars
    PROVE  [Register!Next]_(Register!rvars)
  OBVIOUS
<1> USE EntryTypes, AbsentFields DEF IInv, TypeOK, Current, buffer, flusher, storage, history
<1>1. ASSUME NEW b \in Books, Stage(b, 0) PROVE Register!Write(b)
  <2>1. /\ pending'[b].rec.id = issued + 1 /\ issued' = issued + 1
        /\ \A c \in Books \ {b} : pending'[c] = pending[c]
        /\ UNCHANGED <<row, present, born>>
    BY <1>1 DEF Stage
  <2>2. pending'[b] # NoEntry
    BY <2>1
  <2>3. Latest' = [Latest EXCEPT ![b] = issued + 1]
    BY <2>1, <2>2, Pointwise
  <2>4. Durable' = Durable
    BY <2>1 DEF Durable
  <2> QED
    BY <2>1, <2>3, <2>4 DEF Register!Write, Latest, Durable
<1>2. ASSUME NEW b \in Books, DeleteRow(b) PROVE Register!Remove(b)
  <2>1. /\ row'[b].id = 0 /\ present' = [present EXCEPT ![b] = FALSE]
        /\ \A c \in Books \ {b} : row'[c] = row[c]
        /\ UNCHANGED <<pending, issued, born>>
    BY <1>2 DEF DeleteRow
  <2>2. Durable' = [Durable EXCEPT ![b] = 0]
    BY <2>1, PointwiseRow
  <2>3. Current(b)'.id \in {Latest[b], 0}
    BY <2>1 DEF Latest
  <2>4. Latest' = [Latest EXCEPT ![b] = Current(b)'.id]
    BY <2>1, <2>3, Pointwise DEF Latest
  <2> QED
    BY <2>1, <2>2, <2>3, <2>4 DEF Register!Remove, Latest, Durable
<1>3. ASSUME NEW b \in Books, DropBook(b) PROVE Register!Forget(b)
  <2>1. /\ pending'[b] = NoEntry /\ ~present[b]
        /\ \A c \in Books \ {b} : pending'[c] = pending[c]
        /\ UNCHANGED <<row, present, issued, born>>
    BY <1>3 DEF DropBook, DeleteGate
  <2>2. Latest' = [Latest EXCEPT ![b] = row[b].id]
    BY <2>1, Pointwise
  <2> QED
    BY <2>1, <2>2 DEF Register!Forget, Latest, Durable
<1>4. ASSUME NEW b \in Books, ReplaceRow(b) PROVE Unnoticed
  <2>1. /\ \A c \in Books : row'[c] = row[c] \/ row'[c] = Moved(row[c])
        /\ UNCHANGED <<pending, present, issued, born>>
    BY <1>4 DEF ReplaceRow
  <2>2. \A c \in Books : row'[c].id = row[c].id
    BY <2>1, MovedRecord
  <2> QED
    BY <2>1, <2>2 DEF Unnoticed, Latest, Durable
<1>5. ASSUME NEW b \in Books, RemapBook(b) PROVE Unnoticed
  <2>1. UNCHANGED <<row, present, issued, born>>
    BY <1>5 DEF RemapBook
  <2>2. CASE pending[b] = NoEntry
    BY <1>5, <2>1, <2>2 DEF RemapBook, Unnoticed, Latest, Durable
  <2>3. CASE pending[b] # NoEntry
    <3>1. Moved(pending[b].rec).id = pending[b].rec.id
      BY MovedRecord DEF Entry
    <3>2. /\ pending'[b].rec.id = pending[b].rec.id
          /\ \A c \in Books \ {b} : pending'[c] = pending[c]
      BY <1>5, <2>3, <3>1 DEF RemapBook
    <3>3. pending'[b] # NoEntry
      BY <2>3, <3>2
    <3>4. \A c \in Books : Current(c)'.id = Current(c).id
      BY <2>1, <2>3, <3>2, <3>3
    <3> QED
      BY <2>1, <3>4 DEF Unnoticed, Latest, Durable
  <2> QED
    BY <2>2, <2>3
<1>6. ASSUME NEW b \in Books, Import(b) PROVE Register!Import(b)
  <2>1. UNCHANGED <<Latest, Durable>>
    BY <1>6 DEF Import, Latest, Durable
  <2> QED
    BY <1>6, <2>1 DEF Import, Register!Import, Latest, Durable
<1>7. ASSUME Stop \/ FlushOnTick \/ FlushOnSignal \/ FlushOnDone \/ EndFlush
      PROVE  Unnoticed
  <2>1. UNCHANGED <<pending, row, present, issued, born>>
    BY <1>7 DEF Stop, FlushOnTick, FlushOnSignal, FlushOnDone, StartFlush, EndFlush
  <2>2. Latest' = Latest /\ Durable' = Durable
    BY <2>1 DEF Latest, Durable
  <2> QED
    BY ONLY <2>1, <2>2 DEF Unnoticed
(* The row takes the position of the batch, which is no older than the row *)
(* and no newer than the buffer, unless the book was deleted meanwhile.    *)
<1>8. ASSUME NEW b \in Books, b \in Unsaved, present[b],
             row' = [row EXCEPT ![b] = batch[b].rec],
             UNCHANGED <<pending, present, issued, born>>
      PROVE  Unnoticed \/ Register!Persist(b)
  <2> DEFINE n == batch[b].rec.id
  <2>1. /\ n \in 1..issued /\ row[b].id <= n
        /\ pending[b] # NoEntry => n <= pending[b].rec.id
        /\ pending[b] = NoEntry => n <= born[b]
    BY <1>8 DEF Unsaved, Inv, BatchOrder
  <2>2. /\ row'[b].id = n /\ \A c \in Books \ {b} : row'[c] = row[c]
    BY <1>8
  <2>3. CASE row[b].id = n
    BY <1>8, <2>2, <2>3 DEF Unnoticed, Latest, Durable
  <2>4. CASE row[b].id # n
    <3>0. n \in Nat /\ row[b].id \in Nat /\ n > row[b].id
      <4>1. n \in Nat /\ row[b].id \in Nat
        OBVIOUS
      <4> QED
        BY ONLY <4>1, <2>1, <2>4
    <3>1. Durable' = [Durable EXCEPT ![b] = n] /\ n > Durable[b]
      <4>1. Durable[b] = row[b].id
        BY DEF Durable
      <4>2. Durable' = [Durable EXCEPT ![b] = n]
        BY <2>2, <3>0, PointwiseRow
      <4> QED
        BY <3>0, <4>1, <4>2
    <3>2. n <= Latest[b] \/ n <= born[b]
      BY <2>1 DEF Latest
    <3>3. Latest' = [Latest EXCEPT ![b] = IF n > Latest[b] THEN n ELSE Latest[b]]
      <4>1. CASE pending[b] = NoEntry
        <5>1. Latest[b] = row[b].id /\ n > Latest[b]
          BY <4>1, <3>0 DEF Latest
        <5>2. Latest' = [Latest EXCEPT ![b] = n]
          BY <1>8, <2>1, <2>2, <4>1, Pointwise
        <5> QED
          BY <5>1, <5>2
      <4>2. CASE pending[b] # NoEntry
        <5>1. Latest[b] = pending[b].rec.id /\ n <= Latest[b] /\ Latest[b] \in Nat
          BY <4>2, <2>1 DEF Latest
        <5>2. Current(b)'.id = Latest[b] /\ \A c \in Books \ {b} : Current(c)'.id = Current(c).id
          BY <1>8, <2>2, <4>2, <5>1
        <5>3. Latest' = [Latest EXCEPT ![b] = Latest[b]]
          BY <5>1, <5>2, Pointwise
        <5>4. ~(n > Latest[b])
          BY <3>0, <5>1
        <5> QED
          BY <5>3, <5>4
      <4> QED
        BY <4>1, <4>2
    <3> QED
      BY <1>8, <2>1, <3>1, <3>2, <3>3 DEF Register!Persist, Latest, Durable
  <2> QED
    BY <2>3, <2>4
<1>9. ASSUME NEW b \in Books, Save(b) \/ SaveFails(b)
      PROVE  Unnoticed \/ Register!Persist(b)
  <2>1. CASE row' = row
    BY <1>9, <2>1 DEF Save, SaveSucceeds, SaveViolatesKey, SaveFails, Unnoticed, Latest, Durable
  <2>2. CASE row' # row
    <3>1. /\ b \in Unsaved /\ present[b]
          /\ row' = [row EXCEPT ![b] = batch[b].rec]
          /\ UNCHANGED <<pending, present, issued, born>>
      BY <1>9, <2>2 DEF Save, SaveSucceeds, SaveViolatesKey, SaveFails, CanSave
    <3> QED
      BY <3>1, <1>8
  <2> QED
    BY <2>1, <2>2
<1>10. ASSUME NEW b \in Books, DiscardSaved(b) PROVE Unnoticed \/ Register!Forget(b)
  <2>1. UNCHANGED <<row, present, issued, born>>
    BY <1>10 DEF DiscardSaved
  <2>2. CASE pending' = pending
    BY <2>1, <2>2 DEF Unnoticed, Latest, Durable
  <2>3. CASE pending' # pending
    <3>1. /\ pending'[b] = NoEntry /\ \A c \in Books \ {b} : pending'[c] = pending[c]
          /\ pending[b].version = batch[b].version /\ saved = b
      BY <1>10, <2>3 DEF DiscardSaved
    <3>2. batch[b] # NoEntry /\ pending[b].rec.id = batch[b].rec.id
      BY <3>1 DEF Inv, SavedRow, BatchVersion
    <3>3. pending[b] # NoEntry
      BY <3>2 DEF Inv, BatchOrder
    <3>4. Latest' = [Latest EXCEPT ![b] = row[b].id]
      BY <2>1, <3>1, Pointwise
    <3>5. Latest[b] = batch[b].rec.id
      BY <3>2, <3>3 DEF Latest
    <3>6. CASE present[b] /\ row[b].id = batch[b].rec.id
      <4>1. Latest' = Latest
        BY <3>4, <3>5, <3>6 DEF Latest
      <4> QED
        BY <2>1, <4>1 DEF Unnoticed, Durable
    <3>7. CASE ~present[b] \/ batch[b].rec.id <= born[b]
      BY <2>1, <3>4, <3>5, <3>7 DEF Register!Forget, Latest, Durable
    <3> QED
      BY <3>1, <3>6, <3>7 DEF Inv, SavedRow
  <2> QED
    BY <2>2, <2>3
<1>11. ASSUME Restart PROVE Register!Crash
  <2>1. /\ \A b \in Books : pending'[b] = NoEntry
        /\ incidents' = incidents + 1
        /\ UNCHANGED <<row, present, issued, born>>
    BY <1>11 DEF Restart, Incident
  <2>2. \A b \in Books : Current(b)'.id = row[b].id
    BY <2>1
  <2>3. Latest' = Durable
    BY <2>2 DEF Latest, Durable
  <2>4. Durable' = Durable
    BY <2>1 DEF Durable
  <2> QED
    BY ONLY <2>1, <2>3, <2>4 DEF Register!Crash, Latest, Durable
<1>12. ASSUME UNCHANGED vars PROVE Unnoticed
  <2>1. UNCHANGED <<pending, row, present, issued, born>>
    BY <1>12 DEF vars
  <2>2. Latest' = Latest /\ Durable' = Durable
    BY <2>1 DEF Latest, Durable
  <2> QED
    BY ONLY <2>1, <2>2 DEF Unnoticed
<1>13. Unnoticed => UNCHANGED Register!rvars
  BY DEF Unnoticed, Register!rvars, Latest, Durable
<1> QED
  BY <1>1, <1>2, <1>3, <1>4, <1>5, <1>6, <1>7, <1>9, <1>10, <1>11, <1>12, <1>13
     DEF Next, Callers, Flusher, Register!Next

(* The coalescer keeps the promise of ProgressRegister: an accepted        *)
(* position is what reads return until a newer one, a deletion or a crash, *)
(* whatever the order in which saves, acknowledgements, drops and remaps   *)
(* meet.                                                                   *)
THEOREM Refinement == Spec => ImplementsRegister
<1>1. IInv /\ IInv' /\ [Next]_vars => [Register!Next]_(Register!rvars)
  BY RegisterNext
<1> QED
  BY <1>1, RegisterInit, Invariance, PTL DEF Spec, ImplementsRegister, Register!Spec
=============================================================================
