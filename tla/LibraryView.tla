---------------------------- MODULE LibraryView ----------------------------
(* The tab's shelf (lib/library.ts) against each profile's library on the  *)
(* server, with the dialog that edits a book (EditBookDialog.tsx), the     *)
(* flair menu and the uploads.  Optimistic writes roll back, failures that *)
(* may hide a commit are reconciled by a refresh, and refreshes queue      *)
(* behind each other so that each one reads after its caller's change.     *)
(*                                                                         *)
(* A book on the shelf is [title, flair]; a title stands for everything    *)
(* the edit dialog changes, and a new title for each change.               *)
EXTENDS Naturals, FiniteSets, Sequences

CONSTANTS
    Readers, \* profiles
    Volumes, \* book ids
    Flairs,  \* flair ids, with "plain" for none
    MaxBegun \* bound: profile switches and requests that change the library

ASSUME LibraryAssumption ==
    /\ "nobody" \notin Readers /\ "plain" \in Flairs
    /\ MaxBegun \in Nat

VARIABLES
    shelves,  \* each profile's library on the server: volume -> record or Gone
    lib,      \* the Library object
    gets,     \* GET /books in flight
    changes,  \* requests in flight that change the library
    waiting,  \* refreshes queued behind the read in flight: who waits for each
    editing,  \* the edit dialog: the volume, and the stages still to be saved
    began,    \* changes and switches so far
    blurred   \* history: volumes the shelf may be wrong about (see ShelfHeals)

libraryVars == <<shelves, lib, gets, changes, waiting, editing, began, blurred>>

Gone == [title |-> 0, flair |-> "gone"]
NoDialog == [volume |-> "none", todo |-> {}, busy |-> FALSE]

EmptyLib == [profile |-> "nobody", generation |-> 0, loaded |-> FALSE,
             books |-> [v \in Volumes |-> Gone], stamps |-> [v \in Volumes |-> 0],
             uploading |-> FALSE, rescanning |-> FALSE]

IsCurrentLib(by, generation) == lib.profile = by /\ lib.generation = generation
Mine(set) == {x \in set : x.generation = lib.generation}
ReadingShelf == Mine(gets) # {}

LibraryInit ==
    /\ shelves \in [Readers -> {[v \in Volumes |-> IF v \in on THEN [title |-> 1, flair |-> "plain"]
                                                   ELSE Gone] : on \in SUBSET Volumes}]
    /\ lib = EmptyLib
    /\ gets = {} /\ changes = {} /\ waiting = <<>>
    /\ editing = NoDialog
    /\ began = [changes |-> 0, switches |-> 0]
    /\ blurred = {}

(***************************************************************************)
(* Activation, the first load, refreshes                                   *)
(***************************************************************************)

(* late is history: volumes changed since the list was read, with no       *)
(* refresh to follow.                                                      *)
NewGet(by, generation, for) == [by |-> by, generation |-> generation, for |-> for,
                                served |-> FALSE, got |-> [v \in Volumes |-> Gone], late |-> {}]

(* activate(): the old profile's continuations find another generation.    *)
SwitchProfile(p) ==
    /\ began.changes + began.switches < MaxBegun
    /\ p # lib.profile
    /\ lib' = [EmptyLib EXCEPT !.profile = p, !.generation = lib.generation + 1]
    /\ waiting' = <<>> /\ editing' = NoDialog
    /\ began' = [began EXCEPT !.switches = @ + 1]
    /\ blurred' = {}
    /\ UNCHANGED <<shelves, gets, changes>>

(* load() from the route and the palette: once, or again after a failure.  *)
LoadLibrary ==
    /\ lib.profile # "nobody" /\ ~lib.loaded /\ ~ReadingShelf
    /\ gets' = gets \cup {NewGet(lib.profile, lib.generation, "nobody")}
    /\ UNCHANGED <<shelves, lib, changes, waiting, editing, began, blurred>>

ServeGet(g) ==
    /\ ~g.served
    /\ gets' = (gets \ {g}) \cup {[g EXCEPT !.served = TRUE, !.got = shelves[g.by]]}
    /\ UNCHANGED <<shelves, lib, changes, waiting, editing, began, blurred>>

(* Faulty Refreshed: content with the read in flight.                      *)
RefreshedWithTheReadInFlight(s, for) == IF ReadingShelf THEN s ELSE Append(s, for)

(* refresh(): behind the reads queued before it, never with one of them.   *)
Refreshed(s, for) == Append(s, for)

StartRefresh ==
    /\ waiting # <<>> /\ ~ReadingShelf
    /\ gets' = gets \cup {NewGet(lib.profile, lib.generation, Head(waiting))}
    /\ waiting' = Tail(waiting)
    /\ lib' = [lib EXCEPT !.loaded = FALSE]
    /\ UNCHANGED <<shelves, changes, editing, began, blurred>>

(* What the caller of the refresh does once it has been awaited.           *)
Awaited(s, for) ==
    CASE for = "rescan" -> [s EXCEPT !.rescanning = FALSE]
      [] for = "upload" -> [s EXCEPT !.uploading = FALSE]
      [] OTHER -> s

GetArrives(g) ==
    /\ gets' = gets \ {g}
    /\ IF ~IsCurrentLib(g.by, g.generation)
       THEN UNCHANGED <<lib, changes, blurred>>
       ELSE \/ /\ g.served
               /\ lib' = Awaited([lib EXCEPT !.books = g.got, !.loaded = TRUE,
                                             !.stamps = [v \in Volumes |-> 0]], g.for)
               /\ changes' = {[c EXCEPT !.old = TRUE] : c \in changes}
               /\ blurred' = g.late
            \/ /\ lib' = Awaited(lib, g.for)                     \* the read failed
               /\ UNCHANGED <<changes, blurred>>
    /\ UNCHANGED <<shelves, waiting, editing, began>>

(***************************************************************************)
(* Changes                                                                 *)
(***************************************************************************)

Change(op, v, to) ==
    [op |-> op, volume |-> v, to |-> to, by |-> lib.profile, generation |-> lib.generation,
     before |-> lib.books[v], stamp |-> lib.stamps[v], id |-> began.changes,
     stage |-> "sent", reply |-> Gone, old |-> FALSE]   \* old: history, a list has come since

Begin(op, v, to) ==
    /\ lib.profile # "nobody"
    /\ began.changes + began.switches < MaxBegun
    /\ changes' = changes \cup {Change(op, v, to)}
    /\ began' = [began EXCEPT !.changes = @ + 1]

Stamped(s, v) == [s EXCEPT !.stamps[v] = @ + 1]

SetFlair(v, f) ==
    /\ lib.books[v] \notin {Gone, [lib.books[v] EXCEPT !.flair = f]}
    /\ Begin("flair", v, [lib.books[v] EXCEPT !.flair = f])
    /\ lib' = Stamped([lib EXCEPT !.books[v].flair = f], v)
    /\ UNCHANGED <<shelves, gets, waiting, editing, blurred>>

OpenDialog(v) ==
    /\ editing = NoDialog /\ lib.books[v] # Gone
    /\ \E todo \in SUBSET {"details", "file"} \ {{}} :
         editing' = [volume |-> v, todo |-> todo, busy |-> FALSE]
    /\ UNCHANGED <<shelves, lib, gets, changes, waiting, began, blurred>>

CloseDialog ==
    /\ editing # NoDialog /\ ~editing.busy
    /\ editing' = NoDialog
    /\ UNCHANGED <<shelves, lib, gets, changes, waiting, began, blurred>>

(* submit(): the details first, then the cover or the file ("file" stands  *)
(* for both, neither written before the answer); a stage that landed is not *)
(* sent again.                                                             *)
NextStage == IF "details" \in editing.todo THEN "details" ELSE "file"

SubmitStage ==
    /\ editing # NoDialog /\ editing.todo # {}
    /\ \A c \in changes : c.op = NextStage => c.generation # lib.generation
    /\ LET v == editing.volume
           new == [lib.books[v] EXCEPT !.title = began.changes + 2]
       IN  /\ Begin(NextStage, v, new)
           /\ lib' = IF NextStage = "file" THEN lib
                     ELSE Stamped(IF lib.books[v] = Gone THEN lib
                                  ELSE [lib EXCEPT !.books[v] = new], v)
    /\ editing' = [editing EXCEPT !.busy = TRUE]
    /\ UNCHANGED <<shelves, gets, waiting, blurred>>

RemoveBook(v) ==
    /\ lib.books[v] # Gone /\ editing = NoDialog
    /\ Begin("remove", v, Gone)
    /\ UNCHANGED <<shelves, lib, gets, waiting, editing, blurred>>

(* One batch at a time; one file stands for the batch.                     *)
Upload(v) ==
    /\ ~lib.uploading
    /\ Begin("upload", v, [title |-> began.changes + 2, flair |-> "plain"])
    /\ lib' = [lib EXCEPT !.uploading = TRUE]
    /\ UNCHANGED <<shelves, gets, waiting, editing, blurred>>

Rescan(v) ==
    /\ ~lib.rescanning
    /\ Begin("rescan", v, [title |-> began.changes + 2, flair |-> "plain"])
    /\ lib' = [lib EXCEPT !.rescanning = TRUE]
    /\ UNCHANGED <<shelves, gets, waiting, editing, blurred>>

(* The server's record after a change: it merges, and keeps what it has.   *)
Applied(rec, c) ==
    CASE c.op = "flair" /\ rec # Gone -> [rec EXCEPT !.flair = c.to.flair]
      [] c.op \in {"details", "file"} /\ rec # Gone -> [rec EXCEPT !.title = c.to.title]
      [] c.op = "remove" -> Gone
      [] c.op \in {"upload", "rescan"} /\ rec = Gone -> c.to
      [] OTHER -> rec

(* #reconcileAfterAmbiguousFailure, and remove(), which trusts no failure. *)
Reconciles(c) == c.op \in {"details", "file", "remove"} /\ (c.stage = "failed" \/ c.op = "remove")

(* What brings the shelf in line by itself when a change has ended, if the *)
(* profile has not been left.                                              *)
RefreshFollows(c) ==
    \/ c.op = "upload"
    \/ c.op = "rescan" /\ c.stage = "ok"
    \/ c.stage # "ok" /\ Reconciles(c)

(* The change has overtaken the list on its way.                           *)
Misses(g, c) == /\ g.served /\ g.by = c.by /\ c.op # "flair"
                /\ g.generation = c.generation => ~RefreshFollows(c)

(* How a request ends: "ok"; "rejected" by a 4xx, nothing done; "failed",  *)
(* which leaves the client to guess whether anything was done.             *)
ServeChange(c) ==
    /\ c.stage = "sent"
    /\ LET now == shelves[c.by][c.volume]
           missing == c.op \in {"flair", "details", "file", "remove"} /\ now = Gone
           after == Applied(now, c)
       IN  \E end \in {"ok", "rejected", "failed"}, done \in BOOLEAN :
             /\ end = "ok" => done
             /\ end = "rejected" => ~done
             /\ missing => end = "rejected"
             /\ shelves' = IF done THEN [shelves EXCEPT ![c.by][c.volume] = after] ELSE shelves
             /\ gets' = {IF done /\ Misses(g, [c EXCEPT !.stage = end])
                         THEN [g EXCEPT !.late = @ \cup {c.volume}] ELSE g : g \in gets}
             /\ blurred' = IF done /\ c.op # "flair" /\ c.by = lib.profile /\ c.generation # lib.generation
                           THEN blurred \cup {c.volume} ELSE blurred
             /\ changes' = (changes \ {c}) \cup {[c EXCEPT !.stage = end,
                                                          !.reply = IF done THEN after ELSE Gone]}
    /\ UNCHANGED <<lib, waiting, editing, began>>

(* Only the newest write to a book is rolled back, by its stamp, and only  *)
(* where there was something to write to.                                  *)
Owns(c) == /\ lib.stamps[c.volume] = c.stamp + 1 /\ lib.books[c.volume] # Gone
           /\ c.before # Gone

RolledBack(s, c) ==
    IF ~Owns(c) THEN s
    ELSE Stamped(IF c.op = "flair" THEN [s EXCEPT !.books[c.volume].flair = c.before.flair]
                 ELSE [s EXCEPT !.books[c.volume].title = c.before.title], c.volume)

(* A record of the server replaces the book's, stamp and all.              *)
Replaced(s, c) == IF s.books[c.volume] = Gone THEN [s EXCEPT !.stamps[c.volume] = 0]
                  ELSE [s EXCEPT !.books[c.volume] = c.reply, !.stamps[c.volume] = 0]

EndChange(c) ==
    /\ c.stage # "sent" /\ c.op \notin {"upload", "rescan"}
    /\ changes' = changes \ {c}
    /\ IF ~IsCurrentLib(c.by, c.generation)
       THEN UNCHANGED <<lib, waiting, editing, blurred>>
       ELSE /\ lib' = CASE c.stage = "ok" /\ c.op = "remove" ->
                             [lib EXCEPT !.books[c.volume] = Gone, !.stamps[c.volume] = 0]
                        [] c.stage = "ok" /\ c.op \in {"details", "file"} -> Replaced(lib, c)
                        [] c.stage # "ok" /\ c.op \in {"flair", "details"} -> RolledBack(lib, c)
                        [] OTHER -> lib
            /\ waiting' = IF c.stage # "ok" /\ Reconciles(c) THEN Refreshed(waiting, "nobody")
                          ELSE waiting
            /\ editing' = IF c.op \notin {"details", "file"} THEN editing
                          ELSE LET left == IF c.stage = "ok" THEN editing.todo \ {c.op} ELSE editing.todo
                               IN  IF left = {} THEN NoDialog
                                   ELSE [editing EXCEPT !.todo = left, !.busy = (c.stage = "ok")]
            /\ blurred' = IF \/ c.stage # "ok" /\ c.op = "details" /\ (~Owns(c) \/ c.old)
                             \/ c.stage = "ok" /\ c.op # "flair" /\ shelves[c.by][c.volume].title # c.reply.title
                          THEN blurred \cup {c.volume} ELSE blurred
    /\ UNCHANGED <<shelves, gets, began>>

(* The batch is over, whatever became of the file: refresh, then speak.    *)
EndImport(c) ==
    /\ c.stage # "sent" /\ c.op \in {"upload", "rescan"}
    /\ changes' = changes \ {c}
    /\ IF ~IsCurrentLib(c.by, c.generation)
       THEN UNCHANGED <<lib, waiting, blurred>>
       ELSE IF c.op = "rescan" /\ c.stage # "ok"
       THEN /\ lib' = [lib EXCEPT !.rescanning = FALSE]
            /\ blurred' = blurred \cup {c.volume}          \* only a toast
            /\ UNCHANGED waiting
       ELSE /\ waiting' = Refreshed(waiting, c.op)
            /\ UNCHANGED <<lib, blurred>>
    /\ UNCHANGED <<shelves, gets, editing, began>>

LibraryNext ==
    \/ \E p \in Readers \cup {"nobody"} : SwitchProfile(p)
    \/ LoadLibrary \/ StartRefresh \/ CloseDialog \/ SubmitStage
    \/ \E g \in gets : ServeGet(g) \/ GetArrives(g)
    \/ \E v \in Volumes : \/ \E f \in Flairs : SetFlair(v, f)
                          \/ OpenDialog(v) \/ RemoveBook(v) \/ Upload(v) \/ Rescan(v)
    \/ \E c \in changes : ServeChange(c) \/ EndChange(c) \/ EndImport(c)

LibrarySpec == LibraryInit /\ [][LibraryNext]_libraryVars

(***************************************************************************)
(* Properties                                                              *)
(***************************************************************************)

(* When nothing is under way, a loaded shelf has the books and the titles  *)
(* of the profile's library, failures that hid a commit included.  The     *)
(* code leaves out a book (blurred) when                                   *)
(*   - the list shown was read before a change that no refresh follows;    *)
(*   - an answer came after a further change of the same book;             *)
(*   - a refused edit was no longer the newest write to the book, or a     *)
(*     list came in between, which sets the stamps back to 0 and so lets   *)
(*     an old edit pass for the newest one;                                *)
(*   - a rescan failed, which is reported without looking at what it did;  *)
(*   - a request was served after its profile was left and taken up again. *)
ShelfHeals ==
    lib.loaded /\ ~ReadingShelf /\ waiting = <<>> /\ Mine(changes) = {}
      => \A v \in Volumes \ blurred : lib.books[v].title = shelves[lib.profile][v].title
=============================================================================
