---------------------------- MODULE LibraryFolder ----------------------------
(***************************************************************************)
(* One profile's folder of EPUBs and the books table that describes it:    *)
(* scans (library/scanner.go, rescanLibraryHandler, openProfile), uploads  *)
(* (upload.go), deletions (deleteBookHandler), edits, and the user's file  *)
(* manager, which asks nobody.                                             *)
(*                                                                         *)
(* A content stands for a file's hash; a book's id is the path and content *)
(* it was first imported with (generateID).  libraryScanMu is not a        *)
(* variable: a rescan holds it while scan is not off, an upload from its   *)
(* check for duplicates on, a deletion and an edit throughout.             *)
(***************************************************************************)
EXTENDS Naturals, FiniteSets

CONSTANTS
    EPUBPaths,    \* names in the folder
    Contents,     \* what a file may hold
    NoFile,       \* and that it is not there
    Uploads,      \* upload requests
    ScanWorkers,  \* the goroutines of one scan
    MaxScans,     \* bounds: scans,
    MaxActs       \* and uploads, deletions, edits, restarts and the user's acts together

ASSUME FolderAssumption ==
    /\ NoFile \notin Contents
    /\ {MaxScans, MaxActs} \subseteq Nat

VARIABLES
    folder,   \* the file at each path
    shelfRow, \* the books table
    ignored,  \* ignored_files
    listed,   \* BookCache
    scan,     \* the scan under way
    worker,   \* its goroutines
    upload,   \* the upload handlers
    removal,  \* the deletion under way
    serving,  \* the profile is open
    strayed,  \* history: paths that lost their file to the user or to a lost receipt
    unlisted, \* history: books whose change could not be reported or reloaded
    used      \* bounded steps taken

scanVars == <<scan, worker>>
folderVars == <<folder, shelfRow, ignored, listed, scanVars, upload, removal, serving, strayed, unlisted, used>>

-----------------------------------------------------------------------------
BookIds == EPUBPaths \X Contents
NoRow   == [path |-> <<>>, content |-> NoFile, cover |-> FALSE]
NoScan  == [pc |-> "off", left |-> {}, known |-> {}, imported |-> {}, changed |-> {},
            canceled |-> FALSE, whole |-> FALSE]
AtRest  == [pc |-> "idle", path |-> <<>>, content |-> NoFile, id |-> <<>>]

Stored(id)  == shelfRow[id] # NoRow
RowsAt(p)   == {id \in BookIds : Stored(id) /\ shelfRow[id].path = p}
RowsOf(c)   == {id \in BookIds : Stored(id) /\ shelfRow[id].content = c}

FolderInit ==
    /\ folder \in [EPUBPaths -> Contents \cup {NoFile}]
    /\ shelfRow = [id \in BookIds |-> NoRow] /\ listed = shelfRow
    /\ ignored = {} /\ strayed = {} /\ unlisted = {}
    /\ scan = NoScan /\ serving = FALSE
    /\ worker = [w \in ScanWorkers |-> AtRest]
    /\ upload = [u \in Uploads |-> AtRest]
    /\ removal = AtRest
    /\ used = [scans |-> 0, acts |-> 0]

Count(what) == used' = [used EXCEPT ![what] = @ + 1]

NoUploads   == \A u \in Uploads : upload[u].pc = "idle"
NoRemoval   == removal.pc = "idle"
Shared      == serving /\ scan.pc = "off"   \* libraryScanMu.RLock

(* Faulty ScanAllowed: the rescan does not wait for anybody.               *)
ScanUngated == TRUE

(* libraryScanMu.Lock.                                                     *)
ScanAllowed == NoUploads /\ NoRemoval

(* What the last scan saw is not all there is.                             *)
Unsettles == scan' = [scan EXCEPT !.whole = FALSE]

-----------------------------------------------------------------------------
(* importFile's last part.                                                 *)

(* insertBookOrIgnore: a row of the same content wins; a taken id or path  *)
(* is an error.  resolveBookCover may succeed, or be left for later.       *)
MayInsert(id, path, content) ==
    RowsOf(content) = {} /\ ~Stored(id) /\ RowsAt(path) = {}

Inserted(id, path, content) ==
    \E cover \in BOOLEAN :
        shelfRow' = [shelfRow EXCEPT ![id] = [path |-> path, content |-> content, cover |-> cover]]

-----------------------------------------------------------------------------
(* A scan: at open, or for a rescan request                                *)

(* collectEPUBPaths and loadDedupSnapshot: known and ignored paths are     *)
(* decided by the snapshot.                                                *)
ScanBegins ==
    /\ scan.pc = "off" /\ used.scans < MaxScans
    /\ ScanAllowed
    /\ LET known == {p \in EPUBPaths : RowsAt(p) # {}}
       IN  scan' = [NoScan EXCEPT !.pc = "import", !.known = known,
                    !.left = {p \in EPUBPaths : folder[p] # NoFile} \ (known \cup ignored),
                    !.whole = TRUE]
    /\ Count("scans")
    /\ UNCHANGED <<folder, shelfRow, ignored, listed, worker, upload, removal, serving, strayed, unlisted>>

(* A worker takes a path and hashes what is there.                         *)
HashFile(w) ==
    /\ scan.pc = "import" /\ worker[w].pc = "idle"
    /\ \E p \in scan.left :
          /\ scan' = [scan EXCEPT !.left = @ \ {p}]
          /\ worker' = IF folder[p] = NoFile THEN worker
                       ELSE [worker EXCEPT ![w] = [pc |-> "hashed", path |-> p,
                                                   content |-> folder[p], id |-> <<p, folder[p]>>]]
    /\ UNCHANGED <<folder, shelfRow, ignored, listed, upload, removal, serving, strayed, unlisted, used>>

Rests(w) == worker' = [worker EXCEPT ![w] = AtRest]

(* GetBookIDByHashContext.                                                 *)
LooksUp(w) ==
    LET me == worker[w] IN
    /\ me.pc = "hashed"
    /\ IF RowsOf(me.content) = {} THEN worker' = [worker EXCEPT ![w].pc = "new"]
       ELSE \E id \in RowsOf(me.content) :
              IF shelfRow[id].path = me.path THEN Rests(w)
              ELSE worker' = [worker EXCEPT ![w].pc = "elsewhere", ![w].id = id]
    /\ UNCHANGED <<folder, shelfRow, ignored, listed, scan, upload, removal, serving, strayed, unlisted, used>>

(* UpdateBookFilePathContext.  A canceled scan may see its UPDATE fail     *)
(* although it was committed; then nobody is told.                         *)
Reconciles(w) ==
    LET me == worker[w] IN
    /\ me.pc = "elsewhere" /\ Rests(w)
    /\ IF RowsAt(me.path) # {} THEN UNCHANGED <<shelfRow, scan, unlisted>>
       ELSE /\ shelfRow' = [shelfRow EXCEPT ![me.id].path = me.path]
            /\ \/ scan' = [scan EXCEPT !.changed = @ \cup {me.id}] /\ UNCHANGED unlisted
               \/ scan.canceled /\ unlisted' = unlisted \cup {me.id} /\ UNCHANGED scan
    /\ UNCHANGED <<folder, ignored, listed, upload, removal, serving, strayed, used>>

(* InsertBookContext and the receipt lookup after a cancellation, which    *)
(* may run out of its time.                                                *)
Imports(w) ==
    LET me == worker[w] IN
    /\ me.pc = "new" /\ Rests(w)
    /\ IF folder[me.path] # NoFile /\ MayInsert(me.id, me.path, me.content)
       THEN /\ Inserted(me.id, me.path, me.content)
            /\ \/ scan' = [scan EXCEPT !.imported = @ \cup {me.id}] /\ UNCHANGED unlisted
               \/ scan.canceled /\ unlisted' = unlisted \cup {me.id} /\ UNCHANGED scan
       ELSE UNCHANGED <<shelfRow, scan, unlisted>>
    /\ UNCHANGED <<folder, ignored, listed, upload, removal, serving, strayed, used>>

(* The request is gone: nothing more is handed out, and what is under way  *)
(* fails (GivesUp), or is committed all the same.                          *)
ScanCanceled ==
    /\ scan.pc \in {"import", "covers"} /\ ~scan.canceled
    /\ scan' = [scan EXCEPT !.canceled = TRUE, !.left = {}, !.whole = FALSE]
    /\ UNCHANGED <<folder, shelfRow, ignored, listed, worker, upload, removal, serving, strayed, unlisted, used>>

(* A file that cannot be read, parsed or recorded is passed over.          *)
GivesUp(w) ==
    /\ worker[w].pc # "idle" /\ Rests(w)
    /\ Unsettles
    /\ UNCHANGED <<folder, shelfRow, ignored, listed, upload, removal, serving, strayed, unlisted, used>>

(* wg.Wait.                                                                *)
WalkDone == scan.left = {} /\ \A w \in ScanWorkers : worker[w].pc = "idle"

(* A canceled scan at open fails the open; in a request it still reports.  *)
WalkEnds ==
    /\ scan.pc = "import" /\ WalkDone
    /\ scan' = [scan EXCEPT !.pc = IF ~scan.canceled THEN "covers"
                                   ELSE IF serving THEN "warm" ELSE "off"]
    /\ UNCHANGED <<folder, shelfRow, ignored, listed, worker, upload, removal, serving, strayed, unlisted, used>>

(* backfillCover, for a row whose cover was never resolved; it too may be  *)
(* committed without a receipt.                                            *)
Backfill(id) ==
    /\ scan.pc = "covers"
    /\ Stored(id) /\ ~shelfRow[id].cover /\ folder[shelfRow[id].path] # NoFile
    /\ shelfRow' = [shelfRow EXCEPT ![id].cover = TRUE]
    /\ \/ scan' = [scan EXCEPT !.changed = @ \cup {id}] /\ UNCHANGED unlisted
       \/ scan.canceled /\ unlisted' = unlisted \cup {id} /\ UNCHANGED scan
    /\ UNCHANGED <<folder, ignored, listed, worker, upload, removal, serving, strayed, used>>

CoversEnd ==
    /\ scan.pc = "covers"
    /\ scan' = [scan EXCEPT !.pc = IF scan.canceled /\ ~serving THEN "off" ELSE "warm"]
    /\ UNCHANGED <<folder, shelfRow, ignored, listed, worker, upload, removal, serving, strayed, unlisted, used>>

(* Faulty Reported: only the new books.                                    *)
ReportedNew == scan.imported

Reported == scan.imported \cup scan.changed

(* warmBook: one reload, which may fail.                                   *)
WarmBook(id) ==
    /\ scan.pc = "warm" /\ serving /\ id \in Reported
    /\ scan' = [scan EXCEPT !.imported = @ \ {id}, !.changed = @ \ {id}]
    /\ \/ listed' = (IF Stored(id) THEN [listed EXCEPT ![id] = shelfRow[id]] ELSE listed)
          /\ UNCHANGED unlisted
       \/ unlisted' = unlisted \cup {id} /\ UNCHANGED listed
    /\ UNCHANGED <<folder, shelfRow, ignored, worker, upload, removal, serving, strayed, used>>

RescanEnds ==
    /\ scan.pc = "warm" /\ serving /\ Reported = {}
    /\ scan' = [scan EXCEPT !.pc = "off", !.imported = {}, !.changed = {}]
    /\ UNCHANGED <<folder, shelfRow, ignored, listed, worker, upload, removal, serving, strayed, unlisted, used>>

(* openProfile goes on: NewBookCache reads every row.                      *)
ProfileOpens ==
    /\ scan.pc = "warm" /\ ~serving
    /\ scan' = [scan EXCEPT !.pc = "off", !.imported = {}, !.changed = {}]
    /\ serving' = TRUE /\ listed' = shelfRow /\ unlisted' = {}
    /\ UNCHANGED <<folder, shelfRow, ignored, worker, upload, removal, strayed, used>>

-----------------------------------------------------------------------------
(* An upload                                                               *)

Answered(u) == upload' = [upload EXCEPT ![u] = AtRest]

(* The gate, and CheckDuplicate of the staged file; its lookup may fail.   *)
UploadBegins(u) ==
    /\ Shared /\ upload[u].pc = "idle" /\ used.acts < MaxActs
    /\ \E c \in Contents :
          \/ \E id \in RowsOf(c) :
                upload' = [upload EXCEPT ![u] = [AtRest EXCEPT !.pc = "duplicate", !.content = c, !.id = id]]
          \/ upload' = [upload EXCEPT ![u] = [AtRest EXCEPT !.pc = "placing", !.content = c]]
    /\ Count("acts")
    /\ UNCHANGED <<folder, shelfRow, ignored, listed, scanVars, removal, serving, strayed, unlisted>>

(* loadAndWarmUploadedBook, which waits for the generation gate, for a     *)
(* duplicate: from the cache, or the row, or an error.                     *)
AnswersDuplicate(u) ==
    LET id == upload[u].id IN
    /\ upload[u].pc = "duplicate" /\ NoRemoval /\ Answered(u)
    /\ \/ UNCHANGED listed
       \/ listed[id] = NoRow /\ Stored(id) /\ listed' = [listed EXCEPT ![id] = shelfRow[id]]
    /\ UNCHANGED <<folder, shelfRow, ignored, scanVars, removal, serving, strayed, unlisted, used>>

(* linkOrCopyExclusive under the first name that is free, or not at all.   *)
PlacesFile(u) ==
    /\ upload[u].pc = "placing"
    /\ \/ \E p \in EPUBPaths :
             /\ folder[p] = NoFile
             /\ folder' = [folder EXCEPT ![p] = upload[u].content]
             /\ upload' = [upload EXCEPT ![u].pc = "placed", ![u].path = p]
       \/ Answered(u) /\ UNCHANGED folder
    /\ UNCHANGED <<shelfRow, ignored, listed, scanVars, removal, serving, strayed, unlisted, used>>

(* Whatever fails before the row is there takes the file away again.       *)
ImportFails(u) ==
    /\ upload[u].pc \in {"placed", "cleared", "allowed", "unclaimed", "new"}
    /\ folder' = [folder EXCEPT ![upload[u].path] = NoFile]
    /\ Answered(u)
    /\ UNCHANGED <<shelfRow, ignored, listed, scanVars, removal, serving, strayed, unlisted, used>>

ClearsTombstone(u) ==
    /\ upload[u].pc = "placed"
    /\ ignored' = ignored \ {upload[u].path}
    /\ upload' = [upload EXCEPT ![u].pc = "cleared"]
    /\ UNCHANGED <<folder, shelfRow, listed, scanVars, removal, serving, strayed, unlisted, used>>

(* IsFileIgnoredContext, BookExistsByPathContext, GetBookIDByHashContext.  *)
ChecksIgnored(u) ==
    /\ upload[u].pc = "cleared" /\ upload[u].path \notin ignored
    /\ upload' = [upload EXCEPT ![u].pc = "allowed"]
    /\ UNCHANGED <<folder, shelfRow, ignored, listed, scanVars, removal, serving, strayed, unlisted, used>>

FindsBook(u, ids, next) ==
    /\ upload' \in (IF ids = {} THEN {[upload EXCEPT ![u].pc = next]}
                    ELSE {[upload EXCEPT ![u].pc = "found", ![u].id = id] : id \in ids})
    /\ UNCHANGED <<folder, shelfRow, ignored, listed, scanVars, removal, serving, strayed, unlisted, used>>

ChecksPath(u) == upload[u].pc = "allowed" /\ FindsBook(u, RowsAt(upload[u].path), "unclaimed")
ChecksHash(u) == upload[u].pc = "unclaimed" /\ FindsBook(u, RowsOf(upload[u].content), "new")

(* InsertBookContext.  A canceled request whose receipt lookup fails too   *)
(* removes the file of a committed row.                                    *)
InsertsBook(u) ==
    LET me == upload[u]
        id == <<me.path, me.content>> IN
    /\ me.pc = "new"
    /\ \/ /\ RowsOf(me.content) # {}
          /\ \E other \in RowsOf(me.content) :
                upload' = [upload EXCEPT ![u].pc = IF other = id THEN "imported" ELSE "found",
                                         ![u].id = other]
          /\ UNCHANGED <<folder, shelfRow, strayed, unlisted>>
       \/ /\ MayInsert(id, me.path, me.content) /\ folder[me.path] # NoFile
          /\ Inserted(id, me.path, me.content)
          /\ \/ /\ upload' = [upload EXCEPT ![u].pc = "imported", ![u].id = id]
                /\ UNCHANGED <<folder, strayed, unlisted>>
             \/ /\ folder' = [folder EXCEPT ![me.path] = NoFile] /\ Answered(u)
                /\ strayed' = strayed \cup {me.path} /\ unlisted' = unlisted \cup {id}
    /\ UNCHANGED <<ignored, listed, scanVars, removal, serving, used>>

(* loadAndWarmUploadedBook from the row; then the answer, or the removal   *)
(* of a copy that lost against a book at another path.                     *)
Publishes(u) ==
    LET me == upload[u] IN
    /\ me.pc \in {"imported", "found"} /\ NoRemoval
    /\ \/ /\ Stored(me.id)
          /\ listed' = [listed EXCEPT ![me.id] = shelfRow[me.id]]
          /\ upload' = [upload EXCEPT ![u] =
                IF me.pc = "imported" \/ shelfRow[me.id].path = me.path THEN AtRest
                ELSE [me EXCEPT !.pc = "redundant"]]
          /\ UNCHANGED unlisted
       \/ /\ ~Stored(me.id) /\ Answered(u) /\ UNCHANGED <<listed, unlisted>>
       \/ /\ Stored(me.id) /\ Answered(u)
          /\ unlisted' = unlisted \cup {me.id} /\ UNCHANGED listed
    /\ UNCHANGED <<folder, shelfRow, ignored, scanVars, removal, serving, strayed, used>>

(* removeDuplicateUpload's os.Remove, which may fail.                      *)
RemovesCopy(u) ==
    /\ upload[u].pc = "redundant" /\ Answered(u)
    /\ folder' \in {folder, [folder EXCEPT ![upload[u].path] = NoFile]}
    /\ UNCHANGED <<shelfRow, ignored, listed, scanVars, removal, serving, strayed, unlisted, used>>

-----------------------------------------------------------------------------
(* A deletion, an edit, a restart, the user                                *)

(* DeleteBookContext: the row goes and its path is not to be imported.     *)
DeletesRow(id) ==
    /\ Shared /\ NoRemoval /\ used.acts < MaxActs
    /\ Stored(id)
    /\ removal' = [AtRest EXCEPT !.pc = "deleted", !.id = id,
                   !.path = IF listed[id] # NoRow THEN listed[id].path ELSE shelfRow[id].path]
    /\ shelfRow' = [shelfRow EXCEPT ![id] = NoRow]
    /\ ignored' = ignored \cup {shelfRow[id].path}
    /\ Unsettles /\ Count("acts")
    /\ UNCHANGED <<folder, listed, worker, upload, serving, strayed, unlisted>>

(* Books.Remove, and the unlink of the path it was listed with, which may  *)
(* fail.  A path that was not reloaded may be another book's by now.       *)
RemovesFile ==
    /\ removal.pc = "deleted" /\ removal' = AtRest
    /\ listed' = [listed EXCEPT ![removal.id] = NoRow]
    /\ folder' \in {folder, [folder EXCEPT ![removal.path] = NoFile]}
    /\ strayed' = IF removal.id \in unlisted THEN strayed \cup {removal.path} ELSE strayed
    /\ UNCHANGED <<shelfRow, ignored, scanVars, upload, serving, unlisted, used>>

(* An edit of a book that is listed as it is rewrites the file and its     *)
(* hash (BookFiles has its steps); the id stays.                           *)
EditsBook(id, c) ==
    /\ Shared /\ NoRemoval /\ used.acts < MaxActs
    /\ Stored(id) /\ listed[id] = shelfRow[id] /\ RowsOf(c) = {}
    /\ folder[shelfRow[id].path] = shelfRow[id].content
    /\ folder' = [folder EXCEPT ![shelfRow[id].path] = c]
    /\ shelfRow' = [shelfRow EXCEPT ![id].content = c]
    /\ listed' = [listed EXCEPT ![id] = shelfRow'[id]]
    /\ Unsettles /\ Count("acts")
    /\ UNCHANGED <<ignored, worker, upload, removal, serving, strayed, unlisted>>

(* The process ends wherever it is; staged files are hidden from scans.    *)
ServerRestarts ==
    /\ used.acts < MaxActs /\ Count("acts")
    /\ scan' = NoScan /\ worker' = [w \in ScanWorkers |-> AtRest]
    /\ upload' = [u \in Uploads |-> AtRest] /\ removal' = AtRest
    /\ serving' = FALSE /\ listed' = [id \in BookIds |-> NoRow]
    /\ UNCHANGED <<folder, shelfRow, ignored, strayed, unlisted>>

UserMoves(p, q) ==
    /\ used.acts < MaxActs /\ folder[p] # NoFile /\ folder[q] = NoFile
    /\ folder' = [folder EXCEPT ![q] = folder[p], ![p] = NoFile]
    /\ strayed' = strayed \cup {p} /\ Unsettles /\ Count("acts")
    /\ UNCHANGED <<shelfRow, ignored, listed, worker, upload, removal, serving, unlisted>>

UserCopies(q, c) ==
    /\ used.acts < MaxActs /\ folder[q] = NoFile
    /\ folder' = [folder EXCEPT ![q] = c]
    /\ Unsettles /\ Count("acts")
    /\ UNCHANGED <<shelfRow, ignored, listed, worker, upload, removal, serving, strayed, unlisted>>

UserDeletes(p) ==
    /\ used.acts < MaxActs /\ folder[p] # NoFile
    /\ folder' = [folder EXCEPT ![p] = NoFile]
    /\ strayed' = strayed \cup {p} /\ Unsettles /\ Count("acts")
    /\ UNCHANGED <<shelfRow, ignored, listed, worker, upload, removal, serving, unlisted>>

Scanning ==
    \/ ScanBegins \/ ScanCanceled \/ WalkEnds \/ CoversEnd \/ RescanEnds \/ ProfileOpens
    \/ \E w \in ScanWorkers : HashFile(w) \/ LooksUp(w) \/ Reconciles(w) \/ Imports(w) \/ GivesUp(w)
    \/ \E id \in BookIds : Backfill(id) \/ WarmBook(id)

UploadStep(u) ==
    \/ UploadBegins(u) \/ AnswersDuplicate(u) \/ PlacesFile(u) \/ ImportFails(u) \/ ClearsTombstone(u)
    \/ ChecksIgnored(u) \/ ChecksPath(u) \/ ChecksHash(u) \/ InsertsBook(u) \/ Publishes(u)
    \/ RemovesCopy(u)

FolderNext ==
    \/ Scanning \/ RemovesFile \/ ServerRestarts
    \/ \E u \in Uploads : UploadStep(u)
    \/ \E id \in BookIds : DeletesRow(id)
    \/ \E id \in BookIds, c \in Contents : EditsBook(id, c)
    \/ \E p, q \in EPUBPaths : UserMoves(p, q)
    \/ \E p \in EPUBPaths : UserDeletes(p) \/ \E c \in Contents : UserCopies(p, c)

FolderSpec == FolderInit /\ [][FolderNext]_folderVars

-----------------------------------------------------------------------------
AtWork == ~serving \/ scan.pc # "off" \/ ~NoUploads \/ ~NoRemoval

(* Whenever no scan, upload or deletion is under way, the cached list is   *)
(* the books table, path and cover included, however scans were canceled,  *)
(* uploads raced or lost their row to a deletion, unless a reload failed   *)
(* or a canceled statement was committed without a receipt.                *)
ShelfShowsRows ==
    ~AtWork => \A id \in BookIds \ unlisted : listed[id] = shelfRow[id]

(* No cleanup of the server takes a book's file away, and no tombstone     *)
(* lies on one: where the user left the file alone, every row names a file *)
(* with its content that a scan would not skip.  And a whole scan misses   *)
(* nothing: until somebody touches the folder again, every file that is    *)
(* not ignored is a book's, unless its path is another book's, or was when *)
(* the scan began, or its id is.                                           *)
RowsHaveFiles ==
    \A id \in BookIds : Stored(id) /\ shelfRow[id].path \notin strayed =>
        folder[shelfRow[id].path] = shelfRow[id].content /\ shelfRow[id].path \notin ignored

FilesHaveRows ==
    scan.whole /\ ~AtWork => \A p \in EPUBPaths \ (ignored \cup scan.known) :
        folder[p] # NoFile => RowsOf(folder[p]) # {} \/ RowsAt(p) # {} \/ Stored(<<p, folder[p]>>)

FolderIsTheLibrary == RowsHaveFiles /\ FilesHaveRows
=============================================================================
