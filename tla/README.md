# Sayumi, specified

Sayumi is a portable EPUB reader: a Go server (`src/cmd/sayumi`, `src/internal`)
over one SQLite database and one directory of EPUB files per profile, and a Solid
front end (`src/frontend`) that reads and saves through its HTTP API. This
directory holds TLA+ models of the parts in which several actors change the same
state, the TLC runs that check them on small instances, and TLAPS proofs of what
matters most for every instance.

## The system

### Server

| Component | State | Operations | What is hard |
|---|---|---|---|
| **Progress coalescer** `internal/api/progress_coalescer.go`, `internal/storage/progress.go` | pending positions with versions, a one-slot flush signal, the flusher goroutine, the progress rows | `stage`, `get`/`getAll`, `dropBook`, `remapBook`, `stop`; tick, save, `discardSaved`, final drain | saves run outside the mutex on a copy; deleting and replacing a book are two steps each; saves fail, time out after committing, or meet a missing book |
| **Chapter remap** `internal/storage/bookreplace.go`, `buildChapterRemap` | chapter, percent and anchor of every stored position | build a remap from two spines, apply it | repeated replacements with other chapter counts, vanished and doubled documents |
| **In-place edits** `internal/api/bookreplace.go`, `bookedit.go`, `books.go` | the file, the books row, the BookCache record; `bookEditMu`, `bookReplaceMu`, `libraryScanMu` | replace, edit title, upload cover, delete, serve chapters and covers, reload a book | the file is built without a lock and published later; rename and commit are two steps with a rollback; readers and the progress PUT hold other locks or none |
| **Progress API** `internal/api/progress.go` | none of its own | GET, PUT, beacon with a file generation | checks a cached record outside the gate |
| **Profile manager** `internal/api/profilemgr.go` | open, blocked and opening profiles, references, closing marks, one condition variable | `Get`, `release`, `FindBook`, `Evict`, `lockProfiles`, `CloneProfile`, `CloseAll` | slow opens outside the mutex, draining while others borrow, cancellation, shutdown racing all of them |
| **Authentication** `internal/api/auth.go`, `throttle.go`, `storage/sessions.go`, `profiles.go` | sessions, the throttle's buckets, profile records, the `profileOps` gate | login, logout, create/clone/delete/rename profile, validate | three stores (records, sessions, directories) changed in turn |
| **EPUB store** `internal/epub/store.go` | reference-counted LRU of open ZIP readers | acquire, release, close, try to close for a replacement | shared loads, failed loads with waiters, a full cache of used readers |
| **Book cache** `internal/storage/bookcache.go` | one record per book, lazily loaded spines | Add, Remove, GetSpine | a spine load that ends after its book has changed |
| **Library** `internal/library/scanner.go`, `internal/api/upload.go`, `library.go` | the folder, books rows, ignored files, the cached list, the scan in progress | scan at open, rescan, upload, delete | scan against upload against deletion, cancellation after a commit, a user who moves files by hand |
| **Small tables** settings, bookmarks, flairs, presets, themes | rows | validated single-statement updates | the clients' view of them |
| **EPUB processing** `internal/epub/{parser,chapter,edit,sanitize,search}.go` | none | pure | data, not control |
| **Serving** resources, gofile, download, gzip | a response in progress | stream under a token or a gate | gzip's decision to compress |
| **Server process** `cmd/sayumi` | running servers | start, stop, network toggle, shutdown | order of shutdown |

### Browser (`frontend/src`)

| Component | State | Operations | What is hard |
|---|---|---|---|
| **Session** `lib/session.ts`, `sessionGate.ts`, `reachability.ts`, `api/client.ts`, `OfflineBanner.tsx` | status, epoch, cookie, reachable flag, subscriptions | boot probe, login, logout, deletion, 401 reports, heartbeat | answers of an older login; a recovery edge that nobody hears |
| **Settings** `lib/settings.ts` | values, last saved values, parked edits, timer, controllers, revisions | activate, edit, save, roll back | loads and saves end in any order, across sign-outs |
| **Custom themes** `lib/customThemes.ts`, `App.tsx` | list, stamps | load, create, update, remove, the resolver | a list read before a write and published after it |
| **Library view** `lib/library.ts`, `routes/Library.tsx`, `EditBookDialog.tsx` | shelf, stamps, refresh chain | refresh, upload, remove, edit, rescan, flair | optimistic changes, failures that hide a commit, shared reads |
| **Reader and frame** `routes/Read.tsx`, `ChapterFrame.tsx`, `frameMessageQueue.ts`, `iframe/frame.ts` | load under way, pending navigation, cached chapters, two message channels, the frame's document | navigate, load, post, restore, report, leave | two documents that talk by messages, restarts, timeouts |
| **Reading position** `routes/Read.tsx`, `lib/progress.ts` | position, save timer, page-hide cache, generation | boot, save, beacon, hide, unmount | several devices, beacons and PUTs in any order, one-second stamps |
| **Bookmarks** `routes/Read.tsx` | shown list, memo, queued press | toggle, remove, edit, retry | a press while the last is under way, failures |
| **Pagination** `iframe/pagination.ts`, `frame.ts` | page, scroll offset, fade, anchor | turn, retarget, relayout, switch mode | layout changes in the middle of a turn |
| **Chapter pull** `iframe/boundary.ts`, `frame.ts` | pill, accumulators, timers | wheel, touch, keys, hand-over | mixed inputs and late timers |
| **Anchors and marks** `lib/cfi.ts`, `iframe/searchHighlight.ts` | text nodes | capture, resolve, highlight, clear | marks split what anchors count |
| **Search panel** `components/reader/SearchPanel.tsx` | field, debounce, token, pages | type, compose, retry, more, walk | answers out of order |
| **Overlays, focus, scroll lock** `lib/ui.ts`, `focusTrap.ts`, `scrollLock.ts`, `App.tsx`, panels | open layers, listeners, trap lists, locks | keys, clicks, open, close | one key heard by several layers, keys posted late |
| **User fonts** `lib/fontRegistry.ts`, `fontMeasure.ts` | list, token, queue, calibration | load, rescan, recover, measure | a server restarted behind the tab |
| **Login screen** `routes/Login.tsx` | picker, forms, list, one box, one errand | pick, sign in, create, go back, load the list | answers that are late or lost, a list other devices change, a box three forms share |
| **Palette of the chrome** `lib/theme.ts`, `lib/themePreview.ts`, `App.tsx`, `index.html` | cached palette, painted palette, draft | paint first, resolve, preview, stand down | a resolver that must neither flash, nor strand a draft, nor cache one |
| **Device preferences** `lib/clock.ts`, `lib/cardSize.ts`, `ClockPill.tsx`, `AlarmSetDialog.tsx`, `AlarmDialog.tsx` | two values in `localStorage`, a copy per tab | show, set, ring, snooze, resize | several tabs over one storage, alarms due while nobody looks, a debounced write |
| **Presentation** rendering, toasts, sound | DOM | render | looks |

How they meet: a request borrows its profile from the manager for as long as it
runs, so `closeProfile` waits for handlers, then stops the coalescer, then closes
the database. Handlers of the reader stage positions in the coalescer; the
flusher saves them. A replacement changes the file, then the row and the stored
positions in one transaction, then the coalescer's buffer, then the cached record.
In the browser every store is activated by the session, talks to the server through
`client.ts` alone, and must distrust answers that belong to the session before; the
reader's route owns the frame and speaks to it by messages only.

What makes each part correct, in a sentence: the coalescer is a register whose
durable copy lags but never moves back; the four places a book lives in agree
whenever nobody holds the write gate; stored positions count chapters as the
installed file does, whichever client wrote them; a profile is borrowed or held
exclusively and its database is open at most once; a session reads its own
profile's library; every wait ends; and when a tab has nothing under way, what it
shows is what the server keeps, unless it has told the user otherwise.

## Modules

### Server

* `ProgressRegister` - the abstract progress store: a register per book with a
  durable copy. Positions accepted before a book was imported carry no promise, and
  only a crash, counted in `faults`, takes back what was accepted.
* `ProgressCoalescer` - the detailed store. One action per method, and the
  flusher cut where it takes or leaves the mutex or the database: the copy
  (`StartFlush`), one save (`SaveSucceeds`, `SaveViolatesKey`, `SaveFails`), its
  acknowledgement (`DiscardSaved`), the end. `batch` is `flush`'s local copy,
  `saved` the key between `saveOne` and `discardSaved`. `SaveFails` may or may not
  have written the row: the 5 s timeout can fire at the commit. `DeleteRow` and
  `ReplaceRow` are the handlers' transactions; `op` says which handler still owes
  the call on the coalescer. The iteration order of the map is free. `Restart` is
  a crash or the reopening of a stopped profile. Every profile has one user, so
  a key is a book.
* `BookFiles` - composes `ProgressCoalescer` (EXTENDS) with everything else that
  happens around a change of a book. A file is `[hash, spine]`; `disk`, `books`
  and `cache` are its three descriptions, `Current(b).gen` the fourth.
  `bookReplaceMu` is not a variable: who holds it follows from the handlers'
  program counters (`GateWritten`, `GateRead`). `editor` stands for the three
  editing handlers, of which `bookEditMu` admits one. `warmer` is a rescan's or
  upload's reload of a row into the cache. `writer` is a browser tab with the
  generation it has opened and the record its PUT was checked against. A commit that
  reports an error is `EditRollback`. For a title or cover, which is one autocommitted
  statement under `commitCtx`, the row may have changed all the same; the transactions
  of a replacement and a deletion leave no such doubt, since `database/sql` gives up a
  canceled transaction before it commits and the driver commits without the caller's
  context. `mishaps` is a history variable: a failed restore, an edit whose receipt was
  lost, a save in the window, a stale PUT, a file that could not be removed.
* `ChapterRemap` - what `BookFiles` abstracts to a number: the remap itself, on
  spines as sequences of documents, with `Apply` branch by branch.
* `ProfileAccess` - what callers rely on: a reader-writer lock per profile that
  can be shut.
* `ProfileManager` - the manager's monitor, one action per critical section or
  per piece of work between two; `parked` is the condition variable's wait set,
  `waking` the pending `context.AfterFunc` goroutines. `dir` is the directory on
  disk, because what exclusiveness is for is moving directories. `Return` drops
  the caller's context, as the deferred `stopWake` does.
* `EPUBStore` - the reader LRU. A step is one critical section of `mu`; opening a
  file lies between `Miss` and `LoadSucceeds` or `LoadFails`. `handle` is what the
  operating system has open, so that a leak is visible; a file is the number of its
  edition. Waiters are told the outcome in the step that publishes it. `Replace`
  joins `TryCloseForReplace` to the rename its caller makes under the write gate.
* `SpineCache` - `BookCache.GetSpine` for one book: the single flight of each
  generation, abandoned by its callers or not, against replacement, deletion,
  import and re-warming.
* `Auth` - sessions, profile records and directories. A profile that takes a
  deleted name gets a new number, its incarnation. The `profileOps` gate follows from
  `pc`; `writeMu` makes a change of a session one step; `issued`, `out` and `mishaps`
  are history: what a token was issued for, which ends were reported, which failures
  the handlers can only log. `MCAuth` adds symmetry.
* `LibraryFolder` - one profile's folder and the table that describes it. A
  content stands for a file's hash, and a book's id is the path and content it was
  first imported with (`generateID`). `scan` and its `worker`s are `Scanner.scan`: the
  snapshot, the walk with hash, lookup and insert (or the update of a moved path) as
  steps of their own, the covers, and `warmBook` for each reported book; the same scan
  runs at open, where the whole list is read after it. An `upload` is the handler step
  by step from the gate on, with what each failure takes back; `removal` is a deletion
  between its transaction and its unlink. `libraryScanMu` follows from these. Edits are
  one step, since `BookFiles` has theirs. `strayed` (paths the user emptied, or a
  cleanup that did not learn of a commit), `unlisted` (changes that could not be
  reported or reloaded) and `scan.whole` are history.
* `LoginThrottle` - the table of failed logins, with a clock.

### Browser

JavaScript runs one task at a time, so an action is one task with its microtasks:
an event handler up to its first real wait, a timer, or the handling of one answer.
A request is a record in a set or sequence of those in flight; the server's part is
a step of its own between sending and answering wherever the order of two requests
at the server matters. `requestWithRetry` is abstracted to its final outcome.

* `ClientSession` - one tab against a server that stops, starts and forgets. A login
  is a number, `Name` its profile. `page` holds status, epoch and subscriptions,
  `jar` the cookie, `call` one request of each kind. `ReceiveData` reports a 401
  under the epoch it was sent with; `ReceiveDelete` and `ReceiveRecheck` are
  `deleteProfile`'s two answers. `flaky` notes that a probe timed out or got a 5xx,
  which the boot code treats as final.
* `SettingsSync` - the `Settings` object (`store`) field by field: generation,
  revision, parked edits (`dirty`), the debounce timer, the current save. `Activate`,
  `Edit`, `ServeLoad`/`EndLoad`, `SaveNow`, `ServeSave` and its four endings. `from`
  says whose row the shown values came from.
* `ThemeStore` - `CustomThemes` with its stamps and refetches and `App.tsx`'s
  resolver, which resets a theme that is no longer listed. A theme is `<<id, edition>>`.
* `LibraryView` - the shelf: the read in flight and the chain of refreshes waiting
  behind it, optimistic changes with their rollbacks, the edit dialog's stages,
  uploads, removals and rescans. `blurred`, a list's `late` and a change's `old` are
  history: which books were touched by the losses named under `ShelfHeals`.
* `ReaderFrame` - `tab` (the route and its `ChapterFrame`) and `fr` (the frame's
  document) with a queue of messages each way. A place is `[chapter, spot]`: after a
  swap the document still has the old chapter's offset until the restore has run.
  `landed` is what the last command or report was aimed at and what it was done to.
* `ReadingPosition` - one book in one browser tab, another device, the server with
  a clock of seconds, `localStorage` and the messages in the air. A position is
  `[mark, file]`, `mark` counting the places this reader has been to.
* `Bookmarks` - the shown list, the stale memo `currentBookmarkId` reads, the toggle
  with its queued press, removal and editing from the panel, and the server's list.
* `PagedChapter` - a chapter is `Lines` lines; a layout `[w, per]` puts `per` of them
  in a column of width `w`. The controller's measured layout, the document's real one
  and the scroller's offset are separate, because the document may change first. `due`
  is the relayouts on their way: one that settings asked for and its last pass for the
  fonts, each with its own frames, and one of the `Debounced`, which share a timer, so
  that a check of the viewport takes the place of what late media wanted
  (`QueuePagedRelayout`). A check does nothing when the width is the last pagination's.
  `Churn` is such a check that no resize caused. `missed` is history: a relayout that was
  wanted has been dropped by a check since the last one that ran.
* `ChapterPull` - the controller of `boundary.ts` and the wheel, touch and key
  handlers that feed it. Distances are whole steps; armed timers fire in any order.
* `ChapterText` - a chapter as its text nodes. `Capture` and `Resolve` count as
  `cfi.ts` does; a highlight splits and wraps nodes and its removal joins them again.
  The search for a match starts where the result was reported, but no later than the
  query fits (`StartAt`), and wraps round; `hit` remembers the query and that place, so
  that `HighlightIsNear` can say which of several occurrences is marked.
* `BookSearch` - typing, composition, debounce, token, first and further pages.
* `FocusTraps` - trap lists and lock states are heap objects, replaced when the last
  dialog closes, and every dialog holds the one it found.
* `LoginScreen` - the screen of `Login.tsx` as one record: what is on the list, which
  profile is picked, the box, and the `errand` it has sent (a sign-in, or a creation
  with the sign-in that follows it). `Shown` is its `Switch`. Lists are loads in flight
  with the number `loadGen` they were given. A creation may reach the server after its
  sender has given up (`straggling`), and other devices change the list. `created` and
  `ticked` are history: whom the list owes a row, and which form was ticked.
* `ShellPaint` - what the chrome wears. A palette is `<<id, look>>`. `Resolves` is
  `App.tsx`'s effect, which runs after every event that changes what it reads: it
  repairs a theme that is gone, keys its paint, and stands down while a draft is shown;
  the draft's painter never touches the cache. The dialog is the only one that
  publishes drafts.
* `DevicePrefs` - two tabs over one storage. `Patch` writes the whole blob from what
  the tab believes. Time is in hours; the pill's interval rings in the reader only, and
  `late` says that an hour went by over an alarm that was due. An alarm carries a number,
  so that ringing twice is visible. `Written` is the debounced card size.
* `Overlays` - which layer hears a key. Handlers of one key read the flags as they
  stood at the press; keys of the frame come later, as messages.
* `FontFaces` - the registry's queue, the token of the server process behind every
  font URL, the watch that reloads on recovery, and the measured size of the face.

### Composition

The parts that share no variable are checked next to each other in one run: a
variable `machine`, chosen at the start and never changed, says which one a
behaviour belongs to, and the others rest in one initial state. The reachable
states are those of the machines one by one, added and not multiplied.

* `BookMachines` - `BookFiles` (with the coalescer inside), `LoginThrottle`,
  `SpineCache`, `EPUBStore`, `ChapterRemap`, `LibraryFolder`.
* `AppMachines` - `ClientSession` (through `MCClientSession`), `SettingsSync`,
  `ThemeStore`, `LibraryView`, `FocusTraps`, `Overlays`, `FontFaces`, `LoginScreen`,
  `ShellPaint`, `DevicePrefs`.
* `ReaderMachines` - `ReaderFrame`, `ReadingPosition`, `Bookmarks`, `PagedChapter`,
  `ChapterPull`, `ChapterText`, `BookSearch`.

Parts that do share state are composed for real: `BookFiles` EXTENDS the coalescer,
`ReadingPosition` has the server's row, its generation check and the replacement of
the file in it, `ThemeStore` has the settings' theme, `FontFaces` and `ClientSession`
the server process. What the server does in the browser's models is the one
statement per request that the storage layer runs under its writer mutex.

`ProgressCoalescerProofs`, `BookFilesProofs`, `AuthProofs` (`Auth`, `LoginThrottle`),
`ProfileManagerProofs`, `SettingsSyncProofs` (`SettingsSync`, `ThemeStore`,
`ClientSession`), `ShelfProofs` (`EPUBStore`, `SpineCache`, `ChapterRemap`,
`LibraryFolder`), `ReaderProofs` (`ReadingPosition`, `BookSearch`, `ReaderFrame`,
`Bookmarks`, `ChapterPull`, `PagedChapter`) and `AppProofs` (`ShellPaint`, `DevicePrefs`,
`LoginScreen`, `FocusTraps`, `FontFaces`, `LibraryView`, `Overlays`) hold the theorems.
Each model also holds definitions called faulty. No specification uses them: they are
the slips each property is there to notice.

## Runs

| Run | Shows | States |
|---|---|---|
| `coalescer` | `StopDrains`, that the coalescer implements `ProgressRegister` (the row of a book that stays never moves back, among others), and `EventuallySettled` under fairness; 2 books, 2 writes, 3 incidents | 374,000 |
| `profile_manager` | no lost wake-up, directories move only unopened, refinement of `ProfileAccess`, shutdown ends, no deadlock; 2 callers, 2 profiles, 2 handles | |
| `auth` | sessions serve their profile's library and stay ended; records match directories; 2 names taken twice, 2 sessions, 2 requests, restarts | |
| `book_machines` | files, rows, cache and generation agree and readers see one of them; positions follow the file; guesses are limited; the spine follows the book; borrowed readers stay open on the installed file and no chapter is stale, nothing leaks; the list shows the rows, every row has its file and a whole scan finds every file; the remap follows documents | 2,201,000 |
| `app_machines` | no live login dropped, the boot resolves; settings saved by their owner, or told; a live theme is kept; the shelf heals; dialogs own the page; leaving only from the page; fonts in order; the login screen signs in whom it shows and always answers again; the chrome follows the choice; alarms ring once and the card size is kept | 868,000 |
| `reader_machines` | nothing strays and the latest load wins; rows count the installed file and no rewind; bookmarks agree; one page, reported and kept through relayouts; pulls end; marks keep the text and its anchors; the search panel is honest | 1,868,000 |
| `staged_remap`, `stale_write`, `edit_refusal`, `late_401`, `parked_edit`, `crash_guard` | six statements of comments that the code does not keep (below) | |

**Bounds.** Every bound is a constant named `Max...` that guards an action, so the
theorems hold for every value.

*Server.* Two books let a flush be cut between entries, and reach `SoftLimit`. Two
writes of a book give one in flight and one staged; three incidents give, for
instance, a replacement while a failed save is retried before a restart. In
`BookFiles` a book only meets the others through the coalescer, which the first run
covers, so one book is enough; three editions give two replacements or an edit and a
replacement. In `ProfileManager` an operation on two names needs a second caller on
each; two handles are what two callers can have open. Three chapters over three
documents include doubled, vanished, appended and reordered documents. In `EPUBStore`
three requests over two files give a loader, a waiter and a bystander, with room for
one idle reader. In `Auth` a name must be taken twice for an old session to meet a
new profile, a clone needs a second name, and one request waits while another goes
through the operations, which exclude each other. The throttle's limits are small (2
failures, 2 entries, 1 per client) so that each is reached and the clock passes a
window with a lockout inside; in `SpineCache` three editions and three changes of the
record suffice for an abandoned load to meet a deletion and a new import. In
`LibraryFolder` two paths and two contents are a copy, a move onto a freed path and two
different books; two scans are the one at open and a rescan, or a scan canceled and
another; two workers race for one content; three acts are, for instance, two uploads
and a deletion, or an edit, a move and a restart (four acts hold too, with 3.2 million
states).

*Browser.* Two logins, of two profiles, are the least in which an old answer meets a
new session. Four acts of the user in `SettingsSync` are an edit, a sign-out, a
sign-in and another edit, or three edits across a save; one refused value makes
rejections happen. Two themes, two editions and two activations let one be created
while the list is being read, updated, and deleted by a write whose answer is late.
Three changes of one volume overlap pairwise: an edit, a removal and an import, or a
switch of profile in between. Three dialogs close in the middle of the stack. Two
server processes are one restart. In `ReaderFrame` two navigations past the first are
one superseded and one pending, and one upset is a restart or a report at the wrong
moment; `MAX_CHAPTER_CACHE` is 1 and the queues hold 2 so that both overflow. In
`ReadingPosition` two mounts, one replacement, one save elsewhere and two ticks are
what a rewind needs. Three presses are one under way, one queued, one more. Five
lines in pages of one or two make a last page that is half full; two turns retarget
a fade, two layout changes are a late image and a resize, or a width that goes there
and back. Three text nodes, in all the blocks
and inline elements that matter, hold matches within a node and over two borders. Two people and four
presses are a creation, its failed sign-in, and a second try, or two forms and a box.
Two custom themes with two palettes each are what an edit and a deletion can confuse;
six repaints hold a sign-in, a draft, a save and another tab. Two tabs, a day of two
hours and three hours of clock are an alarm set, snoozed past midnight and set again
elsewhere; four choices are two per tab.

**Deadlock** is checked for `profile_manager` and `auth`. The others stop when their
bounds are used up: nobody navigates, types or writes any more.

**Fairness.** `ProgressCoalescer!FairSpec`: the flusher goroutine is weakly fair, as
its ticker ticks and Go schedules it. Failing saves are bounded by `MaxIncidents`,
which says that the database works again some day; no save is assumed to succeed
otherwise. A handler that has done its transaction goes on to `dropBook` or
`remapBook`: nothing between the two can block or return. `ProfileManager!FairSpec`:
each goroutine that can go on does; that a borrowed profile is given back is what
`http.Server.Shutdown` and the forced close of connections give `CloseAll`. Nothing is
assumed about calls or cancellations arriving. `SessionFairness` (in `AppMachines`,
`AppFairness`): a request is answered or fails, because the client gives every one a
timeout, and its answer is handled, because the event loop runs; the heartbeat's
interval fires; and a health check that the server can answer again and again is
answered some day (the strong one), since each beat sends a new one. `BootResolves`
further assumes, in its own premise, that the server stays up in the end. The other
machines need no fairness: their properties are about every state or every step.

## Where code and comments part

1. `staged_remap`. `replaceBookHandler` remaps the row in its transaction and the
   buffer afterwards. The flusher may save the old, buffered position over the
   remapped row and discard it in between. The comments (`bookreplace.go:308`,
   `progress_coalescer.go:228`) reason about a save that ends after `remapBook`,
   which is right; one that ends before is not covered. `PositionsFollowFile`
   shows that, with this and the next window excluded, every position follows.
2. `stale_write`. The PUT's generation check reads the cached record without the
   gate and before the body. The record is the old one until `refreshBookCache`; a
   replacement that has committed can finish between the lookup and the staging, and
   the old numbering lies over the moved position of a book that is still there.
   `progress.go:33` promises a refusal. (A PUT for a book that is being deleted is
   another matter, which the flusher handles, `progress_coalescer.go:182`; the property
   asks only about books that are present.)
3. `edit_refusal`. `progress.go:40` derives the generation from the file hash so
   that title and cover edits do not move it. Those edits rewrite the file and its
   hash: an open reader is refused and stops saving.
4. `late_401`. `client.ts:209` promises that a late 401 signs out no newer login. The
   tab keeps that for its own state, but the server's answer also clears the cookie
   (`auth.go:324`), and by then the cookie is the newer login's: its next request is
   refused under its own epoch. `NoLiveLoginDropped` holds as long as the jar still
   has the login's cookie.
5. `parked_edit`. `settings.ts:424` promises that an edit made while the load failed
   is saved by a retry. A retry that `activate` starts applies the edit to what is
   shown, but the save waits for the promise of the load that failed; nothing sends
   the edit until the next one. `SavedOrTold` is what holds without such a load.
6. `crash_guard`. `Read.tsx:786` calls the page-hide cache the newest position this
   tab knows. The answer of any PUT removes it (`Read.tsx:1220`), also of a PUT sent
   before the newer position was cached; if the beacon is lost, that position is gone.
   In the trace the reader leaves the book's route, which caches and sends a beacon as
   hiding the page does.

Four more statements do not hold as they stand. They are no findings of their own,
because a property excepts each by name or contradicts it outright:

* A lost receipt. `bookedit.go:123-127` says that the backup "reconciles
  live-operation failures", and `:387-392` that the detached context keeps the row from
  being stranded with a hash "for bytes that no longer match, which nothing
  reconciles". The update is one autocommitted statement under a deadline
  (`storage/books.go:383-427`), and `scanner.go:434` says of such a write that the
  cancellation can win after it is visible. `rollbackBookEdit` then restores the old
  file under the new row. `FilesAgree` and `ReadersSeeOneFile` except it (`Whole`).
* A replaced relayout. `pagination.ts:867-869` says "Content-load relayouts bypass this
  guard because a late image can change scrollWidth/page count with the same
  viewport". They share one timer with the guarded ones, so a viewport event within the
  120 ms takes the place of the queued relayout and is then skipped by the guard. The
  page count and the page shown stay those of before the image until the next
  relayout. `OnePage` excepts it (`missed`).
* The stamps of the shelf. `library.ts:213-214` says a rollback happens only while the
  call's "own bump is still the newest write to that book", but a list sets the stamps
  back to 0 (`:215`), from where they count anew. After a list and one more change an older edit takes the new
  stamp for its own, and its rollback undoes what came since. `ShelfHeals` excepts it.
* Anchors under marks. `frame.ts:1417` says that search marks "can shift the path a
  cached CFI encodes". They do not: `generateCFI` skips marks and counts text across
  them (`cfi.ts:44-69`), which is what `AnchorStable` checks. Dropping the cache there
  is harmless.

Seen while modelling, and written into the models as they are; no comment or test
says otherwise:

* A navigation within the current chapter while another chapter is loading is
  dropped, and so is a frame timeout during a fetch. A report on its way when Back
  asks for the position settles the question with an older one.
* A ringing alarm does not count as an open overlay for the shell's keys. With two
  layers listening for Escape, the one that attached first gets it. Snooze overwrites
  an alarm set meanwhile, and leaving the route while it rings loses the alarm.
* A rollback after a save that was superseded but committed shows older settings than
  the row's. A rescan of the library whose answer was lost only shows a toast.
* A created theme is listed twice, until a reload, when the list read meanwhile
  already had it. A theme that another device creates, and the profile chooses there,
  between the two reads of an activation would be taken for a deleted one; `ThemeStore`
  has one tab and leaves that out.
* The bookmark list read while a toggle is under way is skipped and not read again;
  delete, undo, delete of one bookmark can leave a double; an undo that adds the
  bookmark again loses its label.
* A width that changes there and back before its check runs is skipped too and leaves
  the scroll offset clamped (`missed`).
* When reading the position fails at boot, the tab starts at chapter 0 without a
  generation, and its first save overwrites the row (`blind`).
* A font list answered by the old process and delivered after the recovery edge keeps
  a dead token until the next edge (`unseen`).
* `clock.ts` drops an overdue alarm when it reads the blob but keeps its label, so the
  next alarm's sheet opens with it, though a label is meant to mean nothing without an
  alarm (`clock.ts:32`). A tab writes the whole blob from what it believes: a choice in
  one tab can bring back an alarm that another has cleared, for the next page that loads.
  An alarm that is due in the library rings when the reader is opened again.
* The sign-in's branch for `not_found` (`Login.tsx:300`) is never taken: the server
  answers for a name it does not have as for a wrong PIN (`auth.go:625`). A profile
  deleted elsewhere reads as a PIN that did not match, and the tries count.
* The box of the login screen keeps its tick from a creation whose sign-in failed when
  the list is loaded to recover. `TickIsTheForms` is about the two ways back. A row of an
  old list and a profile created again under its name are listed twice; a profile created
  after the list failed to load is not offered until "Try again".
* A scan that is canceled after the database has committed a new path or a cover, but
  before the call returned, does not report the book; inserts are looked up again
  (`scanner.go:434`), updates are not. The list keeps the old path until the profile is
  reopened, and a deletion in the meantime unlinks the old path (`unlisted`,
  `strayed`).
* A file copied to a path whose book is found elsewhere in the same scan waits for the
  next scan, as the snapshot knows its path (`scan.known`). A file whose path and
  content are those an edited and moved book was first imported with is never
  imported: its id is taken.
* An upload under the name of a book whose file the user has removed answers with that
  book as a duplicate, and its file stays; `FolderIsTheLibrary` excuses the path.

## Proofs

`ProgressCoalescerProofs` proves `TypeOK`, `StopDrains`, `RowMovesForward` and the
refinement of `ProgressRegister` from `NoBookAssumption` and `BoundsAssumption`, for
any set of books. None of them is inductive. `IInv` adds, per book: an entry of the
flusher's copy is no newer than the buffer's and no older than the row, and when the
buffer has none the book is gone or was imported since (`BatchOrder`,
`BufferOrder`); equal versions mean equal records, which is what makes comparing
versions enough in `discardSaved` (`BatchVersion`); between a save and its
`discardSaved` the row holds what was saved (`SavedRow`); during the final drain
everything buffered is in the copy or failed (`Draining`); a book whose deletion is
under way has no row (`DeleteGate`), and a stopped coalescer has no handler left
(`Phases`). The refinement maps each step: `stage` to `Write`, a save to `Persist` or,
when it repeats an old row, a stutter, `Restart` to a crash that counts an incident as
a fault of the register, and so on.

`AuthProofs` proves the five invariants of `Auth` from `NamesAssumption`, for any
number of names, sessions, requests and incarnations. Its `IInv` says, in three
parts, what the gate has kept true since its holder looked. Of a session: a live one
belongs to the record that has its name, an ended one is not live (`Owned`,
`OutEnded`). Of a request: it carries the name its token was issued for (`Placed`); a
login still sees the record it looked up (`LoginSees`); while a directory is being
made, no live session has the new record's name and no directory was there
(`Making`); once a deletion has revoked the sessions none comes back, and while it
empties the directory there is no record and nobody reads (`Deleting`). Of a name:
directory and record agree except while its maker or remover is at work (`Matched`).
Each claim excepts the ghosts, names whose record was left to an old directory by a
failure. `ServedFromOwnLibrary` is where they meet: the second lookup finds the
session live, so its record is in place, so nobody is making that name, so the
directory is the record's. Two lemmas carry the frame: `QuietStep` for a request that
changes no record, directory or other request, `GatedStep` for the gate's holder, who
touches one name; what is left per action is the place it moves to.

`AuthProofs` also proves `GuessesLimited` of `LoginThrottle`, for any keys, logins and
limits, from `ThrottleAssumption` (a lockout is no longer than a window; with the code's
a minute and a quarter of an hour). It speaks of the failures a key has seen, counted back
from the latest. An entry counts those since its window began, and all earlier ones are
before that (`Counting`); a full count has locked the key until a lockout after the latest
(`Locking`); an entry that was forgotten, or begins anew, leaves only failures that are a
window old (`Gone`, `Fresh`); and the first failure that counts is a lockout later than
all but the `MaxFailures - 1` before it (`Apart`), because those either locked or had a
window of their own. `Apart` carries the argument: with at most `MaxFailures` counted,
the bound of two thresholds follows. That a recorded failure keeps these is the lemma
`FailureKeeps`, on a sequence and two entries alone; it needs that an attempt is
compared after the lockout it waited for (`AttemptOK`) and that no other has its
key (`AloneWithKey`), so that `pruneLocked` never takes the entry from under it.
`OneAttempt` and `TableCounted` follow from the same invariant with two more parts: a
reservation has an attempt that will release it (`ReservedFor`), and the counts by client
are those of the table (`CountedTable`), which needs that an entry is counted out once
(`CountedOut`) and in once (`CountedIn`).

`ProfileManagerProofs` proves `NoLostWakeup`, `OneHandlePerName`, `BorrowedIsOpen`,
`DirChangesUnopened`, `CloneKeepsOthers` and the refinement of `ProfileAccess` for any
callers, profiles and handles, from `MainAssumption` (the thread that shuts down is none
of the callers), `DepsAssumption` (there are finitely many of both) and
`NamesAssumption`. The inductive invariant follows each open handle
to its one keeper: it is published under its name, in the hands of the caller that
opened it, or waiting to be closed, and never two of these. A name is being opened by at
most one caller, blocked by at most one, and never both; its reference count is the
number of its borrowers. A caller that waits has a wake-up to come: whoever holds the
name it waits for has still to broadcast. The refinement maps `Borrow`, `Publish` and
the walk over the open profiles (`FindBook`) to the abstract `Borrow`, `Release` to
`Return`, `Locked` to `Lock`, `Unlock` to `Unlock`, `Seal` to `Seal`, the last close of
a shutdown to `End`, and every other step to a stutter.

`ShelfProofs` proves of `ChapterRemap` that stored positions stay valid, that anchors stay in
their documents, and where a replacement moves a position, for any documents and any
bound on a file's length. The lemma `FirstIndexFound` says that `CHOOSE` finds the
first chapter of a document, from the well-foundedness of the naturals; `ApplyFollows`
states the four branches of `Apply` as one fact about the result. `AppendKeepsPlace`
follows from both: the first chapter of the document is no later than the reader's, so it
was in the old file, and no document is listed twice.

`BookFilesProofs` proves `FilesAgree`, `ReadersSeeOneFile` and `PositionsFollowFile` from
the assumptions on the constants, for any books, readers, writers and editions. `IInv` says that at most
one handler is past the gate (`OneWriter`); what each handler has found and still
relies on (`EditorHas`, `DeleterHas`, `WarmerHas`, `ReaderHas`); that a book exists if
and only if it has a row (`RowsPresent`); that the file, row and record of every book
that is not in a writer's hand agree (`OthersSettled`), and how far the one in hand has
come (`EditorDone`, `DeleterDone`): after the swap the file is the new edition and the
rest the old one, and so on until all have moved. A book whose backup could not be put
back, or was put back under a row that had been committed after all, is excepted by name
(`Whole`), and so is a file that could not be removed. What a change starts from, that its
backup is the edition the record describes (`FromBase`), is claimed for whole books only. `PublishStep` and `DeleteStep` are the frame
of the two writers, `PartsStep` that of everything the coalescer does.

`PositionsFollowFile` needs a second invariant, `NInv`, of which numbering of the chapters
each stored position is in. The flusher's batch of a present book is what is buffered
or older (`BatchBehind`); a buffered position is numbered as the row is, or, from the
transaction until `remapBook` has run, as before it (`BufferGen`, `Counted`); it leaves
the buffer only when the row has it. A change starts from the row's record and moves
the numbering by at most one, also where a backup or a receipt was lost: an edit leaves
the row's numbering, so a record counts chapters as the row does whatever the file is
(`RecordFits`, in `EditFits` and `CacheFits`). Nobody has seen a new edition before it is published (`Unseen`), so a PUT
that fits the row is staged under the row's numbering. The two windows the property
excepts, of a save and of a PUT in flight across a change, are excepted by name.

`ShelfProofs` proves `StoreServesInstalled` and `WaitersHaveLoader` of `EPUBStore`, for any
books, requests and handles. A path has at most one entry, which is on its way or is a
reader of the file installed under it; each open file is known to be listed or to be
closed by its last release, never both; the count of an entry is the number of its
borrowers; and who waits for a load waits on an entry whose loader is still at work.
The model opens files through a finite set of handles; `SomeHandleFree` shows by
counting that one is always free while a load is under way, as open files have
different paths and `HandlesAssumption` gives a handle for every path: the model never
lacks a handle where `os.Open` would not. `IdleBounded` counts those of the list that are
not being loaded (`Kept`): a load only adds itself, so the list may pass the capacity while
loads run, and every cut brings it back (`RoomLeft`).

`ShelfProofs` proves `SpineFollowsBook` for any number of requests, editions and
generations. A generation belongs to one record, so a load belongs to the record it
was begun for, or to one that is gone (`LoadOfItsRecord`); whoever holds the write gate
is alone (`GateIsAlone`); what was read for the record that is still kept is the book's
present content (`ReadIsPresent`), and therefore so are the memo and what a request
uses (`MemoIsPresent`, `UsedIsPresent`). `VerdictHonest` is the point: the generation
that a finished load compares is enough.

`SettingsSyncProofs` proves `SavesOwnSettings` for any users, values and numbers of
requests. The strengthening is small: a store that counts as loaded shows the row of
the profile it is active for, and the debounce timer runs only then (`LoadedIsOwn`); a
GET that is still of the store's generation and not aborted was sent for its profile
(`LoadsFit`, `GetFits`). Every task moves the store to one that is `Kin` to it, or
takes a new generation and aborts what is in flight.

It also proves `SavedOrTold`: when the tab is at rest, what it shows is the row, unless a
toast told otherwise or a load failed. `SavedInv` says why. A store that is not loaded
waits for at most one GET of its generation, and once the server has answered that one
no PUT is pending, so the row cannot change before the answer arrives (`OneGet`). Edits
made before it arrives are parked, with a load that waits for them unless it has failed
(`EditsParked`). Of the PUTs only the last is not aborted; it is the current attempt and
carries what is shown, unless a further save is scheduled (`OnePut`). What makes it hold
at rest (`Settled`) is that an answer ends the attempt only if it is the current one.
That nothing is pending once a later request has been served is how the model treats an
aborted PUT: it is written before a later request of the tab is served, or not at all.

`ReaderProofs` proves `RowOfThisFile` and `NoRewind` for any numbers of marks,
mounts, replacements and messages. `IInv` rests on one relation, `Fits(pos, file)`: a
position that is kept or sent for a generation counts the chapters of that file or of a
later one that has been installed since (the book's details may come after the position
was read). The server takes it only for the installed file, after which there is none
(`ServeKeeps`). The cache, the reader and the messages fit as long as no boot was blind;
`ChosenFits` shows that the boot's choice does. Times are those of the past (`TimesPast`), so a
row newer than the cache is newer than its baseline, and `ChooseBootProgress` takes it.

`ReaderProofs` proves `SearchIsHonest` for any words and pages. Tokens are handed
out once, so at most one request in flight counts (`TokensDiffer`); while the debounce
runs none does (`TimerAlone`); a search that ended, well or badly, is of what the field
says (`AnswersField`); a request that counts is waited for, and a further page that
counts is the next one (`RunWaited`, `MoreWaited`); only an ended search shows pages
(`ShownWhenDone`). `InputKeeps` says that typing makes every request in flight count
for nothing; `HitsGrow` that a page adds its own hits to the total.

`ReaderProofs` proves `NothingStrays` and `LatestLoadWins` of `ReaderFrame`, for any chapters,
cache, queue, navigations and restarts. The tab and the frame share only numbers, so the
invariant speaks of a history of loads, their chapters in order, which it says to exist
(`ReaderInv`): every message on the way in either direction names a load and that load's
chapter (`Sendable`, `Sayable`). Loads are sent in order and none on the way is older
than what the frame shows or is about to show (`Ahead`). A tab that takes itself for
settled, or is about to, has a frame with its load, or one that has restarted and
whose "ready" is still to be seen, or shows an error, or is loading again (`Believes`).
What is wanted is where the tab is headed unless it shows an error (`Wanted`). At most one
highlight waits in the queue (`WaitingHighlight`), so the filter of `discard` takes away
one entry, which is how the model says it. The lemmas go by what a step leaves alone
(`OnlyQueues`, `Aside`) and then one per handler.

`ReaderProofs` proves `BookmarksAgree` for any places and any number of presses, removals,
edits and reads. `MarksInv` says what is true in between. Ids are given once, so a history
of ids tells the place of each, and whatever names a bookmark, listed, kept or carried by
a call, agrees with it (`MarksFit`): what a call does stays at its place. A place that
nothing untoward has happened to has at most one call under way, and that call says what is
there and what is listed, before and after the server has acted (`Pending`); without a
call the two are the same, or the list was never read (`PlaceAgrees`). A press that is
queued turns an answered call into its opposite, which continues from where the first
left off (`ToggleAnswerCases`); one that toggles again goes by the memo, which is right
only if the answer changed nothing in the list, so after a re-creation or a failure both
places are put down as unsure.

`ReaderProofs` proves `PullsEnd` of `ChapterPull`, for any thresholds and any reach of the
finger. `PullInv`: whatever shows a pill or sends a pull arms a timer with it (`Ending`,
one lemma per operation of the controller), and a finger that has handed off a chapter is
latched while it stays down, which nothing but its lifting undoes: not the timers, not a
reset, not the chapter that comes in under it.

`AppProofs` proves `ChromeFollows` of `ShellPaint`, for any profiles and palettes. `PaintInv` says
that the key the painter remembers tells what the chrome wears, so that an equal key
means there is nothing to paint; that a painted draft always leaves a key, and a key is
left only once the session has been resolved; and that but for a painted draft nothing
is worn that was not once saved.

It proves `DeviceRemembers` of `DevicePrefs`, for any tabs, alarms and length of a day.
`PrefsInv` numbers the alarms: a page has rung only for numbers below the next one's, and
not for the alarm it has set, so nothing rings twice (`PageOK`); whatever is set was armed,
for an instant after the page loaded. A tab owes the storage a card size exactly while one
waits for its timer (`SizeOK`), so an empty timer means that the tab's size was written.

And `SignsInAsShown` of `LoginScreen`, for any finite set of names, none blank
(`LoginAssumption`; the server's pattern wants a letter or digit), and any presses and
answers. `LoginInv` says that at most one list is under way, the newest, exactly while the
skeleton shows (`OneLoad`): the code counts its loads, and the proof shows that no load is
ever overtaken. An errand excludes a list (`Occupied`). Every list on the
way or on the screen holds whoever the screen has created (`Offered`); that the server's
answer names all of the roster is a counting argument (`ListOfAll`). The ticked box belongs
to the form on the screen, or was ticked before it (`TickFits`).

It proves `DialogsOwnThePage` of `FocusTraps`, for any finite set of dialogs
(`DialogsAssumption`): a page opens finitely many. `TrapsInv` says that who is open holds
the document's present list and lock, and who has closed has let go (`HoldsCurrent`); that
the present list names the open dialogs, each once, and every earlier list is empty
(`ListsNameTheOpen`), so the check of a teardown that may run twice cannot drop a list
that stands in the registry for others; that both registries exist exactly while a dialog
is open (`KeptWhileOpen`); and that the lock counts the open dialogs (`OwnersCounted`),
which is why the proof counts and wants a finite set.

And `FontsInOrder` of `FontFaces`, for any files, processes and scans. At most one request
of the registry is under way (`OneFlight`). A tab that holds a list of an earlier process,
or is about to, and has seen an edge, has a rescan or reload waiting, or a request under
way that the running process will answer (`ReadsAgain`): this is why the edge queues a
reload and does not share the load in flight. Only a measurement of the face in use may
still be kept (`ProbesOfActive`).

It proves `ShelfHeals` of `LibraryView`, for any profiles, books and number of requests.
`ShelfInv` says about every book of a settled shelf (loaded, no refresh queued) that it
agrees with the server or that a request of this activation is under way whose end mends
it (`Agreed`, `Mends`), and that what a shown edit would be rolled back to is what the
server has, unless a removal or import of the book will refresh anyway (`MayRollBack`).
For a list on its way, a book it is not late for still agrees, or an answer that has come
will ask for another list (`ListsFit`). That only the dialog's one stage writes titles
(`OneDialog`) is what makes the rollback safe, and `Whose` says that a request's
generation tells its profile. The attempt to prove an earlier form of the property showed
losses that take four requests or switches to meet. One contradicts the comment on the
stamps (`library.ts:213`, above): a list sets them back to 0, so after a list and one flair an
older edit that is then refused takes the flair's stamp for its own and rolls the title
back to what it was before the list. The others are a request of an earlier activation of
the same profile that is served late, and an answer overtaken by a further change of the
same book. `ShelfHeals` names them.

`ShelfProofs` proves `ShelfShowsRows` and `FolderIsTheLibrary` of `LibraryFolder`, for any
paths, contents, uploads and scans. A scan excludes uploads and deletions (`GateHeld`).
What a worker has hashed is at its path when it writes the row (`HashedHere`); the file an
upload has claimed is its own and no row's (`HeldAlone`); a deletion unlinks what was its
book's, and no upload has claimed that path (`UnlinksOwn`). A path that
has lost its file to the user or to a lost receipt is excepted in each (`strayed`). The list is the table
unless something is on its way to it: a record or a deletion yet to be published, or a
scan with something to report (`Listing`). Two of the conjuncts came out of failed
attempts. What a scan will report has a row, also after the scan was canceled
(`ReportsRows`); and a row that comes back under the id of a book whose deletion is under
way will be published after it. `WholeScan` says of a scan that has read the whole folder
what is true of each path it has still to look at, has looked at, or has found a row for;
its end is `FolderIsTheLibrary`. The lemmas `RowComes`, `UploadRests`, `UploadGoesOn`,
`UploadUnlinks` and `FolderTouched` say what a step has to respect; what is left per
action is where it moves to. TLC checked the invariant (1.45 million states) before it
was proved.

`ReaderProofs` proves `OnePage` of `PagedChapter`, for any chapter length and layouts
(`PagesAssumption`). A chapter that scrolls waits for no relayout, and one that loads
fades no page (`PagesIdle`). The page a paged chapter believes in is one of those it has
measured, of this layout or of an earlier one (`PagesMeasured`); with no relayout on its
way, and none dropped by a check of the viewport, the measures are those of the layout, the page shown is the one believed, and the
anchor is on it (`PagesSettled`). `ColumnsHoldLines` is the arithmetic: the columns hold
every line and each starts at one. A relayout that a check has taken the place of (`missed`) excuses what
is shown until the next one runs, since the code has nothing else that would notice;
reports are right even then (`ReportsAgree` has no exception).

`AppProofs` proves `LeavesFromThePage` of `Overlays`: a step that begins to leave the book
starts with nothing open over the page. It goes through the handlers of Escape and of the
other keys in the order in which they are asked. The invariant adds that a theme is edited
only from the open settings panel (`OpenViews`), so closing the one or the other is never
taken for leaving.

`SettingsSyncProofs` also proves `LiveThemeKept` of `ThemeStore`, for any owners, themes
and writes. Ids are never given twice, so what is being created is nobody's choice yet
(`CreatesNew`, `CreatesApart`) and what the server has removed stays removed
(`RemovedForGood`). A loaded list has the chosen theme if the server has it (`ListHolds`),
and so has a load that will be believed (`LoadsHold`): a write whose answer arrives makes
every load of the session old, which is what `FreshThemes` compares. So the resolver of
`App.tsx` never takes a live theme for a deleted one. The model lists themes by rank
(`Nth`), so that `NthIsThere` can say that the list has each of them. TLC checked the
invariant first (6.26 million states).

And `NoLiveLoginDropped` of `ClientSession`, for any number of logins and incidents.
Until the first probe has its answer nobody is signed in and nothing else is sent, and
there is no probe afterwards (`BootAlone`). A request of the present epoch carries the
cookie of the login that is signed in, as long as the browser still has it
(`CallsBelong`), and a session that an answer says is over is over (`OverIsOver`). So a
step that ends the login while the browser has its cookie is the user's sign-out, or an
answer to one of the login's own requests.

Only model-checked: liveness (`EventuallySettled`, `ShutdownEnds`, `BootResolves`), whose
proof needs `ENABLED`; and `MarksKeepText` of `ChapterText`, which computes with folds
over the chapter itself: a proof for every chapter would be an induction over data, which
the installed provers cannot do.

Some modules keep a type invariant or further properties that no run lists, because a
stronger one is checked there or a theorem states them: the `TypeOK`s,
`SessionsNameTheirProfile`, `RowMovesForward`, `PositionValid`, `AnchorInItsDocument`,
`AppendKeepsPlace`, `OneHandlePerName`, `BorrowedIsOpen`, `CloneKeepsOthers`,
`WaitersHaveLoader`, `IdleBounded`, `OneAttempt` and `TableCounted`. They hold on the same
instances and are proved. Of the type invariants, `StoreTypeOK` also says that an entry's
references count its requests and that nobody is listed twice, and `BookFilesTypeOK` that
the call the coalescer waits for is that of the handler between its transaction and the
call (`OpKinds`).

## Not modelled

EPUB parsing, rewriting, sanitising and searching, fonts and covers on the server, and
presentation (rendering, toasts, sound) are transformations of data without shared
state, as are the derivation of colors and the wording of times. The console's start,
stop and toggle, the gzip writer, presets, flair groups, custom flairs, sorting and
filtering of the shelf, the virtual list of results, and generated CSS are left out.
Of the library, the path keys of case-insensitive volumes, the parsing of a multipart
body and the sharing of a scan between callers (`libraryScanMu` already orders them)
are left out; a request's wait for the gate can be canceled only once it has it. Of the
frame's messages `load-error` is left out: the frame sends it only when its own template lacks the
content element, which the code takes for impossible (`frame.ts:1998`); the route then
shows its error panel, as it does after a timeout. Crash-atomicity of rename and commit is documented as absent
(`bookedit.go:127`), so there is nothing to check. Positions that reach a re-imported
book from a save in flight are allowed by the abstract register (`born`): the code
cannot tell the two books apart. A profile that is borrowed for long delays its
deletion beyond the request's deadline; the code means it to. Starvation of a parked
caller is possible and not excluded by the code.

## Plan

1. Smaller machines for `BookMachines`: the gzip writer, the server manager, the
   content cache with its byte budget.
2. Algorithms against reference definitions: the spine and contents parser, the
   search cursor, `zip` path normalisation.
3. An abstract library, a set of contents with their readers' positions, that
   `LibraryFolder` and `BookFiles` implement together.

Prove next: that each of the two implements the abstract library, step by step; the
invariants of both are there.
