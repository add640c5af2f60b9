------------------------------ MODULE EPUBStore ------------------------------
(***************************************************************************)
(* The ZIP readers that the requests of one profile share                  *)
(* (internal/epub/store.go), with the rendered chapters kept beside them.  *)
(*                                                                         *)
(* An entry is installed before its file is opened, so that later callers  *)
(* wait for the same load; opening happens outside the mutex.  Entries     *)
(* that nobody uses stay open until the LRU list, CloseBook or             *)
(* TryCloseForReplace drops them; entries in use are marked and closed by  *)
(* the last Release.  Callers name a path, never an entry.                 *)
(*                                                                         *)
(* A step is one critical section of mu.  A caller that waits is told the  *)
(* outcome of the load in the step that publishes it: it changes nothing   *)
(* when it wakes up.  A file is the number of its edition.                 *)
(***************************************************************************)
EXTENDS Naturals, Sequences, FiniteSets

CONSTANTS
    Paths,          \* EPUB files
    Requests,       \* requests
    Handles,        \* bound: open files
    NoHandle,       \* nil
    Capacity,       \* zipLRU.cap
    MaxFileEditions \* bound: editions of a file

ASSUME CapacityAssumption == Capacity \in Nat \ {0}
(* The operating system has a file to hand out for every path.             *)
ASSUME HandlesAssumption == /\ NoHandle \notin Handles /\ IsFiniteSet(Handles)
                            /\ Cardinality(Paths) <= Cardinality(Handles)
ASSUME FiniteAssumption == IsFiniteSet(Requests) /\ IsFiniteSet(Paths) /\ Paths # {}

VARIABLES
    entry,     \* openFiles
    lru,       \* lru.order, the most recent first
    handle,    \* the open files
    chapter,   \* chapters: the edition a book's cached chapter was rendered from
    installed, \* the edition of each file
    stage,     \* where each request is
    want,      \* the path it borrows
    has        \* the reader it was given

requests == <<stage, want, has>>
storeVars == <<entry, lru, handle, chapter, installed, requests>>

-----------------------------------------------------------------------------
StoreEntry == [refs : Nat, loading : BOOLEAN, evicted : BOOLEAN, closePending : BOOLEAN,
               reader : Handles \cup {NoHandle}]

NoStoreEntry == [refs |-> 0, loading |-> FALSE, evicted |-> FALSE, closePending |-> FALSE,
                 reader |-> NoHandle]

(* A placeholder with the loader's reference.                              *)
Loading == [NoStoreEntry EXCEPT !.refs = 1, !.loading = TRUE]

(* Lent once more: whatever had marked it for closing is forgotten.        *)
Retained(e) == [refs |-> e.refs + 1, loading |-> e.loading, evicted |-> FALSE,
                closePending |-> FALSE, reader |-> e.reader]

(* An eviction during the load is forgotten, an explicit close is not.     *)
Ready(e, h) == [refs |-> e.refs, loading |-> FALSE,
                evicted |-> e.evicted /\ e.closePending,
                closePending |-> e.closePending, reader |-> h]

AnyPath == CHOOSE p \in Paths : TRUE

Unused == [path |-> AnyPath, edition |-> 0]

(* What the operating system hands out.  It never runs out, for by         *)
(* NothingLeaks there is one open file per path (SomeHandleFree).          *)
Free == CHOOSE h \in Handles : handle[h] = Unused

Listed == {lru[i] : i \in DOMAIN lru}

Idle(p) == entry[p] # NoStoreEntry /\ entry[p].refs = 0

StoreInit ==
    /\ entry = [p \in Paths |-> NoStoreEntry]
    /\ lru = << >>
    /\ handle = [h \in Handles |-> Unused]
    /\ chapter = [p \in Paths |-> 0]
    /\ installed = [p \in Paths |-> 1]
    /\ stage = [t \in Requests |-> "idle"]
    /\ want = [t \in Requests |-> AnyPath]
    /\ has = [t \in Requests |-> NoHandle]

-----------------------------------------------------------------------------
(* zipLRU.touch and remove: items has at most one element of order per     *)
(* path, which is unlinked.                                                *)
Without(list, p) ==
    IF \E i \in DOMAIN list : list[i] = p
       THEN LET i == CHOOSE i \in DOMAIN list : list[i] = p
            IN SubSeq(list, 1, i - 1) \o SubSeq(list, i + 1, Len(list))
       ELSE list
Touch(list, p)   == <<p>> \o Without(list, p)

Victims(list) == {list[i] : i \in (Capacity + 1)..Len(list)}

(* Faulty Dropped: a reader in use is closed as well.                      *)
DroppedUsed(list, es) == Victims(list)

(* The victims that nobody uses.                                           *)
Dropped(list, es) == {p \in Victims(list) : es[p].refs = 0}

(* evictExcess on the list and entries a caller has changed: what is idle  *)
(* is closed, what is in use is marked.                                    *)
Evict(list, es, hs) ==
    /\ lru' = SubSeq(list, 1, IF Len(list) > Capacity THEN Capacity ELSE Len(list))
    /\ entry' = [p \in Paths |->
          IF p \in Dropped(list, es) THEN NoStoreEntry
          ELSE IF p \in Victims(list) THEN [es[p] EXCEPT !.evicted = TRUE]
          ELSE es[p]]
    /\ handle' = [h \in Handles |->
          IF \E p \in Dropped(list, es) : es[p].reader = h THEN Unused ELSE hs[h]]

(* Everybody who waits for p gets an answer.                               *)
Answer(p, there, h) ==
    LET told == {t \in Requests : want[t] = p /\ stage[t] \in {"waiting", "loading"}} IN
    /\ stage' = [t \in Requests |-> IF t \in told THEN there ELSE stage[t]]
    /\ has' = [t \in Requests |-> IF t \in told THEN h ELSE has[t]]
    /\ want' = [t \in Requests |-> IF t \in told /\ there = "idle" THEN AnyPath ELSE want[t]]

-----------------------------------------------------------------------------
(* Faulty variants of the actions below.  No specification uses them: each *)
(* is a slip the code could have, put in the place of the action to see    *)
(* that a property notices.                                                *)

(* LoadSucceeds that forgets an eviction but does not list the entry again.*)
LoadSucceedsUnlisted(t) ==
    LET h == Free
        p == want[t]
        e == entry[p] IN
    /\ stage[t] = "loading"
    /\ Evict(lru,
             [entry EXCEPT ![p] = [e EXCEPT !.loading = FALSE, !.reader = h,
                                            !.evicted = e.closePending]],
             [handle EXCEPT ![h] = [path |-> p, edition |-> installed[p]]])
    /\ Answer(p, "using", h)
    /\ UNCHANGED <<chapter, installed>>

(* ReplaceFile that keeps the rendered chapters.                           *)
ReplaceKeepsChapters(p) ==
    /\ entry[p].refs = 0 /\ installed[p] < MaxFileEditions
    /\ entry' = [entry EXCEPT ![p] = NoStoreEntry]
    /\ lru' = Without(lru, p)
    /\ handle' = [h \in Handles |-> IF entry[p].reader = h THEN Unused ELSE handle[h]]
    /\ installed' = [installed EXCEPT ![p] = @ + 1]
    /\ UNCHANGED <<chapter, requests>>

-----------------------------------------------------------------------------
(* acquireWithOpener.                                                      *)

(* The entry is there, loaded or not: it is retained again.                *)
Hit(t, p) ==
    /\ stage[t] = "idle" /\ entry[p] # NoStoreEntry
    /\ Evict(Touch(lru, p),
             [entry EXCEPT ![p] = Retained(entry[p])],
             handle)
    /\ stage' = [stage EXCEPT ![t] = IF entry[p].loading THEN "waiting" ELSE "using"]
    /\ want' = [want EXCEPT ![t] = p]
    /\ has' = [has EXCEPT ![t] = entry[p].reader]
    /\ UNCHANGED <<chapter, installed>>

Miss(t, p) ==
    /\ stage[t] = "idle" /\ entry[p] = NoStoreEntry
    /\ entry' = [entry EXCEPT ![p] = Loading]
    /\ lru' = Touch(lru, p)
    /\ stage' = [stage EXCEPT ![t] = "loading"]
    /\ want' = [want EXCEPT ![t] = p]
    /\ UNCHANGED <<handle, chapter, installed, has>>

LoadSucceeds(t) ==
    LET h == Free
        p == want[t]
        e == entry[p] IN
    /\ stage[t] = "loading"
    /\ Evict(IF e.closePending THEN lru ELSE Touch(lru, p),
             [entry EXCEPT ![p] = Ready(e, h)],
             [handle EXCEPT ![h] = [path |-> p, edition |-> installed[p]]])
    /\ Answer(p, "using", h)
    /\ UNCHANGED <<chapter, installed>>

(* A rejected reader is closed by the loader; the callers own nothing.     *)
LoadFails(t) ==
    /\ stage[t] = "loading"
    /\ entry' = [entry EXCEPT ![want[t]] = NoStoreEntry]
    /\ lru' = Without(lru, want[t])
    /\ Answer(want[t], "idle", NoHandle)
    /\ UNCHANGED <<handle, chapter, installed>>

-----------------------------------------------------------------------------
(* ProcessChapter caches what it made while it has the reader; search and  *)
(* stylesheets do the same with their caches.                              *)
SetChapter(t) ==
    /\ stage[t] = "using"
    /\ chapter' = [chapter EXCEPT ![want[t]] = handle[has[t]].edition]
    /\ UNCHANGED <<entry, lru, handle, installed, requests>>

(* Release: by path; the last one closes an evicted reader.                *)
ReleaseReader(t) ==
    LET p == want[t]
        e == entry[p] IN
    /\ stage[t] = "using" /\ e.refs > 0
    /\ IF e.refs = 1 /\ e.evicted
          THEN /\ entry' = [entry EXCEPT ![p] = NoStoreEntry]
               /\ handle' = [handle EXCEPT ![e.reader] = Unused]
          ELSE /\ entry' = [entry EXCEPT ![p].refs = @ - 1]
               /\ UNCHANGED handle
    /\ stage' = [stage EXCEPT ![t] = "idle"]
    /\ has' = [has EXCEPT ![t] = NoHandle]
    /\ want' = [want EXCEPT ![t] = AnyPath]
    /\ UNCHANGED <<lru, chapter, installed>>

CloseBook(p) ==
    /\ entry[p] # NoStoreEntry
    /\ lru' = Without(lru, p)
    /\ IF entry[p].refs = 0
          THEN /\ entry' = [entry EXCEPT ![p] = NoStoreEntry]
               /\ handle' = [handle EXCEPT ![entry[p].reader] = Unused]
          ELSE /\ entry' = [entry EXCEPT ![p].evicted = TRUE, ![p].closePending = TRUE]
               /\ UNCHANGED handle
    /\ UNCHANGED <<chapter, installed, requests>>

(* EvictBook, or the LRU bound of a content cache.                         *)
EvictBook(p) ==
    /\ chapter[p] # 0
    /\ chapter' = [chapter EXCEPT ![p] = 0]
    /\ UNCHANGED <<entry, lru, handle, installed, requests>>

(* TryCloseForReplace, true only when nobody has the book open, and the    *)
(* rename its caller then makes; the caller keeps new requests away.       *)
ReplaceFile(p) ==
    /\ entry[p].refs = 0 /\ installed[p] < MaxFileEditions
    /\ entry' = [entry EXCEPT ![p] = NoStoreEntry]
    /\ lru' = Without(lru, p)
    /\ handle' = [h \in Handles |-> IF entry[p].reader = h THEN Unused ELSE handle[h]]
    /\ chapter' = [chapter EXCEPT ![p] = 0]
    /\ installed' = [installed EXCEPT ![p] = @ + 1]
    /\ UNCHANGED requests

(* Close, after the profile's requests have drained.                       *)
Close ==
    /\ \A t \in Requests : stage[t] = "idle"
    /\ entry' = [p \in Paths |-> NoStoreEntry]
    /\ lru' = << >>
    /\ handle' = [h \in Handles |->
          IF \E p \in Paths : entry[p].reader = h THEN Unused ELSE handle[h]]
    /\ chapter' = [p \in Paths |-> 0]
    /\ UNCHANGED <<installed, requests>>

Load(t) == LoadFails(t) \/ LoadSucceeds(t)

StoreNext == \/ \E t \in Requests : \/ Load(t) \/ SetChapter(t) \/ ReleaseReader(t)
                              \/ \E p \in Paths : Hit(t, p) \/ Miss(t, p)
        \/ \E p \in Paths : CloseBook(p) \/ EvictBook(p) \/ ReplaceFile(p)
        \/ Close

StoreSpec == StoreInit /\ [][StoreNext]_storeVars

-----------------------------------------------------------------------------
Borrowers(p) == {t \in Requests : stage[t] # "idle" /\ want[t] = p}

(* References count those who load, wait and use; a file loads for one.    *)
StoreTypeOK ==
    /\ entry \in [Paths -> StoreEntry]
    /\ lru \in Seq(Paths) /\ Cardinality(Listed) = Len(lru)
    /\ handle \in [Handles -> [path : Paths, edition : Nat]]
    /\ chapter \in [Paths -> Nat] /\ installed \in [Paths -> Nat]
    /\ stage \in [Requests -> {"idle", "loading", "waiting", "using"}]
    /\ want \in [Requests -> Paths] /\ has \in [Requests -> Handles \cup {NoHandle}]
    /\ \A p \in Paths :
          /\ entry[p].refs = Cardinality(Borrowers(p))
          /\ entry[p].loading <=> \E t \in Borrowers(p) : stage[t] = "loading"
          /\ \A t, u \in Borrowers(p) : stage[t] = "loading" /\ stage[u] = "loading" => t = u

(* A borrowed reader stays open, over the file that is installed, until    *)
(* its request releases it, whatever is evicted, closed or replaced, and   *)
(* the release by path meets the entry it was borrowed from.               *)
BorrowedStaysOpen ==
    \A t \in Requests : stage[t] = "using" =>
        /\ handle[has[t]] = [path |-> want[t], edition |-> installed[want[t]]]
        /\ entry[want[t]].reader = has[t]

(* Every open file is known to the store, one per path, and is either      *)
(* listed for eviction or in use and to be closed by the last release: no  *)
(* explicit close is forgotten when a load ends after it.                  *)
NothingLeaks ==
    /\ \A h \in Handles : handle[h] # Unused => entry[handle[h].path].reader = h
    /\ \A p \in Paths : entry[p] # NoStoreEntry =>
          /\ p \in Listed <=> ~entry[p].evicted
          /\ entry[p].evicted => entry[p].refs > 0
          /\ entry[p].closePending => entry[p].evicted

(* The readers kept open for nobody number at most the capacity, however   *)
(* many loads ran at once (NewStore).                                      *)
IdleBounded == Cardinality({p \in Paths : Idle(p)}) <= Capacity

(* A cached chapter was rendered from the installed file: whoever renders  *)
(* has the book open, and a replacement waits for it or is refused.        *)
ChaptersFresh == \A p \in Paths : chapter[p] \in {0, installed[p]}

(* What the store lends out is the installed file, reader and chapter, and *)
(* it keeps no file open that it does not know of.                         *)
StoreServesInstalled == BorrowedStaysOpen /\ ChaptersFresh /\ NothingLeaks

(* Nobody waits for a load that is over: each request that waits on ready  *)
(* has a loader that will close it (close(e.ready)).                       *)
WaitersHaveLoader ==
    \A t \in Requests : stage[t] = "waiting" =>
        \E u \in Requests : stage[u] = "loading" /\ want[u] = want[t]
=============================================================================
