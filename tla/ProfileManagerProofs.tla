------------------------ MODULE ProfileManagerProofs ------------------------
(* Proof, for any finite numbers of goroutines and handles and for any     *)
(* names, that the profile manager keeps one handle per directory, closes  *)
(* nothing that is borrowed, loses no wake-up, and is to its callers the   *)
(* lock that ProfileAccess describes.                                      *)
EXTENDS ProfileManager, FiniteSetTheorems, TLAPS

-----------------------------------------------------------------------------
OpenerPlaces == {"loading", "loaded", "cleanup", "cleaned"}
LockerPlaces == {"draining", "holding", "copying", "finished"}

Opens(t) == pc[t] \in OpenerPlaces
Locks(t) == pc[t] \in LockerPlaces

Users(d) == {t \in Threads : pc[t] = "using" /\ mine[t] = d}

(* CloseAll has taken everything and nobody can add to it.                 *)
Ending == pc[Main] \in {"draining", "closed"}

Places ==
    /\ \A t \in Threads : pc[t] \in {"idle", "waiting", "using"} \cup OpenerPlaces \cup LockerPlaces
    /\ pc[Main] \in {"idle", "sealed", "draining", "closed"}
    /\ pc[Main] # "idle" => closed

(* A name that is being opened has one opener, ...                         *)
Openers ==
    /\ \A t \in Threads : Opens(t) => call[t].kind = "get" /\ call[t].src \in opening
    /\ \A t, u \in Threads : Opens(t) /\ Opens(u) /\ call[t].src = call[u].src => t = u

(* ... a blocked one has one holder, ...                                   *)
Lockers ==
    /\ \A t \in Threads : Locks(t) => call[t].kind # "get" /\ Held(t) \subseteq blocked
    /\ \A t, u \in Threads : Locks(t) /\ Locks(u) /\ Held(t) \cap Held(u) # {} => t = u

(* ... no name is both, and then it has no published profile.              *)
NamesApart ==
    /\ opening \cap blocked = {}
    /\ \A n \in opening \cup blocked : open[n] = NoDep

PublishedIsOpen ==
    \A n \in Names : open[n] # NoDep =>
        dep[open[n]].live /\ dep[open[n]].name = n /\ ~dep[open[n]].closing

NothingLeft == Ending => opening \cup blocked = {} /\ \A n \in Names : open[n] = NoDep

(* What a goroutine has loaded or borrowed is open and of its name; what   *)
(* it has loaded nobody else knows.                                        *)
IsOpenFor(t) == mine[t] \in Deps /\ dep[mine[t]].live /\ dep[mine[t]].name = call[t].src

Mine ==
    \A t \in Threads :
        /\ pc[t] \in {"idle", "waiting", "loading"} => mine[t] = NoDep
        /\ pc[t] = "using" => IsOpenFor(t) /\ call[t].kind = "get"
        /\ pc[t] = "loaded" => IsOpenFor(t)
        /\ pc[t] \in {"loaded", "cleanup"} /\ mine[t] # NoDep =>
              IsOpenFor(t) /\ ~dep[mine[t]].closing /\ Users(mine[t]) = {}

(* What waits to be closed is open, and of a name its closer holds.        *)
Detached ==
    /\ \A p \in Procs : toClose[p] # {} => pc[p] = "draining"
    /\ \A p \in Procs : \A d \in toClose[p] : dep[d].live
    /\ \A t \in Threads : \A d \in toClose[t] : dep[d].name \in Held(t)

(* Every open handle has its keeper: it is published, somebody has loaded  *)
(* it and still opens the name, or somebody is about to close it.          *)
Kept ==
    \A d \in Deps : dep[d].live =>
        \/ open[dep[d].name] = d
        \/ \E t \in Threads : pc[t] \in {"loaded", "cleanup"} /\ mine[t] = d
        \/ \E p \in Procs : d \in toClose[p]

(* OneHandlePerName without cardinals.                                     *)
OneLive == \A d, e \in Deps : dep[d].live /\ dep[e].live /\ dep[d].name = dep[e].name => d = e

RefsCount == \A d \in Deps : dep[d].refs = Cardinality(Users(d))

LiveHasDir == \A d \in Deps : dep[d].live => dir[dep[d].name] # "none"

Copying == \A t \in Threads : pc[t] = "copying" =>
              call[t].kind = "clone" /\ dir[call[t].dst] = "partial"

IInv == /\ TypeOK
        /\ Places
        /\ Openers
        /\ Lockers
        /\ NamesApart
        /\ PublishedIsOpen
        /\ NothingLeft
        /\ Mine
        /\ Detached
        /\ Kept
        /\ OneLive
        /\ RefsCount
        /\ LiveHasDir
        /\ Copying
        /\ NoLostWakeup

-----------------------------------------------------------------------------
LEMMA NoCallIsCall == NoCall \in Call /\ NoCall.kind = "get"
<1>1. AnyName \in Names
  BY NamesAssumption DEF AnyName
<1> QED BY <1>1 DEF NoCall, Call

LEMMA ClosedIsDep == Closed \in [name : Names, refs : Nat, closing : BOOLEAN, live : BOOLEAN]
<1>1. AnyName \in Names
  BY NamesAssumption DEF AnyName
<1> QED BY <1>1 DEF Closed

LEMMA UsersFinite == \A d : IsFiniteSet(Users(d))
  BY DepsAssumption, FS_Subset DEF Users

(* Where nobody comes or goes the counts stay; a handle that is opened or  *)
(* closed has no user.                                                     *)
LEMMA SameUsers ==
  ASSUME RefsCount,
         \A t \in Threads : (pc'[t] = "using" <=> pc[t] = "using")
                            /\ (pc[t] = "using" => mine'[t] = mine[t]),
         \A d \in Deps : dep'[d].refs = dep[d].refs \/ (dep'[d].refs = 0 /\ Users(d) = {})
  PROVE  RefsCount'
<1>1. \A d \in Deps : Users(d)' = Users(d)
  BY DEF Users
<1>2. Cardinality({}) = 0
  BY FS_EmptySet
<1> QED BY <1>1, <1>2 DEF RefsCount

(* A borrower is counted, ...                                              *)
LEMMA OneMoreUser ==
  ASSUME TypeOK, RefsCount, NEW t \in Threads, NEW d \in Deps,
         pc[t] # "using", pc' = [pc EXCEPT ![t] = "using"],
         mine' = [mine EXCEPT ![t] = d],
         dep' = [dep EXCEPT ![d].refs = @ + 1]
  PROVE  RefsCount'
<1>1. \A e \in Deps : Users(e)' = IF e = d THEN Users(e) \cup {t} ELSE Users(e)
  BY MainAssumption DEF Users, TypeOK, Procs
<1>2. Cardinality(Users(d) \cup {t}) = Cardinality(Users(d)) + 1
  <2>1. t \notin Users(d)
    BY DEF Users
  <2> QED BY <2>1, UsersFinite, FS_AddElement
<1>3. \A e \in Deps : dep'[e].refs = IF e = d THEN dep[e].refs + 1 ELSE dep[e].refs
  BY DEF TypeOK
<1> QED BY <1>1, <1>2, <1>3 DEF RefsCount

(* ... and so is one who gives back.                                       *)
LEMMA OneUserLess ==
  ASSUME TypeOK, RefsCount, NEW t \in Threads, NEW d \in Deps, mine[t] = d,
         pc[t] = "using", pc'[t] # "using",
         \A u \in Threads \ {t} : pc'[u] = pc[u] /\ mine'[u] = mine[u],
         dep' = [dep EXCEPT ![d].refs = @ - 1]
  PROVE  RefsCount' /\ dep[d].refs \in Nat \ {0}
<1>1. \A e \in Deps : Users(e)' = IF e = d THEN Users(e) \ {t} ELSE Users(e)
  BY DEF Users
<1>2. t \in Users(d)
  BY DEF Users
<1>3. Cardinality(Users(d) \ {t}) = Cardinality(Users(d)) - 1
  BY <1>2, UsersFinite, FS_RemoveElement
<1>4. \A e \in Deps : dep'[e].refs = IF e = d THEN dep[e].refs - 1 ELSE dep[e].refs
  BY DEF TypeOK
<1>5. Cardinality(Users(d)) \in Nat /\ Cardinality(Users(d)) # 0
  BY <1>2, UsersFinite, FS_CardinalityType, FS_EmptySet
<1>6. \A e \in Deps : dep[e].refs = Cardinality(Users(e)) /\ dep[e].refs \in Nat
  BY DEF RefsCount, TypeOK
<1>7. ASSUME NEW e \in Deps
      PROVE  dep'[e].refs = Cardinality(Users(e)')
  <2>1. CASE e = d
    <3>1. Users(d)' = Users(d) \ {t}
      BY <1>1
    <3>2. dep'[d].refs = dep[d].refs - 1
      BY <1>4
    <3> QED BY <3>1, <3>2, <2>1, <1>3, <1>6
  <2>2. CASE e # d
    BY <2>2, <1>1, <1>4, <1>6
  <2> QED BY <2>1, <2>2
<1> QED BY <1>5, <1>6, <1>7 DEF RefsCount

(* Nobody has a handle to what somebody holds for good, ...                *)
LEMMA HeldIsUnopened ==
  ASSUME IInv, NEW t \in Threads, Holding(t), NEW d \in Deps, dep[d].live
  PROVE  dep[d].name \notin Held(t)
<1> SUFFICES ASSUME dep[d].name \in Held(t) PROVE FALSE
  OBVIOUS
<1>1. Locks(t) /\ dep[d].name \in blocked \ opening /\ open[dep[d].name] = NoDep /\ ~Ending
  BY DEF IInv, Lockers, NamesApart, NothingLeft, Holding, Locks, LockerPlaces, Ending
<1>2. CASE open[dep[d].name] = d
  BY <1>1, <1>2, MainAssumption
<1>3. CASE \E u \in Threads : pc[u] \in {"loaded", "cleanup"} /\ mine[u] = d
  BY <1>1, <1>3, MainAssumption DEF IInv, Openers, Mine, IsOpenFor, Opens, OpenerPlaces
<1>4. ASSUME NEW u \in Threads, d \in toClose[u] PROVE FALSE
  BY <1>1, <1>4 DEF IInv, Lockers, Detached, Procs, Locks, LockerPlaces, Holding
<1>5. CASE d \in toClose[Main]
  BY <1>1, <1>5 DEF IInv, Detached, Procs, Ending
<1> QED BY <1>2, <1>3, <1>4, <1>5 DEF IInv, Kept, Procs

(* ... nor to what somebody is about to open.                              *)
LEMMA LoadingIsUnopened ==
  ASSUME IInv, NEW t \in Threads, pc[t] = "loading", NEW d \in Deps, dep[d].live
  PROVE  dep[d].name # call[t].src
<1> SUFFICES ASSUME dep[d].name = call[t].src PROVE FALSE
  OBVIOUS
<1>1. Opens(t) /\ dep[d].name \in opening \ blocked /\ open[dep[d].name] = NoDep /\ ~Ending
  BY DEF IInv, Openers, NamesApart, NothingLeft, Opens, OpenerPlaces, Ending
<1>2. CASE open[dep[d].name] = d
  BY <1>1, <1>2, MainAssumption
<1>3. CASE \E u \in Threads : pc[u] \in {"loaded", "cleanup"} /\ mine[u] = d
  BY <1>1, <1>3, MainAssumption DEF IInv, Openers, Mine, IsOpenFor, Opens, OpenerPlaces
<1>4. ASSUME NEW u \in Threads, d \in toClose[u] PROVE FALSE
  BY <1>1, <1>4 DEF IInv, Lockers, Detached, Procs, Locks, LockerPlaces
<1>5. CASE d \in toClose[Main]
  BY <1>1, <1>5 DEF IInv, Detached, Procs, Ending
<1> QED BY <1>2, <1>3, <1>4, <1>5 DEF IInv, Kept, Procs

(* What waits to be closed nobody can reach any more, and one closes it.   *)
LEMMA DetachedIsPrivate ==
  ASSUME IInv, NEW p \in Procs, NEW d \in toClose[p]
  PROVE  /\ d \in Deps /\ dep[d].live
         /\ \A n \in Names : open[n] # d
         /\ \A u \in Threads : pc[u] \in {"loaded", "cleanup"} => mine[u] # d
         /\ \A q \in Procs : d \in toClose[q] => q = p
<1>1. d \in Deps /\ dep[d].live /\ pc[p] = "draining" /\ dep[d].name \in Names
  BY DEF IInv, TypeOK, Detached
<1>2. CASE p = Main
  <2>1. Ending /\ opening = {} /\ blocked = {} /\ \A n \in Names : open[n] = NoDep
    BY <1>1, <1>2 DEF IInv, NothingLeft, Ending
  <2>2. \A u \in Threads : ~Opens(u) /\ ~Locks(u)
    BY <2>1 DEF IInv, Openers, Lockers, Held
  <2>3. \A u \in Threads : toClose[u] = {}
    BY <2>2 DEF IInv, Detached, Locks, LockerPlaces, Procs
  <2> QED BY <1>1, <1>2, <2>1, <2>2, <2>3, MainAssumption DEF Opens, OpenerPlaces, Procs
<1>3. CASE p \in Threads
  <2>1. dep[d].name \in blocked \ opening /\ open[dep[d].name] = NoDep /\ ~Ending /\ Locks(p)
    BY <1>1, <1>3 DEF IInv, Detached, Lockers, NamesApart, NothingLeft, Ending, Locks,
       LockerPlaces
  <2>2. \A n \in Names : open[n] # d
    BY <1>1, <2>1, MainAssumption DEF IInv, PublishedIsOpen
  <2>3. \A u \in Threads : pc[u] \in {"loaded", "cleanup"} => mine[u] # d
    BY <1>1, <2>1, MainAssumption DEF IInv, Mine, IsOpenFor, Openers, Opens, OpenerPlaces
  <2>4. toClose[Main] = {}
    BY <2>1 DEF IInv, Detached, Ending, Procs
  <2>5. \A u \in Threads : d \in toClose[u] => u = p
    BY <1>3, <1>1 DEF IInv, Detached, Lockers, Locks, LockerPlaces, Procs
  <2> QED BY <1>1, <2>2, <2>3, <2>4, <2>5 DEF Procs
<1> QED BY <1>2, <1>3 DEF Procs

(* What somebody has loaded nobody else knows.                             *)
LEMMA LoadedIsPrivate ==
  ASSUME IInv, NEW t \in Threads, pc[t] \in {"loaded", "cleanup"}, mine[t] # NoDep
  PROVE  /\ IsOpenFor(t) /\ ~dep[mine[t]].closing /\ Users(mine[t]) = {}
         /\ call[t].src \in opening \ blocked /\ ~Ending
         /\ \A n \in Names : open[n] # mine[t]
         /\ \A u \in Threads : pc[u] \in {"using", "loaded", "cleanup"} /\ mine[u] = mine[t] => u = t
         /\ \A p \in Procs : mine[t] \notin toClose[p]
<1>1. IsOpenFor(t) /\ ~dep[mine[t]].closing /\ Users(mine[t]) = {}
  BY DEF IInv, Mine
<1>2. call[t].src \in opening \ blocked /\ ~Ending
  BY DEF IInv, Openers, NamesApart, NothingLeft, Opens, OpenerPlaces, Ending
<1>3. \A n \in Names : open[n] # mine[t]
  BY <1>1, <1>2, MainAssumption DEF IInv, NamesApart, PublishedIsOpen, IsOpenFor
<1>4. ASSUME NEW u \in Threads, pc[u] \in {"loaded", "cleanup"}, mine[u] = mine[t] PROVE u = t
  BY <1>1, <1>4 DEF IInv, Mine, Openers, IsOpenFor, Opens, OpenerPlaces
<1>5. \A u \in Threads : pc[u] = "using" => mine[u] # mine[t]
  BY <1>1 DEF Users
<1>6. \A p \in Procs : mine[t] \notin toClose[p]
  BY DetachedIsPrivate
<1> QED BY <1>1, <1>2, <1>3, <1>4, <1>5, <1>6

(***************************************************************************)
(* Each action keeps the invariant.  Its parts are shown in groups: the    *)
(* ones the action leaves alone follow from the variables it touches, the  *)
(* others have a step of their own.                                        *)
(***************************************************************************)
USE DEF Goto, Return, Broadcast, Acquire, pm, thread, ctx, Awake, MayPass, Busy, Held,
   Opens, Locks, OpenerPlaces, LockerPlaces, Procs, Ending, IsOpenFor

LEMMA BeginKeeps == ASSUME IInv, NEW t \in Threads, NEW c \in Call, Begin(t, c) PROVE IInv'
<1>1. TypeOK'
  BY MainAssumption DEF IInv, Begin, Call, TypeOK
<1>2. Places' /\ Openers' /\ Lockers' /\ NamesApart' /\ PublishedIsOpen' /\ NothingLeft'
  BY MainAssumption DEF IInv, Begin, Call, Places, TypeOK, Openers, Lockers, NamesApart,
     PublishedIsOpen, NothingLeft
<1>3. Mine' /\ Detached' /\ Kept' /\ OneLive'
  BY MainAssumption DEF IInv, Begin, Call, Mine, Users, TypeOK, Detached, Kept, OneLive
<1>4. RefsCount' /\ LiveHasDir' /\ Copying' /\ NoLostWakeup'
  BY MainAssumption DEF IInv, Begin, Call, RefsCount, Users, TypeOK, LiveHasDir, Copying,
     NoLostWakeup
<1> QED BY <1>1, <1>2, <1>3, <1>4 DEF IInv

LEMMA CancelKeeps == ASSUME IInv, NEW t \in Threads, Cancel(t) PROVE IInv'
<1>1. TypeOK'
  BY MainAssumption DEF IInv, Cancel, TypeOK, Call
<1>2. Places' /\ Openers' /\ Lockers' /\ NamesApart' /\ PublishedIsOpen' /\ NothingLeft'
  BY MainAssumption DEF IInv, Cancel, Places, TypeOK, Openers, Lockers, NamesApart,
     PublishedIsOpen, NothingLeft
<1>3. Mine' /\ Detached' /\ Kept' /\ OneLive'
  BY MainAssumption DEF IInv, Cancel, Mine, Users, TypeOK, Detached, Kept, OneLive
<1>4. RefsCount' /\ LiveHasDir' /\ Copying' /\ NoLostWakeup'
  BY MainAssumption DEF IInv, Cancel, RefsCount, Users, TypeOK, LiveHasDir, Copying, Call,
     NoLostWakeup
<1> QED BY <1>1, <1>2, <1>3, <1>4 DEF IInv

LEMMA WakeKeeps == ASSUME IInv, NEW t \in Threads, Wake(t) PROVE IInv'
<1>1. TypeOK'
  BY MainAssumption DEF IInv, Wake, TypeOK, Call
<1>2. Places' /\ Openers' /\ Lockers' /\ NamesApart' /\ PublishedIsOpen' /\ NothingLeft'
  BY MainAssumption DEF IInv, Wake, Places, TypeOK, Openers, Lockers, NamesApart,
     PublishedIsOpen, NothingLeft
<1>3. Mine' /\ Detached' /\ Kept' /\ OneLive'
  BY MainAssumption DEF IInv, Wake, Mine, Users, TypeOK, Detached, Kept, OneLive
<1>4. RefsCount' /\ LiveHasDir' /\ Copying' /\ NoLostWakeup'
  BY MainAssumption DEF IInv, Wake, RefsCount, Users, TypeOK, LiveHasDir, Copying, Call,
     NoLostWakeup
<1> QED BY <1>1, <1>2, <1>3, <1>4 DEF IInv

LEMMA GiveUpKeeps == ASSUME IInv, NEW t \in Threads, GiveUp(t) PROVE IInv'
<1>1. TypeOK'
  BY NoCallIsCall, MainAssumption DEF IInv, GiveUp, TypeOK, Call
<1>2. Places' /\ Openers' /\ Lockers' /\ NamesApart' /\ PublishedIsOpen' /\ NothingLeft'
  BY NoCallIsCall, MainAssumption DEF IInv, GiveUp, Places, TypeOK, Openers, Lockers,
     NamesApart, PublishedIsOpen, NothingLeft
<1>3. Mine' /\ Detached' /\ Kept' /\ OneLive'
  BY NoCallIsCall, MainAssumption DEF IInv, GiveUp, Mine, Users, TypeOK, Detached, Kept,
     OneLive
<1>4. RefsCount' /\ LiveHasDir' /\ Copying' /\ NoLostWakeup'
  BY NoCallIsCall, MainAssumption DEF IInv, GiveUp, RefsCount, Users, TypeOK, LiveHasDir,
     Copying, Call, NoLostWakeup
<1> QED BY <1>1, <1>2, <1>3, <1>4 DEF IInv

LEMMA ParkKeeps == ASSUME IInv, NEW t \in Threads, Park(t) PROVE IInv'
<1>1. TypeOK'
  BY MainAssumption DEF IInv, Park, TypeOK, Call
<1>2. Places' /\ Openers' /\ Lockers' /\ NamesApart' /\ PublishedIsOpen' /\ NothingLeft'
  BY MainAssumption DEF IInv, Park, Places, TypeOK, Openers, Lockers, NamesApart,
     PublishedIsOpen, NothingLeft
<1>3. Mine' /\ Detached' /\ Kept' /\ OneLive'
  BY MainAssumption DEF IInv, Park, Mine, Users, TypeOK, Detached, Kept, OneLive
<1>4. RefsCount' /\ LiveHasDir' /\ Copying' /\ NoLostWakeup'
  BY MainAssumption DEF IInv, Park, RefsCount, Users, TypeOK, LiveHasDir, Copying, Call,
     NoLostWakeup
<1> QED BY <1>1, <1>2, <1>3, <1>4 DEF IInv

LEMMA BorrowKeeps == ASSUME IInv, NEW t \in Threads, Borrow(t) PROVE IInv'
<1>1. /\ open[call[t].src] \in Deps
      /\ \A u \in Threads : pc[u] \in {"loaded", "cleanup"} => mine[u] # open[call[t].src]
  BY LoadedIsPrivate DEF IInv, TypeOK, Borrow, Call
<1>2. TypeOK'
  BY MainAssumption DEF IInv, Borrow, TypeOK, Call
<1>3. Places' /\ Openers' /\ Lockers' /\ NamesApart' /\ PublishedIsOpen' /\ NothingLeft'
  BY MainAssumption DEF IInv, Borrow, Places, TypeOK, Openers, Lockers, NamesApart,
     PublishedIsOpen, NothingLeft
<1>4. Detached'
  BY MainAssumption DEF IInv, Borrow, Detached, TypeOK
<1>5. Mine'
  <2> DEFINE e == open[call[t].src]
  <2>1. /\ dep[e].live /\ dep[e].name = call[t].src /\ call[t].kind = "get"
        /\ pc' = [pc EXCEPT ![t] = "using"] /\ mine' = [mine EXCEPT ![t] = e]
        /\ \A d \in Deps : dep'[d].live = dep[d].live /\ dep'[d].name = dep[d].name
                            /\ dep'[d].closing = dep[d].closing
    BY <1>1 DEF IInv, TypeOK, Borrow, PublishedIsOpen, Call
  <2>9. \A u \in Threads : pc[u] \in {"loaded", "cleanup"} => mine[u] # e
    BY <1>1
  <2>2. \A d \in Deps \ {e} : Users(d) = {} => Users(d)' = {}
    BY <2>1 DEF IInv, TypeOK, Users
  <2> HIDE DEF e
  <2>3. ASSUME NEW u \in Threads, u # t
        PROVE  /\ pc[u] \in {"loaded", "cleanup"} /\ mine[u] # NoDep =>
                     IsOpenFor(u)' /\ ~dep'[mine[u]].closing /\ Users(mine[u])' = {}
               /\ pc[u] = "using" => IsOpenFor(u)'
               /\ pc'[u] = pc[u] /\ mine'[u] = mine[u] /\ call'[u] = call[u]
    BY <2>1, <2>9, <2>2, <2>3 DEF IInv, TypeOK, Mine, Borrow
  <2>4. pc'[t] = "using" /\ mine'[t] = e /\ call'[t] = call[t] /\ IsOpenFor(t)'
    BY <1>1, <2>1 DEF IInv, TypeOK, Borrow, e
  <2> QED BY <2>1, <2>3, <2>4 DEF IInv, Mine
<1>6. Kept'
  BY <1>1, NoCallIsCall, MainAssumption DEF IInv, Borrow, Kept, TypeOK, Places, Mine,
     Detached, PublishedIsOpen
<1>7. OneLive'
  BY <1>1, NoCallIsCall, MainAssumption DEF IInv, Borrow, OneLive, TypeOK, Kept, Places,
     Mine, Detached, Openers, Lockers, NamesApart, NothingLeft
<1>8. LiveHasDir' /\ Copying' /\ NoLostWakeup'
  BY MainAssumption DEF IInv, Borrow, LiveHasDir, TypeOK, Copying, Call, NoLostWakeup
<1>9. RefsCount'
  BY <1>1, OneMoreUser DEF IInv, Borrow, TypeOK
<1> QED BY <1>2, <1>3, <1>4, <1>5, <1>6, <1>7, <1>8, <1>9 DEF IInv

LEMMA StartOpeningKeeps == ASSUME IInv, NEW t \in Threads, StartOpening(t) PROVE IInv'
<1>1. call[t].src \in Names \ (blocked \cup opening) /\ open[call[t].src] = NoDep
  BY DEF IInv, TypeOK, Call, StartOpening, PublishedIsOpen
<1>2. ~Ending
  BY DEF IInv, Places, StartOpening
<1>3. TypeOK'
  BY MainAssumption DEF IInv, StartOpening, TypeOK, Call
<1>4. Places' /\ Openers' /\ Lockers' /\ PublishedIsOpen'
  BY MainAssumption DEF IInv, StartOpening, Places, TypeOK, Openers, Lockers,
     PublishedIsOpen
<1>5. NamesApart'
  BY <1>1, <1>2, NoCallIsCall, MainAssumption DEF IInv, StartOpening, NamesApart, TypeOK,
     Openers, Lockers, PublishedIsOpen, NothingLeft, Places
<1>6. NothingLeft'
  BY <1>1, <1>2, NoCallIsCall, MainAssumption DEF IInv, StartOpening, NothingLeft, TypeOK,
     Places, Openers, Lockers
<1>7. Mine' /\ Detached' /\ OneLive'
  BY MainAssumption DEF IInv, StartOpening, Mine, Users, TypeOK, Detached, OneLive
<1>8. Kept'
  BY <1>1, <1>2, NoCallIsCall, MainAssumption DEF IInv, StartOpening, Kept, TypeOK, Places,
     Mine, Detached, PublishedIsOpen
<1>9. RefsCount' /\ LiveHasDir' /\ Copying' /\ NoLostWakeup'
  BY MainAssumption DEF IInv, StartOpening, RefsCount, Users, TypeOK, LiveHasDir, Copying,
     Call, NoLostWakeup
<1> QED BY <1>3, <1>4, <1>5, <1>6, <1>7, <1>8, <1>9 DEF IInv

LEMMA LoadKeeps == ASSUME IInv, NEW t \in Threads, Load(t) PROVE IInv'
<1>1. PICK d \in Deps : /\ ~dep[d].live
                       /\ dep' = [dep EXCEPT ![d] =
                             [name |-> call[t].src, refs |-> 0, closing |-> FALSE, live |-> TRUE]]
                       /\ mine' = [mine EXCEPT ![t] = d]
  BY DEF Load, Free
<1>2. \A e \in Deps : dep[e].live => dep[e].name # call[t].src
  BY LoadingIsUnopened DEF Load
<1>3. dep'[d].name = call[t].src /\ dep'[d].live /\ \A e \in Deps \ {d} : dep'[e] = dep[e]
  BY <1>1 DEF IInv, TypeOK
<1>4. Users(d) = {}
  BY <1>1 DEF IInv, Mine, Users
<1>5. TypeOK'
  BY MainAssumption DEF IInv, Load, TypeOK, Closed, Free, Call
<1>6. Places' /\ Openers' /\ Lockers' /\ NamesApart' /\ PublishedIsOpen' /\ NothingLeft'
  BY MainAssumption DEF IInv, Load, Places, TypeOK, Closed, Free, Openers, Lockers,
     NamesApart, PublishedIsOpen, NothingLeft
<1>7. Mine' /\ Detached' /\ Kept'
  BY MainAssumption DEF IInv, Load, Mine, Users, TypeOK, Closed, Free, Detached, Kept
<1>8. OneLive'
  BY <1>1, <1>2, <1>3, <1>4 DEF IInv, OneLive
<1>9. LiveHasDir' /\ Copying' /\ NoLostWakeup'
  BY MainAssumption DEF IInv, Load, LiveHasDir, TypeOK, Closed, Free, Copying, Call,
     NoLostWakeup
<1>10. RefsCount'
  BY <1>1, <1>2, <1>3, <1>4, SameUsers DEF IInv, Load, TypeOK
<1> QED BY <1>5, <1>6, <1>7, <1>8, <1>9, <1>10 DEF IInv

LEMMA LoadFailsKeeps == ASSUME IInv, NEW t \in Threads, LoadFails(t) PROVE IInv'
<1>1. TypeOK'
  BY MainAssumption DEF IInv, LoadFails, TypeOK, Call
<1>2. Places' /\ Openers' /\ Lockers' /\ NamesApart' /\ PublishedIsOpen' /\ NothingLeft'
  BY MainAssumption DEF IInv, LoadFails, Places, TypeOK, Openers, Lockers, NamesApart,
     PublishedIsOpen, NothingLeft
<1>3. Mine' /\ Detached' /\ Kept' /\ OneLive'
  BY MainAssumption DEF IInv, LoadFails, Mine, Users, TypeOK, Detached, Kept, OneLive
<1>4. RefsCount' /\ LiveHasDir' /\ Copying' /\ NoLostWakeup'
  BY MainAssumption DEF IInv, LoadFails, RefsCount, Users, TypeOK, LiveHasDir, Copying,
     Call, NoLostWakeup
<1> QED BY <1>1, <1>2, <1>3, <1>4 DEF IInv

LEMMA PublishKeeps == ASSUME IInv, NEW t \in Threads, Publish(t) PROVE IInv'
<1>1. mine[t] \in Deps /\ pc[t] = "loaded" /\ call[t].kind = "get"
  BY MainAssumption DEF IInv, Publish, Mine, Openers
<1>2. /\ IsOpenFor(t) /\ ~dep[mine[t]].closing /\ call[t].src \in opening \ blocked /\ ~Ending
      /\ \A u \in Threads : pc[u] \in {"using", "loaded", "cleanup"} /\ mine[u] = mine[t] => u = t
  BY <1>1, MainAssumption, LoadedIsPrivate
<1>3. dep' \in [Deps -> [name : Names, refs : Nat, closing : BOOLEAN, live : BOOLEAN]]
  BY <1>1 DEF IInv, TypeOK, Publish
<1>4. TypeOK'
  BY <1>1, <1>2, <1>3, MainAssumption DEF IInv, Publish, TypeOK, Call
<1>5. Places' /\ Openers' /\ Lockers'
  BY MainAssumption DEF IInv, Publish, Places, TypeOK, Openers, Lockers
<1>6. NamesApart'
  BY <1>1, <1>2, <1>3, NoCallIsCall, MainAssumption DEF IInv, Publish, NamesApart, TypeOK,
     Openers, Lockers, PublishedIsOpen, NothingLeft, Places
<1>7. PublishedIsOpen'
  BY <1>1, <1>2, <1>3, NoCallIsCall, MainAssumption DEF IInv, Publish, PublishedIsOpen,
     TypeOK, NamesApart, Mine, Detached, Openers, Lockers, Places
<1>8. NothingLeft'
  BY <1>1, <1>2, <1>3, NoCallIsCall, MainAssumption DEF IInv, Publish, NothingLeft, TypeOK,
     Places, Openers, Lockers
<1>9. Detached' /\ OneLive'
  BY MainAssumption DEF IInv, Publish, Detached, TypeOK, OneLive
<1>10. Mine'
  BY <1>1, <1>2, <1>3, NoCallIsCall, MainAssumption DEF IInv, Publish, Mine, Users, TypeOK,
     Places, Detached, Openers, Lockers, NamesApart, PublishedIsOpen, RefsCount
<1>11. Kept'
  <2>1. ASSUME NEW d \in Deps, dep'[d].live, d # mine[t], open[dep[d].name] = d
        PROVE  open'[dep'[d].name] = d
    BY <1>2, <2>1, MainAssumption DEF IInv, TypeOK, Publish, NamesApart
  <2>2. ASSUME NEW d \in Deps, NEW u \in Threads, d # mine[t], pc[u] \in {"loaded", "cleanup"}, mine[u] = d
        PROVE  pc'[u] \in {"loaded", "cleanup"} /\ mine'[u] = d
    BY <2>2 DEF IInv, TypeOK, Publish
  <2>3. dep'[mine[t]].name = call[t].src /\ open'[call[t].src] = mine[t]
    BY <1>1, <1>2 DEF IInv, TypeOK, Publish
  <2>4. \A d \in Deps : dep'[d].live = dep[d].live /\ dep'[d].name = dep[d].name
    BY DEF IInv, TypeOK, Publish
  <2> QED BY <2>1, <2>2, <2>3, <2>4 DEF IInv, Kept, Publish
<1>12. LiveHasDir' /\ Copying' /\ NoLostWakeup'
  BY MainAssumption DEF IInv, Publish, LiveHasDir, TypeOK, Copying, Call, NoLostWakeup
<1>13. RefsCount'
  BY <1>1, <1>2, <1>3, OneMoreUser DEF IInv, Publish, TypeOK
<1> QED BY <1>4, <1>5, <1>6, <1>7, <1>8, <1>9, <1>10, <1>11, <1>12, <1>13 DEF IInv

LEMMA DiscardKeeps == ASSUME IInv, NEW t \in Threads, Discard(t) PROVE IInv'
<1>1. TypeOK'
  BY MainAssumption DEF IInv, Discard, TypeOK, Call
<1>2. Places' /\ Openers' /\ Lockers' /\ NamesApart' /\ PublishedIsOpen' /\ NothingLeft'
  BY MainAssumption DEF IInv, Discard, Places, TypeOK, Openers, Lockers, NamesApart,
     PublishedIsOpen, NothingLeft
<1>3. Mine' /\ Detached' /\ Kept' /\ OneLive'
  BY MainAssumption DEF IInv, Discard, Mine, Users, TypeOK, Detached, Kept, OneLive
<1>4. RefsCount' /\ LiveHasDir' /\ Copying' /\ NoLostWakeup'
  BY MainAssumption DEF IInv, Discard, RefsCount, Users, TypeOK, LiveHasDir, Copying, Call,
     NoLostWakeup
<1> QED BY <1>1, <1>2, <1>3, <1>4 DEF IInv

LEMMA CloseDiscardedKeeps == ASSUME IInv, NEW t \in Threads, CloseDiscarded(t) PROVE IInv'
<1>1. pc[t] = "cleanup" /\ dep' = [d \in Deps |-> IF d = mine[t] THEN Closed ELSE dep[d]]
  BY DEF CloseDiscarded
<1>2. mine[t] # NoDep =>
        /\ call[t].src \in opening /\ Users(mine[t]) = {} /\ \A n \in Names : open[n] # mine[t]
        /\ \A u \in Threads : pc[u] \in {"using", "loaded", "cleanup"} /\ mine[u] = mine[t] => u = t
        /\ \A p \in Procs : mine[t] \notin toClose[p]
  BY <1>1, LoadedIsPrivate
<1>3. dep' \in [Deps -> [name : Names, refs : Nat, closing : BOOLEAN, live : BOOLEAN]]
  BY ClosedIsDep, <1>1 DEF IInv, TypeOK
<1>4. TypeOK'
  BY <1>1, <1>2, <1>3, MainAssumption DEF IInv, CloseDiscarded, TypeOK
<1>5. Places' /\ Openers' /\ Lockers' /\ NamesApart' /\ NothingLeft'
  BY MainAssumption DEF IInv, CloseDiscarded, Places, TypeOK, Closed, Free, Openers,
     Lockers, NamesApart, NothingLeft
<1>6. PublishedIsOpen'
  BY <1>1, <1>2, <1>3, NoCallIsCall, MainAssumption DEF IInv, CloseDiscarded,
     PublishedIsOpen, TypeOK, NamesApart, Mine, Detached, Openers, Lockers, Places, Closed,
     Free
<1>7. Kept' /\ OneLive'
  BY MainAssumption DEF IInv, CloseDiscarded, Kept, TypeOK, Closed, Free, OneLive
<1>8. Mine'
  BY <1>1, <1>2, <1>3, NoCallIsCall, MainAssumption DEF IInv, CloseDiscarded, Mine, Users,
     TypeOK, Places, Detached, Openers, Lockers, NamesApart, PublishedIsOpen, RefsCount,
     Closed, Free
<1>9. Detached'
  BY <1>1, <1>2, <1>3, NoCallIsCall, MainAssumption DEF IInv, CloseDiscarded, Detached,
     TypeOK, Places, Mine, PublishedIsOpen, NamesApart, Lockers, Openers, Closed, Free
<1>10. LiveHasDir' /\ Copying' /\ NoLostWakeup'
  BY MainAssumption DEF IInv, CloseDiscarded, LiveHasDir, TypeOK, Closed, Free, Copying,
     Call, NoLostWakeup
<1>11. RefsCount'
  <2>1. \A d \in Deps : dep'[d].refs = dep[d].refs \/ (dep'[d].refs = 0 /\ Users(d) = {})
    BY <1>1, <1>2, MainAssumption DEF Closed
  <2> QED BY <1>1, <2>1, SameUsers DEF IInv, TypeOK, CloseDiscarded
<1> QED BY <1>4, <1>5, <1>6, <1>7, <1>8, <1>9, <1>10, <1>11 DEF IInv

LEMMA EndOpeningKeeps == ASSUME IInv, NEW t \in Threads, EndOpening(t) PROVE IInv'
<1>1. TypeOK'
  BY NoCallIsCall, MainAssumption DEF IInv, EndOpening, TypeOK, Call
<1>2. Places' /\ Openers' /\ Lockers' /\ NamesApart' /\ PublishedIsOpen' /\ NothingLeft'
  BY NoCallIsCall, MainAssumption DEF IInv, EndOpening, Places, TypeOK, Openers, Lockers,
     NamesApart, PublishedIsOpen, NothingLeft
<1>3. Mine' /\ Detached' /\ Kept' /\ OneLive'
  BY NoCallIsCall, MainAssumption DEF IInv, EndOpening, Mine, Users, TypeOK, Detached,
     Kept, OneLive
<1>4. RefsCount' /\ LiveHasDir' /\ Copying' /\ NoLostWakeup'
  BY NoCallIsCall, MainAssumption DEF IInv, EndOpening, RefsCount, Users, TypeOK,
     LiveHasDir, Copying, Call, NoLostWakeup
<1> QED BY <1>1, <1>2, <1>3, <1>4 DEF IInv

LEMMA FindBookKeeps ==
  ASSUME IInv, NEW t \in Threads, NEW n \in Names, FindBook(t, n)
  PROVE IInv'
<1>1. /\ open[n] \in Deps
      /\ \A u \in Threads : pc[u] \in {"loaded", "cleanup"} => mine[u] # open[n]
  BY LoadedIsPrivate DEF IInv, TypeOK, FindBook
<1>2. TypeOK'
  BY MainAssumption DEF IInv, FindBook, TypeOK, Call
<1>3. Places' /\ Openers' /\ Lockers' /\ NamesApart' /\ PublishedIsOpen' /\ NothingLeft'
  BY MainAssumption DEF IInv, FindBook, Places, TypeOK, Openers, Lockers, NamesApart,
     PublishedIsOpen, NothingLeft
<1>4. Detached' /\ Kept' /\ OneLive'
  BY MainAssumption DEF IInv, FindBook, Detached, TypeOK, Kept, OneLive
<1>5. Mine'
  BY <1>1, NoCallIsCall, MainAssumption DEF IInv, FindBook, Mine, Users, TypeOK, Places,
     Detached, Openers, Lockers, NamesApart, PublishedIsOpen, RefsCount
<1>6. LiveHasDir' /\ Copying' /\ NoLostWakeup'
  BY MainAssumption DEF IInv, FindBook, LiveHasDir, TypeOK, Copying, Call, NoLostWakeup
<1>7. RefsCount'
  BY <1>1, OneMoreUser DEF IInv, FindBook, TypeOK
<1> QED BY <1>2, <1>3, <1>4, <1>5, <1>6, <1>7 DEF IInv

LEMMA ReleaseKeeps == ASSUME IInv, NEW t \in Threads, Release(t) PROVE IInv'
<1>1. mine[t] \in Deps
  BY DEF IInv, Mine, Release
<1>2. RefsCount' /\ dep[mine[t]].refs \in Nat \ {0}
  BY <1>1, OneUserLess DEF IInv, Release, TypeOK
<1>3. dep' \in [Deps -> [name : Names, refs : Nat, closing : BOOLEAN, live : BOOLEAN]]
  BY <1>1, <1>2 DEF IInv, TypeOK, Release
<1>4. TypeOK'
  BY <1>1, <1>2, <1>3, NoCallIsCall, MainAssumption DEF IInv, Release, TypeOK
<1>5. Places' /\ Openers' /\ Lockers' /\ NamesApart' /\ PublishedIsOpen' /\ NothingLeft'
  BY NoCallIsCall, MainAssumption DEF IInv, Release, Places, TypeOK, Openers, Lockers,
     NamesApart, PublishedIsOpen, NothingLeft
<1>6. Mine' /\ Detached' /\ Kept' /\ OneLive'
  BY NoCallIsCall, MainAssumption DEF IInv, Release, Mine, Users, TypeOK, Detached, Kept,
     OneLive
<1>7. LiveHasDir' /\ Copying' /\ NoLostWakeup'
  BY NoCallIsCall, MainAssumption DEF IInv, Release, LiveHasDir, TypeOK, Copying, Call,
     NoLostWakeup
<1>8. RefsCount'
  BY <1>1, <1>2, <1>3 DEF Release
<1> QED BY <1>4, <1>5, <1>6, <1>7, <1>8 DEF IInv

LEMMA ClaimKeeps == ASSUME IInv, NEW t \in Threads, Claim(t) PROVE IInv'
<1>1. Held(t) \subseteq Names \ (blocked \cup opening)
  BY DEF IInv, TypeOK, Call, Claim
<1>2. ~Ending /\ toClose[t] = {}
  BY DEF IInv, Places, Claim, Detached
<1>3. \A m, n \in Names : open[m] # NoDep /\ open[m] = open[n] => m = n
  BY DEF IInv, PublishedIsOpen
<1>4. TypeOK'
  BY MainAssumption DEF IInv, Claim, TypeOK, Call
<1>5. Places' /\ Openers' /\ Lockers' /\ PublishedIsOpen'
  BY MainAssumption DEF IInv, Claim, Places, TypeOK, Openers, Lockers, PublishedIsOpen
<1>6. NamesApart'
  BY <1>1, <1>2, <1>3, NoCallIsCall, MainAssumption DEF IInv, Claim, NamesApart, TypeOK,
     Openers, Lockers, PublishedIsOpen, NothingLeft, Places
<1>7. NothingLeft'
  BY <1>1, <1>2, <1>3, NoCallIsCall, MainAssumption DEF IInv, Claim, NothingLeft, TypeOK,
     Places, Openers, Lockers
<1>8. Mine' /\ OneLive'
  BY MainAssumption DEF IInv, Claim, Mine, Users, TypeOK, OneLive
<1>9. Detached'
  BY <1>1, <1>2, <1>3, NoCallIsCall, MainAssumption DEF IInv, Claim, Detached, TypeOK,
     Places, Mine, PublishedIsOpen, NamesApart, Lockers, Openers
<1>10. Kept'
  BY <1>1, <1>2, <1>3, NoCallIsCall, MainAssumption DEF IInv, Claim, Kept, TypeOK, Places,
     Mine, Detached, PublishedIsOpen
<1>11. RefsCount' /\ LiveHasDir' /\ Copying' /\ NoLostWakeup'
  BY MainAssumption DEF IInv, Claim, RefsCount, Users, TypeOK, LiveHasDir, Copying, Call,
     NoLostWakeup
<1> QED BY <1>4, <1>5, <1>6, <1>7, <1>8, <1>9, <1>10, <1>11 DEF IInv

LEMMA MarkClosingKeeps ==
  ASSUME IInv, NEW p \in Procs, NEW d \in Deps, MarkClosing(p, d)
  PROVE IInv'
<1>1. /\ dep[d].live /\ \A n \in Names : open[n] # d
      /\ \A u \in Threads : pc[u] \in {"loaded", "cleanup"} => mine[u] # d
  BY DetachedIsPrivate DEF MarkClosing
<1>2. dep' = [dep EXCEPT ![d].closing = TRUE]
  BY DEF MarkClosing
<1>3. dep' \in [Deps -> [name : Names, refs : Nat, closing : BOOLEAN, live : BOOLEAN]]
  BY <1>2 DEF IInv, TypeOK
<1>4. TypeOK'
  BY <1>1, <1>2, <1>3 DEF IInv, MarkClosing, TypeOK
<1>5. Places' /\ Openers' /\ Lockers' /\ NamesApart' /\ NothingLeft'
  BY MainAssumption DEF IInv, MarkClosing, Places, TypeOK, Openers, Lockers, NamesApart,
     NothingLeft
<1>6. PublishedIsOpen'
  BY <1>1, <1>2, <1>3, NoCallIsCall, MainAssumption DEF IInv, MarkClosing, PublishedIsOpen,
     TypeOK, NamesApart, Mine, Detached, Openers, Lockers, Places
<1>7. Detached' /\ Kept' /\ OneLive'
  BY MainAssumption DEF IInv, MarkClosing, Detached, TypeOK, Kept, OneLive
<1>8. Mine'
  BY <1>1, <1>2, <1>3, NoCallIsCall, MainAssumption DEF IInv, MarkClosing, Mine, Users,
     TypeOK, Places, Detached, Openers, Lockers, NamesApart, PublishedIsOpen, RefsCount
<1>9. RefsCount' /\ LiveHasDir' /\ Copying' /\ NoLostWakeup'
  BY MainAssumption DEF IInv, MarkClosing, RefsCount, Users, TypeOK, LiveHasDir, Copying,
     Call, NoLostWakeup
<1> QED BY <1>4, <1>5, <1>6, <1>7, <1>8, <1>9 DEF IInv

LEMMA CloseDrainedKeeps ==
  ASSUME IInv, NEW p \in Procs, NEW d \in Deps, CloseDrained(p, d)
  PROVE IInv'
<1>1. /\ dep[d].live /\ \A n \in Names : open[n] # d
      /\ \A u \in Threads : pc[u] \in {"loaded", "cleanup"} => mine[u] # d
      /\ \A q \in Procs : d \in toClose[q] => q = p
  BY DetachedIsPrivate DEF CloseDrained
<1>2. Users(d) = {}
  BY UsersFinite, FS_EmptySet DEF IInv, CloseDrained, RefsCount
<1>3. \A u \in Threads : pc[u] = "using" => mine[u] # d
  BY <1>2 DEF Users
<1>4. dep' \in [Deps -> [name : Names, refs : Nat, closing : BOOLEAN, live : BOOLEAN]]
  BY ClosedIsDep DEF IInv, TypeOK, CloseDrained
<1>5. TypeOK'
  BY <1>1, <1>2, <1>3, <1>4 DEF IInv, CloseDrained, TypeOK
<1>6. Places' /\ Openers' /\ Lockers' /\ NamesApart' /\ PublishedIsOpen' /\ NothingLeft'
  BY MainAssumption DEF IInv, CloseDrained, Places, TypeOK, Closed, Free, Openers, Lockers,
     NamesApart, PublishedIsOpen, NothingLeft
<1>7. Kept' /\ OneLive'
  BY MainAssumption DEF IInv, CloseDrained, Kept, TypeOK, Closed, Free, OneLive
<1>8. Mine'
  BY <1>1, <1>2, <1>3, <1>4, NoCallIsCall, MainAssumption DEF IInv, CloseDrained, Mine,
     Users, TypeOK, Places, Detached, Openers, Lockers, NamesApart, PublishedIsOpen,
     RefsCount, Closed, Free
<1>9. Detached'
  BY <1>1, <1>2, <1>3, <1>4, NoCallIsCall, MainAssumption DEF IInv, CloseDrained, Detached,
     TypeOK, Places, Mine, PublishedIsOpen, NamesApart, Lockers, Openers, Closed, Free
<1>10. RefsCount' /\ LiveHasDir' /\ Copying' /\ NoLostWakeup'
  BY MainAssumption DEF IInv, CloseDrained, RefsCount, Users, TypeOK, Closed, Free,
     LiveHasDir, Copying, Call, NoLostWakeup
<1> QED BY <1>5, <1>6, <1>7, <1>8, <1>9, <1>10 DEF IInv

LEMMA LockedKeeps == ASSUME IInv, NEW t \in Threads, Locked(t) PROVE IInv'
<1>1. TypeOK'
  BY MainAssumption DEF IInv, Locked, TypeOK, Call
<1>2. Places' /\ Openers' /\ Lockers' /\ NamesApart' /\ PublishedIsOpen' /\ NothingLeft'
  BY MainAssumption DEF IInv, Locked, Places, TypeOK, Openers, Lockers, NamesApart,
     PublishedIsOpen, NothingLeft
<1>3. Mine' /\ Detached' /\ Kept' /\ OneLive'
  BY MainAssumption DEF IInv, Locked, Mine, Users, TypeOK, Detached, Kept, OneLive
<1>4. RefsCount' /\ LiveHasDir' /\ Copying' /\ NoLostWakeup'
  BY MainAssumption DEF IInv, Locked, RefsCount, Users, TypeOK, LiveHasDir, Copying, Call,
     NoLostWakeup
<1> QED BY <1>1, <1>2, <1>3, <1>4 DEF IInv

LEMMA RemoveDirKeeps == ASSUME IInv, NEW t \in Threads, RemoveDir(t) PROVE IInv'
<1>1. \A d \in Deps : dep[d].live => dep[d].name # call[t].src
  BY HeldIsUnopened DEF RemoveDir, Holding
<1>2. \A u \in Threads : u # t /\ pc[u] = "copying" => call[u].dst # call[t].src
  BY DEF IInv, Lockers, RemoveDir
<1>3. TypeOK'
  BY MainAssumption DEF IInv, RemoveDir, TypeOK, Call
<1>4. Places' /\ Openers' /\ Lockers' /\ NamesApart' /\ PublishedIsOpen' /\ NothingLeft'
  BY MainAssumption DEF IInv, RemoveDir, Places, TypeOK, Openers, Lockers, NamesApart,
     PublishedIsOpen, NothingLeft
<1>5. Mine' /\ Detached' /\ Kept' /\ OneLive'
  BY MainAssumption DEF IInv, RemoveDir, Mine, Users, TypeOK, Detached, Kept, OneLive
<1>6. RefsCount' /\ NoLostWakeup'
  BY MainAssumption DEF IInv, RemoveDir, RefsCount, Users, TypeOK, NoLostWakeup
<1>7. LiveHasDir'
  BY <1>1, <1>2, NoCallIsCall, MainAssumption DEF IInv, RemoveDir, LiveHasDir, TypeOK,
     Mine, Detached, Kept
<1>8. Copying'
  BY <1>1, <1>2, NoCallIsCall, MainAssumption DEF IInv, RemoveDir, Copying, TypeOK, Places,
     Lockers, Call
<1> QED BY <1>3, <1>4, <1>5, <1>6, <1>7, <1>8 DEF IInv

LEMMA MakeDirKeeps == ASSUME IInv, NEW t \in Threads, MakeDir(t) PROVE IInv'
<1>1. TypeOK'
  BY MainAssumption DEF IInv, MakeDir, TypeOK, Call
<1>2. Places' /\ Openers' /\ Lockers' /\ NamesApart' /\ PublishedIsOpen' /\ NothingLeft'
  BY MainAssumption DEF IInv, MakeDir, Places, TypeOK, Openers, Lockers, NamesApart,
     PublishedIsOpen, NothingLeft
<1>3. Mine' /\ Detached' /\ Kept' /\ OneLive'
  BY MainAssumption DEF IInv, MakeDir, Mine, Users, TypeOK, Detached, Kept, OneLive
<1>4. RefsCount' /\ LiveHasDir' /\ Copying' /\ NoLostWakeup'
  BY MainAssumption DEF IInv, MakeDir, RefsCount, Users, TypeOK, LiveHasDir, Copying, Call,
     NoLostWakeup
<1> QED BY <1>1, <1>2, <1>3, <1>4 DEF IInv

LEMMA CopyDirKeeps == ASSUME IInv, NEW t \in Threads, CopyDir(t) PROVE IInv'
<1>1. \A d \in Deps : dep[d].live => dep[d].name # call[t].dst
  BY HeldIsUnopened DEF CopyDir, Holding
<1>2. \A u \in Threads : u # t /\ pc[u] = "copying" => call[u].dst # call[t].dst
  BY DEF IInv, Lockers, CopyDir
<1>3. TypeOK'
  BY MainAssumption DEF IInv, CopyDir, TypeOK, Call
<1>4. Places' /\ Openers' /\ Lockers' /\ NamesApart' /\ PublishedIsOpen' /\ NothingLeft'
  BY MainAssumption DEF IInv, CopyDir, Places, TypeOK, Openers, Lockers, NamesApart,
     PublishedIsOpen, NothingLeft
<1>5. Mine' /\ Detached' /\ Kept' /\ OneLive'
  BY MainAssumption DEF IInv, CopyDir, Mine, Users, TypeOK, Detached, Kept, OneLive
<1>6. RefsCount' /\ NoLostWakeup'
  BY MainAssumption DEF IInv, CopyDir, RefsCount, Users, TypeOK, NoLostWakeup
<1>7. LiveHasDir'
  BY <1>1, <1>2, NoCallIsCall, MainAssumption DEF IInv, CopyDir, LiveHasDir, TypeOK, Mine,
     Detached, Kept
<1>8. Copying'
  BY <1>1, <1>2, NoCallIsCall, MainAssumption DEF IInv, CopyDir, Copying, TypeOK, Places,
     Lockers, Call
<1> QED BY <1>3, <1>4, <1>5, <1>6, <1>7, <1>8 DEF IInv

LEMMA UnlockKeeps == ASSUME IInv, NEW t \in Threads, Unlock(t) PROVE IInv'
<1>1. TypeOK'
  BY NoCallIsCall, MainAssumption DEF IInv, Unlock, TypeOK, Call
<1>2. Places' /\ Openers' /\ NamesApart' /\ PublishedIsOpen' /\ NothingLeft'
  BY NoCallIsCall, MainAssumption DEF IInv, Unlock, Places, TypeOK, Openers, NamesApart,
     PublishedIsOpen, NothingLeft
<1>3. Lockers'
  <2>1. Locks(t) /\ \A u \in Threads \ {t} : Locks(u) => Held(u) \cap Held(t) = {}
    BY DEF IInv, Lockers, Unlock
  <2>2. /\ ~Locks(t)'
        /\ \A u \in Threads \ {t} :
             Locks(u)' = Locks(u) /\ call'[u] = call[u] /\ Held(u)' = Held(u)
    BY DEF IInv, TypeOK, Unlock
  <2>3. blocked' = blocked \ Held(t)
    BY DEF Unlock
  <2>4. \A u \in Threads : Locks(u)' => u # t
    BY <2>2
  <2>5. \A u \in Threads : Locks(u)' => call'[u].kind # "get" /\ Held(u)' \subseteq blocked'
    <3> SUFFICES ASSUME NEW u \in Threads, Locks(u)'
                 PROVE  call'[u].kind # "get" /\ Held(u)' \subseteq blocked'
      OBVIOUS
    <3>1. u # t /\ Locks(u) /\ call'[u] = call[u] /\ Held(u)' = Held(u)
      BY <2>2, <2>4
    <3>2. call[u].kind # "get" /\ Held(u) \subseteq blocked /\ Held(u) \cap Held(t) = {}
      BY <2>1, <3>1 DEF IInv, Lockers
    <3> QED BY <2>3, <3>1, <3>2
  <2>6. \A u, v \in Threads : Locks(u)' /\ Locks(v)' /\ Held(u)' \cap Held(v)' # {} => u = v
    BY <2>2, <2>4 DEF IInv, Lockers
  <2> QED BY <2>5, <2>6 DEF Lockers
<1>4. Mine' /\ Detached' /\ Kept' /\ OneLive'
  BY NoCallIsCall, MainAssumption DEF IInv, Unlock, Mine, Users, TypeOK, Detached, Kept,
     OneLive
<1>5. RefsCount' /\ LiveHasDir' /\ Copying' /\ NoLostWakeup'
  BY NoCallIsCall, MainAssumption DEF IInv, Unlock, RefsCount, Users, TypeOK, LiveHasDir,
     Copying, Call, NoLostWakeup
<1> QED BY <1>1, <1>2, <1>3, <1>4, <1>5 DEF IInv

LEMMA CreateDirKeeps == ASSUME IInv, NEW n \in Names, CreateDir(n) PROVE IInv'
<1>1. TypeOK'
  BY MainAssumption DEF IInv, CreateDir, TypeOK, Call
<1>2. Places' /\ Openers' /\ Lockers' /\ NamesApart' /\ PublishedIsOpen' /\ NothingLeft'
  BY MainAssumption DEF IInv, CreateDir, Places, TypeOK, Openers, Lockers, NamesApart,
     PublishedIsOpen, NothingLeft
<1>3. Mine' /\ Detached' /\ Kept' /\ OneLive'
  BY MainAssumption DEF IInv, CreateDir, Mine, Users, TypeOK, Detached, Kept, OneLive
<1>4. RefsCount' /\ LiveHasDir' /\ Copying' /\ NoLostWakeup'
  BY MainAssumption DEF IInv, CreateDir, RefsCount, Users, TypeOK, LiveHasDir, Copying,
     Call, NoLostWakeup
<1> QED BY <1>1, <1>2, <1>3, <1>4 DEF IInv

LEMMA SealKeeps == ASSUME IInv, Seal PROVE IInv'
<1>1. TypeOK'
  BY MainAssumption DEF IInv, Seal, TypeOK, Call
<1>2. Places' /\ Openers' /\ Lockers' /\ NamesApart' /\ PublishedIsOpen' /\ NothingLeft'
  BY MainAssumption DEF IInv, Seal, Places, TypeOK, Openers, Lockers, NamesApart,
     PublishedIsOpen, NothingLeft
<1>3. Mine' /\ Detached' /\ Kept' /\ OneLive'
  BY MainAssumption DEF IInv, Seal, Mine, Users, TypeOK, Detached, Kept, OneLive
<1>4. RefsCount' /\ LiveHasDir' /\ Copying' /\ NoLostWakeup'
  BY MainAssumption DEF IInv, Seal, RefsCount, Users, TypeOK, LiveHasDir, Copying, Call,
     NoLostWakeup
<1> QED BY <1>1, <1>2, <1>3, <1>4 DEF IInv

LEMMA ParkMainKeeps == ASSUME IInv, ParkMain PROVE IInv'
<1>1. TypeOK'
  BY MainAssumption DEF IInv, ParkMain, TypeOK, Call
<1>2. Places' /\ Openers' /\ Lockers' /\ NamesApart' /\ PublishedIsOpen' /\ NothingLeft'
  BY MainAssumption DEF IInv, ParkMain, Places, TypeOK, Openers, Lockers, NamesApart,
     PublishedIsOpen, NothingLeft
<1>3. Mine' /\ Detached' /\ Kept' /\ OneLive'
  BY MainAssumption DEF IInv, ParkMain, Mine, Users, TypeOK, Detached, Kept, OneLive
<1>4. RefsCount' /\ LiveHasDir' /\ Copying' /\ NoLostWakeup'
  BY MainAssumption DEF IInv, ParkMain, RefsCount, Users, TypeOK, LiveHasDir, Copying,
     Call, NoLostWakeup
<1> QED BY <1>1, <1>2, <1>3, <1>4 DEF IInv

LEMMA TakeAllKeeps == ASSUME IInv, TakeAll PROVE IInv'
<1>1. closed /\ opening = {} /\ blocked = {}
  BY DEF IInv, TakeAll, Places
<1>2. \A u \in Threads : ~Opens(u) /\ ~Locks(u)
  BY <1>1 DEF IInv, Openers, Lockers, Places
<1>3. toClose[Main] = {}
  BY DEF IInv, Detached, TakeAll
<1>4. \A n \in Names : open[n] # NoDep => open[n] \in Deps /\ dep[open[n]].live
  BY DEF IInv, TypeOK, PublishedIsOpen
<1>5. TypeOK'
  BY MainAssumption DEF IInv, TakeAll, TypeOK, Call
<1>6. Places' /\ Openers' /\ Lockers' /\ NamesApart' /\ PublishedIsOpen' /\ NothingLeft'
  BY MainAssumption DEF IInv, TakeAll, Places, TypeOK, Openers, Lockers, NamesApart,
     PublishedIsOpen, NothingLeft
<1>7. Mine' /\ OneLive'
  BY MainAssumption DEF IInv, TakeAll, Mine, Users, TypeOK, OneLive
<1>8. Detached'
  BY <1>1, <1>2, <1>3, <1>4, NoCallIsCall, MainAssumption DEF IInv, TakeAll, Detached,
     TypeOK, Places, Mine, PublishedIsOpen, NamesApart, Lockers, Openers
<1>9. Kept'
  BY <1>1, <1>2, <1>3, <1>4, NoCallIsCall, MainAssumption DEF IInv, TakeAll, Kept, TypeOK,
     Places, Mine, Detached, PublishedIsOpen
<1>10. RefsCount' /\ LiveHasDir' /\ Copying' /\ NoLostWakeup'
  BY MainAssumption DEF IInv, TakeAll, RefsCount, Users, TypeOK, LiveHasDir, Copying, Call,
     NoLostWakeup
<1> QED BY <1>5, <1>6, <1>7, <1>8, <1>9, <1>10 DEF IInv

LEMMA AllClosedKeeps == ASSUME IInv, AllClosed PROVE IInv'
<1>1. TypeOK'
  BY MainAssumption DEF IInv, AllClosed, TypeOK, Call
<1>2. Places' /\ Openers' /\ Lockers' /\ NamesApart' /\ PublishedIsOpen' /\ NothingLeft'
  BY MainAssumption DEF IInv, AllClosed, Places, TypeOK, Openers, Lockers, NamesApart,
     PublishedIsOpen, NothingLeft
<1>3. Mine' /\ Detached' /\ Kept' /\ OneLive'
  BY MainAssumption DEF IInv, AllClosed, Mine, Users, TypeOK, Detached, Kept, OneLive
<1>4. RefsCount' /\ LiveHasDir' /\ Copying' /\ NoLostWakeup'
  BY MainAssumption DEF IInv, AllClosed, RefsCount, Users, TypeOK, LiveHasDir, Copying,
     Call, NoLostWakeup
<1> QED BY <1>1, <1>2, <1>3, <1>4 DEF IInv

-----------------------------------------------------------------------------
LEMMA IInvInit == Init => IInv
<1> SUFFICES ASSUME Init PROVE IInv
  OBVIOUS
<1>1. \A d \in Deps : ~dep[d].live /\ dep[d].refs = 0
  BY DEF Init, Closed
<1>2. Cardinality({}) = 0
  BY FS_EmptySet
<1>3. RefsCount
  BY <1>1, <1>2, MainAssumption DEF Init, RefsCount, Users
<1>4. TypeOK
  BY NoCallIsCall, ClosedIsDep DEF Init, TypeOK
<1>5. \A p \in Procs : pc[p] = "idle" /\ mine[p] = NoDep /\ toClose[p] = {}
  BY DEF Init
<1> QED BY <1>1, <1>3, <1>4, <1>5
    DEF IInv, Init, Places, Openers, Lockers, NamesApart, PublishedIsOpen, NothingLeft,
        Mine, Detached, Kept, OneLive, LiveHasDir, Copying, NoLostWakeup

LEMMA IInvNext == IInv /\ [Next]_vars => IInv'
<1> SUFFICES ASSUME IInv, [Next]_vars PROVE IInv'
  OBVIOUS
<1>1. ASSUME NEW t \in Threads, NEW c \in Call, Begin(t, c) PROVE IInv'
  BY <1>1, BeginKeeps
<1>2. ASSUME NEW t \in Threads,
             Cancel(t) \/ GiveUp(t) \/ Park(t) \/ Wake(t) \/ Release(t)
      PROVE  IInv'
  BY <1>2, CancelKeeps, GiveUpKeeps, ParkKeeps, WakeKeeps, ReleaseKeeps
<1>3. ASSUME NEW t \in Threads, Opening(t) PROVE IInv'
  BY <1>3, BorrowKeeps, StartOpeningKeeps, LoadKeeps, LoadFailsKeeps, PublishKeeps,
     DiscardKeeps, CloseDiscardedKeeps, EndOpeningKeeps DEF Opening
<1>4. ASSUME NEW t \in Threads, Locking(t) PROVE IInv'
  BY <1>4, ClaimKeeps, LockedKeeps, UnlockKeeps, RemoveDirKeeps, MakeDirKeeps, CopyDirKeeps
     DEF Locking
<1>5. ASSUME NEW p \in Procs, Closing(p) PROVE IInv'
  BY <1>5, MarkClosingKeeps, CloseDrainedKeeps DEF Closing
<1>6. ASSUME NEW t \in Threads, NEW n \in Names, FindBook(t, n) PROVE IInv'
  BY <1>6, FindBookKeeps
<1>7. ASSUME CloseAll PROVE IInv'
  BY <1>7, SealKeeps, ParkMainKeeps, TakeAllKeeps, AllClosedKeeps DEF CloseAll
<1>8. ASSUME NEW n \in Names, CreateDir(n) PROVE IInv'
  BY <1>8, CreateDirKeeps
<1>9. ASSUME UNCHANGED vars PROVE IInv'
  BY <1>9 DEF vars, IInv, TypeOK, Places, Openers, Lockers, NamesApart, PublishedIsOpen,
     NothingLeft, Mine, Detached, Kept, OneLive, RefsCount, Users, LiveHasDir, Copying, NoLostWakeup, Call
<1> QED BY <1>1, <1>2, <1>3, <1>4, <1>5, <1>6, <1>7, <1>8, <1>9 DEF Next, Progress

LEMMA Invariance == Spec => []IInv
  BY IInvInit, IInvNext, PTL DEF Spec

(* Phases, calls, directories and handles are of their kinds, and a handle *)
(* counts its borrowers in a natural number: no release is one too many    *)
(* (Get, Release).                                                         *)
THEOREM ManagerTypeCorrect == Spec => []TypeOK
<1>1. IInv => TypeOK
  BY DEF IInv
<1> QED BY <1>1, Invariance, PTL

(* Nobody sleeps through its wake-up: every change that could let a parked *)
(* caller or CloseAll go on has broadcast, and a canceled one is about to  *)
(* be woken (cond, context.AfterFunc).                                     *)
THEOREM NoWakeupIsLost == Spec => []NoLostWakeup
<1>1. IInv => NoLostWakeup
  BY DEF IInv
<1> QED BY <1>1, Invariance, PTL

(* One database handle per directory, also while a profile is drained,     *)
(* discarded or opened anew (Get, lockProfiles, CloseAll).                 *)
THEOREM OneHandle == Spec => []OneHandlePerName
<1>1. ASSUME IInv PROVE OneHandlePerName
  <2> SUFFICES ASSUME NEW n \in Names PROVE Cardinality(Live(n)) <= 1
    BY DEF OneHandlePerName
  <2>1. \A d, e \in Live(n) : d = e
    BY <1>1 DEF IInv, OneLive, Live
  <2>2. CASE Live(n) = {}
    BY <2>2, FS_EmptySet
  <2>3. ASSUME NEW d \in Live(n) PROVE Cardinality(Live(n)) <= 1
    <3>1. Live(n) = {d}
      BY <2>1, <2>3
    <3>2. Cardinality({d}) = 1
      BY FS_Singleton
    <3> QED BY <3>1, <3>2
  <2> QED BY <2>2, <2>3
<1> QED BY <1>1, Invariance, PTL

(* What a request has borrowed stays open until it gives it back           *)
(* (markClosingAndWait waits for the count).                               *)
THEOREM BorrowedStays == Spec => []BorrowedIsOpen
<1>1. IInv => BorrowedIsOpen
  BY DEF IInv, Mine, BorrowedIsOpen
<1> QED BY <1>1, Invariance, PTL

LEMMA DirSteps ==
  ASSUME IInv, Next, NEW n \in Names, dir'[n] # dir[n]
  PROVE  \/ dir[n] = "none"
         \/ \E t \in Threads : Holding(t) /\ n \in Held(t)
               /\ \/ call[t].kind = "delete"
                  \/ call[t].kind = "clone" /\ dir[n] = "partial"
<1>1. ASSUME NEW t \in Threads, RemoveDir(t) \/ MakeDir(t) \/ CopyDir(t)
      PROVE  \/ dir[n] = "none"
             \/ \E u \in Threads : Holding(u) /\ n \in Held(u)
                  /\ \/ call[u].kind = "delete"
                     \/ call[u].kind = "clone" /\ dir[n] = "partial"
  BY <1>1 DEF IInv, TypeOK, Copying, RemoveDir, MakeDir, CopyDir, Holding
<1>2. ASSUME NEW m \in Names, CreateDir(m) PROVE dir[n] = "none"
  BY <1>2 DEF IInv, TypeOK, CreateDir
<1> QED
  BY <1>1, <1>2 DEF Next, Progress, Opening, Locking, Closing, CloseAll,
     Begin, Cancel, GiveUp, Park, Wake, Release, Borrow, StartOpening, Load, LoadFails, Publish,
     Discard, CloseDiscarded, EndOpening, Claim, Locked, Unlock, MarkClosing, CloseDrained,
     FindBook, Seal, ParkMain, TakeAll, AllClosed

(* A directory is made, filled or removed only while no handle to it is    *)
(* open (closeProfile drains before lockProfiles lets its caller go on).   *)
THEOREM DirsChangeUnopened == Spec => DirChangesUnopened
<1>1. ASSUME IInv, Next, NEW n \in Names, dir'[n] # dir[n] PROVE Live(n) = {}
  <2>1. dir[n] = "none" => Live(n) = {}
    BY <1>1 DEF IInv, LiveHasDir, Live
  <2>2. ASSUME NEW t \in Threads, Holding(t), n \in Held(t) PROVE Live(n) = {}
    BY <1>1, <2>2, HeldIsUnopened DEF Live
  <2> QED BY <1>1, <2>1, <2>2, DirSteps
<1>2. IInv /\ [Next]_vars => [\A n \in Names : dir'[n] # dir[n] => Live(n) = {}]_vars
  BY <1>1
<1> QED BY <1>2, Invariance, PTL DEF Spec, DirChangesUnopened

(* Only a deletion takes a complete directory away: a clone that fails     *)
(* removes what it made (CloneProfile).                                    *)
THEOREM ClonesKeepOthers == Spec => CloneKeepsOthers
<1>1. ASSUME IInv, Next, NEW n \in Names, dir[n] = "whole", dir'[n] # "whole"
      PROVE  \E t \in Threads : Holding(t) /\ call[t] = [kind |-> "delete", src |-> n, dst |-> n]
  <2>1. PICK t \in Threads : Holding(t) /\ n \in Held(t) /\ call[t].kind = "delete"
    BY <1>1, DirSteps
  <2>2. /\ call[t] \in [kind : {"get", "evict", "delete", "clone"}, src : Names, dst : Names]
        /\ call[t].src = call[t].dst
    BY <1>1, <2>1 DEF IInv, TypeOK, Call
  <2>3. call[t] = [kind |-> "delete", src |-> n, dst |-> n]
    BY <2>1, <2>2
  <2> QED BY <2>1, <2>3
<1>2. IInv /\ [Next]_vars =>
        [\A n \in Names : dir[n] = "whole" /\ dir'[n] # "whole" =>
          \E t \in Threads : Holding(t) /\ call[t] = [kind |-> "delete", src |-> n, dst |-> n]]_vars
  BY <1>1
<1> QED BY <1>2, Invariance, PTL DEF Spec, CloneKeepsOthers

-----------------------------------------------------------------------------
(* ProfileAccess: its variables as seen from here.                         *)
UsersOf == [n \in Names |-> {t \in Threads : pc[t] = "using" /\ call[t].src = n}]
HoldersOf == [n \in Names |-> {t \in Threads : Holding(t) /\ n \in Held(t)}]

Unseen == UsersOf' = UsersOf /\ HoldersOf' = HoldersOf

LEMMA NobodyMoves ==
  ASSUME \A t \in Threads : /\ pc'[t] = "using" <=> pc[t] = "using"
                            /\ Holding(t)' <=> Holding(t)
                            /\ pc[t] = "using" \/ Holding(t) => call'[t] = call[t]
  PROVE  Unseen
<1>1. UsersOf' = UsersOf
  BY DEF UsersOf
<1>2. HoldersOf' = HoldersOf
  BY DEF HoldersOf
<1> QED BY <1>1, <1>2 DEF Unseen

(* Whoever borrows a name keeps its handle open, so a name that is blocked *)
(* and drained, or found sealed and drained, has no borrower; and only     *)
(* the one who blocked it holds it.                                        *)
LEMMA BorrowedHasHandle ==
  ASSUME IInv, NEW n \in Names, NEW t \in UsersOf[n]
  PROVE  mine[t] \in Deps /\ dep[mine[t]].live /\ dep[mine[t]].name = n
  BY DEF IInv, Mine, UsersOf

LEMMA UnblockedUnheld ==
  ASSUME IInv, NEW n \in Names \ blocked PROVE HoldersOf[n] = {}
  BY DEF IInv, Lockers, HoldersOf, Holding

LEMMA DrainedIsFree ==
  ASSUME IInv, NEW t \in Threads, pc[t] = "draining", toClose[t] = {}, NEW n \in Held(t)
  PROVE  UsersOf[n] = {} /\ HoldersOf[n] = {}
<1>1. n \in Names /\ n \in blocked \ opening /\ open[n] = NoDep /\ ~Ending
  BY DEF IInv, TypeOK, Call, Lockers, NamesApart, NothingLeft
<1>2. HoldersOf[n] = {}
  BY <1>1 DEF IInv, Lockers, HoldersOf, Holding
<1>3. ASSUME NEW u \in UsersOf[n] PROVE FALSE
  <2> DEFINE d == mine[u]
  <2>1. d \in Deps /\ dep[d].live /\ dep[d].name = n
    BY <1>1, <1>3, BorrowedHasHandle
  <2> HIDE DEF d
  <2>2. open[dep[d].name] # d
    BY <1>1, <2>1, MainAssumption
  <2>3. ~\E v \in Threads : pc[v] \in {"loaded", "cleanup"} /\ mine[v] = d
    BY <1>1, <2>1, MainAssumption, LoadedIsPrivate
  <2>4. ASSUME NEW p \in Procs, d \in toClose[p] PROVE FALSE
    <3>1. CASE p = Main
      BY <1>1, <2>4, <3>1 DEF IInv, Detached
    <3>2. CASE p \in Threads
      BY <2>1, <2>4, <3>2 DEF IInv, Detached, Lockers
    <3> QED BY <3>1, <3>2
  <2> QED BY <2>1, <2>2, <2>3, <2>4 DEF IInv, Kept
<1> QED BY <1>1, <1>2, <1>3 DEF UsersOf

LEMMA EndedIsFree ==
  ASSUME IInv, pc[Main] = "draining", toClose[Main] = {}, NEW n \in Names
  PROVE  UsersOf[n] = {} /\ HoldersOf[n] = {}
<1>1. opening = {} /\ blocked = {} /\ open[n] = NoDep
  BY DEF IInv, NothingLeft
<1>2. HoldersOf[n] = {}
  BY <1>1, UnblockedUnheld
<1>3. \A t \in Threads : ~Opens(t) /\ ~Locks(t)
  BY <1>1 DEF IInv, Openers, Lockers
<1>4. \A p \in Procs : toClose[p] = {}
  BY <1>3 DEF IInv, Detached
<1>5. ASSUME NEW u \in UsersOf[n] PROVE FALSE
  BY <1>1, <1>3, <1>4, <1>5, BorrowedHasHandle, MainAssumption DEF IInv, Kept
<1> QED BY <1>2, <1>5 DEF UsersOf

LEMMA AccessInit == Init => Access!Init
  BY DEF Init, Access!Init, Holding

(* A function that differs from another in one row is that function with   *)
(* the row replaced.                                                       *)
LEMMA OneRow ==
  ASSUME NEW f, NEW g, NEW n \in Names, NEW r,
         f = [m \in Names |-> f[m]], g = [m \in Names |-> g[m]],
         \A m \in Names : g[m] = IF m = n THEN r ELSE f[m]
  PROVE  g = [f EXCEPT ![n] = r]
  OBVIOUS

LEMMA AccessBorrow ==
  ASSUME IInv, NEW t \in Threads, NEW n \in Names \ blocked, ~closed, pc[t] # "using", ~Holding(t),
         pc' = [pc EXCEPT ![t] = "using"], call'[t].src = n,
         \A u \in Threads \ {t} : call'[u] = call[u], closed' = closed
  PROVE  Access!Borrow(t, n)
<1>1. UsersOf' = [UsersOf EXCEPT ![n] = @ \cup {t}]
  <2>1. ASSUME NEW m \in Names
        PROVE  UsersOf'[m] = IF m = n THEN UsersOf[m] \cup {t} ELSE UsersOf[m]
    BY DEF IInv, TypeOK, UsersOf
  <2>2. UsersOf = [m \in Names |-> UsersOf[m]] /\ UsersOf' = [m \in Names |-> UsersOf'[m]]
    BY DEF UsersOf
  <2> QED BY <2>1, <2>2, OneRow
<1>2. HoldersOf' = HoldersOf
  BY DEF IInv, TypeOK, HoldersOf, Holding
<1>3. HoldersOf[n] = {}
  BY UnblockedUnheld
<1>4. pc'[Main] = pc[Main]
  BY MainAssumption DEF IInv, TypeOK
<1> QED BY <1>1, <1>2, <1>3, <1>4 DEF Access!Borrow, UsersOf, HoldersOf

LEMMA AccessReturn ==
  ASSUME IInv, NEW t \in Threads, Release(t), NEW n \in Names, n = call[t].src
  PROVE  Access!Return(t, n)
<1>1. t \in UsersOf[n]
  BY DEF Release, UsersOf
<1>2. UsersOf' = [UsersOf EXCEPT ![n] = @ \ {t}]
  <2>1. ASSUME NEW m \in Names
        PROVE  UsersOf'[m] = IF m = n THEN UsersOf[m] \ {t} ELSE UsersOf[m]
    BY DEF IInv, TypeOK, Release, UsersOf
  <2>2. UsersOf = [m \in Names |-> UsersOf[m]] /\ UsersOf' = [m \in Names |-> UsersOf'[m]]
    BY DEF UsersOf
  <2> QED BY <2>1, <2>2, OneRow
<1>3. HoldersOf' = HoldersOf
  BY DEF IInv, TypeOK, Release, HoldersOf, Holding
<1>4. pc'[Main] = pc[Main] /\ closed' = closed
  BY MainAssumption DEF IInv, TypeOK, Release
<1> QED BY <1>1, <1>2, <1>3, <1>4 DEF Access!Return, UsersOf, HoldersOf

LEMMA AccessLock ==
  ASSUME IInv, NEW t \in Threads, Locked(t), NEW held \in SUBSET Names, held = Held(t)
  PROVE  Access!Lock(t, held)
<1>1. \A n \in held : UsersOf[n] = {} /\ HoldersOf[n] = {}
  BY DrainedIsFree DEF Locked
<1>2. pc[Main] # "closed" /\ pc'[Main] = pc[Main] /\ closed' = closed
  BY MainAssumption DEF IInv, TypeOK, Locked, Lockers, NothingLeft
<1>3. UsersOf' = UsersOf
  BY DEF IInv, TypeOK, Locked, UsersOf
<1>4. HoldersOf' = [n \in Names |-> IF n \in held THEN {t} ELSE HoldersOf[n]]
  <2>1. ASSUME NEW n \in Names
        PROVE  HoldersOf'[n] = IF n \in held THEN {t} ELSE HoldersOf[n]
    <3>1. HoldersOf'[n] = IF n \in held THEN HoldersOf[n] \cup {t} ELSE HoldersOf[n]
      BY DEF IInv, TypeOK, Locked, HoldersOf, Holding
    <3> QED BY <3>1, <1>1
  <2> QED BY <2>1 DEF HoldersOf
<1> QED BY <1>1, <1>2, <1>3, <1>4 DEF Access!Lock, UsersOf, HoldersOf

LEMMA AccessUnlock ==
  ASSUME IInv, NEW t \in Threads, Unlock(t) PROVE Access!Unlock(t)
<1>1. UsersOf' = UsersOf
  BY DEF IInv, TypeOK, Unlock, UsersOf
<1>2. HoldersOf' = [n \in Names |-> HoldersOf[n] \ {t}]
  BY DEF IInv, TypeOK, Unlock, HoldersOf, Holding
<1>3. pc'[Main] = pc[Main] /\ closed' = closed
  BY MainAssumption DEF IInv, TypeOK, Unlock
<1> QED BY <1>1, <1>2, <1>3 DEF Access!Unlock, UsersOf, HoldersOf

LEMMA AccessNext == IInv /\ [Next]_vars => [Access!Next]_(Access!avars)
<1> SUFFICES ASSUME IInv, [Next]_vars PROVE Access!Next \/ UNCHANGED Access!avars
  OBVIOUS
<1> DEFINE Same == Unseen /\ closed' = closed /\ (pc'[Main] = "closed") = (pc[Main] = "closed")
<1>1. ASSUME NEW t \in Threads,
             \/ Cancel(t) \/ GiveUp(t) \/ Park(t) \/ Wake(t) \/ StartOpening(t) \/ Load(t)
             \/ LoadFails(t) \/ Discard(t) \/ CloseDiscarded(t) \/ EndOpening(t) \/ Claim(t)
             \/ RemoveDir(t) \/ MakeDir(t) \/ CopyDir(t) \/ \E c \in Call : Begin(t, c)
      PROVE  Same
  <2>1. closed' = closed /\ pc'[Main] = pc[Main]
    BY <1>1, MainAssumption DEF IInv, TypeOK, Begin, Cancel, GiveUp, Park, Wake,
       StartOpening, Load,
       LoadFails, Discard, CloseDiscarded, EndOpening, Claim, RemoveDir, MakeDir, CopyDir
  <2>2. \A u \in Threads : /\ pc'[u] = "using" <=> pc[u] = "using"
                           /\ Holding(u)' <=> Holding(u)
                           /\ pc[u] = "using" \/ Holding(u) => call'[u] = call[u]
    BY <1>1 DEF IInv, TypeOK, Begin, Cancel, GiveUp, Park, Wake, StartOpening, Load,
       LoadFails, Discard, CloseDiscarded, EndOpening, Claim, RemoveDir, MakeDir, CopyDir, Holding
  <2> QED BY <2>1, <2>2, NobodyMoves
<1>2. ASSUME \/ \E p \in Procs : Closing(p)
             \/ ParkMain \/ TakeAll \/ UNCHANGED vars \/ \E n \in Names : CreateDir(n)
      PROVE  Same
  <2>1. closed' = closed /\ (pc'[Main] = "closed") = (pc[Main] = "closed")
    BY <1>2 DEF IInv, TypeOK, vars, Closing, MarkClosing, CloseDrained, ParkMain, TakeAll,
       CreateDir
  <2>2. \A u \in Threads : pc'[u] = pc[u] /\ call'[u] = call[u]
    BY <1>2, MainAssumption DEF IInv, TypeOK, vars, Closing, MarkClosing, CloseDrained,
       ParkMain,
       TakeAll, CreateDir
  <2> QED BY <2>1, <2>2, NobodyMoves DEF Holding
<1>3. ASSUME NEW t \in Threads, Borrow(t) \/ Publish(t)
      PROVE  \E n \in Names : Access!Borrow(t, n)
  <2>1. PICK n \in Names \ blocked : n = call[t].src
    BY <1>3 DEF IInv, TypeOK, Call, Borrow, Publish, Openers, NamesApart
  <2>2. Access!Borrow(t, n)
    BY <1>3, <2>1, AccessBorrow DEF Borrow, Publish, Holding
  <2> QED BY <2>1, <2>2
<1>4. ASSUME NEW t \in Threads, NEW n \in Names, FindBook(t, n) PROVE Access!Borrow(t, n)
  BY <1>4, AccessBorrow DEF IInv, TypeOK, FindBook, Holding
<1>5. ASSUME NEW t \in Threads, Release(t) PROVE \E n \in Names : Access!Return(t, n)
  <2>1. PICK n \in Names : n = call[t].src
    BY DEF IInv, TypeOK, Call
  <2> QED BY <1>5, <2>1, AccessReturn
<1>6. ASSUME NEW t \in Threads, Locked(t) PROVE \E held \in SUBSET Names : Access!Lock(t, held)
  <2>1. PICK held \in SUBSET Names : held = Held(t)
    BY DEF IInv, TypeOK, Call
  <2> QED BY <1>6, <2>1, AccessLock
<1>7. ASSUME NEW t \in Threads, Unlock(t) PROVE Access!Unlock(t)
  BY <1>7, AccessUnlock
<1>8. ASSUME Seal PROVE Access!Seal
  <2>1. closed' = TRUE /\ (pc'[Main] = "closed") = (pc[Main] = "closed")
    BY <1>8 DEF IInv, TypeOK, Seal
  <2>2. Unseen
    BY <1>8, MainAssumption, NobodyMoves DEF IInv, TypeOK, Seal, Holding
  <2> QED BY <2>1, <2>2 DEF Access!Seal, Unseen, UsersOf, HoldersOf
<1>9. ASSUME AllClosed PROVE Access!End
  <2>1. closed /\ closed' = closed /\ pc'[Main] = "closed"
    BY <1>9 DEF IInv, TypeOK, AllClosed, Places
  <2>2. Unseen
    BY <1>9, MainAssumption, NobodyMoves DEF IInv, TypeOK, AllClosed, Holding
  <2>3. \A n \in Names : UsersOf[n] = {} /\ HoldersOf[n] = {}
    BY <1>9, EndedIsFree DEF AllClosed
  <2> QED BY <2>1, <2>2, <2>3 DEF Access!End, Unseen, UsersOf, HoldersOf
<1>10. Same => UNCHANGED Access!avars
  BY DEF Unseen, Access!avars, UsersOf, HoldersOf
<1> HIDE DEF Same
<1> QED
  BY <1>1, <1>2, <1>3, <1>4, <1>5, <1>6, <1>7, <1>8, <1>9, <1>10
     DEF Next, Progress, Opening, Locking, CloseAll, Access!Next

(* To its callers the manager is a reader-writer lock per profile that can *)
(* be taken for several names at once and is shut for good by CloseAll.    *)
THEOREM AccessRefinement == Spec => ImplementsAccess
<1>1. IInv /\ [Next]_vars => [Access!Next]_(Access!avars)
  BY AccessNext
<1> QED BY <1>1, AccessInit, Invariance, PTL DEF Spec, ImplementsAccess, Access!Spec
=============================================================================
