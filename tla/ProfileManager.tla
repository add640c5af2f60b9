--------------------------- MODULE ProfileManager ---------------------------
(***************************************************************************)
(* The lifetimes of open profiles (internal/api/profilemgr.go).            *)
(*                                                                         *)
(* An open profile (profileDeps) owns a database handle, a flusher and     *)
(* file handles, and is shared by the requests that have borrowed it.      *)
(* Deleting, cloning and evicting a profile need its directory to          *)
(* themselves: they block the name, detach the open profile and wait until *)
(* the last request has given it back.  Opening takes long and happens     *)
(* outside the mutex, under a marker.  Whoever finds a name busy parks on  *)
(* one condition variable, which every change broadcasts; a canceled       *)
(* context broadcasts too, from a goroutine of its own.  CloseAll seals    *)
(* the manager and waits for everything.                                   *)
(*                                                                         *)
(* A step is one critical section of mu, or the work between two of them.  *)
(* What openProfile loads is abstracted to a live handle, a directory to   *)
(* whether it is there and whole.                                          *)
(***************************************************************************)
EXTENDS Naturals, FiniteSets

CONSTANTS
    Names,   \* profile names
    Threads, \* goroutines that call the manager
    Main,    \* the goroutine that calls CloseAll
    Deps,    \* bound: profileDeps that exist at a time
    NoDep    \* nil

ASSUME MainAssumption == Main \notin Threads /\ NoDep \notin Deps
ASSUME DepsAssumption == IsFiniteSet(Deps) /\ IsFiniteSet(Threads)
ASSUME NamesAssumption == Names # {}

VARIABLES
    open,     \* open: the published profile of each name
    blocked,  \* blocked: names held exclusively
    opening,  \* opening: names somebody is opening
    closed,   \* closed
    dep,      \* the profileDeps: refs, closing, and whether its handles are open
    pc,       \* where each goroutine is
    call,     \* what it was called for
    mine,     \* the profileDeps it has loaded or borrowed
    toClose,  \* toClose: what it has detached and must close
    parked,   \* who waits on cond
    canceled, \* whose context is done
    waking,   \* whose AfterFunc has not yet broadcast
    dir       \* the profile directories

pm     == <<open, blocked, opening, closed>>
thread == <<pc, call, mine, toClose>>
ctx    == <<canceled, waking>>
vars   == <<pm, dep, thread, parked, ctx, dir>>

-----------------------------------------------------------------------------
Procs == Threads \cup {Main}

(* dst is the name a clone makes; for the others it is src.                *)
Call == {c \in [kind : {"get", "evict", "delete", "clone"}, src : Names, dst : Names] :
            c.kind = "clone" <=> c.src # c.dst}

(* normalizeProfileNames: a set.                                           *)
Held(t) == {call[t].src, call[t].dst}

(* Faulty Busy: passes over the names that were checked before the last wait. *)
BusyLast(t) == call[t].dst \in blocked \cup opening

Busy(t) == Held(t) \cap (blocked \cup opening) # {}

Holding(t) == pc[t] \in {"holding", "copying", "finished"}

Live(n) == {d \in Deps : dep[d].live /\ dep[d].name = n}

Free == {d \in Deps : ~dep[d].live}

AnyName == CHOOSE n \in Names : TRUE
NoCall  == [kind |-> "get", src |-> AnyName, dst |-> AnyName]
Closed  == [name |-> AnyName, refs |-> 0, closing |-> FALSE, live |-> FALSE]

TypeOK ==
    /\ open \in [Names -> Deps \cup {NoDep}]
    /\ blocked \subseteq Names /\ opening \subseteq Names
    /\ closed \in BOOLEAN
    /\ dep \in [Deps -> [name : Names, refs : Nat, closing : BOOLEAN, live : BOOLEAN]]
    /\ pc \in [Procs -> {"idle", "waiting", "loading", "loaded", "cleanup", "cleaned",
                         "using", "draining", "holding", "copying", "finished",
                         "sealed", "closed"}]
    /\ call \in [Procs -> Call]
    /\ mine \in [Procs -> Deps \cup {NoDep}]
    /\ toClose \in [Procs -> SUBSET Deps]
    /\ parked \subseteq {p \in Procs : pc[p] \in {"waiting", "sealed"}}
    /\ canceled \subseteq Threads /\ waking \subseteq canceled
    /\ dir \in [Names -> {"none", "partial", "whole"}]

Init ==
    /\ open = [n \in Names |-> NoDep]
    /\ blocked = {} /\ opening = {}
    /\ closed = FALSE
    /\ dep = [d \in Deps |-> Closed]
    /\ pc = [p \in Procs |-> "idle"]
    /\ call = [p \in Procs |-> NoCall]
    /\ mine = [p \in Procs |-> NoDep]
    /\ toClose = [p \in Procs |-> {}]
    /\ parked = {} /\ canceled = {} /\ waking = {}
    /\ dir \in [Names -> {"none", "whole"}]

-----------------------------------------------------------------------------
(* Shared parts of the steps.                                              *)

Goto(p, there) == pc' = [pc EXCEPT ![p] = there]

(* The handler is done: its context and AfterFunc go with it.              *)
Return(t) ==
    /\ Goto(t, "idle")
    /\ call' = [call EXCEPT ![t] = NoCall]
    /\ mine' = [mine EXCEPT ![t] = NoDep]
    /\ canceled' = canceled \ {t}
    /\ waking' = waking \ {t}
    /\ UNCHANGED toClose

(* acquire.                                                                *)
Acquire(t, d) ==
    /\ ~dep[d].closing
    /\ dep' = [dep EXCEPT ![d].refs = @ + 1]
    /\ mine' = [mine EXCEPT ![t] = d]

Broadcast == parked' = {}

(* At the top of the loop of Get or lockProfiles, with mu.                 *)
Awake(t) == pc[t] = "waiting" /\ t \notin parked
MayPass(t) == Awake(t) /\ ~closed /\ t \notin canceled

-----------------------------------------------------------------------------
(* Faulty variants of the definitions below.  No specification uses them:  *)
(* each is a slip the code could have, put in the place of the definition  *)
(* to see that a property notices.                                         *)

(* EndOpening without its broadcast.                                       *)
EndOpeningSilently(t) ==
    /\ pc[t] = "cleaned"
    /\ opening' = opening \ {call[t].src}
    /\ Return(t)
    /\ UNCHANGED <<open, blocked, closed, dep, parked, dir>>

(* Claim that takes the open profile off the map but does not close it.    *)
ClaimForgets(t) ==
    /\ MayPass(t) /\ ~Busy(t) /\ call[t].kind # "get"
    /\ blocked' = blocked \cup Held(t)
    /\ open' = [n \in Names |-> IF n \in Held(t) THEN NoDep ELSE open[n]]
    /\ Goto(t, "draining")
    /\ UNCHANGED <<opening, closed, dep, call, mine, toClose, parked, ctx, dir>>

(* Wake whose AfterFunc does not broadcast.                                *)
WakeSilently(t) ==
    /\ t \in waking
    /\ waking' = waking \ {t}
    /\ UNCHANGED <<pm, dep, thread, parked, canceled, dir>>

-----------------------------------------------------------------------------
(* A call arrives; while it runs its context may be canceled, and the      *)
(* AfterFunc broadcasts some time later.                                   *)

Begin(t, c) ==
    /\ pc[t] = "idle"
    /\ Goto(t, "waiting")
    /\ call' = [call EXCEPT ![t] = c]
    /\ UNCHANGED <<pm, dep, mine, toClose, parked, ctx, dir>>

Cancel(t) ==
    /\ pc[t] \in {"waiting", "loading", "loaded", "draining"}
    /\ t \notin canceled
    /\ call[t].kind # "evict"
    /\ canceled' = canceled \cup {t}
    /\ waking' = waking \cup {t}
    /\ UNCHANGED <<pm, dep, thread, parked, dir>>

Wake(t) ==
    /\ t \in waking
    /\ waking' = waking \ {t}
    /\ Broadcast
    /\ UNCHANGED <<pm, dep, thread, canceled, dir>>

GiveUp(t) ==
    /\ Awake(t)
    /\ closed \/ t \in canceled
    /\ Return(t)
    /\ UNCHANGED <<pm, dep, parked, dir>>

Park(t) ==
    /\ MayPass(t) /\ Busy(t)
    /\ parked' = parked \cup {t}
    /\ UNCHANGED <<pm, dep, thread, ctx, dir>>

-----------------------------------------------------------------------------
(* Get, release and FindBook.                                              *)

Borrow(t) ==
    /\ MayPass(t) /\ ~Busy(t) /\ call[t].kind = "get"
    /\ open[call[t].src] # NoDep
    /\ Acquire(t, open[call[t].src])
    /\ Goto(t, "using")
    /\ UNCHANGED <<pm, call, toClose, parked, ctx, dir>>

StartOpening(t) ==
    LET n == call[t].src IN
    /\ MayPass(t) /\ ~Busy(t) /\ call[t].kind = "get"
    /\ open[n] # NoDep => dep[open[n]].closing
    /\ open' = [open EXCEPT ![n] = NoDep]
    /\ opening' = opening \cup {n}
    /\ Goto(t, "loading")
    /\ UNCHANGED <<blocked, closed, dep, call, mine, toClose, parked, ctx, dir>>

(* openProfile; it fails without a directory, and may fail otherwise.      *)
Load(t) ==
    /\ pc[t] = "loading" /\ dir[call[t].src] # "none"
    /\ Free # {}
    /\ LET d == CHOOSE d \in Free : TRUE IN
          /\ dep' = [dep EXCEPT ![d] = [name |-> call[t].src, refs |-> 0,
                                        closing |-> FALSE, live |-> TRUE]]
          /\ mine' = [mine EXCEPT ![t] = d]
    /\ Goto(t, "loaded")
    /\ UNCHANGED <<pm, call, toClose, parked, ctx, dir>>

LoadFails(t) ==
    /\ pc[t] = "loading"
    /\ Goto(t, "cleanup")
    /\ UNCHANGED <<pm, dep, call, mine, toClose, parked, ctx, dir>>

Publish(t) ==
    /\ pc[t] = "loaded" /\ ~closed /\ t \notin canceled
    /\ Acquire(t, mine[t])
    /\ open' = [open EXCEPT ![call[t].src] = mine[t]]
    /\ opening' = opening \ {call[t].src}
    /\ Broadcast
    /\ Goto(t, "using")
    /\ UNCHANGED <<blocked, closed, call, toClose, ctx, dir>>

(* Nobody may have it: closed first, and only then out of opening.         *)
Discard(t) ==
    /\ pc[t] = "loaded"
    /\ closed \/ t \in canceled
    /\ Goto(t, "cleanup")
    /\ UNCHANGED <<pm, dep, call, mine, toClose, parked, ctx, dir>>

CloseDiscarded(t) ==
    /\ pc[t] = "cleanup"
    /\ dep' = [d \in Deps |-> IF d = mine[t] THEN Closed ELSE dep[d]]
    /\ Goto(t, "cleaned")
    /\ UNCHANGED <<pm, call, mine, toClose, parked, ctx, dir>>

EndOpening(t) ==
    /\ pc[t] = "cleaned"
    /\ opening' = opening \ {call[t].src}
    /\ Broadcast
    /\ Return(t)
    /\ UNCHANGED <<open, blocked, closed, dep, dir>>

(* FindBook: any open profile may have the book.                           *)
FindBook(t, n) ==
    /\ pc[t] = "idle" /\ ~closed /\ n \notin blocked
    /\ open[n] # NoDep
    /\ Acquire(t, open[n])
    /\ Goto(t, "using")
    /\ call' = [call EXCEPT ![t] = [kind |-> "get", src |-> n, dst |-> n]]
    /\ UNCHANGED <<pm, toClose, parked, ctx, dir>>

Release(t) ==
    /\ pc[t] = "using"
    /\ dep' = [dep EXCEPT ![mine[t]].refs = @ - 1]
    /\ Return(t)
    /\ UNCHANGED <<pm, parked, dir>>

-----------------------------------------------------------------------------
(* lockProfiles, and closeProfile for what it has detached.                *)

Claim(t) ==
    /\ MayPass(t) /\ ~Busy(t) /\ call[t].kind # "get"
    /\ blocked' = blocked \cup Held(t)
    /\ toClose' = [toClose EXCEPT ![t] = {open[n] : n \in Held(t)} \ {NoDep}]
    /\ open' = [n \in Names |-> IF n \in Held(t) THEN NoDep ELSE open[n]]
    /\ Goto(t, "draining")
    /\ UNCHANGED <<opening, closed, dep, call, mine, parked, ctx, dir>>

(* markClosingAndWait, one profile after the other.                        *)
MarkClosing(p, d) ==
    /\ pc[p] = "draining" /\ d \in toClose[p]
    /\ \A e \in toClose[p] : ~dep[e].closing
    /\ dep' = [dep EXCEPT ![d].closing = TRUE]
    /\ UNCHANGED <<pm, thread, parked, ctx, dir>>

(* No reference is left: the flusher is stopped, the handles are closed.   *)
CloseDrained(p, d) ==
    /\ pc[p] = "draining" /\ d \in toClose[p]
    /\ dep[d].closing /\ dep[d].refs = 0
    /\ dep' = [dep EXCEPT ![d] = Closed]
    /\ toClose' = [toClose EXCEPT ![p] = @ \ {d}]
    /\ UNCHANGED <<pm, pc, call, mine, parked, ctx, dir>>

Locked(t) ==
    /\ pc[t] = "draining" /\ toClose[t] = {} /\ t \notin canceled
    /\ Goto(t, "holding")
    /\ UNCHANGED <<pm, dep, call, mine, toClose, parked, ctx, dir>>

(* The callers of lockProfiles: deleteProfileHandler removes the           *)
(* directory, which can stop half-way, ...                                 *)
RemoveDir(t) ==
    /\ pc[t] = "holding" /\ call[t].kind = "delete"
    /\ \E left \in {"none", "partial"} : dir' = [dir EXCEPT ![call[t].src] = left]
    /\ Goto(t, "finished")
    /\ UNCHANGED <<pm, dep, call, mine, toClose, parked, ctx>>

(* ... and CloneProfile makes the destination, copies into it and removes  *)
(* it when it could not.                                                   *)
MakeDir(t) ==
    /\ pc[t] = "holding" /\ call[t].kind = "clone"
    /\ dir[call[t].src] # "none" /\ dir[call[t].dst] = "none"
    /\ dir' = [dir EXCEPT ![call[t].dst] = "partial"]
    /\ Goto(t, "copying")
    /\ UNCHANGED <<pm, dep, call, mine, toClose, parked, ctx>>

CopyDir(t) ==
    /\ pc[t] = "copying"
    /\ \E copy \in {dir[call[t].src], "none", "partial"} :
          dir' = [dir EXCEPT ![call[t].dst] = copy]
    /\ Goto(t, "finished")
    /\ UNCHANGED <<pm, dep, call, mine, toClose, parked, ctx>>

(* unlock: when the operation is done, has failed early or, in             *)
(* lockProfiles itself, was canceled while it drained.                     *)
Unlock(t) ==
    /\ \/ pc[t] \in {"holding", "finished"}
       \/ pc[t] = "draining" /\ toClose[t] = {} /\ t \in canceled
    /\ blocked' = blocked \ Held(t)
    /\ Broadcast
    /\ Return(t)
    /\ UNCHANGED <<open, opening, closed, dep, dir>>

(* createProfileHandler's Mkdir, which asks nobody.                        *)
CreateDir(n) ==
    /\ dir[n] = "none"
    /\ dir' = [dir EXCEPT ![n] = "whole"]
    /\ UNCHANGED <<pm, dep, thread, parked, ctx>>

-----------------------------------------------------------------------------
(* CloseAll.                                                               *)

Seal ==
    /\ pc[Main] = "idle"
    /\ closed' = TRUE
    /\ Broadcast
    /\ Goto(Main, "sealed")
    /\ UNCHANGED <<open, blocked, opening, dep, call, mine, toClose, ctx, dir>>

ParkMain ==
    /\ pc[Main] = "sealed" /\ Main \notin parked
    /\ opening \cup blocked # {}
    /\ parked' = parked \cup {Main}
    /\ UNCHANGED <<pm, dep, thread, ctx, dir>>

TakeAll ==
    /\ pc[Main] = "sealed" /\ Main \notin parked
    /\ opening \cup blocked = {}
    /\ toClose' = [toClose EXCEPT ![Main] = {open[n] : n \in Names} \ {NoDep}]
    /\ open' = [n \in Names |-> NoDep]
    /\ Goto(Main, "draining")
    /\ UNCHANGED <<blocked, opening, closed, dep, call, mine, parked, ctx, dir>>

AllClosed ==
    /\ pc[Main] = "draining" /\ toClose[Main] = {}
    /\ Goto(Main, "closed")
    /\ UNCHANGED <<pm, dep, call, mine, toClose, parked, ctx, dir>>

CloseAll == Seal \/ ParkMain \/ TakeAll \/ AllClosed

-----------------------------------------------------------------------------
(* What a goroutine does by itself once it was called.                     *)
Opening(t) == \/ Borrow(t) \/ StartOpening(t) \/ Load(t) \/ LoadFails(t)
              \/ Publish(t) \/ Discard(t) \/ CloseDiscarded(t) \/ EndOpening(t)

Locking(t) == \/ Claim(t) \/ Locked(t) \/ Unlock(t)
              \/ RemoveDir(t) \/ MakeDir(t) \/ CopyDir(t)

Closing(p) == \E d \in Deps : MarkClosing(p, d) \/ CloseDrained(p, d)

Progress(t) == \/ GiveUp(t) \/ Park(t) \/ Wake(t) \/ Release(t)
               \/ Opening(t) \/ Locking(t) \/ Closing(t)

Next == \/ \E t \in Threads : \/ Progress(t) \/ Cancel(t)
                              \/ \E c \in Call : Begin(t, c)
                              \/ \E n \in Names : FindBook(t, n)
        \/ Closing(Main) \/ CloseAll
        \/ \E n \in Names : CreateDir(n)

Spec == Init /\ [][Next]_vars

(* Every goroutine that can go on does, and every request ends: Shutdown   *)
(* force-closes the connections before CloseAll runs.                      *)
Fairness == /\ \A t \in Threads : WF_vars(Progress(t))
            /\ WF_vars(Closing(Main) \/ ParkMain \/ TakeAll \/ AllClosed)

FairSpec == Spec /\ Fairness

-----------------------------------------------------------------------------
(* A directory's database is open once at most, also while one profile is  *)
(* still being drained or discarded and the next is opened (Get).          *)
OneHandlePerName == \A n \in Names : Cardinality(Live(n)) <= 1

(* What a request has borrowed stays open until it gives it back           *)
(* (markClosingAndWait).                                                   *)
BorrowedIsOpen == \A t \in Threads : pc[t] = "using" => dep[mine[t]].live

(* Nobody sleeps through its wake-up: whoever is parked on cond has        *)
(* something to wait for, or a broadcast is on its way.                    *)
NoLostWakeup ==
    /\ \A t \in parked \ {Main} : ~closed /\ (Busy(t) \/ t \in waking)
                                  /\ (t \in canceled => t \in waking)
    /\ Main \in parked => opening \cup blocked # {}

(* A directory is made, filled or removed only while no handle to it is    *)
(* open, so a clone copies a database nobody writes (closeProfile).        *)
DirChangesUnopened ==
    [][\A n \in Names : dir'[n] # dir[n] => Live(n) = {}]_vars

(* Only deleting a profile takes a complete directory away: a clone that   *)
(* fails removes what it made itself (CloneProfile).                       *)
CloneKeepsOthers ==
    [][\A n \in Names : dir[n] = "whole" /\ dir'[n] # "whole" =>
          \E t \in Threads : Holding(t) /\ call[t] = [kind |-> "delete", src |-> n, dst |-> n]]_vars

(* To its callers the manager is a reader-writer lock per profile, taken   *)
(* for several names at once, that CloseAll shuts for good.                *)
Access == INSTANCE ProfileAccess WITH
    users   <- [n \in Names |-> {t \in Threads : pc[t] = "using" /\ call[t].src = n}],
    holders <- [n \in Names |-> {t \in Threads : Holding(t) /\ n \in Held(t)}],
    sealed  <- closed,
    ended   <- pc[Main] = "closed"

ImplementsAccess == Access!Spec

(* CloseAll returns: openings, exclusive operations and borrowed profiles  *)
(* that it found under way all end, and each one wakes it.                 *)
ShutdownEnds == closed ~> pc[Main] = "closed"
=============================================================================
