---------------------------- MODULE LoginScreen ----------------------------
(***************************************************************************)
(* The screen before anyone is signed in (routes/Login.tsx): the picker,   *)
(* the PIN form, the form that creates a profile, and one box that keeps a *)
(* sign-in for 30 days, against a list that other devices change and       *)
(* answers that are lost.  A press is answered in one step up to the next  *)
(* await.  Names and PINs of a wrong form are refused before they are      *)
(* sent.  The branch of a sign-in for not_found is left out: the server    *)
(* answers a name it does not have like a wrong PIN (loginHandler).        *)
(***************************************************************************)
EXTENDS Naturals, Sequences, FiniteSets, SequencesExt

CONSTANTS
    People,    \* names of profiles
    MaxPresses \* bound: presses, and changes by other devices

(* A list asked for on nobody's behalf; a name is never blank.             *)
NoName == ""

ASSUME LoginAssumption == /\ MaxPresses \in Nat
                          /\ IsFiniteSet(People) /\ NoName \notin People

VARIABLES
    roster,     \* the server's profiles
    straggling, \* creations whose sender has given up, still to be served
    screen,     \* the screen, see NoScreen
    created,    \* history: profiles this screen has created, answered so, and still there
    ticked,     \* history: the form the box was ticked on
    presses     \* bounded steps taken

loginVars == <<roster, straggling, screen, created, ticked, presses>>

-----------------------------------------------------------------------------
Profiles == [name : People, hasPin : BOOLEAN]
NobodyPicked == [name |-> NoName, hasPin |-> FALSE]
NoErrand == [does |-> "nothing", as |-> NobodyPicked, right |-> FALSE, keep |-> FALSE, got |-> "nothing"]

NoScreen == [up |-> FALSE, list |-> <<>>, loading |-> FALSE, failed |-> FALSE,
             mode |-> "pick", selected |-> NobodyPicked, busy |-> FALSE,
             inFlight |-> FALSE, remember |-> FALSE, loadGen |-> 0,
             loads |-> {}, errand |-> NoErrand]

Called(profiles, n) == {p \in profiles : p.name = n}

LoginInit ==
    /\ roster \in {r \in SUBSET Profiles : \A p, q \in r : p.name = q.name => p = q}
    /\ screen = NoScreen
    /\ straggling = {} /\ created = {} /\ ticked = NoName /\ presses = 0

Pressed == presses < MaxPresses /\ presses' = presses + 1

(* What the Switch puts on the screen.                                     *)
Shown ==
    CASE screen.loading -> "skeleton"
      [] ~screen.loading /\ screen.failed /\ screen.mode = "pick" -> "failed"
      [] ~screen.loading /\ ~screen.failed /\ screen.mode = "pick"
            /\ screen.selected = NobodyPicked -> "picker"
      [] ~screen.loading /\ screen.selected # NobodyPicked -> "pin"
      [] OTHER -> "create"

(* The guard every control begins with.                                    *)
Answers == screen.up /\ ~screen.inFlight /\ ~screen.busy

(* loadProfiles up to its await, for the screen or for a failed creation.  *)
LoadProfiles(s, name) ==
    [s EXCEPT !.loadGen = @ + 1, !.loading = TRUE, !.failed = FALSE,
              !.loads = @ \cup {[gen |-> s.loadGen + 1, for |-> name, got |-> "nothing", list |-> <<>>]}]

(* doLogin up to its await.                                                *)
DoLogin(s, p, right) ==
    [s EXCEPT !.inFlight = TRUE, !.busy = TRUE,
              !.errand = [does |-> "login", as |-> p, right |-> right, keep |-> s.remember, got |-> "nothing"]]

-----------------------------------------------------------------------------
(* Presses                                                                 *)

MountLogin ==
    /\ ~screen.up /\ Pressed
    /\ screen' = LoadProfiles([NoScreen EXCEPT !.up = TRUE], NoName)
    /\ created' = {} /\ ticked' = NoName
    /\ UNCHANGED <<roster, straggling>>

Pick ==
    /\ Answers /\ Shown = "picker" /\ Pressed
    /\ \E p \in ToSet(screen.list) :
          screen' = IF p.hasPin THEN [screen EXCEPT !.selected = p] ELSE DoLogin(screen, p, FALSE)
    /\ UNCHANGED <<roster, straggling, created, ticked>>

SubmitPin ==
    /\ Answers /\ Shown = "pin" /\ Pressed
    /\ \E right \in BOOLEAN : screen' = DoLogin(screen, screen.selected, right)
    /\ UNCHANGED <<roster, straggling, created, ticked>>

(* Faulty BackToList: the box stays as it is.                              *)
BackWithTheTick ==
    /\ Answers /\ Shown = "pin"
    /\ screen' = [screen EXCEPT !.selected = NobodyPicked]
    /\ UNCHANGED <<roster, straggling, created, ticked, presses>>

BackToList ==
    /\ Answers /\ Shown = "pin"
    /\ screen' = [screen EXCEPT !.selected = NobodyPicked, !.remember = FALSE]
    /\ UNCHANGED <<roster, straggling, created, ticked, presses>>

OpenCreate ==
    /\ Answers /\ Shown \in {"picker", "failed"} /\ Pressed
    /\ screen' = [screen EXCEPT !.mode = "create"]
    /\ UNCHANGED <<roster, straggling, created, ticked>>

(* Back is there when there is something to go back to.                    *)
LeaveCreate ==
    /\ Answers /\ Shown = "create" /\ (screen.list # <<>> \/ screen.failed)
    /\ screen' = [screen EXCEPT !.mode = "pick", !.remember = FALSE]
    /\ UNCHANGED <<roster, straggling, created, ticked, presses>>

SubmitCreate ==
    /\ screen.up /\ ~screen.inFlight /\ Shown = "create" /\ Pressed
    /\ \E p \in Profiles :
          screen' = [screen EXCEPT !.inFlight = TRUE, !.busy = TRUE,
                        !.errand = [does |-> "create", as |-> p, right |-> TRUE,
                                    keep |-> screen.remember, got |-> "nothing"]]
    /\ UNCHANGED <<roster, straggling, created, ticked>>

TryListAgain ==
    /\ Answers /\ Shown = "failed" /\ Pressed
    /\ screen' = LoadProfiles(screen, NoName)
    /\ UNCHANGED <<roster, straggling, created, ticked>>

(* The box belongs to whatever form is shown with it.                      *)
FormShown == IF Shown = "pin" THEN screen.selected.name ELSE Shown

TickRemember ==
    /\ Answers /\ Shown # "skeleton" /\ Pressed
    /\ screen' = [screen EXCEPT !.remember = ~@]
    /\ ticked' = FormShown
    /\ UNCHANGED <<roster, straggling, created>>

-----------------------------------------------------------------------------
(* The server                                                              *)

ListServed(l) ==
    /\ l.got = "nothing"
    /\ \E got \in {"list", "failed"}, list \in SetToSeqs(roster) :
          screen' = [screen EXCEPT !.loads = (@ \ {l}) \cup
                        {[l EXCEPT !.got = got, !.list = IF got = "list" THEN list ELSE <<>>]}]
    /\ UNCHANGED <<roster, straggling, created, ticked, presses>>

(* A login is refused to a name that is gone as to a wrong PIN.            *)
LoginServed ==
    /\ screen.errand.does \in {"login", "login_new"} /\ screen.errand.got = "nothing"
    /\ \E got \in {"granted", "refused", "failed"} :
          /\ got = "granted" => \E p \in Called(roster, screen.errand.as.name) : p.hasPin => screen.errand.right
          /\ got = "refused" => \A p \in Called(roster, screen.errand.as.name) : p.hasPin /\ ~screen.errand.right
          /\ screen' = [screen EXCEPT !.errand.got = got]
    /\ UNCHANGED <<roster, straggling, created, ticked, presses>>

(* The answer of a creation is lost after its commit or before it.         *)
CreateServed ==
    LET p == screen.errand.as IN
    /\ screen.errand.does = "create" /\ screen.errand.got = "nothing"
    /\ \/ /\ Called(roster, p.name) = {}
          /\ roster' = roster \cup {p}
          /\ \E got \in {"created", "failed"} :
                /\ screen' = [screen EXCEPT !.errand.got = got]
                /\ created' = IF got = "created" THEN created \cup {p.name} ELSE created
          /\ UNCHANGED straggling
       \/ /\ \E got \in {"failed"} \cup (IF Called(roster, p.name) # {} THEN {"name_taken"} ELSE {}) :
                screen' = [screen EXCEPT !.errand.got = got]
          /\ straggling' \in {straggling, straggling \cup {p}}
          /\ UNCHANGED <<roster, created>>
    /\ UNCHANGED <<ticked, presses>>

StragglerCommits ==
    /\ \E p \in straggling :
          /\ straggling' = straggling \ {p}
          /\ roster' = IF Called(roster, p.name) = {} THEN roster \cup {p} ELSE roster
    /\ UNCHANGED <<screen, created, ticked, presses>>

OtherDevice ==
    /\ Pressed
    /\ \/ \E p \in Profiles : Called(roster, p.name) = {} /\ roster' = roster \cup {p} /\ UNCHANGED created
       \/ \E p \in roster : roster' = roster \ {p} /\ created' = created \ {p.name}
    /\ UNCHANGED <<straggling, screen, ticked>>

-----------------------------------------------------------------------------
(* Answers                                                                 *)

(* Only the newest load writes; a creation that waited for one goes on,    *)
(* to the picker if the profile is there after all.                        *)
ListArrives(l) ==
    LET newest == l.gen = screen.loadGen
        taken  == [screen EXCEPT !.loads = @ \ {l},
                       !.inFlight = IF l.for # NoName THEN FALSE ELSE @]
        found  == l.for \in {p.name : p \in ToSet(l.list)}
        listed == [taken EXCEPT !.list = l.list, !.loading = FALSE,
                       !.mode = IF l.list = <<>> THEN "create" ELSE IF found THEN "pick" ELSE @]
    IN  /\ l.got # "nothing"
        /\ screen' = CASE ~newest -> taken
                       [] newest /\ l.got = "list" -> listed
                       [] newest /\ l.got = "failed" -> [taken EXCEPT !.loading = FALSE, !.failed = TRUE]
        /\ ticked' = IF newest /\ found THEN "left_over" ELSE ticked
        /\ UNCHANGED <<roster, straggling, created, presses>>

(* Signed in: the App takes the screen away.                               *)
LoginGranted ==
    /\ screen.errand.got = "granted"
    /\ screen' = NoScreen /\ created' = {}
    /\ UNCHANGED <<roster, straggling, ticked, presses>>

LoginFails ==
    /\ screen.errand.does = "login" /\ screen.errand.got \in {"refused", "failed"}
    /\ screen' = [screen EXCEPT !.busy = FALSE, !.inFlight = FALSE, !.errand = NoErrand]
    /\ UNCHANGED <<roster, straggling, created, ticked, presses>>

(* A creation is committed on its own: the picker is told before the       *)
(* sign-in that follows.                                                   *)
Created ==
    /\ screen.errand.got = "created"
    /\ screen' = [screen EXCEPT !.list = Append(@, screen.errand.as),
                      !.errand.does = "login_new", !.errand.got = "nothing"]
    /\ UNCHANGED <<roster, straggling, created, ticked, presses>>

CreateFails ==
    /\ screen.errand.does = "create" /\ screen.errand.got \in {"name_taken", "failed"}
    /\ screen' = LoadProfiles([screen EXCEPT !.busy = FALSE, !.errand = NoErrand], screen.errand.as.name)
    /\ UNCHANGED <<roster, straggling, created, ticked, presses>>

(* The box is not reset here: its tick is left over from the form.         *)
CreatedNotSignedIn ==
    /\ screen.errand.does = "login_new" /\ screen.errand.got \in {"refused", "failed"}
    /\ screen' = [screen EXCEPT !.mode = "pick", !.selected = NobodyPicked,
                      !.busy = FALSE, !.inFlight = FALSE, !.errand = NoErrand]
    /\ ticked' = "left_over"
    /\ UNCHANGED <<roster, straggling, created, presses>>

(* The session's own probe signs the tab in; nothing the screen waits for  *)
(* writes any more, and a creation under way is aborted.                   *)
DisposeLogin ==
    /\ screen.up
    /\ screen' = NoScreen /\ created' = {}
    /\ straggling' \in {straggling} \cup
          (IF screen.errand.does = "create" THEN {straggling \cup {screen.errand.as}} ELSE {})
    /\ UNCHANGED <<roster, ticked, presses>>

LoginNext ==
    \/ MountLogin \/ Pick \/ SubmitPin \/ BackToList \/ OpenCreate \/ LeaveCreate
    \/ SubmitCreate \/ TryListAgain \/ TickRemember
    \/ LoginServed \/ CreateServed \/ StragglerCommits \/ OtherDevice
    \/ LoginGranted \/ LoginFails \/ Created \/ CreateFails \/ CreatedNotSignedIn
    \/ DisposeLogin
    \/ \E l \in screen.loads : ListServed(l) \/ ListArrives(l)

LoginSpec == LoginInit /\ [][LoginNext]_loginVars

(***************************************************************************)
(* Properties                                                              *)
(***************************************************************************)

(* No answer, lost answer or overtaken load leaves the screen dead: it is  *)
(* busy, or shows the skeleton, only while the one request that will end   *)
(* it is on its way.                                                       *)
ControlsReturn ==
    screen.up =>
        /\ screen.busy => screen.errand # NoErrand
        /\ screen.inFlight => screen.errand # NoErrand \/ \E l \in screen.loads : l.for # NoName
        /\ screen.loading => \E l \in screen.loads : l.gen = screen.loadGen
        /\ screen.errand # NoErrand => screen.inFlight /\ screen.loads = {}

(* A profile this screen has created stays on its picker, to sign in to    *)
(* when the sign-in that followed has failed (submitCreate): no list older *)
(* than the creation takes it away.                                        *)
CreatedIsOffered ==
    screen.errand.got # "created" => created \subseteq {p.name : p \in ToSet(screen.list)}

(* A sign-in is for 30 days only when the box was ticked on the form that  *)
(* sends it or on the picker before it (backToList, leaveCreate), except   *)
(* after a creation that ended on the picker without a sign-in.            *)
TickIsTheForms ==
    screen.errand.does \in {"login", "create"} /\ screen.errand.keep =>
        \/ ticked \in {"picker", "failed", "left_over"}
        \/ ticked = IF screen.errand.does = "create" THEN "create" ELSE screen.errand.as.name

SignsInAsShown == ControlsReturn /\ CreatedIsOffered /\ TickIsTheForms
=============================================================================
