--------------------------- MODULE SettingsSync ---------------------------
(* The settings store of the tab (lib/settings.ts) against each profile's  *)
(* row on the server: values are edited at once, parked while the first    *)
(* load is under way, saved whole half a second after the last edit, and   *)
(* rolled back when the server rejects them.  App.tsx:117-125 activates    *)
(* the store for each profile that signs in.                               *)
(*                                                                         *)
(* An aborted PUT may still be written, but not after a later request was  *)
(* served: the connection it came on is closed before that one is sent.    *)
EXTENDS Naturals, FiniteSets, Sequences

CONSTANTS
    Users,         \* profiles that sign in on this tab
    SettingFields, \* settings fields
    FieldValues,   \* values of a field, 0 its default
    Refused,       \* the values that validateSettings rejects
    MaxUserActs    \* bound: edits, and activations for another profile or none

ASSUME SettingsAssumption ==
    /\ "none" \notin Users /\ "defaults" \notin Users
    /\ 0 \in FieldValues /\ Refused \subseteq FieldValues \ {0}
    /\ MaxUserActs \in Nat

VARIABLES
    row,    \* the settings of each profile on the server
    store,  \* the Settings object
    loads,  \* GETs in flight, oldest first
    saves,  \* PUTs in flight, oldest first
    bounds, \* edits and sign-ins so far
    wanted, \* history: the user's last edit of each field
    told,   \* history: a toast reported a failed save since the last edit
    missed  \* history: a load that an edit waited for failed

settingsVars == <<row, store, loads, saves, bounds, wanted, told, missed>>

Objects == [SettingFields -> FieldValues]
Defaults == [f \in SettingFields |-> 0]
Untouched == [f \in SettingFields |-> {}]   \* in wanted and dirty: {v} for an edit to v

(* from: whose row the values come from.  current: the save controller, as *)
(* the revision and attempt it belongs to.                                 *)
FreshStore == [profile |-> "none", signedOut |-> FALSE, loaded |-> FALSE,
               values |-> Defaults, from |-> "defaults", lastSaved |-> Defaults,
               dirty |-> Untouched, generation |-> 0, revision |-> 0,
               timer |-> FALSE, attempt |-> 0, current |-> 0]

Over(changed, base) == [f \in SettingFields |-> IF changed[f] = {} THEN base[f] ELSE CHOOSE v \in changed[f] : TRUE]
Valid(v) == \A f \in SettingFields : v[f] \notin Refused

LoadPending(s) == \E i \in DOMAIN loads : loads[i].generation = s.generation

(***************************************************************************)
(* The store, as functions from a store to a store                         *)
(***************************************************************************)

Reset(s) ==
    [s EXCEPT !.loaded = FALSE, !.generation = @ + 1, !.revision = @ + 1,
              !.timer = FALSE, !.current = 0, !.dirty = Untouched,
              !.values = Defaults, !.from = "defaults", !.lastSaved = Defaults]

(* load() starts a GET unless one is under way or nothing is left to load. *)
StartsLoad(s) == ~s.signedOut /\ ~s.loaded /\ ~LoadPending(s)

NewLoad(s, waits) ==
    [by |-> s.profile, generation |-> s.generation, aborted |-> FALSE,
     waits |-> waits, served |-> FALSE, got |-> Defaults]

(* Faulty MayPublish: whichever profile asked.                             *)
MayPublishAlways(s, l) == TRUE

(* A GET publishes only for the generation that asked for it.              *)
MayPublish(s, l) == ~l.aborted /\ l.generation = s.generation

(* Faulty PublishSettings: parked edits are lost.                          *)
PublishSettingsAlone(s, l) ==
    [s EXCEPT !.lastSaved = l.got, !.values = l.got, !.from = l.by, !.dirty = Untouched,
              !.revision = @ + 1, !.loaded = TRUE, !.timer = s.timer \/ l.waits]

PublishSettings(s, l) ==
    [s EXCEPT !.lastSaved = l.got, !.values = Over(s.dirty, l.got), !.from = l.by,
              !.dirty = Untouched, !.revision = @ + 1, !.loaded = TRUE,
              !.timer = s.timer \/ l.waits]

Update(s, f, v) ==
    LET t == [s EXCEPT !.values[f] = v, !.revision = @ + 1]
    IN  IF s.signedOut THEN t
        ELSE IF ~s.loaded THEN [t EXCEPT !.dirty[f] = {v}]
        ELSE [t EXCEPT !.timer = TRUE]

Rollback(s) == [s EXCEPT !.values = s.lastSaved, !.revision = @ + 1]

Aborted(q) == [i \in DOMAIN q |-> [q[i] EXCEPT !.aborted = TRUE]]
Drop(q, i) == SubSeq(q, 1, i - 1) \o SubSeq(q, i + 1, Len(q))

(***************************************************************************)
(* Actions                                                                 *)
(***************************************************************************)

SettingsInit ==
    /\ row \in [Users -> {Defaults}]
    /\ store = FreshStore
    /\ loads = <<>> /\ saves = <<>>
    /\ bounds = 0
    /\ wanted = Untouched
    /\ told = FALSE /\ missed = FALSE

(* A profile signs in, or out.                                             *)
Activate(p) ==
    /\ bounds < MaxUserActs
    /\ p # store.profile
    /\ LET s == Reset([store EXCEPT !.profile = p, !.signedOut = (p = "none")])
       IN  /\ store' = s
           /\ loads' = Aborted(loads) \o (IF p = "none" THEN <<>> ELSE <<NewLoad(s, FALSE)>>)
    /\ saves' = Aborted(saves)
    /\ bounds' = bounds + 1
    /\ wanted' = Untouched /\ told' = FALSE /\ missed' = FALSE
    /\ UNCHANGED row

(* A route mounts and activates the profile again: a failed load retries.  *)
Reactivate ==
    /\ store.profile # "none"
    /\ StartsLoad(store)
    /\ loads' = Append(loads, NewLoad(store, FALSE))
    /\ UNCHANGED <<row, store, saves, bounds, wanted, told, missed>>

(* update(): a parked edit also waits for the load, which it may start.    *)
Edit(f, v) ==
    /\ bounds < MaxUserActs
    /\ store.profile # "none"
    /\ store' = Update(store, f, v)
    /\ loads' = IF store.loaded THEN loads
                ELSE IF StartsLoad(store) THEN Append(loads, NewLoad(store, TRUE))
                ELSE [i \in DOMAIN loads |-> [loads[i] EXCEPT
                        !.waits = @ \/ loads[i].generation = store.generation]]
    /\ bounds' = bounds + 1
    /\ wanted' = [wanted EXCEPT ![f] = {v}]
    /\ told' = FALSE /\ missed' = FALSE
    /\ UNCHANGED <<row, saves>>

Cancelled(s) == IF s.aborted /\ s.answer = "none" THEN [s EXCEPT !.answer = "cancelled"] ELSE s

ServeLoad(i) ==
    /\ ~loads[i].served
    /\ loads' = [loads EXCEPT ![i].served = TRUE, ![i].got = row[loads[i].by]]
    /\ saves' = [j \in DOMAIN saves |-> Cancelled(saves[j])]
    /\ UNCHANGED <<row, store, bounds, wanted, told, missed>>

(* The edit that waited schedules a save of whatever is loaded by then.    *)
EndLoad(i) ==
    /\ loads' = Drop(loads, i)
    /\ \/ /\ loads[i].served
          /\ MayPublish(store, loads[i])
          /\ store' = PublishSettings(store, loads[i])
          /\ UNCHANGED missed
       \/ /\ ~MayPublish(store, loads[i]) \/ ~loads[i].served     \* aborted, or failed
          /\ missed' = (missed \/ (loads[i].waits /\ ~loads[i].aborted))
          /\ store' = [store EXCEPT !.timer = @ \/ (loads[i].waits /\ store.loaded)]
    /\ UNCHANGED <<row, saves, bounds, wanted, told>>

(* #saveNow, from the timer or from pagehide: the older PUT is aborted.    *)
SaveNow ==
    /\ store.timer
    /\ store' = [store EXCEPT !.timer = FALSE, !.attempt = @ + 1, !.current = store.attempt + 1]
    /\ saves' = Append(Aborted(saves),
                  [by |-> store.profile, from |-> store.from, payload |-> store.values,
                   revision |-> store.revision, attempt |-> store.attempt + 1,
                   aborted |-> FALSE, answer |-> "none"])
    /\ UNCHANGED <<row, loads, bounds, wanted, told, missed>>

(* putSettings: nothing is written of a payload that validation rejects.   *)
SaveAnswered(i, a) == [j \in DOMAIN saves |->
    IF j = i THEN [saves[j] EXCEPT !.answer = a]
    ELSE IF j < i THEN Cancelled(saves[j])
    ELSE saves[j]]

ServeSave(i) ==
    /\ saves[i].answer = "none"
    /\ \/ /\ Valid(saves[i].payload)
          /\ row' = [row EXCEPT ![saves[i].by] = saves[i].payload]
          /\ \E a \in {"ok", "lost"} : saves' = SaveAnswered(i, a)
       \/ /\ row' = row
          /\ saves' = SaveAnswered(i, IF Valid(saves[i].payload) THEN "failed" ELSE "rejected")
    /\ UNCHANGED <<store, loads, bounds, wanted, told, missed>>

(* An aborted PUT ends without a word; its answer may have been on its way.*)
EndAbortedSave(i) ==
    /\ saves[i].aborted
    /\ saves' = Drop(saves, i)
    /\ UNCHANGED <<row, store, loads, bounds, wanted, told, missed>>

StillOwner(s, save) == s.current = save.attempt
SaveSettled(s, save) == IF StillOwner(s, save) THEN [s EXCEPT !.current = 0] ELSE s

SaveAccepted(i) ==
    /\ ~saves[i].aborted /\ saves[i].answer = "ok"
    /\ store' = SaveSettled(IF StillOwner(store, saves[i])
                        THEN [store EXCEPT !.lastSaved = saves[i].payload] ELSE store, saves[i])
    /\ saves' = Drop(saves, i)
    /\ UNCHANGED <<row, loads, bounds, wanted, told, missed>>

(* Only the latest save, with no edit since, rolls back or shows a toast.  *)
TellsTheFailure(s, save) == StillOwner(s, save) /\ s.revision = save.revision

SaveFailed(i) ==
    /\ ~saves[i].aborted /\ saves[i].answer \in {"rejected", "failed", "lost"}
    /\ LET speaks == TellsTheFailure(store, saves[i])
           undone == speaks /\ saves[i].answer = "rejected"
       IN  /\ store' = SaveSettled(IF undone THEN Rollback(store) ELSE store, saves[i])
           /\ told' = (told \/ speaks)
           /\ wanted' = IF undone THEN Untouched ELSE wanted
    /\ saves' = Drop(saves, i)
    /\ UNCHANGED <<row, loads, bounds, missed>>

SettingsNext ==
    \/ \E p \in Users \cup {"none"} : Activate(p)
    \/ Reactivate
    \/ \E f \in SettingFields, v \in FieldValues : Edit(f, v)
    \/ \E i \in DOMAIN loads : ServeLoad(i) \/ EndLoad(i)
    \/ SaveNow
    \/ \E i \in DOMAIN saves : ServeSave(i) \/ EndAbortedSave(i) \/ SaveAccepted(i) \/ SaveFailed(i)

SettingsSpec == SettingsInit /\ [][SettingsNext]_settingsVars

(***************************************************************************)
(* Properties                                                              *)
(***************************************************************************)

(* No PUT carries another profile's values, or the built-in defaults over  *)
(* values that were never loaded.                                          *)
SavesOwnSettings == \A i \in DOMAIN saves : saves[i].from = saves[i].by

Quiet == store.loaded /\ ~store.timer /\ store.current = 0

Kept == /\ row[store.profile] = store.values
        /\ Over(wanted, store.values) = store.values

(* When nothing is under way, the server's row is what the tab shows and   *)
(* holds every last edit, the ones made during a load included, unless a   *)
(* toast has told the user otherwise since, or the load failed.            *)
SavedOrTold == Quiet /\ ~told /\ ~missed => Kept

(* settings.ts:424-426: "after a FAILED load the edit stays in             *)
(* #dirtyDuringLoad until a retry (activate, route remount, next edit)     *)
(* succeeds and re-applies and saves it".  A retry by activate() saves     *)
(* nothing.                                                                *)
RetrySavesParkedEdit == Quiet /\ ~told => Kept
=============================================================================
