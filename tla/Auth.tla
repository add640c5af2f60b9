-------------------------------- MODULE Auth --------------------------------
(***************************************************************************)
(* Sessions, profile records and profile directories (internal/api/auth.go *)
(* over storage/sessions.go and storage/profiles.go).  Three stores tell   *)
(* what a profile is: its row in profiles.db, the directory that bears its *)
(* name, and the sessions that let requests into it, in memory and, for    *)
(* "remember me", in a table whose rows go with the profile's.  A name can *)
(* be deleted and taken again; each profile that ever had a name gets a    *)
(* number, its incarnation, so that the model can tell them apart.         *)
(*                                                                         *)
(* profileOps admits one login, creation, clone or deletion at a time: who *)
(* holds it follows from pc.  Ordinary requests take no part in it.        *)
(* writeMu makes each change of a session one step: a crash between memory *)
(* and table is the branch in which the table was not written.  Time is    *)
(* Expire and the choice whether a verification still counts.  PINs,       *)
(* cookies and the throttle decide only whether a login or deletion goes   *)
(* on; here it may or may not.  ProfileManager's locks appear as the       *)
(* guards Borrowed.                                                        *)
(***************************************************************************)
EXTENDS Naturals, FiniteSets

CONSTANTS
    Names,   \* profile names
    NoName,  \* no profile
    Tokens,  \* bound: sessions ever issued
    NoToken, \* a request's token before it has one
    Threads, \* requests at work
    MaxBorn  \* bound: incarnations of a name

ASSUME NamesAssumption == NoName \notin Names
ASSUME TokensAssumption == NoToken \notin Tokens
ASSUME MaxBornAssumption == MaxBorn \in Nat

VARIABLES
    record,   \* the profiles table: incarnation of a name, 0 without a row
    dir,      \* incarnation whose library the directory holds, 0 without one
    born,     \* incarnations of each name so far
    mem,      \* sessionStore.data: the live sessions
    verified, \* those whose profile was found since the start
    rows,     \* the sessions table
    issued,   \* history: the profile and incarnation of each token
    out,      \* history: tokens whose end was reported as done
    mishaps,  \* history: what failed or crashed half-way
    pc, tok, name, src   \* per request: place, token, profile, clone's source

stores   == <<record, dir, born>>
sessions == <<mem, verified, rows, issued, out>>
locals   == <<pc, tok, name, src>>
vars     == <<stores, sessions, mishaps, locals>>

-----------------------------------------------------------------------------
Unissued == [name |-> NoName, born |-> 0]

TokensOf(n) == {k \in Tokens : issued[k].name = n}

(* ON DELETE CASCADE.                                                      *)
Cascade(n) == rows' = rows \ TokensOf(n)

Gated == {"login", "creating", "making", "undoing", "deleting", "draining", "emptying"}

GateFree == \A t \in Threads : pc[t] \notin Gated

(* What lockProfiles waits for, and what Get waits for.                    *)
Borrowed(n) == \E t \in Threads : name[t] = n /\ pc[t] \in {"pinned", "serving"}
Locked(n)   == \E t \in Threads : name[t] = n /\ pc[t] = "emptying"

Goes(t, to) == pc' = [pc EXCEPT ![t] = to]

Ends(t) ==
    /\ pc' = [pc EXCEPT ![t] = "idle"]
    /\ tok' = [tok EXCEPT ![t] = NoToken]
    /\ name' = [name EXCEPT ![t] = NoName]
    /\ src' = [src EXCEPT ![t] = NoName]

Starts(t, to, k, n, from) ==
    /\ pc[t] = "idle"
    /\ pc' = [pc EXCEPT ![t] = to]
    /\ tok' = [tok EXCEPT ![t] = k]
    /\ name' = [name EXCEPT ![t] = n]
    /\ src' = [src EXCEPT ![t] = from]

Init ==
    /\ record = [n \in Names |-> 0]
    /\ dir = [n \in Names |-> 0]
    /\ born = [n \in Names |-> 0]
    /\ mem = {} /\ verified = {} /\ rows = {} /\ out = {} /\ mishaps = {}
    /\ issued = [k \in Tokens |-> Unissued]
    /\ pc = [t \in Threads |-> "idle"]
    /\ tok = [t \in Threads |-> NoToken]
    /\ name = [t \in Threads |-> NoName]
    /\ src = [t \in Threads |-> NoName]

-----------------------------------------------------------------------------
(* loginHandler: the record is read, and the PIN compared, under the gate. *)
LoginLooksUp(t, n) ==
    /\ GateFree /\ record[n] # 0
    /\ Starts(t, "login", NoToken, n, NoName)
    /\ UNCHANGED <<stores, sessions, mishaps>>

(* sessionStore.create; only "remember me" is stored, and need not be.     *)
LoginIssues(t, k) ==
    LET n == name[t] IN
    /\ pc[t] = "login" /\ issued[k] = Unissued
    /\ issued' = [issued EXCEPT ![k] = [name |-> n, born |-> born[n]]]
    /\ mem' = mem \cup {k}
    /\ \/ rows' = rows
       \/ record[n] # 0 /\ rows' = rows \cup {k}
    /\ Ends(t)
    /\ UNCHANGED <<stores, verified, out, mishaps>>

LoginFails(t) ==
    /\ pc[t] = "login"
    /\ Ends(t)
    /\ UNCHANGED <<stores, sessions, mishaps>>

(* logoutHandler; a failure is reported and the cookie kept.               *)
Logout(k) ==
    /\ issued[k] # Unissued
    /\ mem' = mem \ {k}
    /\ \/ rows' = rows \ {k} /\ out' = out \cup {k}
       \/ UNCHANGED <<rows, out>>
    /\ UNCHANGED <<stores, verified, issued, mishaps, locals>>

(* A session's time is over: get, markProfileVerified, sweep and restore   *)
(* all treat it as gone, whether or not it was removed yet.                *)
Expire(k) ==
    /\ k \in mem \cup rows
    /\ mem' = mem \ {k} /\ rows' = rows \ {k}
    /\ UNCHANGED <<stores, verified, issued, out, mishaps, locals>>

-----------------------------------------------------------------------------
(* An ordinary request: validateSession, then authMiddleware.              *)

RequestBegins(t, k) ==
    /\ k \in mem
    /\ \/ k \in verified /\ Starts(t, "opening", k, issued[k].name, NoName)
       \/ Starts(t, "checking", k, issued[k].name, NoName)
    /\ UNCHANGED <<stores, sessions, mishaps>>

(* The lookup outlives what others do to the session meanwhile.            *)
RequestChecks(t) ==
    /\ pc[t] = "checking" /\ record[name[t]] # 0
    /\ Goes(t, "found")
    /\ UNCHANGED <<stores, sessions, mishaps, tok, name, src>>

RequestOrphaned(t) ==
    /\ pc[t] = "checking" /\ record[name[t]] = 0
    /\ mem' = mem \ {tok[t]}
    /\ rows' \in {rows, rows \ {tok[t]}}
    /\ Ends(t)
    /\ UNCHANGED <<stores, verified, issued, out, mishaps>>

(* Faulty RequestMarks: writes back the session it has copied.             *)
RequestMarksCopy(t) ==
    /\ pc[t] = "found"
    /\ mem' = mem \cup {tok[t]}
    /\ verified' = verified \cup {tok[t]} /\ Goes(t, "opening")
    /\ UNCHANGED <<stores, rows, issued, out, mishaps, tok, name, src>>

(* markProfileVerified: the session must still be there.                   *)
RequestMarks(t) ==
    /\ pc[t] = "found" /\ tok[t] \in mem
    /\ verified' = verified \cup {tok[t]} /\ Goes(t, "opening")
    /\ UNCHANGED <<stores, mem, rows, issued, out, mishaps, tok, name, src>>

RequestOpens(t) ==
    /\ pc[t] = "opening" /\ ~Locked(name[t]) /\ dir[name[t]] # 0
    /\ Goes(t, "pinned")
    /\ UNCHANGED <<stores, sessions, mishaps, tok, name, src>>

(* Faulty RequestServed: trusts what it knew before it waited for Get.     *)
RequestServedUnasked(t) ==
    /\ pc[t] = "pinned"
    /\ Goes(t, "serving")
    /\ UNCHANGED <<stores, sessions, mishaps, tok, name, src>>

(* Get may have waited: the session is looked up once more.                *)
RequestServed(t) ==
    /\ pc[t] = "pinned" /\ tok[t] \in mem
    /\ Goes(t, "serving")
    /\ UNCHANGED <<stores, sessions, mishaps, tok, name, src>>

(* Answered, refused, canceled while it waits, or failed.                  *)
RequestEnds(t) ==
    /\ pc[t] \in {"checking", "found", "opening", "pinned", "serving"}
    /\ Ends(t)
    /\ UNCHANGED <<stores, sessions, mishaps>>

-----------------------------------------------------------------------------
(* createProfileHandler and cloneProfileHandler.                           *)

(* requireAuthenticatedSession under the gate, in one step: its refusals   *)
(* do what RequestOrphaned does.                                           *)
Validated(k) == k \in mem /\ (record[issued[k].name] # 0 \/ k \in verified)

CreateBegins(t, n) ==
    /\ GateFree /\ born[n] < MaxBorn
    /\ Starts(t, "creating", NoToken, n, NoName)
    /\ UNCHANGED <<stores, sessions, mishaps>>

CloneBegins(t, k, n) ==
    /\ GateFree /\ born[n] < MaxBorn
    /\ Validated(k) /\ n # issued[k].name
    /\ Starts(t, "creating", k, n, issued[k].name)
    /\ verified' = verified \cup {k}
    /\ UNCHANGED <<stores, mem, rows, issued, out, mishaps>>

InsertRecord(t) ==
    LET n == name[t] IN
    /\ pc[t] = "creating" /\ record[n] = 0
    /\ born' = [born EXCEPT ![n] = @ + 1]
    /\ record' = [record EXCEPT ![n] = born[n] + 1]
    /\ \/ Goes(t, "making") /\ UNCHANGED <<tok, name, src, mishaps>>
       \/ Ends(t) /\ mishaps' = mishaps \cup {<<"ghost", n>>}  \* done but failed
    /\ UNCHANGED <<dir, sessions>>

(* The name is taken, or the database fails.                               *)
InsertFails(t) ==
    /\ pc[t] = "creating"
    /\ Ends(t)
    /\ UNCHANGED <<stores, sessions, mishaps>>

(* os.Mkdir, or CloneProfile with both names locked; neither adopts a      *)
(* directory that is there.                                                *)
MakeDir(t) ==
    LET n == name[t] IN
    /\ pc[t] = "making" /\ dir[n] = 0
    /\ src[t] # NoName => ~Borrowed(src[t]) /\ dir[src[t]] # 0
    /\ dir' = [dir EXCEPT ![n] = born[n]]
    /\ Ends(t)
    /\ UNCHANGED <<record, born, sessions, mishaps>>

(* The directory is there, or anything else goes wrong.                    *)
MakeDirFails(t) ==
    /\ pc[t] = "making"
    /\ Goes(t, "undoing")
    /\ UNCHANGED <<stores, sessions, mishaps, tok, name, src>>

Undo(t) ==
    LET n == name[t] IN
    /\ pc[t] = "undoing"
    /\ \/ record' = [record EXCEPT ![n] = 0] /\ Cascade(n) /\ UNCHANGED mishaps
       \/ mishaps' = mishaps \cup {<<"ghost", n>>} /\ UNCHANGED <<record, rows>>
    /\ Ends(t)
    /\ UNCHANGED <<dir, born, mem, verified, issued, out>>

-----------------------------------------------------------------------------
(* deleteProfileHandler.                                                   *)

DeleteBegins(t, k) ==
    /\ GateFree /\ Validated(k)
    /\ Starts(t, "deleting", k, issued[k].name, NoName)
    /\ verified' = verified \cup {k}
    /\ UNCHANGED <<stores, mem, rows, issued, out, mishaps>>

(* deleteAllForProfile; without a record that is all.                      *)
DeleteSessions(t) ==
    LET n == name[t] IN
    /\ pc[t] = "deleting"
    /\ mem' = mem \ TokensOf(n)
    /\ rows' \in {rows, rows \ TokensOf(n)}
    /\ IF record[n] # 0 THEN Goes(t, "draining") /\ UNCHANGED <<tok, name, src>> ELSE Ends(t)
    /\ UNCHANGED <<stores, verified, issued, out, mishaps>>

(* With the profile locked: nobody borrows it.                             *)
DeleteRecord(t) ==
    LET n == name[t] IN
    /\ pc[t] = "draining" /\ ~Borrowed(n)
    /\ record' = [record EXCEPT ![n] = 0]
    /\ Cascade(n)
    /\ \/ Goes(t, "emptying") /\ UNCHANGED <<tok, name, src, mishaps>>
       \/ Ends(t) /\ mishaps' = mishaps \cup {<<"orphan", n>>}  \* done but failed
    /\ UNCHANGED <<dir, born, mem, verified, issued, out>>

(* Faulty DeleteFails: the directory goes although the record stayed.      *)
DeleteFailsEmptied(t) ==
    /\ pc[t] \in {"deleting", "draining"}
    /\ dir' = [dir EXCEPT ![name[t]] = 0]
    /\ Ends(t)
    /\ UNCHANGED <<record, born, sessions, mishaps>>

(* A wrong PIN, a lock that is not had in time, a record that stays.       *)
DeleteFails(t) ==
    /\ pc[t] \in {"deleting", "draining"}
    /\ Ends(t)
    /\ UNCHANGED <<stores, sessions, mishaps>>

(* The answer is the same when RemoveAll fails.                            *)
RemoveDir(t) ==
    LET n == name[t] IN
    /\ pc[t] = "emptying"
    /\ \/ dir' = [dir EXCEPT ![n] = 0] /\ UNCHANGED mishaps
       \/ mishaps' = mishaps \cup {<<"orphan", n>>} /\ UNCHANGED dir
    /\ out' = out \cup TokensOf(n)
    /\ Ends(t)
    /\ UNCHANGED <<record, born, mem, verified, rows, issued>>

-----------------------------------------------------------------------------
(* A crash or an ordered restart; restore fills memory from the table.     *)
Restart ==
    /\ mem' = rows /\ verified' = {}
    /\ mishaps' = mishaps
          \cup {<<"ghost", name[t]>> : t \in {u \in Threads : pc[u] \in {"making", "undoing"}}}
          \cup {<<"orphan", name[t]>> : t \in {u \in Threads : pc[u] = "emptying"}}
    /\ pc' = [t \in Threads |-> "idle"]
    /\ tok' = [t \in Threads |-> NoToken]
    /\ name' = [t \in Threads |-> NoName]
    /\ src' = [t \in Threads |-> NoName]
    /\ UNCHANGED <<stores, rows, issued, out>>

(* Somebody else deletes a row of profiles.db.                             *)
DeletedOutside(n) ==
    /\ record[n] # 0
    /\ record' = [record EXCEPT ![n] = 0]
    /\ Cascade(n)
    /\ mishaps' = mishaps \cup {<<"ghost", n>>}
    /\ UNCHANGED <<dir, born, mem, verified, issued, out, locals>>

Login(t)   == LoginFails(t) \/ \E n \in Names : LoginLooksUp(t, n)
                            \/ \E k \in Tokens : LoginIssues(t, k)
Request(t) == RequestChecks(t) \/ RequestOrphaned(t) \/ RequestMarks(t) \/ RequestOpens(t)
              \/ RequestServed(t) \/ RequestEnds(t) \/ \E k \in Tokens : RequestBegins(t, k)
Create(t)  == \/ \E n \in Names : CreateBegins(t, n) \/ \E k \in Tokens : CloneBegins(t, k, n)
              \/ InsertRecord(t) \/ InsertFails(t) \/ MakeDir(t) \/ MakeDirFails(t) \/ Undo(t)
Delete(t)  == \/ \E k \in Tokens : DeleteBegins(t, k)
              \/ DeleteSessions(t) \/ DeleteRecord(t) \/ DeleteFails(t) \/ RemoveDir(t)

Next == \/ \E t \in Threads : Login(t) \/ Request(t) \/ Create(t) \/ Delete(t)
        \/ \E k \in Tokens : Logout(k) \/ Expire(k)
        \/ \E n \in Names : DeletedOutside(n)
        \/ Restart

Spec == Init /\ [][Next]_vars

-----------------------------------------------------------------------------
(* One holder of profileOps; a row of sessions has its parent row.         *)
TypeOK ==
    /\ record \in [Names -> Nat] /\ dir \in [Names -> Nat] /\ born \in [Names -> Nat]
    /\ \A n \in Names : record[n] \in {0, born[n]} /\ dir[n] \in 0..born[n]
    /\ mem \subseteq Tokens /\ verified \subseteq Tokens /\ rows \subseteq Tokens
    /\ out \subseteq Tokens /\ mishaps \subseteq {"ghost", "orphan"} \X Names
    /\ issued \in [Tokens -> [name : Names \cup {NoName}, born : Nat]]
    /\ pc \in [Threads -> Gated \cup {"idle", "checking", "found", "opening", "pinned",
                                      "serving"}]
    /\ tok \in [Threads -> Tokens \cup {NoToken}]
    /\ name \in [Threads -> Names \cup {NoName}] /\ src \in [Threads -> Names \cup {NoName}]
    /\ \A t, u \in Threads : pc[t] \in Gated /\ pc[u] \in Gated => t = u
    /\ \A k \in rows : record[issued[k].name] # 0

(* A session, remembered or not, belongs to the profile that has its name  *)
(* now: whoever takes a deleted name is not met by the old one's sessions  *)
(* (sessionStore.profileOps, the cascade).                                 *)
SessionsNameTheirProfile ==
    \A k \in mem \cup rows :
        LET n == issued[k].name IN
        record[n] = issued[k].born \/ <<"ghost", n>> \in mishaps

(* A request is served from the library of the profile that its session    *)
(* was issued for, however long it waited and whatever was deleted and     *)
(* made again meanwhile, unless a record was left to an old directory.     *)
ServedFromOwnLibrary ==
    \A t \in Threads : pc[t] = "serving" =>
        \/ dir[name[t]] = issued[tok[t]].born
        \/ <<"ghost", name[t]>> \in mishaps

(* A session whose end was reported, by a logout or with its profile,      *)
(* stays ended: no request in flight, failed write or restart revives it.  *)
EndedStaysEnded == out \cap (mem \cup rows) = {}

(* When no operation is under way a name has both a record and the         *)
(* directory made for it, or neither, whichever step of creating, cloning  *)
(* and deleting failed; the failures the handlers can only log excepted.   *)
RecordsMatchDirs ==
    \A n \in Names :
        \/ record[n] = dir[n]
        \/ \E t \in Threads : pc[t] \in Gated /\ name[t] = n
        \/ <<"ghost", n>> \in mishaps \/ <<"orphan", n>> \in mishaps
=============================================================================
