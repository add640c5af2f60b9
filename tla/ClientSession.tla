--------------------------- MODULE ClientSession ---------------------------
(* One browser tab's belief about who is signed in (lib/session.ts), the   *)
(* epoch that ties a 401 to the login that sent the request                *)
(* (lib/sessionGate.ts), the request path that reports both                *)
(* (api/client.ts), reachability and the heartbeat that repairs it         *)
(* (lib/reachability.ts, components/OfflineBanner.tsx), against a server   *)
(* that forgets sessions, goes away and comes back.                        *)
(*                                                                         *)
(* A login is numbered; Name maps it to its profile.  Login 0 is no login. *)
(* An answer's handling is one step: the code from the report to the last  *)
(* assignment runs in microtasks, between which no other answer arrives.   *)
EXTENDS Naturals, FiniteSets

CONSTANTS
    MaxLogins, \* bound: logins the server accepts
    Name,      \* the profile of each login
    MaxCalls   \* bound: requests in flight at once

ASSUME SessionAssumption ==
    MaxLogins \in Nat /\ DOMAIN Name = 1..MaxLogins /\ MaxCalls \in Nat

VARIABLES
    up,       \* the server answers; otherwise connections are refused
    honoured, \* logins whose session the server still has
    granted,  \* number of logins accepted so far
    jar,      \* the login of the sayumi_session cookie
    page,     \* the tab: see PageType
    call,     \* one request of each kind at most
    flaky     \* history: a status probe timed out or got a 5xx

sessionVars == <<up, honoured, granted, jar, page, call, flaky>>

Kinds == {"probe", "data", "login", "logout", "delete", "health"}
Logins0 == 0..MaxLogins
Idle == [stage |-> "idle", epoch |-> 0, cookie |-> 0, got |-> "none"]
NameOf(n) == IF n = 0 THEN "nobody" ELSE Name[n]

FreshPage == [epoch |-> 0, since |-> 0, status |-> "checking", init |-> TRUE,
              reprobe |-> FALSE, armed |-> FALSE, reachable |-> TRUE,
              launch |-> FALSE]

Sent(p, cookie) == [stage |-> "sent", epoch |-> p.epoch, cookie |-> cookie, got |-> "none"]

(* request stamps the epoch and the browser adds its cookie.               *)
Send(k) == /\ call[k].stage = "idle"
           /\ Cardinality({j \in Kinds : call[j].stage # "idle"}) < MaxCalls
           /\ call' = [call EXCEPT ![k] = Sent(page, jar)]

(***************************************************************************)
(* The session object, as functions from a page to a page                  *)
(***************************************************************************)

ClearLocalSession(p) ==
    [p EXCEPT !.armed = FALSE, !.status = "signed-out", !.since = 0,
              !.epoch = IF p.since # 0 THEN p.epoch + 1 ELSE p.epoch]

(* Faulty HandleSessionLost: a 401 of any login ends this one.             *)
HandleAnySessionLost(p, e) == ClearLocalSession(p)

HandleSessionLost(p, e) == IF e = p.epoch THEN ClearLocalSession(p) ELSE p

(* init() up to the await of its first probe.                              *)
StartInit(p) ==
    IF p.init THEN [p EXCEPT !.reprobe = TRUE]
    ELSE [p EXCEPT !.init = TRUE, !.reprobe = FALSE, !.launch = TRUE,
                   !.status = IF @ = "authenticated" THEN @ ELSE "checking"]

(* Faulty AfterProbe: without its finally, init() never ends.              *)
AfterProbeForgets(p) ==
    IF p.status = "unavailable" /\ p.reprobe
    THEN [p EXCEPT !.reprobe = FALSE, !.launch = TRUE, !.status = "checking"]
    ELSE p

(* The loop of init() after a probe ended.                                 *)
AfterProbe(p) ==
    IF p.status = "unavailable" /\ p.reprobe
    THEN [p EXCEPT !.reprobe = FALSE, !.launch = TRUE, !.status = "checking"]
    ELSE [p EXCEPT !.init = FALSE]

(* reachability.set(TRUE), and the listener that #armBootRetry added.      *)
ReportReachable(p) ==
    IF p.reachable THEN p
    ELSE LET q == [p EXCEPT !.reachable = TRUE]
         IN  IF p.armed /\ (p.status = "unavailable" \/ p.init)
             THEN StartInit(q) ELSE q

ReportUnreachable(p) == [p EXCEPT !.reachable = FALSE]

(* What request() reports before its caller sees the outcome.              *)
Reported(p, c) ==
    LET q == CASE c.got = "refused" -> ReportUnreachable(p)
               [] c.got = "timeout" -> p
               [] OTHER -> ReportReachable(p)
    IN  IF c.got = "unauthenticated" THEN HandleSessionLost(q, c.epoch) ELSE q

(* #probe after its await.                                                 *)
Probed(p, c) ==
    AfterProbe(
        CASE c.got = "authenticated" ->
               LET same == NameOf(c.cookie) = NameOf(p.since)
               IN  [p EXCEPT !.armed = FALSE, !.status = "authenticated", !.since = c.cookie,
                             !.epoch = IF same THEN p.epoch ELSE p.epoch + 1]
          [] c.got = "anonymous" -> ClearLocalSession(p)
          [] OTHER -> [p EXCEPT !.status = "unavailable", !.armed = TRUE])

LoggedIn(p, n) ==
    [p EXCEPT !.armed = FALSE, !.epoch = p.epoch + 1, !.since = n, !.status = "authenticated"]

(* Set-Cookie of an answer: a login's sets it, and the end of any session  *)
(* removes it, whichever login the browser's cookie has become.            *)
CookieAfter(c) ==
    CASE c.got \in {"unauthenticated", "anonymous"} /\ c.cookie # 0 -> 0
      [] c.got = "removed" -> 0
      [] c.got = "granted" -> c.cookie
      [] OTHER -> jar

(* A step of the page: its new state, and the probe that init() sends.     *)
Turn(p, calls) ==
    /\ page' = [p EXCEPT !.launch = FALSE]
    /\ call' = IF p.launch THEN [calls EXCEPT !["probe"] = Sent(p, jar')] ELSE calls

(***************************************************************************)
(* What the user and the app start                                         *)
(***************************************************************************)

SessionInit ==
    /\ up \in BOOLEAN
    /\ \E n \in {0, 1} \cap Logins0 :
         /\ granted = n /\ jar = n
         /\ honoured \in SUBSET (1..n)
    /\ page = FreshPage
    /\ call = [k \in Kinds |-> IF k = "probe" THEN Sent(FreshPage, jar) ELSE Idle]
    /\ flaky = FALSE

Request(k) ==
    /\ page.status = (IF k = "login" THEN "signed-out" ELSE "authenticated")
    /\ Send(k)
    /\ UNCHANGED <<up, honoured, granted, jar, page, flaky>>

TryAgain ==
    /\ page.status = "unavailable"
    /\ UNCHANGED jar
    /\ Turn(StartInit(page), call)
    /\ UNCHANGED <<up, honoured, granted, flaky>>

(* The banner's next poll, its focus, online and visibility handlers.      *)
Heartbeat ==
    /\ Send("health")
    /\ UNCHANGED <<up, honoured, granted, jar, page, flaky>>

(***************************************************************************)
(* The server and the network                                              *)
(***************************************************************************)

Answer(k, got) == call' = [call EXCEPT ![k].stage = "answered", ![k].got = got]

ServeProbe ==
    /\ call["probe"].stage = "sent"
    /\ Answer("probe", IF call["probe"].cookie \in honoured THEN "authenticated" ELSE "anonymous")
    /\ UNCHANGED <<honoured, granted>>

ServeData ==
    /\ call["data"].stage = "sent"
    /\ Answer("data", IF call["data"].cookie \in honoured THEN "ok" ELSE "unauthenticated")
    /\ UNCHANGED <<honoured, granted>>

ServeLogin ==
    /\ call["login"].stage = "sent"
    /\ \/ /\ granted < MaxLogins
          /\ granted' = granted + 1
          /\ honoured' = honoured \cup {granted + 1}
          /\ call' = [call EXCEPT !["login"] = [@ EXCEPT !.stage = "answered", !.got = "granted",
                                                         !.cookie = granted + 1]]
       \/ Answer("login", "invalid_credentials") /\ UNCHANGED <<honoured, granted>>

ServeLogout ==
    /\ call["logout"].stage = "sent"
    /\ Answer("logout", "removed")
    /\ honoured' = honoured \ {call["logout"].cookie}
    /\ UNCHANGED granted

(* Every session of the profile goes before the delete lock is taken.      *)
RevokeForDelete ==
    /\ call["delete"].stage = "sent"
    /\ \/ Answer("delete", "invalid_credentials") /\ UNCHANGED honoured
       \/ /\ call["delete"].cookie \in honoured
          /\ honoured' = {n \in honoured : Name[n] # NameOf(call["delete"].cookie)}
          /\ call' = [call EXCEPT !["delete"].stage = "revoked"]
       \/ /\ call["delete"].cookie \notin honoured
          /\ Answer("delete", "unauthenticated") /\ UNCHANGED honoured
    /\ UNCHANGED granted

FinishDelete ==
    /\ call["delete"].stage = "revoked"
    /\ \E got \in {"removed", "error"} : Answer("delete", got)
    /\ UNCHANGED <<honoured, granted>>

ServeHealth ==
    /\ call["health"].stage = "sent"
    /\ Answer("health", "ok")
    /\ UNCHANGED <<honoured, granted>>

Serve(k) ==
    /\ up
    /\ CASE k = "probe" -> ServeProbe
         [] k = "data" -> ServeData
         [] k = "login" -> ServeLogin
         [] k = "logout" -> ServeLogout
         [] k = "delete" -> RevokeForDelete \/ FinishDelete
         [] k = "health" -> ServeHealth
    /\ UNCHANGED <<up, jar, page, flaky>>

(* A refused or dropped connection, a 5xx of a handler that did nothing,   *)
(* and an answer that the client's timer does not wait for.                *)
Fail(k) ==
    /\ call[k].stage \in {"sent", "revoked"}
    /\ \/ ~up /\ Answer(k, "refused")
       \/ Answer(k, "timeout")
       \/ up /\ call[k].stage = "sent" /\ k \in {"probe", "logout"} /\ Answer(k, "error")
    /\ UNCHANGED <<up, honoured, granted, jar, page, flaky>>

(* The server stops, starts, or drops sessions (expiry, a restart).        *)
ServerToggles ==
    /\ up' = ~up
    /\ UNCHANGED <<honoured, granted, jar, page, call, flaky>>

ServerForgets(n) ==
    /\ n \in honoured
    /\ honoured' = honoured \ {n}
    /\ UNCHANGED <<up, granted, jar, page, call, flaky>>

(***************************************************************************)
(* The page receives an answer                                             *)
(***************************************************************************)

Arrived(k) == call[k].stage = "answered"
Done(k) == [call EXCEPT ![k] = Idle]

ReceiveProbe ==
    /\ Arrived("probe")
    /\ jar' = CookieAfter(call["probe"])
    /\ Turn(Probed(Reported(page, call["probe"]), call["probe"]), Done("probe"))
    /\ flaky' = (flaky \/ call["probe"].got \in {"timeout", "error"})
    /\ UNCHANGED <<up, honoured, granted>>

ReceiveData ==
    /\ Arrived("data")
    /\ jar' = CookieAfter(call["data"])
    /\ Turn(Reported(page, call["data"]), Done("data"))
    /\ UNCHANGED <<up, honoured, granted, flaky>>

ReceiveLogin ==
    /\ Arrived("login")
    /\ jar' = CookieAfter(call["login"])
    /\ LET c == call["login"]
           p == Reported(page, c)
       IN  Turn(IF c.got = "granted" THEN LoggedIn(p, c.cookie) ELSE p, Done("login"))
    /\ UNCHANGED <<up, honoured, granted, flaky>>

(* The local session goes whatever the server said.                        *)
ReceiveLogout ==
    /\ Arrived("logout")
    /\ jar' = CookieAfter(call["logout"])
    /\ Turn(ClearLocalSession(Reported(page, call["logout"])), Done("logout"))
    /\ UNCHANGED <<up, honoured, granted, flaky>>

(* deleteCurrent: on a failure that may have revoked the sessions, ask the *)
(* server before the local session is given up.                            *)
DeleteEnded(p, e) == IF e = p.epoch THEN ClearLocalSession(p) ELSE p

ReceiveDelete ==
    /\ Arrived("delete")
    /\ jar' = CookieAfter(call["delete"])
    /\ LET c == call["delete"]
           p == Reported(page, c)
       IN  IF c.got = "removed" THEN Turn(DeleteEnded(p, c.epoch), Done("delete"))
           ELSE IF c.got = "invalid_credentials" \/ p.since = 0 THEN Turn(p, Done("delete"))
           ELSE Turn(p, [call EXCEPT !["delete"] = [Sent(p, jar') EXCEPT
                           !.epoch = c.epoch, !.stage = "recheck"]])
    /\ UNCHANGED <<up, honoured, granted, flaky>>

(* The status request of a failed delete; only "anonymous" changes        *)
(* anything, and only for the login that asked for the delete.             *)
ServeRecheck ==
    /\ call["delete"].stage = "recheck"
    /\ call' = [call EXCEPT !["delete"].stage = "rechecked",
                            !["delete"].got = IF ~up THEN "refused"
                                              ELSE IF call["delete"].cookie \in honoured
                                              THEN "authenticated" ELSE "anonymous"]
    /\ UNCHANGED <<up, honoured, granted, jar, page, flaky>>

ReceiveRecheck ==
    /\ call["delete"].stage = "rechecked"
    /\ jar' = CookieAfter(call["delete"])
    /\ LET c == call["delete"]
           p == Reported(page, c)
       IN  Turn(IF c.got = "anonymous" THEN DeleteEnded(p, c.epoch) ELSE p, Done("delete"))
    /\ UNCHANGED <<up, honoured, granted, flaky>>

ReceiveHealth ==
    /\ Arrived("health")
    /\ UNCHANGED jar
    /\ Turn(Reported(page, call["health"]), Done("health"))
    /\ UNCHANGED <<up, honoured, granted, flaky>>

Receive(k) ==
    CASE k = "probe" -> ReceiveProbe
      [] k = "data" -> ReceiveData
      [] k = "login" -> ReceiveLogin
      [] k = "logout" -> ReceiveLogout
      [] k = "delete" -> ReceiveDelete \/ ReceiveRecheck
      [] k = "health" -> ReceiveHealth

SessionNext ==
    \/ \E k \in Kinds \ {"probe", "health"} : Request(k)
    \/ TryAgain \/ Heartbeat
    \/ (\E k \in Kinds : Serve(k) \/ Fail(k) \/ Receive(k)) \/ ServerToggles
    \/ \E n \in 1..MaxLogins : ServerForgets(n)
    \/ ServeRecheck

(* Requests settle: withTimeout bounds each.  The banner polls while its   *)
(* tab is visible, and a server that stays up answers some poll.           *)
SessionFairness ==
    /\ \A k \in Kinds : WF_sessionVars(Serve(k) \/ Fail(k)) /\ WF_sessionVars(Receive(k))
    /\ WF_sessionVars(Heartbeat) /\ SF_sessionVars(Serve("health"))

SessionSpec == SessionInit /\ [][SessionNext]_sessionVars /\ SessionFairness

(***************************************************************************)
(* Properties                                                              *)
(***************************************************************************)

(* A tab gives up a login that the server honours, and whose cookie the    *)
(* browser holds, only while the user signs out: never for a late 401 of   *)
(* an older login, nor when an older delete ends.                          *)
NoLiveLoginDropped ==
    [][page.since # 0 /\ page'.since = 0 /\ jar = page.since
         => page.since \notin honoured \/ call["logout"].stage # "idle"]_sessionVars

(* The promise of client.ts:209-210, "A late 401 from an old profile must  *)
(* not sign out a newer login": a login the server honours is given up     *)
(* only by signing out.  The late answer's Set-Cookie breaks it.           *)
LateAnswersSignNobodyOut ==
    [][page.since # 0 /\ page'.since = 0
         => page.since \notin honoured \/ call["logout"].stage # "idle"]_sessionVars

(* A tab opened before its server: when the server stays up, and no probe  *)
(* met a timeout or a 5xx, the tab learns whether it is signed in.         *)
BootResolves ==
    <>[](up /\ ~flaky) => <>[](page.status \in {"authenticated", "signed-out"})
=============================================================================
