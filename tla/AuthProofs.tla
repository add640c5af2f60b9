----------------------------- MODULE AuthProofs -----------------------------
(***************************************************************************)
(* Proofs about Auth: the session, profile and directory invariants hold   *)
(* for any number of names, sessions and requests.  The argument is that   *)
(* under profileOps a record changes hands only when no live session has   *)
(* its name, or after a failure that left the record to an old directory   *)
(* (a ghost), which every claim below excepts.  And about LoginThrottle:   *)
(* the limiter bounds the refusals of a key for any limits, admits one     *)
(* attempt of it at a time, and counts its entries.                        *)
(***************************************************************************)
EXTENDS Auth, LoginThrottle, Integers, SequenceTheorems, FiniteSetTheorems, TLAPS

Ghost(n)  == <<"ghost", n>> \in mishaps
Orphan(n) == <<"orphan", n>> \in mishaps
Live(k)   == k \in mem \/ k \in rows

InRequest == {"checking", "found", "opening", "pinned", "serving"}

(* Of a session: whom it belongs to, and that an ended one is not live.    *)
Owned(k) ==
    Live(k) => /\ issued[k].name \in Names /\ issued[k].born # 0
               /\ record[issued[k].name] = issued[k].born \/ Ghost(issued[k].name)

OutEnded(k) == k \in out => issued[k] # Unissued /\ ~Live(k)

(* Of a request at work: what it has picked, and what the gate has kept    *)
(* true since it looked.                                                   *)
Placed(t) ==
    /\ pc[t] # "idle" => name[t] \in Names
    /\ pc[t] \in InRequest => /\ tok[t] \in Tokens
                              /\ issued[tok[t]].name = name[t]
                              /\ issued[tok[t]].born # 0

LoginSees(t) ==
    pc[t] = "login" => /\ born[name[t]] # 0
                       /\ record[name[t]] = born[name[t]] \/ Ghost(name[t])

Making(t) ==
    pc[t] \in {"making", "undoing"} =>
        /\ record[name[t]] # 0 \/ Ghost(name[t])
        /\ dir[name[t]] = 0 \/ Ghost(name[t]) \/ Orphan(name[t])
        /\ (\A k \in Tokens : Live(k) => issued[k].name # name[t]) \/ Ghost(name[t])

Deleting(t) ==
    /\ pc[t] \in {"draining", "emptying"} =>
          \A k \in Tokens : k \in mem => issued[k].name # name[t]
    /\ pc[t] = "emptying" => /\ record[name[t]] = 0
                             /\ \A u \in Threads : name[u] = name[t] =>
                                   pc[u] \notin {"pinned", "serving"}

Serving(t) ==
    pc[t] = "serving" => dir[name[t]] = issued[tok[t]].born \/ Ghost(name[t])

(* Of a name: the directory is the record's, but while it is being made;   *)
(* without a record there is none, but while it is being emptied.          *)
Matched(n) ==
    /\ record[n] # 0 =>
          \/ dir[n] = record[n] \/ Ghost(n)
          \/ \E t \in Threads : name[t] = n /\ pc[t] \in {"making", "undoing"}
    /\ record[n] = 0 =>
          \/ dir[n] = 0 \/ Ghost(n) \/ Orphan(n)
          \/ \E t \in Threads : name[t] = n /\ pc[t] = "emptying"

SessionsInv == \A k \in Tokens : Owned(k) /\ OutEnded(k)
RequestsInv == \A t \in Threads : /\ Placed(t) /\ LoginSees(t) /\ Making(t)
                                  /\ Deleting(t) /\ Serving(t)
NamesInv    == \A n \in Names : Matched(n)

IInv == TypeOK /\ SessionsInv /\ RequestsInv /\ NamesInv

-----------------------------------------------------------------------------
(* Request t moves, or ends, without a change to what profiles there are,  *)
(* and without a new session; the others stay where they are.              *)
Quiet(t) ==
    /\ UNCHANGED <<record, dir, born, issued, out, mishaps>>
    /\ mem' \subseteq mem /\ rows' \subseteq rows
    /\ \A u \in Threads \ {t} : pc'[u] = pc[u] /\ tok'[u] = tok[u] /\ name'[u] = name[u]

(* It neither gives up a directory half-way nor opens one being emptied.   *)
Clean(t) ==
    /\ pc[t] # "emptying"
    /\ pc[t] \in {"making", "undoing"} => pc'[t] \in {"making", "undoing"} /\ name'[t] = name[t]
    /\ pc'[t] \in {"pinned", "serving"} =>
          \A u \in Threads : pc[u] = "emptying" => name[u] # name'[t]

At(t) == Placed(t) /\ LoginSees(t) /\ Making(t) /\ Deleting(t) /\ Serving(t)

(* Such a step keeps the invariant if its request ends up in a good place. *)
LEMMA QuietStep ==
    ASSUME IInv, TypeOK', NEW t \in Threads, Quiet(t), Clean(t), At(t)'
    PROVE  IInv'
<1>1. SessionsInv'
  BY DEF IInv, Quiet, SessionsInv, Owned, OutEnded, Live, Ghost
<1>2. RequestsInv'
  <2> SUFFICES ASSUME NEW u \in Threads \ {t} PROVE At(u)'
    BY DEF RequestsInv, At
  <2>1. At(u)
    BY DEF IInv, RequestsInv, At
  <2>2. pc'[u] = pc[u] /\ tok'[u] = tok[u] /\ name'[u] = name[u]
    BY DEF Quiet
  <2>3. (Placed(u) /\ LoginSees(u) /\ Serving(u))'
    BY <2>1, <2>2 DEF At, Quiet, Placed, LoginSees, Serving, Ghost
  <2>4. Making(u)'
    BY <2>1, <2>2 DEF At, Quiet, Making, Live, Ghost, Orphan
  <2>5. Deleting(u)'
    BY <2>1, <2>2 DEF At, Quiet, Clean, Deleting
  <2> QED
    BY <2>3, <2>4, <2>5 DEF At
<1>3. NamesInv'
  <2> SUFFICES ASSUME NEW n \in Names PROVE Matched(n)'
    BY DEF NamesInv
  <2>1. Matched(n)
    BY DEF IInv, NamesInv
  <2>2. \A u \in Threads : name[u] = n /\ pc[u] \in {"making", "undoing"} =>
                           name'[u] = n /\ pc'[u] \in {"making", "undoing"}
    BY DEF Quiet, Clean
  <2>3. \A u \in Threads : name[u] = n /\ pc[u] = "emptying" =>
                           name'[u] = n /\ pc'[u] = "emptying"
    BY DEF Quiet, Clean
  <2> QED
    BY <2>1, <2>2, <2>3 DEF Quiet, Matched, Ghost, Orphan
<1> QED
  BY <1>1, <1>2, <1>3 DEF IInv

(* The quiet steps, one by one: where the request is led, and that the     *)
(* place is good.                                                          *)
LEMMA LoginLooksUpStep ==
    ASSUME IInv, NEW t \in Threads, NEW n \in Names, LoginLooksUp(t, n)
    PROVE  IInv'
<1>1. TypeOK'
  BY NamesAssumption DEF IInv, TypeOK, Gated, LoginLooksUp, Starts, GateFree, stores,
       sessions
<1>2. Quiet(t) /\ Clean(t)
  BY NamesAssumption DEF IInv, TypeOK, Quiet, Clean, LoginLooksUp, Starts, GateFree,
       Gated, stores, sessions, RequestsInv, Placed, Deleting, InRequest
<1>3. At(t)'
  BY NamesAssumption DEF IInv, TypeOK, LoginLooksUp, Starts, GateFree, Gated, stores,
       sessions, RequestsInv, At, Placed, LoginSees, Making, Deleting, Serving,
       InRequest, Live, Ghost, Orphan
<1> QED
  BY <1>1, <1>2, <1>3, QuietStep

LEMMA LoginFailsStep ==
    ASSUME IInv, NEW t \in Threads, LoginFails(t)
    PROVE  IInv'
<1>1. TypeOK'
  BY NamesAssumption DEF IInv, TypeOK, Gated, LoginFails, Ends, stores, sessions
<1>2. Quiet(t) /\ Clean(t)
  BY NamesAssumption DEF IInv, TypeOK, Quiet, Clean, LoginFails, Ends, stores,
       sessions, RequestsInv, Placed, Deleting, InRequest
<1>3. At(t)'
  BY NamesAssumption DEF IInv, TypeOK, LoginFails, Ends, stores, sessions,
       RequestsInv, At, Placed, LoginSees, Making, Deleting, Serving, InRequest, Live,
       Ghost, Orphan
<1> QED
  BY <1>1, <1>2, <1>3, QuietStep

LEMMA RequestBeginsStep ==
    ASSUME IInv, NEW t \in Threads, NEW k \in Tokens, RequestBegins(t, k)
    PROVE  IInv'
<1>1. issued[k].name \in Names /\ issued[k].born # 0
  BY DEF IInv, SessionsInv, Owned, Live, RequestBegins
<1>2. PICK to \in {"opening", "checking"} : Starts(t, to, k, issued[k].name, NoName)
  BY DEF RequestBegins
<1>3. UNCHANGED <<stores, sessions, mishaps>>
  BY DEF RequestBegins
<1>4. TypeOK'
  BY <1>1, <1>2, <1>3, NamesAssumption DEF IInv, TypeOK, Gated, Starts, stores, sessions
<1>5. Quiet(t) /\ Clean(t)
  BY <1>2, <1>3 DEF IInv, TypeOK, Quiet, Clean, Starts, stores, sessions
<1>6. At(t)'
  BY <1>1, <1>2, <1>3 DEF IInv, TypeOK, Starts, stores, sessions, At, Placed, LoginSees,
                          Making, Deleting, Serving, InRequest
<1> QED
  BY <1>4, <1>5, <1>6, QuietStep

LEMMA RequestChecksStep ==
    ASSUME IInv, NEW t \in Threads, RequestChecks(t)
    PROVE  IInv'
<1>1. TypeOK'
  BY NamesAssumption DEF IInv, TypeOK, Gated, RequestChecks, Goes, stores, sessions
<1>2. Quiet(t) /\ Clean(t)
  BY NamesAssumption DEF IInv, TypeOK, Quiet, Clean, RequestChecks, Goes, stores,
       sessions, RequestsInv, Placed, Deleting, InRequest
<1>3. At(t)'
  BY NamesAssumption DEF IInv, TypeOK, RequestChecks, Goes, stores, sessions,
       RequestsInv, At, Placed, LoginSees, Making, Deleting, Serving, InRequest, Live,
       Ghost, Orphan
<1> QED
  BY <1>1, <1>2, <1>3, QuietStep

LEMMA RequestOrphanedStep ==
    ASSUME IInv, NEW t \in Threads, RequestOrphaned(t)
    PROVE  IInv'
<1>1. TypeOK'
  BY NamesAssumption DEF IInv, TypeOK, Gated, RequestOrphaned, Ends, stores, sessions,
       RequestsInv, Placed
<1>2. Quiet(t) /\ Clean(t)
  BY NamesAssumption DEF IInv, TypeOK, Quiet, Clean, RequestOrphaned, Ends, stores,
       sessions, RequestsInv, Placed, Deleting, InRequest
<1>3. At(t)'
  BY NamesAssumption DEF IInv, TypeOK, RequestOrphaned, Ends, stores, sessions,
       RequestsInv, At, Placed, LoginSees, Making, Deleting, Serving, InRequest, Live,
       Ghost, Orphan
<1> QED
  BY <1>1, <1>2, <1>3, QuietStep

LEMMA RequestMarksStep ==
    ASSUME IInv, NEW t \in Threads, RequestMarks(t)
    PROVE  IInv'
<1>1. TypeOK'
  BY NamesAssumption DEF IInv, TypeOK, Gated, RequestMarks, Goes, stores, sessions,
       RequestsInv, Placed
<1>2. Quiet(t) /\ Clean(t)
  BY NamesAssumption DEF IInv, TypeOK, Quiet, Clean, RequestMarks, Goes, stores,
       sessions, RequestsInv, Placed, Deleting, InRequest
<1>3. At(t)'
  BY NamesAssumption DEF IInv, TypeOK, RequestMarks, Goes, stores, sessions,
       RequestsInv, At, Placed, LoginSees, Making, Deleting, Serving, InRequest, Live,
       Ghost, Orphan
<1> QED
  BY <1>1, <1>2, <1>3, QuietStep

LEMMA RequestOpensStep ==
    ASSUME IInv, NEW t \in Threads, RequestOpens(t)
    PROVE  IInv'
<1>1. TypeOK'
  BY NamesAssumption DEF IInv, TypeOK, Gated, RequestOpens, Goes, Locked, stores,
       sessions
<1>2. Quiet(t) /\ Clean(t)
  BY NamesAssumption DEF IInv, TypeOK, Quiet, Clean, RequestOpens, Goes, Locked,
       stores, sessions, RequestsInv, Placed, Deleting, InRequest
<1>3. At(t)'
  BY NamesAssumption DEF IInv, TypeOK, RequestOpens, Goes, Locked, stores, sessions,
       RequestsInv, At, Placed, LoginSees, Making, Deleting, Serving, InRequest, Live,
       Ghost, Orphan
<1> QED
  BY <1>1, <1>2, <1>3, QuietStep

LEMMA RequestServedStep ==
    ASSUME IInv, NEW t \in Threads, RequestServed(t)
    PROVE  IInv'
<1>1. TypeOK'
  BY NamesAssumption DEF IInv, TypeOK, Gated, RequestServed, Goes, stores, sessions
<1>2. Quiet(t) /\ Clean(t)
  BY NamesAssumption DEF IInv, TypeOK, Quiet, Clean, RequestServed, Goes, stores,
       sessions, RequestsInv, Placed, Deleting, InRequest
<1>3. At(t)'
  <2>1. Owned(tok[t]) /\ Matched(name[t]) /\ Placed(t)
    BY DEF IInv, RequestServed, SessionsInv, RequestsInv, NamesInv, Placed, InRequest
  <2>2. \A u \in Threads : name[u] = name[t] /\ pc[u] \in {"making", "undoing"} => Ghost(name[t])
    BY <2>1 DEF IInv, TypeOK, RequestServed, RequestsInv, Making, Placed, InRequest,
         Live
  <2>3. Serving(t)'
    BY <2>1, <2>2 DEF IInv, TypeOK, RequestServed, Goes, Owned, Matched, Placed,
         InRequest,
                      Serving, Ghost, Live, stores, sessions
  <2> QED
    BY <2>1, <2>3 DEF IInv, TypeOK, RequestServed, Goes, stores, sessions, At, Placed,
                      LoginSees, Making, Deleting, InRequest
<1> QED
  BY <1>1, <1>2, <1>3, QuietStep

LEMMA RequestEndsStep ==
    ASSUME IInv, NEW t \in Threads, RequestEnds(t)
    PROVE  IInv'
<1>1. TypeOK'
  BY NamesAssumption DEF IInv, TypeOK, Gated, RequestEnds, Ends, stores, sessions
<1>2. Quiet(t) /\ Clean(t)
  BY NamesAssumption DEF IInv, TypeOK, Quiet, Clean, RequestEnds, Ends, stores,
       sessions, RequestsInv, Placed, Deleting, InRequest
<1>3. At(t)'
  BY NamesAssumption DEF IInv, TypeOK, RequestEnds, Ends, stores, sessions,
       RequestsInv, At, Placed, LoginSees, Making, Deleting, Serving, InRequest, Live,
       Ghost, Orphan
<1> QED
  BY <1>1, <1>2, <1>3, QuietStep

LEMMA CreateBeginsStep ==
    ASSUME IInv, NEW t \in Threads, NEW n \in Names, CreateBegins(t, n)
    PROVE  IInv'
<1>1. TypeOK'
  BY NamesAssumption DEF IInv, TypeOK, Gated, CreateBegins, Starts, GateFree, stores,
       sessions
<1>2. Quiet(t) /\ Clean(t)
  BY NamesAssumption DEF IInv, TypeOK, Quiet, Clean, CreateBegins, Starts, GateFree,
       Gated, stores, sessions, RequestsInv, Placed, Deleting, InRequest
<1>3. At(t)'
  BY NamesAssumption DEF IInv, TypeOK, CreateBegins, Starts, GateFree, Gated, stores,
       sessions, RequestsInv, At, Placed, LoginSees, Making, Deleting, Serving,
       InRequest, Live, Ghost, Orphan
<1> QED
  BY <1>1, <1>2, <1>3, QuietStep

LEMMA CloneBeginsStep ==
    ASSUME IInv, NEW t \in Threads, NEW k \in Tokens, NEW n \in Names, CloneBegins(t, k, n)
    PROVE  IInv'
<1>1. TypeOK'
  BY NamesAssumption DEF IInv, TypeOK, Gated, CloneBegins, Starts, GateFree,
       Validated, stores, sessions, SessionsInv, Owned, Live
<1>2. Quiet(t) /\ Clean(t)
  BY NamesAssumption DEF IInv, TypeOK, Quiet, Clean, CloneBegins, Starts, GateFree,
       Gated, Validated, stores, sessions, RequestsInv, Placed, Deleting, InRequest
<1>3. At(t)'
  BY NamesAssumption DEF IInv, TypeOK, CloneBegins, Starts, GateFree, Gated,
       Validated, stores, sessions, RequestsInv, At, Placed, LoginSees, Making,
       Deleting, Serving, InRequest, Live, Ghost, Orphan
<1> QED
  BY <1>1, <1>2, <1>3, QuietStep

LEMMA InsertFailsStep ==
    ASSUME IInv, NEW t \in Threads, InsertFails(t)
    PROVE  IInv'
<1>1. TypeOK'
  BY NamesAssumption DEF IInv, TypeOK, Gated, InsertFails, Ends, stores, sessions
<1>2. Quiet(t) /\ Clean(t)
  BY NamesAssumption DEF IInv, TypeOK, Quiet, Clean, InsertFails, Ends, stores,
       sessions, RequestsInv, Placed, Deleting, InRequest
<1>3. At(t)'
  BY NamesAssumption DEF IInv, TypeOK, InsertFails, Ends, stores, sessions,
       RequestsInv, At, Placed, LoginSees, Making, Deleting, Serving, InRequest, Live,
       Ghost, Orphan
<1> QED
  BY <1>1, <1>2, <1>3, QuietStep

LEMMA MakeDirFailsStep ==
    ASSUME IInv, NEW t \in Threads, MakeDirFails(t)
    PROVE  IInv'
<1>1. TypeOK'
  BY NamesAssumption DEF IInv, TypeOK, Gated, MakeDirFails, Goes, stores, sessions
<1>2. Quiet(t) /\ Clean(t)
  BY NamesAssumption DEF IInv, TypeOK, Quiet, Clean, MakeDirFails, Goes, stores,
       sessions, RequestsInv, Placed, Deleting, InRequest
<1>3. At(t)'
  BY NamesAssumption DEF IInv, TypeOK, MakeDirFails, Goes, stores, sessions,
       RequestsInv, At, Placed, LoginSees, Making, Deleting, Serving, InRequest, Live,
       Ghost, Orphan
<1> QED
  BY <1>1, <1>2, <1>3, QuietStep

LEMMA DeleteBeginsStep ==
    ASSUME IInv, NEW t \in Threads, NEW k \in Tokens, DeleteBegins(t, k)
    PROVE  IInv'
<1>1. TypeOK'
  BY NamesAssumption DEF IInv, TypeOK, Gated, DeleteBegins, Starts, GateFree,
       Validated, stores, sessions, SessionsInv, Owned, Live
<1>2. Quiet(t) /\ Clean(t)
  BY NamesAssumption DEF IInv, TypeOK, Quiet, Clean, DeleteBegins, Starts, GateFree,
       Gated, Validated, stores, sessions, RequestsInv, Placed, Deleting, InRequest
<1>3. At(t)'
  BY NamesAssumption DEF IInv, TypeOK, DeleteBegins, Starts, GateFree, Gated,
       Validated, stores, sessions, RequestsInv, At, Placed, LoginSees, Making,
       Deleting, Serving, InRequest, Live, Ghost, Orphan, SessionsInv, Owned
<1> QED
  BY <1>1, <1>2, <1>3, QuietStep

LEMMA DeleteSessionsStep ==
    ASSUME IInv, NEW t \in Threads, DeleteSessions(t)
    PROVE  IInv'
<1>1. TypeOK'
  BY NamesAssumption DEF IInv, TypeOK, Gated, DeleteSessions, Goes, Ends, TokensOf,
       stores, sessions
<1>2. Quiet(t) /\ Clean(t)
  BY NamesAssumption DEF IInv, TypeOK, Quiet, Clean, DeleteSessions, Goes, Ends,
       TokensOf, stores, sessions, RequestsInv, Placed, Deleting, InRequest
<1>3. At(t)'
  BY NamesAssumption DEF IInv, TypeOK, DeleteSessions, Goes, Ends, TokensOf, stores,
       sessions, RequestsInv, At, Placed, LoginSees, Making, Deleting, Serving,
       InRequest, Live, Ghost, Orphan
<1> QED
  BY <1>1, <1>2, <1>3, QuietStep

LEMMA DeleteFailsStep ==
    ASSUME IInv, NEW t \in Threads, DeleteFails(t)
    PROVE  IInv'
<1>1. TypeOK'
  BY NamesAssumption DEF IInv, TypeOK, Gated, DeleteFails, Ends, stores, sessions
<1>2. Quiet(t) /\ Clean(t)
  BY NamesAssumption DEF IInv, TypeOK, Quiet, Clean, DeleteFails, Ends, stores,
       sessions, RequestsInv, Placed, Deleting, InRequest
<1>3. At(t)'
  BY NamesAssumption DEF IInv, TypeOK, DeleteFails, Ends, stores, sessions,
       RequestsInv, At, Placed, LoginSees, Making, Deleting, Serving, InRequest, Live,
       Ghost, Orphan
<1> QED
  BY <1>1, <1>2, <1>3, QuietStep

-----------------------------------------------------------------------------
(* The holder of profileOps moves: the others are none of them at the      *)
(* gate, and only the name it is at work on may be touched.                *)
LEMMA GatedStep ==
    ASSUME IInv, TypeOK', NEW t \in Threads, pc[t] \in Gated,
           NEW m \in Names, m = name[t],
           \A u \in Threads \ {t} :
               /\ pc'[u] = pc[u] /\ tok'[u] = tok[u] /\ name'[u] = name[u]
               /\ pc[u] = "serving" => dir'[name[u]] = dir[name[u]] \/ Ghost(name[u]),
           \A n \in Names \ {m} : record'[n] = record[n] /\ dir'[n] = dir[n],
           \A k \in Tokens : issued[k].born # 0 => issued'[k] = issued[k],
           mishaps \subseteq mishaps',
           SessionsInv', At(t)', Matched(m)'
    PROVE  IInv'
<1>1. RequestsInv'
  <2> SUFFICES ASSUME NEW u \in Threads \ {t} PROVE At(u)'
    BY DEF RequestsInv, At
  <2>1. pc[u] \notin Gated
    BY DEF IInv, TypeOK
  <2>2. Placed(u) /\ Serving(u)
    BY DEF IInv, RequestsInv
  <2>3. Placed(u)'
    BY <2>2 DEF Placed, InRequest
  <2>4. Serving(u)'
    BY <2>2 DEF Placed, InRequest, Serving, Ghost
  <2>5. (LoginSees(u) /\ Making(u) /\ Deleting(u))'
    BY <2>1 DEF LoginSees, Making, Deleting, Gated
  <2> QED
    BY <2>3, <2>4, <2>5 DEF At
<1>2. NamesInv'
  <2> SUFFICES ASSUME NEW n \in Names \ {m} PROVE Matched(n)'
    BY DEF NamesInv
  <2>1. Matched(n)
    BY DEF IInv, NamesInv
  <2>2. \A u \in Threads : name[u] = n => name'[u] = n /\ pc'[u] = pc[u]
    OBVIOUS
  <2> QED
    BY <2>1, <2>2 DEF Matched, Ghost, Orphan
<1> QED
  BY <1>1, <1>2 DEF IInv

LEMMA LoginIssuesStep ==
    ASSUME IInv, NEW t \in Threads, NEW k \in Tokens, LoginIssues(t, k)
    PROVE  IInv'
<1> PICK n \in Names : n = name[t]
  BY DEF LoginIssues, IInv, RequestsInv, Placed
<1>1. /\ n \in Names /\ born[n] # 0
      /\ record[n] = born[n] \/ Ghost(n)
      /\ pc[t] = "login" /\ issued[k] = Unissued
  BY DEF LoginIssues, IInv, RequestsInv, Placed, LoginSees
<1>2. /\ issued' = [issued EXCEPT ![k] = [name |-> n, born |-> born[n]]]
      /\ mem' = mem \cup {k}
      /\ rows' = rows \/ (rows' = rows \cup {k} /\ record[n] # 0)
      /\ Ends(t) /\ UNCHANGED <<stores, verified, out, mishaps>>
  BY DEF LoginIssues
<1>3. ~Live(k) /\ k \notin out
  BY <1>1, NamesAssumption DEF IInv, SessionsInv, Owned, OutEnded, Unissued
<1>4. \A j \in Tokens \ {k} : issued'[j] = issued[j] /\ (Live(j)' <=> Live(j))
  BY <1>2 DEF IInv, TypeOK, Live
<1>5. issued'[k] = [name |-> n, born |-> born[n]]
  BY <1>2 DEF IInv, TypeOK
<1>6. TypeOK'
  <2>1. \A j \in rows' : record'[issued'[j].name] # 0
    BY <1>2, <1>3, <1>4, <1>5 DEF IInv, TypeOK, stores, Live
  <2>2. issued' \in [Tokens -> [name : Names \cup {NoName}, born : Nat]]
    BY <1>1, <1>2 DEF IInv, TypeOK
  <2> QED
    BY <2>1, <2>2, <1>2 DEF IInv, TypeOK, Ends, Gated, stores
<1>7. SessionsInv'
  <2>1. (Owned(k) /\ OutEnded(k))'
    BY <1>1, <1>2, <1>3, <1>5 DEF Owned, OutEnded, Ghost, stores
  <2>2. ASSUME NEW j \in Tokens \ {k} PROVE (Owned(j) /\ OutEnded(j))'
    BY <1>2, <1>4 DEF IInv, SessionsInv, Owned, OutEnded, Ghost, stores
  <2> QED
    BY <2>1, <2>2 DEF SessionsInv
<1>8. At(t)'
  BY <1>2 DEF IInv, TypeOK, Ends, At, Placed, LoginSees, Making, Deleting, Serving,
       InRequest
<1>9. Matched(n)'
  BY <1>1, <1>2 DEF IInv, TypeOK, NamesInv, Matched, Ghost, Orphan, Ends, stores
<1>10. \A j \in Tokens : issued[j].born # 0 => issued'[j] = issued[j]
  BY <1>1, <1>4 DEF Unissued
<1> QED
  <2>1. \A u \in Threads \ {t} : pc'[u] = pc[u] /\ tok'[u] = tok[u] /\ name'[u] = name[u]
    BY <1>2 DEF IInv, TypeOK, Ends
  <2> QED
    BY <2>1, <1>1, <1>2, <1>6, <1>7, <1>8, <1>9, <1>10, GatedStep DEF Gated, stores

LEMMA InsertRecordStep ==
    ASSUME IInv, NEW t \in Threads, InsertRecord(t)
    PROVE  IInv'
<1> PICK n \in Names : n = name[t]
  BY DEF InsertRecord, IInv, RequestsInv, Placed
<1>1. n \in Names /\ pc[t] = "creating" /\ record[n] = 0
  BY DEF InsertRecord, IInv, RequestsInv, Placed
<1>2. /\ born' = [born EXCEPT ![n] = @ + 1]
      /\ record' = [record EXCEPT ![n] = born[n] + 1]
      /\ UNCHANGED <<dir, sessions>>
  BY DEF InsertRecord
<1>3. \/ Goes(t, "making") /\ UNCHANGED <<tok, name, src, mishaps>>
      \/ Ends(t) /\ mishaps' = mishaps \cup {<<"ghost", n>>}
  BY DEF InsertRecord
<1>4. \A k \in Tokens : Live(k) => issued[k].name # n \/ Ghost(n)
  BY <1>1 DEF IInv, SessionsInv, Owned
<1>5. dir[n] = 0 \/ Ghost(n) \/ Orphan(n)
  BY <1>1 DEF IInv, TypeOK, NamesInv, Matched, Gated
<1>6. TypeOK'
  <2>1. record' \in [Names -> Nat] /\ born' \in [Names -> Nat]
    BY <1>1, <1>2 DEF IInv, TypeOK
  <2>2. \A m \in Names : record'[m] \in {0, born'[m]} /\ dir'[m] \in 0..born'[m]
    BY <1>1, <1>2 DEF IInv, TypeOK
  <2>3. \A k \in rows' : record'[issued'[k].name] # 0
    BY <1>1, <1>2 DEF IInv, TypeOK, sessions, SessionsInv, Owned, Live
  <2>4. CASE Goes(t, "making") /\ UNCHANGED <<tok, name, src, mishaps>>
    BY <2>1, <2>2, <2>3, <2>4, <1>1, <1>2 DEF IInv, TypeOK, Goes, Gated, sessions
  <2>5. CASE Ends(t) /\ mishaps' = mishaps \cup {<<"ghost", n>>}
    BY <2>1, <2>2, <2>3, <2>5, <1>1, <1>2 DEF IInv, TypeOK, Ends, Gated, sessions
  <2> QED
    BY <1>3, <2>4, <2>5
<1>7. mishaps \subseteq mishaps'
  BY <1>3
<1>8. SessionsInv'
  BY <1>1, <1>2, <1>4, <1>7 DEF IInv, TypeOK, SessionsInv, Owned, OutEnded, Live,
       Ghost, sessions
<1>9. At(t)' /\ Matched(n)'
  <2>1. CASE Goes(t, "making") /\ UNCHANGED <<tok, name, src, mishaps>>
    <3>1. pc'[t] = "making" /\ name'[t] = n
      BY <2>1 DEF IInv, TypeOK, Goes
    <3>2. record'[n] # 0
      BY <1>1, <1>2 DEF IInv, TypeOK
    <3>3. Making(t)'
      BY <3>1, <3>2, <1>2, <1>4, <1>5, <1>7 DEF Making, Live, Ghost, Orphan, sessions
    <3>4. (Placed(t) /\ LoginSees(t) /\ Deleting(t) /\ Serving(t))'
      BY <3>1, <1>1 DEF Placed, LoginSees, Deleting, Serving, InRequest
    <3> QED
      BY <3>1, <3>2, <3>3, <3>4 DEF At, Matched
  <2>2. CASE Ends(t) /\ mishaps' = mishaps \cup {<<"ghost", n>>}
    BY <2>2 DEF IInv, TypeOK, Ends, At, Placed, LoginSees, Making, Deleting, Serving,
                InRequest, Matched, Ghost
  <2> QED
    BY <1>3, <2>1, <2>2
<1>10. /\ \A u \in Threads \ {t} : pc'[u] = pc[u] /\ tok'[u] = tok[u] /\ name'[u] = name[u]
       /\ \A m \in Names \ {n} : record'[m] = record[m]
  BY <1>2, <1>3 DEF IInv, TypeOK, Goes, Ends
<1> QED
  BY <1>1, <1>2, <1>6, <1>7, <1>8, <1>9, <1>10, GatedStep DEF Gated, sessions

LEMMA MakeDirStep ==
    ASSUME IInv, NEW t \in Threads, MakeDir(t)
    PROVE  IInv'
<1> PICK n \in Names : n = name[t]
  BY DEF MakeDir, IInv, RequestsInv, Placed
<1>1. /\ pc[t] = "making" /\ dir[n] = 0
      /\ dir' = [dir EXCEPT ![n] = born[n]] /\ Ends(t)
      /\ UNCHANGED <<record, born, sessions, mishaps>>
  BY DEF MakeDir
<1>2. record[n] = born[n] \/ Ghost(n)
  BY <1>1 DEF IInv, TypeOK, RequestsInv, Making
<1>3. TypeOK'
  BY <1>1 DEF IInv, TypeOK, Ends, Gated, sessions
<1>4. SessionsInv'
  BY <1>1 DEF IInv, SessionsInv, Owned, OutEnded, Live, Ghost, sessions
<1>5. At(t)'
  BY <1>1 DEF IInv, TypeOK, Ends, At, Placed, LoginSees, Making, Deleting, Serving,
       InRequest
<1>6. Matched(n)'
  BY <1>1, <1>2 DEF IInv, TypeOK, RequestsInv, Making, Matched, Ghost
<1>7. ASSUME NEW u \in Threads \ {t}, pc[u] = "serving"
      PROVE  dir'[name[u]] = dir[name[u]] \/ Ghost(name[u])
  <2>1. CASE name[u] = n
    BY <1>1, <1>7, <2>1 DEF IInv, RequestsInv, Placed, Serving, InRequest
  <2>2. CASE name[u] # n
    BY <1>1, <1>7, <2>2 DEF IInv, TypeOK, RequestsInv, Placed
  <2> QED
    BY <2>1, <2>2
<1>8. \A u \in Threads \ {t} : pc'[u] = pc[u] /\ tok'[u] = tok[u] /\ name'[u] = name[u]
  BY <1>1 DEF IInv, TypeOK, Ends
<1>9. \A k \in Names \ {n} : record'[k] = record[k] /\ dir'[k] = dir[k]
  BY <1>1 DEF IInv, TypeOK
<1> QED
  BY <1>1, <1>3, <1>4, <1>5, <1>6, <1>7, <1>8, <1>9, GatedStep DEF Gated, sessions

LEMMA UndoStep ==
    ASSUME IInv, NEW t \in Threads, Undo(t)
    PROVE  IInv'
<1> PICK n \in Names : n = name[t]
  BY DEF Undo, IInv, RequestsInv, Placed
<1>1. /\ pc[t] = "undoing" /\ Ends(t)
      /\ UNCHANGED <<dir, born, mem, verified, issued, out>>
  BY DEF Undo
<1>2. \/ record' = [record EXCEPT ![n] = 0] /\ rows' = rows \ TokensOf(n) /\ UNCHANGED mishaps
      \/ mishaps' = mishaps \cup {<<"ghost", n>>} /\ UNCHANGED <<record, rows>>
  BY DEF Undo, Cascade
<1>3. Making(t) /\ Placed(t)
  BY DEF IInv, RequestsInv
<1>4. TypeOK'
  <2>1. /\ record' \in [Names -> Nat] /\ rows' \subseteq Tokens
        /\ mishaps' \subseteq {"ghost", "orphan"} \X Names
        /\ \A m \in Names : record'[m] \in {0, born[m]}
    BY <1>2 DEF IInv, TypeOK
  <2>2. \A k \in rows' : record'[issued[k].name] # 0
    BY <1>2 DEF IInv, TypeOK, SessionsInv, Owned, Live, TokensOf
  <2> QED
    BY <1>1, <2>1, <2>2 DEF IInv, TypeOK, Ends, Gated
<1>5. SessionsInv'
  BY <1>1, <1>2, <1>3 DEF IInv, TypeOK, SessionsInv, Owned, OutEnded, Live, Ghost,
       Making
<1>6. At(t)'
  BY <1>1 DEF IInv, TypeOK, Ends, At, Placed, LoginSees, Making, Deleting, Serving,
       InRequest
<1>7. Matched(n)'
  <2>1. CASE mishaps' = mishaps \cup {<<"ghost", n>>}
    BY <2>1 DEF Matched, Ghost
  <2>2. CASE record' = [record EXCEPT ![n] = 0] /\ UNCHANGED mishaps
    BY <1>1, <1>3, <2>2 DEF IInv, TypeOK, Making, Matched, Ghost, Orphan
  <2> QED
    BY <1>2, <2>1, <2>2
<1>8. \A u \in Threads \ {t} : pc'[u] = pc[u] /\ tok'[u] = tok[u] /\ name'[u] = name[u]
  BY <1>1 DEF IInv, TypeOK, Ends
<1>9. /\ mishaps \subseteq mishaps'
      /\ \A m \in Names \ {n} : record'[m] = record[m] /\ dir'[m] = dir[m]
  BY <1>1, <1>2 DEF IInv, TypeOK
<1> QED
  BY <1>1, <1>4, <1>5, <1>6, <1>7, <1>8, <1>9, GatedStep DEF Gated

LEMMA DeleteRecordStep ==
    ASSUME IInv, NEW t \in Threads, DeleteRecord(t)
    PROVE  IInv'
<1> PICK n \in Names : n = name[t]
  BY DEF DeleteRecord, IInv, RequestsInv, Placed
<1>1. /\ pc[t] = "draining" /\ ~Borrowed(n)
      /\ record' = [record EXCEPT ![n] = 0] /\ rows' = rows \ TokensOf(n)
      /\ UNCHANGED <<dir, born, mem, verified, issued, out>>
  BY DEF DeleteRecord, Cascade
<1>2. \/ Goes(t, "emptying") /\ UNCHANGED <<tok, name, src, mishaps>>
      \/ Ends(t) /\ mishaps' = mishaps \cup {<<"orphan", n>>}
  BY DEF DeleteRecord
<1>3. \A k \in Tokens : k \in mem => issued[k].name # n
  BY <1>1 DEF IInv, RequestsInv, Deleting
<1>4. \A k \in Tokens : Live(k)' => Live(k) /\ issued[k].name # n
  BY <1>1, <1>3 DEF Live, TokensOf
<1>5. mishaps \subseteq mishaps'
  BY <1>2
<1>6. SessionsInv'
  BY <1>1, <1>4, <1>5 DEF IInv, TypeOK, SessionsInv, Owned, OutEnded, Ghost
<1>7. TypeOK'
  <2>1. /\ record' \in [Names -> Nat] /\ rows' \subseteq Tokens
        /\ mishaps' \subseteq {"ghost", "orphan"} \X Names
        /\ \A m \in Names : record'[m] \in {0, born[m]}
    BY <1>1, <1>2 DEF IInv, TypeOK
  <2>2. \A k \in rows' : record'[issued[k].name] # 0
    BY <1>1 DEF IInv, TypeOK, SessionsInv, Owned, Live, TokensOf
  <2> QED
    BY <1>1, <1>2, <2>1, <2>2 DEF IInv, TypeOK, Goes, Ends, Gated
<1>8. At(t)' /\ Matched(n)'
  <2>1. CASE Goes(t, "emptying") /\ UNCHANGED <<tok, name, src, mishaps>>
    <3>1. pc' = [pc EXCEPT ![t] = "emptying"] /\ name' = name /\ pc'[t] = "emptying"
      BY <2>1 DEF IInv, TypeOK, Goes
    <3>2. record'[n] = 0
      BY <1>1 DEF IInv, TypeOK
    <3>3. Deleting(t)'
      BY <1>1, <1>3, <3>1, <3>2 DEF IInv, TypeOK, Borrowed, Deleting
    <3>4. (Placed(t) /\ LoginSees(t) /\ Making(t) /\ Serving(t))'
      BY <3>1 DEF Placed, LoginSees, Making, Serving, InRequest
    <3> QED
      BY <3>1, <3>2, <3>3, <3>4 DEF At, Matched
  <2>2. CASE Ends(t) /\ mishaps' = mishaps \cup {<<"orphan", n>>}
    BY <1>1, <2>2 DEF IInv, TypeOK, Ends, At, Placed, LoginSees, Making, Deleting,
         Serving,
                      InRequest, Matched, Orphan
  <2> QED
    BY <1>2, <2>1, <2>2
<1>9. /\ \A u \in Threads \ {t} : pc'[u] = pc[u] /\ tok'[u] = tok[u] /\ name'[u] = name[u]
      /\ \A m \in Names \ {n} : record'[m] = record[m] /\ dir'[m] = dir[m]
  BY <1>1, <1>2 DEF IInv, TypeOK, Goes, Ends
<1> QED
  BY <1>1, <1>5, <1>6, <1>7, <1>8, <1>9, GatedStep DEF Gated

LEMMA RemoveDirStep ==
    ASSUME IInv, NEW t \in Threads, RemoveDir(t)
    PROVE  IInv'
<1> PICK n \in Names : n = name[t]
  BY DEF RemoveDir, IInv, RequestsInv, Placed
<1>1. /\ pc[t] = "emptying" /\ out' = out \cup TokensOf(n) /\ Ends(t)
      /\ UNCHANGED <<record, born, mem, verified, rows, issued>>
  BY DEF RemoveDir
<1>2. \/ dir' = [dir EXCEPT ![n] = 0] /\ UNCHANGED mishaps
      \/ mishaps' = mishaps \cup {<<"orphan", n>>} /\ UNCHANGED dir
  BY DEF RemoveDir
<1>3. Deleting(t)
  BY DEF IInv, RequestsInv
<1>4. \A k \in TokensOf(n) : ~Live(k) /\ issued[k] # Unissued
  BY <1>1, <1>3, NamesAssumption DEF IInv, TypeOK, Deleting, TokensOf, Live, Unissued
<1>5. TypeOK'
  BY <1>1, <1>2 DEF IInv, TypeOK, Ends, Gated, TokensOf
<1>6. SessionsInv'
  BY <1>1, <1>2, <1>4 DEF IInv, SessionsInv, Owned, OutEnded, Live, Ghost
<1>7. At(t)'
  BY <1>1 DEF IInv, TypeOK, Ends, At, Placed, LoginSees, Making, Deleting, Serving,
       InRequest
<1>8. Matched(n)'
  BY <1>1, <1>2, <1>3 DEF IInv, TypeOK, Deleting, Matched, Orphan
<1>9. /\ \A u \in Threads \ {t} :
            /\ pc'[u] = pc[u] /\ tok'[u] = tok[u] /\ name'[u] = name[u]
            /\ pc[u] = "serving" => dir'[name[u]] = dir[name[u]]
      /\ mishaps \subseteq mishaps'
      /\ \A m \in Names \ {n} : record'[m] = record[m] /\ dir'[m] = dir[m]
  <2>1. \A u \in Threads \ {t} : pc'[u] = pc[u] /\ tok'[u] = tok[u] /\ name'[u] = name[u]
    BY <1>1 DEF IInv, TypeOK, Ends
  <2>2. \A u \in Threads \ {t} : pc[u] = "serving" => name[u] \in Names /\ name[u] # n
    BY <1>1, <1>3 DEF IInv, RequestsInv, Placed, Deleting
  <2>3. mishaps \subseteq mishaps' /\ \A m \in Names \ {n} : record'[m] = record[m] /\ dir'[m] = dir[m]
    BY <1>1, <1>2 DEF IInv, TypeOK
  <2> QED
    BY <2>1, <2>2, <2>3
<1> QED
  BY <1>1, <1>5, <1>6, <1>7, <1>8, <1>9, GatedStep DEF Gated

-----------------------------------------------------------------------------
(* Steps of no request.                                                    *)
LEMMA SessionEnds ==
    ASSUME IInv, NEW k \in Tokens, Logout(k) \/ Expire(k)
    PROVE  IInv'
<1>1. /\ UNCHANGED <<record, dir, born, verified, issued, mishaps, pc, tok, name, src>>
      /\ mem' \subseteq mem /\ rows' \subseteq rows
      /\ \/ out' = out
         \/ out' = out \cup {k} /\ k \notin mem' /\ k \notin rows' /\ issued[k] # Unissued
  BY DEF Logout, Expire, stores, locals
<1>2. TypeOK'
  BY <1>1 DEF IInv, TypeOK
<1>3. SessionsInv'
  BY <1>1 DEF IInv, SessionsInv, Owned, OutEnded, Live, Ghost
<1>4. RequestsInv'
  <2> SUFFICES ASSUME NEW u \in Threads PROVE At(u)'
    BY DEF RequestsInv, At
  <2>1. At(u)
    BY DEF IInv, RequestsInv, At
  <2>2. (Placed(u) /\ LoginSees(u) /\ Deleting(u) /\ Serving(u))'
    BY <1>1, <2>1 DEF At, Placed, LoginSees, Deleting, Serving, Ghost
  <2>3. Making(u)'
    BY <1>1, <2>1 DEF At, Making, Live, Ghost, Orphan
  <2> QED
    BY <2>2, <2>3 DEF At
<1>5. NamesInv'
  BY <1>1 DEF IInv, NamesInv, Matched, Ghost, Orphan
<1> QED
  BY <1>2, <1>3, <1>4, <1>5 DEF IInv

LEMMA DeletedOutsideStep ==
    ASSUME IInv, NEW n \in Names, DeletedOutside(n)
    PROVE  IInv'
<1>1. /\ record' = [record EXCEPT ![n] = 0] /\ rows' = rows \ TokensOf(n)
      /\ mishaps' = mishaps \cup {<<"ghost", n>>}
      /\ UNCHANGED <<dir, born, mem, verified, issued, out, pc, tok, name, src>>
  BY DEF DeletedOutside, Cascade, locals
<1>2. Ghost(n)' /\ \A m : (Ghost(m) => Ghost(m)') /\ (Orphan(m) => Orphan(m)')
  BY <1>1 DEF Ghost, Orphan
<1>3. \A m \in Names : m = n \/ record'[m] = record[m]
  BY <1>1 DEF IInv, TypeOK
<1>4. TypeOK'
  <2>1. \A k \in rows' : record'[issued[k].name] # 0
    BY <1>1, <1>3 DEF IInv, TypeOK, SessionsInv, Owned, Live, TokensOf
  <2> QED
    BY <1>1, <2>1 DEF IInv, TypeOK
<1>5. SessionsInv'
  BY <1>1, <1>2, <1>3 DEF IInv, SessionsInv, Owned, OutEnded, Live
<1>6. RequestsInv'
  <2> SUFFICES ASSUME NEW u \in Threads PROVE At(u)'
    BY DEF RequestsInv, At
  <2>1. At(u)
    BY DEF IInv, RequestsInv, At
  <2>2. (Placed(u) /\ LoginSees(u) /\ Serving(u))'
    BY <1>1, <1>2, <1>3, <2>1 DEF At, Placed, LoginSees, Serving
  <2>3. Making(u)'
    BY <1>1, <1>2, <1>3, <2>1 DEF At, Placed, Making, Live
  <2>4. Deleting(u)'
    BY <1>1, <1>3, <2>1 DEF IInv, TypeOK, At, Placed, Deleting
  <2> QED
    BY <2>2, <2>3, <2>4 DEF At
<1>7. NamesInv'
  BY <1>1, <1>2, <1>3 DEF IInv, NamesInv, Matched
<1> QED
  BY <1>4, <1>5, <1>6, <1>7 DEF IInv

LEMMA RestartStep ==
    ASSUME IInv, Restart
    PROVE  IInv'
<1>1. /\ mem' = rows /\ verified' = {} /\ mishaps \subseteq mishaps'
      /\ UNCHANGED <<record, dir, born, rows, issued, out>>
      /\ pc' = [t \in Threads |-> "idle"] /\ tok' = [t \in Threads |-> NoToken]
      /\ name' = [t \in Threads |-> NoName] /\ src' = [t \in Threads |-> NoName]
  BY DEF Restart, stores
<1>2. \A t \in Threads, n \in Names : name[t] = n =>
          /\ pc[t] \in {"making", "undoing"} => Ghost(n)'
          /\ pc[t] = "emptying" => Orphan(n)'
  BY DEF Restart, Ghost, Orphan
<1>3. TypeOK'
  <2>1. mishaps' \subseteq {"ghost", "orphan"} \X Names
    BY DEF IInv, TypeOK, RequestsInv, Placed, Restart
  <2> QED
    BY <1>1, <2>1 DEF IInv, TypeOK, Gated
<1>4. SessionsInv'
  BY <1>1 DEF IInv, SessionsInv, Owned, OutEnded, Live, Ghost
<1>5. RequestsInv'
  BY <1>1 DEF RequestsInv, Placed, LoginSees, Making, Deleting, Serving, InRequest
<1>6. NamesInv'
  <2> SUFFICES ASSUME NEW n \in Names PROVE Matched(n)'
    BY DEF NamesInv
  <2>1. Matched(n)
    BY DEF IInv, NamesInv
  <2>2. (Ghost(n) => Ghost(n)') /\ (Orphan(n) => Orphan(n)')
    BY <1>1 DEF Ghost, Orphan
  <2> QED
    BY <1>1, <1>2, <2>1, <2>2 DEF Matched
<1> QED
  BY <1>3, <1>4, <1>5, <1>6 DEF IInv

LEMMA StutterStep ==
    ASSUME IInv, UNCHANGED vars
    PROVE  IInv'
<1>1. UNCHANGED <<record, dir, born, mem, verified, rows, issued, out, mishaps, pc, tok, name, src>>
  BY DEF vars, stores, sessions, locals
<1>2. TypeOK' /\ SessionsInv' /\ NamesInv'
  BY <1>1 DEF IInv, TypeOK, SessionsInv, Owned, OutEnded, Live, NamesInv, Matched,
       Ghost, Orphan
<1>3. RequestsInv'
  BY <1>1 DEF IInv, RequestsInv, Placed, LoginSees, Making, Deleting, Serving, Live,
       Ghost, Orphan
<1> QED
  BY <1>2, <1>3 DEF IInv

(* The invariant is inductive.                                             *)
LEMMA InitIInv == Init => IInv
<1> SUFFICES ASSUME Init PROVE IInv
  OBVIOUS
<1>1. TypeOK
  BY DEF Init, TypeOK, Gated, Unissued
<1>2. SessionsInv
  BY DEF Init, SessionsInv, Owned, OutEnded, Live
<1>3. RequestsInv
  BY DEF Init, RequestsInv, Placed, LoginSees, Making, Deleting, Serving, InRequest
<1>4. NamesInv
  BY DEF Init, NamesInv, Matched
<1> QED
  BY <1>1, <1>2, <1>3, <1>4 DEF IInv

LEMMA NextIInv == IInv /\ [Next]_vars => IInv'
<1> SUFFICES ASSUME IInv, [Next]_vars PROVE IInv'
  OBVIOUS
<1>1. ASSUME NEW t \in Threads, Login(t) PROVE IInv'
  BY <1>1, LoginLooksUpStep, LoginIssuesStep, LoginFailsStep DEF Login
<1>2. ASSUME NEW t \in Threads, Request(t) PROVE IInv'
  BY <1>2, RequestBeginsStep, RequestChecksStep, RequestOrphanedStep, RequestMarksStep,
     RequestOpensStep, RequestServedStep, RequestEndsStep DEF Request
<1>3. ASSUME NEW t \in Threads, Create(t) PROVE IInv'
  BY <1>3, CreateBeginsStep, CloneBeginsStep, InsertRecordStep, InsertFailsStep,
     MakeDirStep, MakeDirFailsStep, UndoStep DEF Create
<1>4. ASSUME NEW t \in Threads, Delete(t) PROVE IInv'
  BY <1>4, DeleteBeginsStep, DeleteSessionsStep, DeleteRecordStep, DeleteFailsStep,
     RemoveDirStep DEF Delete
<1>5. CASE \E k \in Tokens : Logout(k) \/ Expire(k)
  BY <1>5, SessionEnds
<1>6. CASE \E n \in Names : DeletedOutside(n)
  BY <1>6, DeletedOutsideStep
<1>7. CASE Restart
  BY <1>7, RestartStep
<1>8. CASE UNCHANGED vars
  BY <1>8, StutterStep
<1> QED
  BY <1>1, <1>2, <1>3, <1>4, <1>5, <1>6, <1>7, <1>8 DEF Next

LEMMA Inductive == Spec => []IInv
  BY InitIInv, NextIInv, PTL DEF Spec

-----------------------------------------------------------------------------
(* Types, one holder of profileOps, and a parent for every stored session. *)
THEOREM TypeCorrect == Spec => []TypeOK
<1>1. IInv => TypeOK
  BY DEF IInv
<1> QED
  BY <1>1, Inductive, PTL

(* A session belongs to the profile that has its name now: a name that is  *)
(* deleted and taken again is not met by the old one's sessions.           *)
THEOREM NamesNotInherited == Spec => []SessionsNameTheirProfile
<1>1. IInv => SessionsNameTheirProfile
  BY DEF IInv, TypeOK, SessionsInv, Owned, Live, Ghost, SessionsNameTheirProfile
<1> QED
  BY <1>1, Inductive, PTL

(* A request reads the library of the profile its session was issued for,  *)
(* whatever was deleted and made again while it waited.                    *)
THEOREM ServedCorrectly == Spec => []ServedFromOwnLibrary
<1>1. IInv => ServedFromOwnLibrary
  BY DEF IInv, RequestsInv, Serving, Ghost, ServedFromOwnLibrary
<1> QED
  BY <1>1, Inductive, PTL

(* A session whose end was reported is never live again.                   *)
THEOREM NoRevival == Spec => []EndedStaysEnded
<1>1. IInv => EndedStaysEnded
  BY DEF IInv, TypeOK, SessionsInv, OutEnded, Live, EndedStaysEnded
<1> QED
  BY <1>1, Inductive, PTL

(* With no operation under way a name has a record and the directory made  *)
(* for it, or neither, reported mishaps excepted.                          *)
THEOREM RecordsAgree == Spec => []RecordsMatchDirs
<1>1. IInv => RecordsMatchDirs
  BY DEF IInv, NamesInv, Matched, Gated, Ghost, Orphan, RecordsMatchDirs
<1> QED
  BY <1>1, Inductive, PTL

-----------------------------------------------------------------------------
(* The limiter.  Failures are counted back from the latest, Ago(s, 0).     *)
Ago(s, d) == s[Len(s) - d]
Backs(s)  == 0..(Len(s) - 1)

Throttles == [known : BOOLEAN, failures : Nat, windowStart : Nat, lockedUntil : Nat,
              lastSeen : Nat, inFlight : BOOLEAN]

ThrottleTypeOK ==
    /\ clock \in Nat
    /\ entries \in [Keys -> Throttles]
    /\ \A l \in Logins : at[l].pc # "idle" => at[l].key \in Keys
    /\ at \in [Logins -> [pc : {"idle", "comparing", "recorded"}, key : Keys \cup {NoAttempt.key}]]
    /\ refused \in [Keys -> Seq(Nat)]

(* Failures are in the order of time, and no more are kept than matter.    *)
InOrder(s) ==
    /\ Len(s) <= 2 * MaxFailures
    /\ \A d \in Backs(s) : Ago(s, d) <= clock
    /\ \A d, c \in Backs(s) : c <= d => Ago(s, d) <= Ago(s, c)

(* An entry counts the failures since its window began, which is after all *)
(* earlier ones.                                                           *)
Counting(e, s) ==
    /\ e.windowStart <= clock /\ e.lastSeen <= clock
    /\ \A d \in Backs(s) : Ago(s, d) <= e.lastSeen
    /\ \A d \in Backs(s) : d >= e.failures => Ago(s, d) <= e.windowStart
    /\ e.failures > 0 /\ e.failures <= Len(s) => e.windowStart <= Ago(s, e.failures - 1)

(* Enough failures lock the key.                                           *)
Locking(e, s) ==
    e.failures >= MaxFailures => \A d \in Backs(s) : Ago(s, d) + Lockout <= e.lockedUntil

(* The first failure of a window is a lockout later than all but the last  *)
(* few failures before it: either those locked, or they had a window of    *)
(* their own.                                                              *)
Apart(e, s) ==
    e.failures > 0 => \A d \in Backs(s) : d >= e.failures + MaxFailures - 1 =>
        Ago(s, d) + Lockout <= Ago(s, e.failures - 1)

(* An entry without failures knows of none, or they are a window ago.      *)
Fresh(e, s) == e.failures = 0 => \A d \in Backs(s) : Ago(s, d) + Window <= e.windowStart
Gone(s)     == \A d \in Backs(s) : Ago(s, d) + Window <= clock

Limited(s) == Len(s) = 2 * MaxFailures => Ago(s, 2 * MaxFailures - 1) + Lockout <= Ago(s, 0)

KeyOK(k) ==
    /\ InOrder(refused[k]) /\ Limited(refused[k])
    /\ entries[k].known => /\ Counting(entries[k], refused[k]) /\ Locking(entries[k], refused[k])
                           /\ Apart(entries[k], refused[k]) /\ Fresh(entries[k], refused[k])
    /\ ~entries[k].known => Gone(refused[k])

(* An attempt holds the reservation of its key's entry, alone.             *)
AttemptOK(l) ==
    /\ at[l].pc # "idle" => entries[at[l].key].known /\ entries[at[l].key].inFlight
    /\ at[l].pc = "comparing" => clock >= entries[at[l].key].lockedUntil

AloneWithKey == \A l, m \in Logins :
    at[l].pc # "idle" /\ at[m].pc # "idle" /\ at[l].key = at[m].key => l = m

ThrottleInv == /\ ThrottleTypeOK
               /\ \A k \in Keys : KeyOK(k)
               /\ \A l \in Logins : AttemptOK(l)
               /\ AloneWithKey


LEMMA Limits == /\ MaxFailures \in Nat /\ MaxFailures >= 1 /\ Window \in Nat /\ Lockout \in Nat
                /\ Lockout <= Window
  BY ThrottleAssumption

USE DEF Backs

LEMMA Remembered ==
  ASSUME NEW s \in Seq(Nat), NEW t \in Nat, Len(s) <= 2 * MaxFailures,
         NEW q, q = Latest(Append(s, t))
  PROVE  /\ q \in Seq(Nat) /\ Len(q) <= 2 * MaxFailures /\ Ago(q, 0) = t
         /\ \A d \in Backs(q) : d > 0 => d - 1 \in Backs(s) /\ Ago(q, d) = Ago(s, d - 1)
         /\ Len(q) \in Nat /\ Len(q) > 0
<1> DEFINE a == Append(s, t)
<1>1. a \in Seq(Nat) /\ Len(a) = Len(s) + 1 /\ Len(s) \in Nat /\ a[Len(s) + 1] = t
      /\ q = Latest(a)
  OBVIOUS
<1>2. \A i \in 1..Len(s) : a[i] = s[i]
  OBVIOUS
<1> HIDE DEF a
<1>3. CASE Len(a) > 2 * MaxFailures
  <2>1. q = Tail(a)
    BY <1>1, <1>3 DEF Latest
  <2> a # <<>>
    <3>1. Len(a) > 0 /\ Len(<<>>) = 0
      BY <1>1
    <3> QED BY <3>1
  <2>2. q \in Seq(Nat) /\ Len(q) = Len(s) /\ \A i \in 1..Len(s) : q[i] = a[i + 1]
    <3>1. /\ Tail(a) \in Seq(Nat) /\ Len(Tail(a)) = Len(a) - 1
          /\ \A i \in 1..Len(Tail(a)) : Tail(a)[i] = a[i + 1]
      BY <1>1, HeadTailProperties
    <3>2. Len(a) - 1 = Len(s)
      BY <1>1
    <3> QED BY <2>1, <3>1, <3>2
  <2>3. Len(s) = 2 * MaxFailures /\ Len(s) > 0
    BY <1>1, <1>3, Limits
  <2>4. Ago(q, 0) = t
    BY <1>1, <2>2, <2>3 DEF Ago
  <2>5. ASSUME NEW d \in Backs(q), d > 0
        PROVE  d - 1 \in Backs(s) /\ Ago(q, d) = Ago(s, d - 1)
    <3>1. d \in Nat /\ d < Len(s) /\ d > 0
      BY <1>1, <2>2, <2>5 DEF Backs
    <3>2. Ago(q, d) = q[Len(s) - d] /\ Ago(s, d - 1) = s[Len(s) - (d - 1)]
      BY <2>2 DEF Ago
    <3>3. Len(s) - d \in 1..Len(s) /\ Len(s) - d + 1 \in 1..Len(s)
      BY <1>1, <3>1
    <3>4. q[Len(s) - d] = a[Len(s) - d + 1] /\ a[Len(s) - d + 1] = s[Len(s) - d + 1]
      BY <1>2, <2>2, <3>3
    <3>5. Len(s) - (d - 1) = Len(s) - d + 1 /\ d - 1 \in Backs(s)
      BY <1>1, <3>1 DEF Backs
    <3> QED BY <3>2, <3>4, <3>5
  <2> QED BY <2>2, <2>3, <2>4, <2>5
<1>4. CASE ~(Len(a) > 2 * MaxFailures)
  <2>1. q = a
    BY <1>1, <1>4 DEF Latest
  <2>2. Ago(q, 0) = t
    BY <1>1, <2>1 DEF Ago
  <2>3. ASSUME NEW d \in Backs(q), d > 0
        PROVE  d - 1 \in Backs(s) /\ Ago(q, d) = Ago(s, d - 1)
    <3>1. d \in Nat /\ d < Len(s) + 1 /\ d > 0
      BY <1>1, <2>1, <2>3 DEF Backs
    <3>2. Ago(q, d) = a[Len(s) + 1 - d] /\ Ago(s, d - 1) = s[Len(s) - (d - 1)]
      BY <1>1, <2>1 DEF Ago
    <3>3. Len(s) - (d - 1) = Len(s) + 1 - d /\ d - 1 \in Backs(s)
      BY <1>1, <3>1 DEF Backs
    <3>4. Len(s) + 1 - d \in 1..Len(s)
      BY <1>1, <3>1
    <3>5. a[Len(s) + 1 - d] = s[Len(s) + 1 - d]
      BY <1>2, <3>4
    <3> QED BY <3>2, <3>3, <3>5
  <2> QED BY <1>1, <1>4, <2>1, <2>2, <2>3, Limits
<1> QED BY <1>3, <1>4

LEMMA AgoTypes ==
  ASSUME NEW s \in Seq(Nat)
  PROVE  Len(s) \in Nat /\ \A d \in Backs(s) : Ago(s, d) \in Nat /\ d \in Nat /\ d < Len(s)
  BY DEF Backs, Ago

LEMMA KeyTypes ==
  ASSUME ThrottleTypeOK, NEW k \in Keys
  PROVE  /\ refused[k] \in Seq(Nat) /\ clock \in Nat
         /\ entries[k] \in Throttles
         /\ entries[k].failures \in Nat /\ entries[k].windowStart \in Nat
         /\ entries[k].lockedUntil \in Nat /\ entries[k].lastSeen \in Nat
  BY DEF ThrottleTypeOK, Throttles

(* A key whose failures and entry stay as they are, but for the            *)
(* reservation and the time it was last seen.                              *)
LEMMA KeyStays ==
  ASSUME ThrottleTypeOK, ThrottleTypeOK', NEW k \in Keys, KeyOK(k), clock' >= clock,
         refused'[k] = refused[k], entries'[k].known = entries[k].known,
         entries'[k].failures = entries[k].failures,
         entries'[k].windowStart = entries[k].windowStart,
         entries'[k].lockedUntil = entries[k].lockedUntil,
         entries'[k].lastSeen >= entries[k].lastSeen, entries'[k].lastSeen <= clock' \/ ~entries[k].known
  PROVE  KeyOK(k)'
<1> DEFINE s == refused[k]
           e == entries[k]
<1>1. /\ s \in Seq(Nat) /\ clock \in Nat /\ e.failures \in Nat /\ e.windowStart \in Nat
      /\ e.lockedUntil \in Nat /\ e.lastSeen \in Nat /\ entries'[k].lastSeen \in Nat
  BY KeyTypes DEF ThrottleTypeOK, Throttles
<1>2. clock' \in Nat
  BY DEF ThrottleTypeOK
<1>3. \A d \in Backs(s) : Ago(s, d) \in Nat
  BY <1>1, AgoTypes
<1>4. InOrder(refused[k])' /\ Limited(refused[k])'
  BY <1>1, <1>2, <1>3 DEF KeyOK, InOrder, Limited
<1>5. ASSUME entries'[k].known
      PROVE  /\ Counting(entries[k], refused[k])' /\ Locking(entries[k], refused[k])'
             /\ Apart(entries[k], refused[k])' /\ Fresh(entries[k], refused[k])'
  <2>1. Counting(e, s) /\ Locking(e, s) /\ Apart(e, s) /\ Fresh(e, s)
    BY <1>5 DEF KeyOK
  <2>2. Counting(entries[k], refused[k])'
    BY <1>1, <1>2, <1>3, <1>5, <2>1 DEF Counting
  <2> QED BY <2>1, <2>2 DEF Locking, Apart, Fresh
<1>6. ASSUME ~entries'[k].known
      PROVE  Gone(refused[k])'
  BY <1>1, <1>2, <1>3, <1>6, Limits DEF KeyOK, Gone
<1> QED BY <1>4, <1>5, <1>6 DEF KeyOK

(* An entry that is forgotten has failures that are a window ago.          *)
LEMMA KeyForgotten ==
  ASSUME ThrottleTypeOK, NEW k \in Keys, KeyOK(k), clock' = clock, refused'[k] = refused[k],
         StaleEntry(k) \/ (entries[k].known /\ entries[k].failures = 0),
         ~entries'[k].known
  PROVE  KeyOK(k)'
<1>1. /\ entries[k].known
      /\ Counting(entries[k], refused[k]) /\ Fresh(entries[k], refused[k])
  BY DEF StaleEntry, KeyOK
<1>2. Gone(refused[k])
  <2> SUFFICES ASSUME NEW d \in Backs(refused[k])
               PROVE  Ago(refused[k], d) + Window <= clock
    BY DEF Gone
  <2>1. /\ entries[k].windowStart \in Nat /\ entries[k].lastSeen \in Nat /\ clock \in Nat
        /\ Ago(refused[k], d) \in Nat
    BY KeyTypes, AgoTypes
  <2>2. CASE StaleEntry(k)
    BY <1>1, <2>1, <2>2, Limits DEF StaleEntry, Counting
  <2>3. CASE entries[k].failures = 0
    BY <1>1, <2>1, <2>3, Limits DEF Fresh, Counting
  <2> QED BY <2>2, <2>3
<1> QED BY <1>2 DEF KeyOK, InOrder, Limited, Gone


(* recordFailure, on the failures s and the entry e of a key that is not   *)
(* locked: it is another failure of the window or the first of a new one.  *)
LEMMA FailureKeeps ==
  ASSUME NEW s \in Seq(Nat), NEW e \in Throttles, NEW g \in Throttles, clock \in Nat,
         InOrder(s), Counting(e, s), Locking(e, s), Apart(e, s), Fresh(e, s),
         e.lockedUntil <= clock,
         \/ clock >= e.windowStart + Window /\ g.failures = 1 /\ g.windowStart = clock
         \/ g.failures = e.failures + 1 /\ g.windowStart = e.windowStart,
         g.lastSeen = clock, g.failures >= MaxFailures => g.lockedUntil = clock + Lockout,
         NEW q, q = Latest(Append(s, clock))
  PROVE  /\ q \in Seq(Nat) /\ InOrder(q) /\ Limited(q)
         /\ Counting(g, q) /\ Locking(g, q) /\ Apart(g, q) /\ Fresh(g, q)
<1> DEFINE over == clock >= e.windowStart + Window /\ g.failures = 1 /\ g.windowStart = clock
           more == g.failures = e.failures + 1 /\ g.windowStart = e.windowStart
<1>1. over \/ more
  OBVIOUS
<1>2. /\ e.failures \in Nat /\ e.windowStart \in Nat /\ e.lockedUntil \in Nat /\ e.lastSeen \in Nat
      /\ g.failures \in Nat /\ g.windowStart \in Nat /\ g.lockedUntil \in Nat /\ g.lastSeen \in Nat
  BY DEF Throttles
<1>3. /\ q \in Seq(Nat) /\ Len(q) <= 2 * MaxFailures /\ Ago(q, 0) = clock
      /\ \A d \in Backs(q) : d > 0 => d - 1 \in Backs(s) /\ Ago(q, d) = Ago(s, d - 1)
      /\ Len(q) \in Nat /\ Len(s) \in Nat
  BY Remembered DEF InOrder
<1>4. \A d \in Backs(q) : Ago(q, d) \in Nat /\ d \in Nat /\ d < Len(q)
  BY <1>3, AgoTypes
<1>5. \A d \in Backs(s) : Ago(s, d) \in Nat /\ d \in Nat /\ Ago(s, d) <= clock
  BY AgoTypes DEF InOrder
<1>6. \A d \in Backs(q) : Ago(q, d) <= clock
  BY <1>3, <1>4, <1>5
<1>7. InOrder(q)
  <2> SUFFICES ASSUME NEW d \in Backs(q), NEW c \in Backs(q), c <= d
               PROVE  Ago(q, d) <= Ago(q, c)
    BY <1>3, <1>6 DEF InOrder
  <2>1. CASE c = 0
    BY <1>3, <1>6, <2>1
  <2>2. CASE c > 0
    <3>1. d - 1 \in Backs(s) /\ c - 1 \in Backs(s) /\ c - 1 <= d - 1 /\ Ago(q, d) = Ago(s, d - 1)
          /\ Ago(q, c) = Ago(s, c - 1)
      BY <1>3, <1>4, <2>2
    <3> QED BY <3>1 DEF InOrder
  <2> QED BY <1>4, <2>1, <2>2
(* Whatever is further back than a window of few failures is over.         *)
<1>8. ASSUME over, NEW d \in Backs(s), d >= MaxFailures - 1
      PROVE  Ago(s, d) + Lockout <= clock
  <2>1. CASE e.failures >= MaxFailures
    BY <1>2, <1>5, <2>1, Limits DEF Locking
  <2>2. CASE e.failures < MaxFailures
    <3>1. Ago(s, d) <= e.windowStart
      BY <1>2, <1>5, <1>8, <2>2, Limits DEF Counting
    <3> QED BY <1>2, <1>5, <1>8, <3>1, Limits
  <2> QED BY <1>2, <2>1, <2>2, Limits
<1>9. Counting(g, q)
  <2>1. CASE over
    BY <1>2, <1>3, <1>6, <2>1 DEF Counting
  <2>2. CASE more
    <3>1. ASSUME NEW d \in Backs(q), d >= g.failures
          PROVE  Ago(q, d) <= g.windowStart
      <4>1. d - 1 \in Backs(s) /\ Ago(q, d) = Ago(s, d - 1) /\ d - 1 >= e.failures
        BY <1>2, <1>3, <1>4, <2>2, <3>1
      <4> QED BY <2>2, <4>1 DEF Counting
    <3>2. ASSUME g.failures <= Len(q)
          PROVE  g.windowStart <= Ago(q, g.failures - 1)
      <4>1. CASE e.failures = 0
        BY <1>2, <1>3, <2>2, <4>1 DEF Counting
      <4>2. CASE e.failures > 0
        <5> e.failures \in Nat /\ Len(q) \in Nat /\ g.failures = e.failures + 1
          BY <1>2, <1>3, <2>2
        <5>1. g.failures - 1 = e.failures /\ e.failures \in Backs(q)
          BY <3>2 DEF Backs
        <5>2. e.failures - 1 \in Backs(s) /\ Ago(q, e.failures) = Ago(s, e.failures - 1)
          BY <1>3, <4>2, <5>1
        <5>3. e.failures <= Len(s)
          BY <1>2, <5>2, AgoTypes
        <5> QED BY <2>2, <4>2, <5>1, <5>2, <5>3 DEF Counting
      <4> QED BY <1>2, <4>1, <4>2
    <3> QED BY <1>2, <1>6, <2>2, <3>1, <3>2 DEF Counting
  <2> QED BY <1>1, <2>1, <2>2
<1>10. Locking(g, q)
  BY <1>2, <1>4, <1>6, Limits DEF Locking
<1>11. Apart(g, q)
  <2> SUFFICES ASSUME NEW d \in Backs(q), d >= g.failures + MaxFailures - 1, g.failures > 0
               PROVE  Ago(q, d) + Lockout <= Ago(q, g.failures - 1)
    BY DEF Apart
  <2>1. d > 0 /\ d - 1 \in Backs(s) /\ Ago(q, d) = Ago(s, d - 1)
    BY <1>2, <1>3, <1>4, Limits
  <2>2. CASE over
    BY <1>3, <1>4, <1>8, <2>1, <2>2, Limits
  <2>3. CASE more
    <3>1. CASE e.failures = 0
      BY <1>2, <1>3, <1>5, <2>1, <2>3, <3>1, Limits DEF Fresh, Counting
    <3>2. CASE e.failures > 0
      <4> e.failures \in Nat /\ Len(q) \in Nat /\ g.failures = e.failures + 1 /\ d \in Nat /\ d < Len(q)
        BY <1>2, <1>3, <1>4, <2>3
      <4>1. e.failures \in Backs(q) /\ g.failures - 1 = e.failures
        <5>1. e.failures <= d
          BY Limits
        <5>2. 0 <= e.failures /\ e.failures <= Len(q) - 1 /\ g.failures - 1 = e.failures
          BY <5>1
        <5>3. e.failures \in Int /\ Len(q) - 1 \in Int
          OBVIOUS
        <5> QED BY <5>2, <5>3
      <4>2. Ago(q, e.failures) = Ago(s, e.failures - 1)
        BY <1>3, <3>2, <4>1
      <4>3. d - 1 >= e.failures + MaxFailures - 1
        BY <1>2, <1>4, <2>3, Limits
      <4> QED BY <2>1, <3>2, <4>1, <4>2, <4>3 DEF Apart
    <3> QED BY <1>2, <3>1, <3>2
  <2> QED BY <1>1, <2>2, <2>3
<1>12. Fresh(g, q)
  BY <1>1, <1>2 DEF Fresh
<1>13. Limited(q)
  <2> SUFFICES ASSUME Len(q) = 2 * MaxFailures
               PROVE  Ago(q, 2 * MaxFailures - 1) + Lockout <= clock
    BY <1>3 DEF Limited
  <2> DEFINE far == 2 * MaxFailures - 2
  <2>1. 2 * MaxFailures - 1 \in Backs(q) /\ 2 * MaxFailures - 1 > 0 /\ 2 * MaxFailures - 1 - 1 = far
    BY Limits DEF Backs
  <2>2. far \in Backs(s) /\ Ago(q, 2 * MaxFailures - 1) = Ago(s, far)
    BY <1>3, <2>1
  <2>3. far \in Nat /\ far = 2 * MaxFailures - 2
    BY Limits
  <2> HIDE DEF far
  <2>4. Ago(s, far) \in Nat /\ Ago(s, far) <= clock
    BY <1>5, <2>2
  <2> SUFFICES Ago(s, far) + Lockout <= clock
    BY <2>2
  <2>5. CASE over
    <3>1. far >= MaxFailures - 1
      BY <2>3, Limits
    <3> QED BY <1>8, <2>2, <2>5, <3>1
  <2>6. CASE e.failures >= MaxFailures
    <3>1. Ago(s, far) + Lockout <= e.lockedUntil
      BY <2>2, <2>6 DEF Locking
    <3> QED BY <1>2, <2>4, <3>1, Limits
  <2>7. CASE e.failures = 0
    <3>1. Ago(s, far) + Window <= e.windowStart /\ e.windowStart <= clock
      BY <2>2, <2>7 DEF Fresh, Counting
    <3> QED BY <1>2, <2>4, <3>1, Limits
  <2>8. CASE 0 < e.failures /\ e.failures < MaxFailures
    <3>1. far >= e.failures + MaxFailures - 1
      BY <1>2, <2>3, <2>8, Limits
    <3>2. e.failures - 1 \in Backs(s)
      <4>1. e.failures - 1 <= far /\ e.failures - 1 >= 0
        BY <1>2, <2>3, <2>8, <3>1, Limits
      <4>2. far <= Len(s) - 1
        BY <1>3, <2>2 DEF Backs
      <4>3. e.failures - 1 >= 0 /\ e.failures - 1 <= Len(s) - 1
        BY <1>2, <1>3, <2>3, <4>1, <4>2
      <4>4. e.failures - 1 \in Int /\ Len(s) - 1 \in Int
        BY <1>2, <1>3
      <4> QED BY <4>3, <4>4
    <3>3. Ago(s, far) + Lockout <= Ago(s, e.failures - 1)
      BY <2>2, <2>8, <3>1 DEF Apart
    <3>4. Ago(s, e.failures - 1) \in Nat /\ Ago(s, e.failures - 1) <= clock
      BY <1>5, <3>2
    <3> QED BY <2>4, <3>3, <3>4, Limits
  <2> QED BY <1>2, <2>6, <2>7, <2>8, Limits
<1> QED BY <1>3, <1>7, <1>9, <1>10, <1>11, <1>12, <1>13


LEMMA Nothing == NoThrottle \in Throttles /\ NoThrottle.known = FALSE /\ NoThrottle.inFlight = FALSE
  BY DEF NoThrottle, Throttles

LEMMA LoginTypes ==
  ASSUME ThrottleTypeOK, NEW l \in Logins
  PROVE  /\ at[l] \in [pc : {"idle", "comparing", "recorded"}, key : Keys \cup {NoAttempt.key}]
         /\ at[l].pc # "idle" => at[l].key \in Keys
  BY DEF ThrottleTypeOK

(* What a step does to one entry, and what to the keys beside.             *)
LEMMA OneKey ==
  ASSUME ThrottleInv, ThrottleTypeOK', NEW k \in Keys, clock' = clock,
         \A j \in Keys : j # k => entries'[j] = entries[j] /\ refused'[j] = refused[j],
         KeyOK(k)'
  PROVE  \A j \in Keys : KeyOK(j)'
<1> SUFFICES ASSUME NEW j \in Keys, j # k  PROVE KeyOK(j)'
  OBVIOUS
<1> QED BY DEF ThrottleInv, KeyOK, InOrder, Limited, Counting, Locking, Apart, Fresh, Gone

LEMMA TickStep == ThrottleInv /\ Tick => ThrottleInv'
<1> SUFFICES ASSUME ThrottleInv, Tick  PROVE ThrottleInv'
  OBVIOUS
<1>1. /\ clock \in Nat /\ clock' = clock + 1
      /\ entries' = entries /\ at' = at /\ refused' = refused
  BY DEF Tick, ThrottleInv, ThrottleTypeOK
<1>2. ThrottleTypeOK'
  BY <1>1 DEF ThrottleInv, ThrottleTypeOK
<1>3. ASSUME NEW k \in Keys  PROVE KeyOK(k)'
  <2>1. KeyOK(k) /\ ThrottleTypeOK /\ entries[k].lastSeen \in Nat
    BY KeyTypes DEF ThrottleInv
  <2>2. entries[k].lastSeen <= clock \/ ~entries[k].known
    BY <2>1 DEF KeyOK, Counting
  <2> QED BY <1>1, <1>2, <2>1, <2>2, KeyStays
<1>4. ASSUME NEW l \in Logins  PROVE AttemptOK(l)'
  <2>1. AttemptOK(l)
    BY DEF ThrottleInv
  <2>2. at[l].pc = "comparing" => entries[at[l].key].lockedUntil \in Nat
    BY KeyTypes DEF ThrottleInv, ThrottleTypeOK
  <2> QED BY <1>1, <2>1, <2>2 DEF AttemptOK
<1>5. AloneWithKey'
  BY <1>1 DEF ThrottleInv, AloneWithKey
<1> QED BY <1>2, <1>3, <1>4, <1>5 DEF ThrottleInv

(* An attempt that begins is alone: nobody holds a key's reservation       *)
(* without its flag.                                                       *)
LEMMA Begins ==
  ASSUME ThrottleInv, NEW l \in Logins, NEW k \in Keys, ~entries[k].inFlight \/ ~entries[k].known,
         entries'[k].known, entries'[k].inFlight, clock' = clock, clock >= entries'[k].lockedUntil,
         \A j \in Keys : j # k => entries'[j] = entries[j] \/ StaleEntry(j),
         at' = [at EXCEPT ![l] = [pc |-> "comparing", key |-> k]]
  PROVE  (\A m \in Logins : AttemptOK(m)') /\ AloneWithKey'
<1>1. \A m \in Logins : at[m].pc # "idle" => at[m].key \in Keys /\ at[m].key # k
  BY DEF ThrottleInv, ThrottleTypeOK, AttemptOK
<1>2. /\ at'[l] = [pc |-> "comparing", key |-> k]
      /\ \A m \in Logins : m # l => at'[m] = at[m]
  BY DEF ThrottleInv, ThrottleTypeOK
<1>3. ASSUME NEW m \in Logins  PROVE AttemptOK(m)'
  <2>1. CASE m = l
    BY <1>2, <2>1 DEF AttemptOK
  <2>2. CASE m # l
    <3>1. at'[m] = at[m] /\ AttemptOK(m)
      BY <1>2, <2>2 DEF ThrottleInv
    <3>2. at[m].pc # "idle" => entries'[at[m].key] = entries[at[m].key]
      BY <1>1, <3>1 DEF AttemptOK, StaleEntry
    <3> QED BY <3>1, <3>2 DEF AttemptOK
  <2> QED BY <2>1, <2>2
<1>4. AloneWithKey'
  <2> SUFFICES ASSUME NEW a \in Logins, NEW b \in Logins, a # b,
                      at'[a].pc # "idle", at'[b].pc # "idle", at'[a].key = at'[b].key
               PROVE  FALSE
    BY DEF AloneWithKey
  <2>1. CASE a = l
    BY <1>1, <1>2, <2>1
  <2>2. CASE b = l
    BY <1>1, <1>2, <2>2
  <2>3. CASE a # l /\ b # l
    BY <1>2, <2>3 DEF ThrottleInv, AloneWithKey
  <2> QED BY <2>1, <2>2, <2>3
<1> QED BY <1>3, <1>4

LEMMA BeginAgainStep ==
  ASSUME ThrottleInv, NEW l \in Logins, NEW k \in Keys, BeginAgain(l, k)
  PROVE  ThrottleInv'
<1>1. /\ entries[k] \in Throttles /\ clock \in Nat /\ entries[k].known
      /\ clock >= entries[k].lockedUntil /\ ~entries[k].inFlight
  BY KeyTypes DEF BeginAgain, ThrottleInv
<1>2. /\ entries' = [entries EXCEPT ![k].inFlight = TRUE, ![k].lastSeen = clock]
      /\ at' = [at EXCEPT ![l] = [pc |-> "comparing", key |-> k]]
      /\ clock' = clock /\ refused' = refused
  BY DEF BeginAgain
<1>3. /\ entries'[k].known = entries[k].known /\ entries'[k].failures = entries[k].failures
      /\ entries'[k].windowStart = entries[k].windowStart
      /\ entries'[k].lockedUntil = entries[k].lockedUntil
      /\ entries'[k].lastSeen = clock /\ entries'[k].inFlight
      /\ entries'[k] \in Throttles
  BY <1>1, <1>2 DEF ThrottleInv, ThrottleTypeOK, Throttles
<1>4. /\ \A j \in Keys : j # k => entries'[j] = entries[j]
      /\ DOMAIN entries' = Keys /\ entries' = [j \in Keys |-> entries'[j]]
  BY <1>2 DEF ThrottleInv, ThrottleTypeOK
<1>5. ThrottleTypeOK'
  <2>1. entries' \in [Keys -> Throttles]
    BY <1>3, <1>4 DEF ThrottleInv, ThrottleTypeOK
  <2> QED BY <1>2, <2>1 DEF ThrottleInv, ThrottleTypeOK, NoAttempt
<1>6. KeyOK(k)'
  <2>1. KeyOK(k) /\ ThrottleTypeOK
    BY DEF ThrottleInv
  <2>2. entries[k].lastSeen \in Nat /\ entries[k].lastSeen <= clock
    BY <1>1, <2>1, KeyTypes DEF KeyOK, Counting
  <2>3. /\ clock' >= clock /\ refused'[k] = refused[k]
        /\ entries'[k].lastSeen >= entries[k].lastSeen /\ entries'[k].lastSeen <= clock'
    BY <1>1, <1>2, <1>3, <2>2
  <2> QED BY <1>3, <1>5, <2>1, <2>3, KeyStays
<1>7. \A j \in Keys : KeyOK(j)'
  BY <1>2, <1>4, <1>5, <1>6, OneKey
<1>8. (\A m \in Logins : AttemptOK(m)') /\ AloneWithKey'
  <2>1. /\ clock >= entries'[k].lockedUntil /\ entries'[k].known
        /\ \A j \in Keys : j # k => entries'[j] = entries[j] \/ StaleEntry(j)
    BY <1>1, <1>3, <1>4
  <2> QED BY <1>1, <1>2, <1>3, <2>1, Begins
<1> QED BY <1>5, <1>7, <1>8 DEF ThrottleInv

(* Entries that are forgotten.                                             *)
LEMMA Forgets ==
  ASSUME ThrottleInv, NEW gone, \A j \in Keys : j \in gone => StaleEntry(j)
  PROVE  /\ WithoutEntries(gone) \in [Keys -> Throttles]
         /\ \A j \in Keys : /\ j \in gone => WithoutEntries(gone)[j] = NoThrottle
                            /\ j \notin gone => WithoutEntries(gone)[j] = entries[j]
         /\ \A m \in Logins : at[m].pc # "idle" => at[m].key \notin gone
<1>1. \A m \in Logins : at[m].pc # "idle" => at[m].key \notin gone
  BY DEF ThrottleInv, ThrottleTypeOK, AttemptOK, StaleEntry
<1> QED BY <1>1, Nothing DEF WithoutEntries, ThrottleInv, ThrottleTypeOK

LEMMA KeptOrForgotten ==
  ASSUME ThrottleInv, NEW j \in Keys, clock' = clock, refused' = refused,
         entries'[j] = entries[j] \/ (StaleEntry(j) /\ entries'[j] = NoThrottle)
  PROVE  KeyOK(j)'
<1>1. CASE entries'[j] = entries[j]
  BY <1>1 DEF ThrottleInv, KeyOK, InOrder, Limited, Counting, Locking, Apart, Fresh, Gone
<1>2. CASE StaleEntry(j) /\ entries'[j] = NoThrottle
  BY <1>2, Nothing, KeyForgotten DEF ThrottleInv
<1> QED BY <1>1, <1>2

LEMMA SweepStep == ThrottleInv /\ Sweep => ThrottleInv'
<1> SUFFICES ASSUME ThrottleInv, Sweep  PROVE ThrottleInv'
  OBVIOUS
<1> DEFINE gone == {k \in Keys : StaleEntry(k)}
<1>1. entries' = WithoutEntries(gone) /\ clock' = clock /\ at' = at /\ refused' = refused
  BY DEF Sweep
<1>2. \A j \in Keys : j \in gone => StaleEntry(j)
  OBVIOUS
<1> HIDE DEF gone
<1>3. /\ entries' \in [Keys -> Throttles]
      /\ \A j \in Keys : /\ j \in gone => entries'[j] = NoThrottle
                         /\ j \notin gone => entries'[j] = entries[j]
      /\ \A m \in Logins : at[m].pc # "idle" => at[m].key \notin gone
  BY <1>1, <1>2, Forgets
<1>4. ThrottleTypeOK'
  BY <1>1, <1>3 DEF ThrottleInv, ThrottleTypeOK, NoAttempt
<1>5. \A j \in Keys : KeyOK(j)'
  BY <1>1, <1>2, <1>3, KeptOrForgotten
<1>6. \A m \in Logins : AttemptOK(m)'
  BY <1>1, <1>3 DEF ThrottleInv, ThrottleTypeOK, AttemptOK
<1>7. AloneWithKey'
  BY <1>1 DEF ThrottleInv, AloneWithKey
<1> QED BY <1>4, <1>5, <1>6, <1>7 DEF ThrottleInv

LEMMA BeginNewStep ==
  ASSUME ThrottleInv, NEW l \in Logins, NEW k \in Keys, BeginNew(l, k)
  PROVE  ThrottleInv'
<1> DEFINE gone == IF TableFull(entries, clientEntries, k) THEN {j \in Keys : StaleEntry(j)} ELSE {}
           es == WithoutEntries(gone)
           new == [NewEntry EXCEPT !.inFlight = TRUE, !.lastSeen = clock]
<1>1. /\ ~entries[k].known /\ clock' = clock /\ refused' = refused
      /\ \/ entries' = es /\ at' = at
         \/ entries' = [es EXCEPT ![k] = new] /\ at' = [at EXCEPT ![l] = [pc |-> "comparing", key |-> k]]
  BY DEF BeginNew
<1>2. \A j \in Keys : j \in gone => StaleEntry(j)
  OBVIOUS
<1> HIDE DEF gone
<1>3. /\ es \in [Keys -> Throttles]
      /\ \A j \in Keys : /\ j \in gone => es[j] = NoThrottle
                         /\ j \notin gone => es[j] = entries[j]
      /\ \A m \in Logins : at[m].pc # "idle" => at[m].key \notin gone
  BY <1>2, Forgets
<1> HIDE DEF es
<1>4. CASE entries' = es /\ at' = at
  <2>1. ThrottleTypeOK'
    BY <1>1, <1>3, <1>4 DEF ThrottleInv, ThrottleTypeOK, NoAttempt
  <2>2. \A j \in Keys : KeyOK(j)'
    BY <1>1, <1>2, <1>3, <1>4, KeptOrForgotten
  <2>3. \A m \in Logins : AttemptOK(m)'
    BY <1>1, <1>3, <1>4 DEF ThrottleInv, ThrottleTypeOK, AttemptOK
  <2>4. AloneWithKey'
    BY <1>4 DEF ThrottleInv, AloneWithKey
  <2> QED BY <2>1, <2>2, <2>3, <2>4 DEF ThrottleInv
<1>5. CASE entries' = [es EXCEPT ![k] = new] /\ at' = [at EXCEPT ![l] = [pc |-> "comparing", key |-> k]]
  <2>1. /\ new.known = TRUE /\ new.failures = 0 /\ new.windowStart = clock /\ new.lockedUntil = 0
        /\ new.lastSeen = clock /\ new.inFlight = TRUE /\ clock \in Nat
        /\ new \in Throttles
    BY DEF NewEntry, NoThrottle, Throttles, ThrottleInv, ThrottleTypeOK
  <2> HIDE DEF new
  <2>2. /\ entries'[k] = new /\ \A j \in Keys : j # k => entries'[j] = es[j]
        /\ entries' \in [Keys -> Throttles]
    BY <1>3, <1>5, <2>1
  <2>3. ThrottleTypeOK'
    BY <1>1, <1>5, <2>2 DEF ThrottleInv, ThrottleTypeOK, NoAttempt
  <2>4. KeyOK(k)'
    <3>1. /\ InOrder(refused[k]) /\ Limited(refused[k]) /\ Gone(refused[k])
          /\ refused[k] \in Seq(Nat)
      BY <1>1, KeyTypes DEF ThrottleInv, KeyOK
    <3>2. \A d \in Backs(refused[k]) : Ago(refused[k], d) \in Nat /\ Ago(refused[k], d) <= clock
                                       /\ Ago(refused[k], d) + Window <= clock
      BY <3>1, AgoTypes DEF InOrder, Gone
    <3>3. Counting(new, refused[k])
      BY <2>1, <3>2 DEF Counting
    <3>4. Locking(new, refused[k]) /\ Apart(new, refused[k])
      BY <2>1, Limits DEF Locking, Apart
    <3>5. Fresh(new, refused[k])
      BY <2>1, <3>2 DEF Fresh
    <3> QED BY <1>1, <2>1, <2>2, <3>1, <3>3, <3>4, <3>5
            DEF KeyOK, InOrder, Limited, Counting, Locking, Apart, Fresh
  <2>5. ASSUME NEW j \in Keys, j # k  PROVE KeyOK(j)'
    BY <1>1, <1>2, <1>3, <2>2, <2>5, KeptOrForgotten
  <2>6. (\A m \in Logins : AttemptOK(m)') /\ AloneWithKey'
    <3>1. \A j \in Keys : j # k => entries'[j] = entries[j] \/ StaleEntry(j)
      BY <1>2, <1>3, <2>2
    <3>2. entries'[k].known /\ entries'[k].inFlight /\ clock >= entries'[k].lockedUntil
      BY <2>1, <2>2
    <3> QED BY <1>1, <1>5, <3>1, <3>2, Begins
  <2> QED BY <2>3, <2>4, <2>5, <2>6 DEF ThrottleInv
<1> QED BY <1>1, <1>4, <1>5

(* The steps of an attempt: others are not at its key.                     *)
LEMMA Proceeds ==
  ASSUME ThrottleInv, NEW l \in Logins, at[l].pc # "idle", clock' = clock,
         \A j \in Keys : j # at[l].key => entries'[j] = entries[j],
         at'[l].pc = "idle" \/ (at'[l].pc = "recorded" /\ at'[l].key = at[l].key
                                /\ entries'[at[l].key].known /\ entries'[at[l].key].inFlight),
         \A m \in Logins : m # l => at'[m] = at[m]
  PROVE  (\A m \in Logins : AttemptOK(m)') /\ AloneWithKey'
<1>1. \A m \in Logins : m # l /\ at[m].pc # "idle" => at[m].key \in Keys /\ at[m].key # at[l].key
  BY DEF ThrottleInv, ThrottleTypeOK, AloneWithKey
<1>2. ASSUME NEW m \in Logins  PROVE AttemptOK(m)'
  <2>1. CASE m = l
    BY <2>1 DEF AttemptOK
  <2>2. CASE m # l
    <3>1. at'[m] = at[m] /\ AttemptOK(m)
      BY <2>2 DEF ThrottleInv
    <3>2. at[m].pc # "idle" => entries'[at[m].key] = entries[at[m].key]
      BY <1>1, <2>2
    <3> QED BY <3>1, <3>2 DEF AttemptOK
  <2> QED BY <2>1, <2>2
<1>3. AloneWithKey'
  <2> SUFFICES ASSUME NEW a \in Logins, NEW b \in Logins, a # b,
                      at'[a].pc # "idle", at'[b].pc # "idle", at'[a].key = at'[b].key
               PROVE  FALSE
    BY DEF AloneWithKey
  <2>1. CASE a = l
    BY <1>1, <2>1
  <2>2. CASE b = l
    BY <1>1, <2>2
  <2>3. CASE a # l /\ b # l
    BY <2>3 DEF ThrottleInv, AloneWithKey
  <2> QED BY <2>1, <2>2, <2>3
<1> QED BY <1>2, <1>3

LEMMA FailStep ==
  ASSUME ThrottleInv, NEW l \in Logins, Fail(l)
  PROVE  ThrottleInv'
<1> DEFINE k == at[l].key
           e == entries[k]
           over == clock >= e.windowStart + Window
           n == IF over THEN 1 ELSE e.failures + 1
           g == entries'[k]
           s == refused[k]
           q == Latest(Append(s, clock))
<1>1. at[l].pc = "comparing" /\ k \in Keys /\ e.known /\ e.inFlight /\ e.lockedUntil <= clock
  BY DEF Fail, ThrottleInv, ThrottleTypeOK, AttemptOK
<1>2. /\ s \in Seq(Nat) /\ clock \in Nat /\ e \in Throttles /\ e.failures \in Nat
      /\ e.windowStart \in Nat /\ e.lockedUntil \in Nat /\ e.lastSeen \in Nat
  BY <1>1, KeyTypes DEF ThrottleInv
<1>3. /\ clock' = clock /\ at' = [at EXCEPT ![l].pc = "recorded"]
      /\ refused' = [refused EXCEPT ![k] = q]
  BY DEF Fail
<1>4. entries' = [entries EXCEPT ![k].failures = n,
                                 ![k].windowStart = IF over THEN clock ELSE @,
                                 ![k].lastSeen = clock,
                                 ![k].lockedUntil = IF n >= MaxFailures THEN clock + Lockout ELSE @]
  BY DEF Fail
<1>5. n \in Nat /\ ((n = 1 /\ over) \/ (n = e.failures + 1 /\ ~over)) /\ clock + Lockout \in Nat
  BY <1>2, Limits
<1>6. over => clock >= e.windowStart + Window
  OBVIOUS
<1> HIDE DEF over, n
<1>61. /\ g.known = TRUE /\ g.inFlight = TRUE /\ g.lastSeen = clock /\ g.failures = n
       /\ g.windowStart = IF over THEN clock ELSE e.windowStart
       /\ g.lockedUntil = IF n >= MaxFailures THEN clock + Lockout ELSE e.lockedUntil
       /\ g \in Throttles /\ \A j \in Keys : j # k => entries'[j] = entries[j]
       /\ entries' \in [Keys -> Throttles]
  BY <1>1, <1>2, <1>4, <1>5 DEF ThrottleInv, ThrottleTypeOK, Throttles
<1>62. /\ \/ clock >= e.windowStart + Window /\ g.failures = 1 /\ g.windowStart = clock
          \/ g.failures = e.failures + 1 /\ g.windowStart = e.windowStart
       /\ g.failures >= MaxFailures => g.lockedUntil = clock + Lockout
  BY <1>5, <1>6, <1>61
<1>63. entries'[k] = g
  OBVIOUS
<1> HIDE DEF g, q
<1>7. /\ InOrder(s) /\ Counting(e, s) /\ Locking(e, s) /\ Apart(e, s) /\ Fresh(e, s)
  BY <1>1 DEF ThrottleInv, KeyOK
<1>8. /\ q \in Seq(Nat) /\ InOrder(q) /\ Limited(q)
      /\ Counting(g, q) /\ Locking(g, q) /\ Apart(g, q) /\ Fresh(g, q)
  <2>1. q = Latest(Append(s, clock))
    BY DEF q
  <2> HIDE DEF e, s, k
  <2> QED BY <1>1, <1>2, <1>61, <1>62, <1>7, <2>1, FailureKeeps
<1>9. /\ entries'[k] = g /\ refused'[k] = q
      /\ \A j \in Keys : j # k => entries'[j] = entries[j] /\ refused'[j] = refused[j]
      /\ entries' \in [Keys -> Throttles] /\ refused' \in [Keys -> Seq(Nat)]
  BY <1>1, <1>3, <1>61, <1>63, <1>8 DEF ThrottleInv, ThrottleTypeOK
<1>10. /\ at'[l].pc = "recorded" /\ at'[l].key = k
       /\ \A m \in Logins : m # l => at'[m] = at[m]
       /\ at' \in [Logins -> [pc : {"idle", "comparing", "recorded"}, key : Keys \cup {NoAttempt.key}]]
  BY <1>3, LoginTypes DEF ThrottleInv, ThrottleTypeOK
<1>11. ThrottleTypeOK'
  BY <1>1, <1>2, <1>3, <1>9, <1>10 DEF ThrottleInv, ThrottleTypeOK, NoAttempt
<1>12. KeyOK(k)'
  BY <1>3, <1>61, <1>8, <1>9 DEF KeyOK, InOrder, Limited, Counting, Locking, Apart, Fresh
<1>13. \A j \in Keys : KeyOK(j)'
  BY <1>1, <1>3, <1>9, <1>11, <1>12, OneKey
<1>14. (\A m \in Logins : AttemptOK(m)') /\ AloneWithKey'
  BY <1>1, <1>3, <1>61, <1>9, <1>10, Proceeds
<1> QED BY <1>11, <1>13, <1>14 DEF ThrottleInv

LEMMA NoFailures ==
  ASSUME NEW s, s = << >>, NEW e \in Throttles, clock \in Nat,
         e.windowStart <= clock, e.lastSeen <= clock
  PROVE  /\ InOrder(s) /\ Limited(s) /\ Counting(e, s) /\ Locking(e, s) /\ Apart(e, s)
         /\ Fresh(e, s) /\ Gone(s)
<1>1. Len(s) = 0 /\ \A d \in Backs(s) : FALSE
  BY DEF Backs
<1> HIDE DEF Backs
<1>2. e.failures \in Nat
  BY DEF Throttles
<1>3. ~(e.failures > 0 /\ e.failures <= Len(s))
  BY <1>1, <1>2
<1>4. Len(s) <= 2 * MaxFailures /\ Len(s) # 2 * MaxFailures
  BY <1>1, Limits
<1> QED BY <1>1, <1>3, <1>4 DEF InOrder, Limited, Counting, Locking, Apart, Fresh, Gone

LEMMA SucceedStep ==
  ASSUME ThrottleInv, NEW l \in Logins, Succeed(l)
  PROVE  ThrottleInv'
<1> DEFINE k == at[l].key
           e == entries[k]
           g == entries'[k]
<1>1. at[l].pc = "comparing" /\ k \in Keys /\ e.known /\ e.inFlight
  BY DEF Succeed, ThrottleInv, ThrottleTypeOK, AttemptOK
<1>2. /\ clock \in Nat /\ e \in Throttles /\ e.windowStart \in Nat /\ e.lastSeen \in Nat
  BY <1>1, KeyTypes DEF ThrottleInv
<1>3. /\ clock' = clock /\ at' = [at EXCEPT ![l].pc = "recorded"]
      /\ refused' = [refused EXCEPT ![k] = << >>]
  BY DEF Succeed
<1>4. entries' = [entries EXCEPT ![k].failures = 0, ![k].lockedUntil = 0]
  BY <1>1 DEF Succeed
<1>5. /\ g.known = TRUE /\ g.inFlight = TRUE /\ g.windowStart = e.windowStart
      /\ g.lastSeen = e.lastSeen /\ g \in Throttles /\ entries'[k] = g
      /\ \A j \in Keys : j # k => entries'[j] = entries[j]
      /\ entries' \in [Keys -> Throttles]
  BY <1>1, <1>2, <1>4 DEF ThrottleInv, ThrottleTypeOK, Throttles
<1> HIDE DEF g
<1>6. /\ entries'[k] = g /\ refused'[k] = << >>
      /\ \A j \in Keys : j # k => entries'[j] = entries[j] /\ refused'[j] = refused[j]
      /\ entries' \in [Keys -> Throttles] /\ refused' \in [Keys -> Seq(Nat)]
  BY <1>1, <1>3, <1>4, <1>5 DEF ThrottleInv, ThrottleTypeOK
<1>7. /\ at'[l].pc = "recorded" /\ at'[l].key = k
      /\ \A m \in Logins : m # l => at'[m] = at[m]
      /\ at' \in [Logins -> [pc : {"idle", "comparing", "recorded"}, key : Keys \cup {NoAttempt.key}]]
  BY <1>3, LoginTypes DEF ThrottleInv, ThrottleTypeOK
<1>8. ThrottleTypeOK'
  BY <1>1, <1>2, <1>3, <1>6, <1>7 DEF ThrottleInv, ThrottleTypeOK, NoAttempt
<1>9. KeyOK(k)'
  <2>1. g.windowStart <= clock /\ g.lastSeen <= clock
    BY <1>1, <1>5 DEF ThrottleInv, KeyOK, Counting
  <2>2. /\ InOrder(<< >>) /\ Limited(<< >>) /\ Counting(g, << >>) /\ Locking(g, << >>)
        /\ Apart(g, << >>) /\ Fresh(g, << >>)
    BY <1>2, <1>5, <2>1, NoFailures
  <2> QED BY <1>3, <1>5, <1>6, <2>2 DEF KeyOK, InOrder, Limited, Counting, Locking, Apart, Fresh
<1>10. \A j \in Keys : KeyOK(j)'
  BY <1>1, <1>3, <1>6, <1>8, <1>9, OneKey
<1>11. (\A m \in Logins : AttemptOK(m)') /\ AloneWithKey'
  BY <1>1, <1>3, <1>5, <1>6, <1>7, Proceeds
<1> QED BY <1>8, <1>10, <1>11 DEF ThrottleInv

LEMMA ReleaseStep ==
  ASSUME ThrottleInv, NEW l \in Logins, Release(l)
  PROVE  ThrottleInv'
<1>0. at[l].pc # "idle" /\ at[l].key \in Keys
  BY DEF Release, ThrottleInv, ThrottleTypeOK
<1> PICK k \in Keys : k = at[l].key
  BY <1>0
<1> DEFINE e == entries[k]
           gone == IF e.known /\ e.failures = 0 /\ e.lockedUntil = 0 THEN {k} ELSE {}
           es == WithoutEntries(gone)
<1>1. at[l].pc # "idle" /\ k \in Keys /\ e.known
  BY <1>0 DEF ThrottleInv, AttemptOK
<1>2. clock' = clock /\ refused' = refused /\ at' = [at EXCEPT ![l] = NoAttempt]
      /\ entries' = [es EXCEPT ![k].inFlight = FALSE]
  BY DEF Release
<1>3. /\ es \in [Keys -> Throttles] /\ \A j \in Keys : j # k => es[j] = entries[j]
      /\ \/ es[k] = NoThrottle /\ e.failures = 0
         \/ es[k] = e
  <2>1. /\ \A j \in Keys : j # k => j \notin gone
        /\ k \in gone => e.failures = 0
    OBVIOUS
  <2> HIDE DEF gone
  <2> QED BY <1>1, <2>1, Nothing DEF WithoutEntries, ThrottleInv, ThrottleTypeOK
<1> HIDE DEF es
<1>4. /\ entries' \in [Keys -> Throttles] /\ \A j \in Keys : j # k => entries'[j] = es[j]
      /\ entries'[k] = [es[k] EXCEPT !.inFlight = FALSE]
  <2>1. es[k] \in Throttles /\ [es[k] EXCEPT !.inFlight = FALSE] \in Throttles
    BY <1>1, <1>3 DEF Throttles
  <2>2. entries' = [es EXCEPT ![k] = [es[k] EXCEPT !.inFlight = FALSE]]
    BY <1>1, <1>2, <1>3
  <2> QED BY <1>1, <1>3, <2>1, <2>2
<1>5. /\ at'[l] = NoAttempt /\ NoAttempt.pc = "idle"
      /\ \A m \in Logins : m # l => at'[m] = at[m]
      /\ at' \in [Logins -> [pc : {"idle", "comparing", "recorded"}, key : Keys \cup {NoAttempt.key}]]
  BY <1>2 DEF ThrottleInv, ThrottleTypeOK, NoAttempt
<1>6. ThrottleTypeOK'
  BY <1>1, <1>2, <1>4, <1>5 DEF ThrottleInv, ThrottleTypeOK, NoAttempt
<1>7. KeyOK(k)'
  <2>1. KeyOK(k) /\ ThrottleTypeOK /\ clock \in Nat
    BY <1>1 DEF ThrottleInv, ThrottleTypeOK
  <2>2. CASE es[k] = NoThrottle /\ e.failures = 0
    <3>1. ~entries'[k].known
      BY <1>3, <1>4, <2>2 DEF NoThrottle
    <3>2. clock' = clock /\ refused'[k] = refused[k]
      BY <1>2
    <3> QED BY <1>1, <2>1, <2>2, <3>1, <3>2, KeyForgotten
  <2>3. CASE es[k] = e
    <3>1. /\ entries'[k].known = e.known /\ entries'[k].failures = e.failures
          /\ entries'[k].windowStart = e.windowStart /\ entries'[k].lockedUntil = e.lockedUntil
          /\ entries'[k].lastSeen = e.lastSeen
      BY <1>3, <1>4, <2>3 DEF Throttles
    <3>2. e.lastSeen \in Nat /\ e.lastSeen <= clock
      BY <1>1, <2>1, KeyTypes DEF KeyOK, Counting
    <3>3. /\ clock' >= clock /\ refused'[k] = refused[k]
          /\ entries'[k].lastSeen >= e.lastSeen /\ entries'[k].lastSeen <= clock'
      BY <1>2, <2>1, <3>1, <3>2
    <3> QED BY <1>1, <1>6, <2>1, <3>1, <3>3, KeyStays
  <2> QED BY <1>3, <2>2, <2>3
<1>8. \A j \in Keys : KeyOK(j)'
  <2>1. /\ clock' = clock
        /\ \A j \in Keys : j # k => entries'[j] = entries[j] /\ refused'[j] = refused[j]
    BY <1>2, <1>3, <1>4
  <2> QED BY <1>1, <1>6, <1>7, <2>1, OneKey
<1>9. (\A m \in Logins : AttemptOK(m)') /\ AloneWithKey'
  <2>1. \A j \in Keys : j # at[l].key => entries'[j] = entries[j]
    BY <1>3, <1>4
  <2> QED BY <1>1, <1>2, <1>5, <2>1, Proceeds
<1> QED BY <1>6, <1>8, <1>9 DEF ThrottleInv

LEMMA ThrottleStarts == ThrottleInit => ThrottleInv
<1> SUFFICES ASSUME ThrottleInit  PROVE ThrottleInv
  OBVIOUS
<1>1. ThrottleTypeOK
  BY Nothing DEF ThrottleInit, ThrottleTypeOK, NoAttempt
<1>2. ASSUME NEW k \in Keys  PROVE KeyOK(k)
  <2>1. entries[k] = NoThrottle /\ refused[k] = << >> /\ clock = 0
    BY DEF ThrottleInit
  <2>2. NoThrottle.windowStart = 0 /\ NoThrottle.lastSeen = 0
    BY DEF NoThrottle
  <2>3. InOrder(<< >>) /\ Limited(<< >>) /\ Gone(<< >>)
    BY <2>1, <2>2, Nothing, NoFailures
  <2> QED BY <2>1, <2>3, Nothing DEF KeyOK
<1>3. \A l \in Logins : at[l].pc = "idle"
  BY DEF ThrottleInit, NoAttempt
<1> QED BY <1>1, <1>2, <1>3 DEF ThrottleInv, AttemptOK, AloneWithKey

LEMMA ThrottleInvariant == ThrottleSpec => []ThrottleInv
<1>1. ThrottleInv /\ [ThrottleNext]_throttleVars => ThrottleInv'
  <2> SUFFICES ASSUME ThrottleInv, [ThrottleNext]_throttleVars  PROVE ThrottleInv'
    OBVIOUS
  <2>1. CASE UNCHANGED throttleVars
    BY <2>1 DEF throttleVars, ThrottleInv, ThrottleTypeOK, KeyOK, InOrder, Limited, Counting,
                Locking, Apart, Fresh, Gone, AttemptOK, AloneWithKey, NoAttempt
  <2>2. CASE ThrottleNext
    BY <2>2, TickStep, SweepStep, FailStep, SucceedStep, ReleaseStep, BeginAgainStep, BeginNewStep
       DEF ThrottleNext
  <2> QED BY <2>1, <2>2
<1> QED BY <1>1, ThrottleStarts, PTL DEF ThrottleSpec

(* However attempts, sweeps and windows fall together, and whatever the    *)
(* limits (as long as a lockout is no longer than a window), the key of a  *)
(* profile and a client refuses fewer than two thresholds of PINs in any   *)
(* stretch as long as a lockout (beginAttempt, recordFailure, prune).      *)
THEOREM GuessesStayLimited == ThrottleSpec => []GuessesLimited
<1>1. ThrottleInv => GuessesLimited
  <2> SUFFICES ASSUME ThrottleInv, NEW k \in Keys,
                      NEW i \in DOMAIN refused[k], i + 2 * MaxFailures - 1 \in DOMAIN refused[k]
               PROVE  refused[k][i + 2 * MaxFailures - 1] >= refused[k][i] + Lockout
    BY DEF GuessesLimited
  <2> DEFINE s == refused[k]
  <2>1. s \in Seq(Nat) /\ Limited(s) /\ Len(s) <= 2 * MaxFailures /\ Len(s) \in Nat
    BY KeyTypes DEF ThrottleInv, KeyOK, InOrder
  <2>2. i \in 1..Len(s) /\ i + 2 * MaxFailures - 1 \in 1..Len(s)
    BY <2>1
  <2>3. i = 1 /\ Len(s) = 2 * MaxFailures
    BY <2>1, <2>2, Limits
  <2>4. Ago(s, 2 * MaxFailures - 1) + Lockout <= Ago(s, 0)
    BY <2>1, <2>3 DEF Limited
  <2>5. Ago(s, 2 * MaxFailures - 1) = s[1] /\ Ago(s, 0) = s[2 * MaxFailures]
    BY <2>3, Limits DEF Ago
  <2>6. s[1] \in Nat /\ s[2 * MaxFailures] \in Nat /\ i + 2 * MaxFailures - 1 = 2 * MaxFailures
    BY <2>1, <2>2, <2>3, Limits
  <2> QED BY <2>3, <2>4, <2>5, <2>6, Limits
<1> QED BY <1>1, ThrottleInvariant, PTL

-----------------------------------------------------------------------------
(* The table.  Entries by client.                                          *)
EntriesOf(es, c) == {k \in Known(es) : ClientOf[k] = c}

CountedTable(es, cs) ==
    /\ IsFiniteSet(Known(es)) /\ cs \in [Clients -> Nat]
    /\ \A c \in Clients : cs[c] = Cardinality(EntriesOf(es, c))

(* Nobody leaves a reservation behind.                                     *)
ReservedFor == \A k \in Keys : entries[k].inFlight => \E l \in Logins : at[l].pc # "idle" /\ at[l].key = k

TableInv ==
    /\ ThrottleInv /\ CountedTable(entries, clientEntries) /\ TableCounted /\ ReservedFor

(* Entries that go are counted out once.                                   *)
LEMMA CountedOut ==
  ASSUME ThrottleTypeOK, CountedTable(entries, clientEntries), NEW gone \in SUBSET Known(entries)
  PROVE  /\ CountedTable(WithoutEntries(gone), CountsWithout(gone))
         /\ Cardinality(Known(WithoutEntries(gone))) <= Cardinality(Known(entries))
         /\ \A c \in Clients : CountsWithout(gone)[c] <= clientEntries[c]
<1>1. Known(WithoutEntries(gone)) = Known(entries) \ gone
  BY Nothing DEF Known, WithoutEntries
<1>2. /\ IsFiniteSet(Known(WithoutEntries(gone)))
      /\ Cardinality(Known(WithoutEntries(gone))) <= Cardinality(Known(entries))
  BY <1>1, FS_Subset, Known(entries) \ gone \in SUBSET Known(entries) DEF CountedTable
<1>3. ASSUME NEW c \in Clients
      PROVE  /\ CountsWithout(gone)[c] \in Nat /\ CountsWithout(gone)[c] <= clientEntries[c]
             /\ CountsWithout(gone)[c] = Cardinality(EntriesOf(WithoutEntries(gone), c))
  <2> DEFINE all == EntriesOf(entries, c)
             freed == {k \in gone : ClientOf[k] = c}
  <2>1. /\ IsFiniteSet(all) /\ IsFiniteSet(freed) /\ freed \in SUBSET all
        /\ EntriesOf(WithoutEntries(gone), c) = all \ freed
    <3>1. all \in SUBSET Known(entries) /\ freed \in SUBSET all
      BY DEF EntriesOf
    <3>2. EntriesOf(WithoutEntries(gone), c) = all \ freed
      BY <1>1 DEF EntriesOf
    <3>3. IsFiniteSet(all)
      BY <3>1, FS_Subset DEF CountedTable
    <3> QED BY <3>1, <3>2, <3>3, FS_Subset
  <2>2. CountsWithout(gone)[c] = clientEntries[c] - Cardinality(freed) /\ clientEntries[c] = Cardinality(all)
    BY DEF CountsWithout, CountedTable
  <2> HIDE DEF all, freed
  <2>3. /\ Cardinality(all) \in Nat /\ Cardinality(freed) \in Nat /\ Cardinality(freed) <= Cardinality(all)
        /\ Cardinality(all \ freed) = Cardinality(all) - Cardinality(freed)
    <3>1. all \cap freed = freed
      BY <2>1
    <3>2. Cardinality(all \ freed) = Cardinality(all) - Cardinality(freed)
      BY <2>1, <3>1, FS_Difference
    <3>3. /\ Cardinality(all) \in Nat /\ Cardinality(freed) \in Nat /\ Cardinality(freed) <= Cardinality(all)
      BY <2>1, FS_CardinalityType, FS_Subset
    <3> QED BY <3>2, <3>3
  <2> QED BY <2>1, <2>2, <2>3
<1>4. CountsWithout(gone) \in [Clients -> Nat]
  BY <1>3 DEF CountsWithout
<1> QED BY <1>2, <1>3, <1>4 DEF CountedTable

(* A new entry is counted in.                                              *)
LEMMA CountedIn ==
  ASSUME NEW es \in [Keys -> Throttles], NEW cs, CountedTable(es, cs), NEW k \in Keys,
         ~es[k].known, NEW new \in Throttles, new.known
  PROVE  /\ CountedTable([es EXCEPT ![k] = new], [cs EXCEPT ![ClientOf[k]] = @ + 1])
         /\ Cardinality(Known([es EXCEPT ![k] = new])) = Cardinality(Known(es)) + 1
<1> DEFINE fs == [es EXCEPT ![k] = new]
           ds == [cs EXCEPT ![ClientOf[k]] = @ + 1]
<1>1. /\ Known(fs) = Known(es) \cup {k} /\ k \notin Known(es)
      /\ ClientOf[k] \in Clients
  BY ThrottleAssumption DEF Known
<1>2. /\ cs \in [Clients -> Nat] /\ ds \in [Clients -> Nat] /\ ds[ClientOf[k]] = cs[ClientOf[k]] + 1
      /\ \A c \in Clients : c # ClientOf[k] => ds[c] = cs[c]
  BY <1>1 DEF CountedTable
<1> HIDE DEF fs, ds
<1>3. IsFiniteSet(Known(fs)) /\ Cardinality(Known(fs)) = Cardinality(Known(es)) + 1
  BY <1>1, FS_AddElement DEF CountedTable
<1>4. ASSUME NEW c \in Clients PROVE ds[c] = Cardinality(EntriesOf(fs, c))
  <2>1. /\ IsFiniteSet(EntriesOf(es, c)) /\ cs[c] = Cardinality(EntriesOf(es, c)) /\ k \notin EntriesOf(es, c)
    BY <1>1, FS_Subset, EntriesOf(es, c) \in SUBSET Known(es) DEF EntriesOf, CountedTable
  <2>2. CASE c = ClientOf[k]
    <3>1. EntriesOf(fs, c) = EntriesOf(es, c) \cup {k}
      BY <1>1, <2>2 DEF EntriesOf
    <3>2. Cardinality(EntriesOf(fs, c)) = Cardinality(EntriesOf(es, c)) + 1
      BY <2>1, <3>1, FS_AddElement
    <3> QED BY <1>2, <2>1, <2>2, <3>2
  <2>3. CASE c # ClientOf[k]
    <3>1. EntriesOf(fs, c) = EntriesOf(es, c)
      BY <1>1, <2>3 DEF EntriesOf
    <3> QED BY <1>2, <2>1, <2>3, <3>1
  <2> QED BY <2>2, <2>3
<1>5. CountedTable(fs, ds)
  BY <1>2, <1>3, <1>4 DEF CountedTable
<1> QED BY <1>3, <1>5 DEF fs, ds

(* What a change of the table keeps.                                       *)
LEMMA TableShrinks ==
  ASSUME TableInv, NEW gone \in SUBSET Known(entries), Known(entries') = Known(WithoutEntries(gone)),
         clientEntries' = CountsWithout(gone)
  PROVE  CountedTable(entries', clientEntries') /\ TableCounted'
<1>1. /\ CountedTable(WithoutEntries(gone), CountsWithout(gone))
      /\ Cardinality(Known(entries')) <= Cardinality(Known(entries))
      /\ \A c \in Clients : clientEntries'[c] <= clientEntries[c]
  BY CountedOut DEF TableInv, ThrottleInv
<1>2. CountedTable(entries', clientEntries')
  BY <1>1 DEF CountedTable, EntriesOf
<1>3. /\ Cardinality(Known(entries)) \in Nat /\ Cardinality(Known(entries')) \in Nat
      /\ clientEntries \in [Clients -> Nat] /\ clientEntries' \in [Clients -> Nat]
  BY <1>2, FS_CardinalityType DEF TableInv, CountedTable
<1>4. /\ \A c \in Clients : clientEntries[c] <= MaxPerClient
      /\ Cardinality(Known(entries)) <= MaxEntries /\ MaxPerClient \in Nat /\ MaxEntries \in Nat
  BY ThrottleAssumption DEF TableInv, TableCounted
<1>5. /\ \A c \in Clients : clientEntries'[c] <= MaxPerClient
      /\ Cardinality(Known(entries')) <= MaxEntries
  BY <1>1, <1>3, <1>4
<1>6. \A c \in Clients :
          clientEntries'[c] = Cardinality({k \in Known(entries') : ClientOf[k] = c})
  BY <1>2 DEF CountedTable, EntriesOf
<1>7. TableCounted'
  BY <1>5, <1>6 DEF TableCounted
<1> QED BY <1>2, <1>7

LEMMA TableSame ==
  ASSUME TableInv, Known(entries') = Known(entries), clientEntries' = clientEntries
  PROVE  CountedTable(entries', clientEntries') /\ TableCounted'
<1>1. CountedTable(entries', clientEntries')
  BY DEF TableInv, CountedTable, EntriesOf
<1>2. TableCounted'
  <2>1. TableCounted
    BY DEF TableInv
  <2>2. /\ \A c \in Clients :
              clientEntries'[c] = Cardinality({k \in Known(entries') : ClientOf[k] = c})
        /\ \A c \in Clients : clientEntries'[c] <= MaxPerClient
        /\ Cardinality(Known(entries')) <= MaxEntries
    BY <2>1 DEF TableCounted
  <2> QED BY <2>2 DEF TableCounted
<1> QED BY <1>1, <1>2

(* Reservations stay with their attempts.                                  *)
LEMMA ReservationsKept ==
  ASSUME TableInv, ThrottleTypeOK', NEW K \in SUBSET Keys,
         \A k \in Keys \ K : entries'[k].inFlight => entries[k].inFlight,
         \A k \in K : entries'[k].inFlight => \E l \in Logins : at'[l].pc # "idle" /\ at'[l].key = k,
         \A l \in Logins : at[l].pc # "idle" /\ at[l].key \notin K
                            => at'[l].pc # "idle" /\ at'[l].key = at[l].key
  PROVE  ReservedFor'
<1> SUFFICES ASSUME NEW k \in Keys, entries'[k].inFlight
             PROVE  \E l \in Logins : at'[l].pc # "idle" /\ at'[l].key = k
  BY DEF ReservedFor
<1>1. CASE k \in K
  BY <1>1
<1>2. CASE k \notin K
  <2>1. PICK l \in Logins : at[l].pc # "idle" /\ at[l].key = k
    BY <1>2 DEF TableInv, ReservedFor
  <2> QED BY <1>2, <2>1
<1> QED BY <1>1, <1>2

LEMMA SweepCounts ==
  ASSUME TableInv, Sweep
  PROVE  CountedTable(entries', clientEntries') /\ TableCounted' /\ ReservedFor'
<1> DEFINE gone == {k \in Keys : StaleEntry(k)}
<1>1. /\ entries' = WithoutEntries(gone) /\ clientEntries' = CountsWithout(gone) /\ at' = at
      /\ gone \in SUBSET Known(entries)
  BY DEF Sweep, StaleEntry, Known
<1> HIDE DEF gone
<1>2. CountedTable(entries', clientEntries') /\ TableCounted'
  BY <1>1, TableShrinks
<1>3. \A k \in Keys : entries'[k].inFlight => entries[k].inFlight
  BY <1>1, Nothing DEF WithoutEntries
<1>4. ReservedFor'
  BY <1>1, <1>3 DEF TableInv, ReservedFor
<1> QED BY <1>2, <1>4

LEMMA BeginAgainCounts ==
  ASSUME TableInv, NEW l \in Logins, NEW k \in Keys, BeginAgain(l, k), ThrottleTypeOK'
  PROVE  CountedTable(entries', clientEntries') /\ TableCounted' /\ ReservedFor'
<1>1. /\ entries \in [Keys -> Throttles] /\ at[l].pc = "idle"
      /\ at' = [at EXCEPT ![l] = [pc |-> "comparing", key |-> k]] /\ DOMAIN at = Logins
      /\ entries' = [entries EXCEPT ![k].inFlight = TRUE, ![k].lastSeen = clock]
      /\ clientEntries' = clientEntries
  BY DEF TableInv, ThrottleInv, ThrottleTypeOK, BeginAgain, NoAttempt
<1>2. /\ entries'[k].known = entries[k].known /\ \A j \in Keys : j # k => entries'[j] = entries[j]
  BY <1>1 DEF Throttles
<1>3. Known(entries') = Known(entries)
  BY <1>2 DEF Known
<1>4. CountedTable(entries', clientEntries') /\ TableCounted'
  BY <1>1, <1>3, TableSame
<1>5. /\ at'[l].pc = "comparing" /\ at'[l].key = k
      /\ \A m \in Logins : at[m].pc # "idle" => at'[m] = at[m]
  BY <1>1
<1>6. ReservedFor'
  <2>1. \A j \in {k} : entries'[j].inFlight => \E m \in Logins : at'[m].pc # "idle" /\ at'[m].key = j
    BY <1>5
  <2>2. \A j \in Keys \ {k} : entries'[j].inFlight => entries[j].inFlight
    BY <1>2
  <2>3. \A m \in Logins : at[m].pc # "idle" /\ at[m].key \notin {k}
                           => at'[m].pc # "idle" /\ at'[m].key = at[m].key
    BY <1>5
  <2> QED BY <2>1, <2>2, <2>3, {k} \in SUBSET Keys, ReservationsKept
<1> QED BY <1>4, <1>6

LEMMA BeginNewCounts ==
  ASSUME TableInv, NEW l \in Logins, NEW k \in Keys, BeginNew(l, k), ThrottleTypeOK'
  PROVE  CountedTable(entries', clientEntries') /\ TableCounted' /\ ReservedFor'
<1> DEFINE gone == IF TableFull(entries, clientEntries, k) THEN {j \in Keys : StaleEntry(j)} ELSE {}
           es == WithoutEntries(gone)
           cs == CountsWithout(gone)
           new == [NewEntry EXCEPT !.inFlight = TRUE, !.lastSeen = clock]
<1>1. /\ ~entries[k].known /\ at[l].pc = "idle" /\ entries \in [Keys -> Throttles] /\ DOMAIN at = Logins
      /\ \/ entries' = es /\ clientEntries' = cs /\ at' = at
         \/ /\ ~TableFull(es, cs, k)
            /\ entries' = [es EXCEPT ![k] = new] /\ clientEntries' = [cs EXCEPT ![ClientOf[k]] = @ + 1]
            /\ at' = [at EXCEPT ![l] = [pc |-> "comparing", key |-> k]]
  <2>1. ~entries[k].known /\ at[l] = NoAttempt
    BY DEF BeginNew
  <2>2. at[l].pc = "idle" /\ entries \in [Keys -> Throttles] /\ DOMAIN at = Logins
    BY <2>1 DEF TableInv, ThrottleInv, ThrottleTypeOK, NoAttempt
  <2>3. IF TableFull(es, cs, k)
          THEN entries' = es /\ clientEntries' = cs /\ UNCHANGED at
          ELSE /\ entries' = [es EXCEPT ![k] = new] /\ clientEntries' = [cs EXCEPT ![ClientOf[k]] = @ + 1]
               /\ at' = [at EXCEPT ![l] = [pc |-> "comparing", key |-> k]]
    BY DEF BeginNew
  <2> HIDE DEF gone, es, cs, new
  <2> QED BY <2>1, <2>2, <2>3
<1>2. gone \in SUBSET Known(entries)
  BY DEF StaleEntry, Known
<1>3. new \in Throttles /\ new.known
  BY DEF NewEntry, NoThrottle, Throttles, TableInv, ThrottleInv, ThrottleTypeOK
<1> HIDE DEF gone, new
<1>4. /\ CountedTable(es, cs) /\ Cardinality(Known(es)) <= Cardinality(Known(entries))
      /\ \A c \in Clients : cs[c] <= clientEntries[c]
  BY <1>2, CountedOut DEF TableInv, ThrottleInv
<1>5. /\ es \in [Keys -> Throttles] /\ ~es[k].known
      /\ \A j \in Keys : es[j].inFlight => entries[j].inFlight
  BY <1>1, Nothing DEF WithoutEntries
<1>6. CASE entries' = es /\ clientEntries' = cs /\ at' = at
  <2>1. CountedTable(entries', clientEntries') /\ TableCounted'
    BY <1>2, <1>6, TableShrinks
  <2>2. ReservedFor'
    BY <1>5, <1>6 DEF TableInv, ReservedFor
  <2> QED BY <2>1, <2>2
<1>7. CASE /\ ~TableFull(es, cs, k)
           /\ entries' = [es EXCEPT ![k] = new] /\ clientEntries' = [cs EXCEPT ![ClientOf[k]] = @ + 1]
           /\ at' = [at EXCEPT ![l] = [pc |-> "comparing", key |-> k]]
  <2> HIDE DEF es, cs
  <2>1. /\ CountedTable(entries', clientEntries') /\ Cardinality(Known(entries')) = Cardinality(Known(es)) + 1
    BY <1>3, <1>4, <1>5, <1>7, CountedIn
  <2>2. TableCounted'
    <3>1. /\ Cardinality(Known(es)) \in Nat /\ cs \in [Clients -> Nat] /\ clientEntries \in [Clients -> Nat]
          /\ ClientOf[k] \in Clients /\ MaxEntries \in Nat /\ MaxPerClient \in Nat
      BY <1>4, ThrottleAssumption, FS_CardinalityType DEF CountedTable, TableInv
    <3>2. ~(Cardinality(Known(es)) >= MaxEntries) /\ ~(cs[ClientOf[k]] >= MaxPerClient)
      BY <1>7 DEF TableFull
    <3>3. Cardinality(Known(entries')) <= MaxEntries
      BY <2>1, <3>1, <3>2
    <3>4. ASSUME NEW c \in Clients PROVE clientEntries'[c] <= MaxPerClient
      <4>1. clientEntries[c] <= MaxPerClient /\ cs[c] <= clientEntries[c]
        BY <1>4 DEF TableInv, TableCounted
      <4>2. CASE c = ClientOf[k]
        BY <1>7, <3>1, <3>2, <4>2
      <4>3. CASE c # ClientOf[k]
        BY <1>7, <3>1, <4>1, <4>3
      <4> QED BY <4>2, <4>3
    <3>5. \A c \in Clients :
              clientEntries'[c] = Cardinality({j \in Known(entries') : ClientOf[j] = c})
      BY <2>1 DEF CountedTable, EntriesOf
    <3> QED BY <3>3, <3>4, <3>5 DEF TableCounted
  <2>3. /\ at'[l].pc = "comparing" /\ at'[l].key = k
        /\ \A m \in Logins : at[m].pc # "idle" => at'[m] = at[m]
        /\ \A j \in Keys : j # k => entries'[j] = es[j]
    BY <1>1, <1>5, <1>7
  <2>4. ReservedFor'
    <3>1. \A j \in {k} : entries'[j].inFlight => \E m \in Logins : at'[m].pc # "idle" /\ at'[m].key = j
      BY <2>3
    <3>2. \A j \in Keys \ {k} : entries'[j].inFlight => entries[j].inFlight
      BY <1>5, <2>3
    <3>3. \A m \in Logins : at[m].pc # "idle" /\ at[m].key \notin {k}
                             => at'[m].pc # "idle" /\ at'[m].key = at[m].key
      BY <2>3
    <3> QED BY <3>1, <3>2, <3>3, {k} \in SUBSET Keys, ReservationsKept
  <2> QED BY <2>1, <2>2, <2>4
<1> QED BY <1>1, <1>6, <1>7

LEMMA RecordCounts ==
  ASSUME TableInv, NEW l \in Logins, Fail(l) \/ Succeed(l), ThrottleTypeOK'
  PROVE  CountedTable(entries', clientEntries') /\ TableCounted' /\ ReservedFor'
<1>1. /\ entries \in [Keys -> Throttles] /\ clientEntries' = clientEntries
      /\ at' = [at EXCEPT ![l].pc = "recorded"]
  BY DEF TableInv, ThrottleInv, ThrottleTypeOK, Fail, Succeed
<1>2. \A j \in Keys : entries'[j].known = entries[j].known /\ entries'[j].inFlight = entries[j].inFlight
  <2>1. CASE Fail(l)
    <3> DEFINE e == entries[at[l].key]
    <3>1. PICK n, w, t : entries' = [entries EXCEPT ![at[l].key].failures = n, ![at[l].key].windowStart = w,
                                         ![at[l].key].lastSeen = clock, ![at[l].key].lockedUntil = t]
      BY <2>1 DEF Fail
    <3> QED BY <1>1, <3>1 DEF Throttles
  <2>2. CASE Succeed(l)
    BY <1>1, <2>2 DEF Succeed, Throttles
  <2> QED BY <2>1, <2>2
<1>3. Known(entries') = Known(entries)
  BY <1>2 DEF Known
<1>4. CountedTable(entries', clientEntries') /\ TableCounted'
  BY <1>1, <1>3, TableSame
<1>5. \A m \in Logins : at[m].pc # "idle" => at'[m].pc # "idle" /\ at'[m].key = at[m].key
  BY <1>1, LoginTypes DEF TableInv, ThrottleInv, ThrottleTypeOK
<1>6. ReservedFor'
  BY <1>2, <1>5 DEF TableInv, ReservedFor
<1> QED BY <1>4, <1>6

LEMMA ReleaseCounts ==
  ASSUME TableInv, NEW l \in Logins, Release(l), ThrottleTypeOK'
  PROVE  CountedTable(entries', clientEntries') /\ TableCounted' /\ ReservedFor'
<1>0. at[l].pc # "idle" /\ at[l].key \in Keys
  BY DEF Release, TableInv, ThrottleInv, ThrottleTypeOK
<1> PICK k \in Keys : k = at[l].key
  BY <1>0
<1> DEFINE e == entries[k]
           gone == IF e.known /\ e.failures = 0 /\ e.lockedUntil = 0 THEN {k} ELSE {}
<1>1. /\ entries' = [WithoutEntries(gone) EXCEPT ![k].inFlight = FALSE]
      /\ clientEntries' = CountsWithout(gone)
      /\ at' = [at EXCEPT ![l] = NoAttempt] /\ DOMAIN at = Logins
      /\ entries \in [Keys -> Throttles]
  BY DEF Release, TableInv, ThrottleInv, ThrottleTypeOK
<1>2. gone \in SUBSET Known(entries)
  BY DEF Known
<1> HIDE DEF gone
<1>3. /\ DOMAIN WithoutEntries(gone) = Keys /\ WithoutEntries(gone) \in [Keys -> Throttles]
      /\ \A j \in Keys : WithoutEntries(gone)[j].inFlight => entries[j].inFlight
  BY <1>1, Nothing DEF WithoutEntries
<1>4. /\ \A j \in Keys : entries'[j].known = WithoutEntries(gone)[j].known
      /\ \A j \in Keys \ {k} : entries'[j].inFlight => entries[j].inFlight
      /\ ~entries'[k].inFlight
  <2> DEFINE es == WithoutEntries(gone)
  <2> HIDE DEF es
  <2> QED BY <1>1, <1>3 DEF Throttles, es
<1>5. Known(entries') = Known(WithoutEntries(gone))
  BY <1>4 DEF Known
<1>6. CountedTable(entries', clientEntries') /\ TableCounted'
  BY <1>1, <1>2, <1>5, TableShrinks
<1>7. ReservedFor'
  <2>1. \A j \in {k} : entries'[j].inFlight => \E m \in Logins : at'[m].pc # "idle" /\ at'[m].key = j
    BY <1>4
  <2>2. \A m \in Logins : at[m].pc # "idle" /\ at[m].key \notin {k}
                           => at'[m].pc # "idle" /\ at'[m].key = at[m].key
    BY <1>1
  <2> QED BY <1>4, <2>1, <2>2, {k} \in SUBSET Keys, ReservationsKept
<1> QED BY <1>6, <1>7

LEMMA TableInvariant == ThrottleSpec => []TableInv
<1>1. ThrottleInit => TableInv
  <2> SUFFICES ASSUME ThrottleInit PROVE TableInv
    OBVIOUS
  <2>1. Known(entries) = {} /\ \A c \in Clients : clientEntries[c] = 0
    BY Nothing DEF ThrottleInit, Known
  <2>2. /\ IsFiniteSet(Known(entries)) /\ Cardinality(Known(entries)) = 0
        /\ \A c \in Clients : EntriesOf(entries, c) = {} /\ Cardinality(EntriesOf(entries, c)) = 0
    BY <2>1, FS_EmptySet DEF EntriesOf
  <2>3. clientEntries \in [Clients -> Nat]
    BY DEF ThrottleInit
  <2>4. MaxEntries \in Nat /\ MaxPerClient \in Nat
    BY ThrottleAssumption
  <2>5. CountedTable(entries, clientEntries)
    BY <2>1, <2>2, <2>3 DEF CountedTable
  <2>6. TableCounted
    BY <2>1, <2>2, <2>4 DEF TableCounted, EntriesOf
  <2>7. ReservedFor
    BY Nothing DEF ReservedFor, ThrottleInit
  <2> QED BY <2>5, <2>6, <2>7, ThrottleStarts DEF TableInv
<1>2. TableInv /\ ThrottleInv' /\ [ThrottleNext]_throttleVars => TableInv'
  <2> SUFFICES ASSUME TableInv, ThrottleInv', [ThrottleNext]_throttleVars
               PROVE  CountedTable(entries', clientEntries') /\ TableCounted' /\ ReservedFor'
    BY DEF TableInv
  <2>1. CASE UNCHANGED throttleVars
    <3>1. ReservedFor'
      BY <2>1 DEF throttleVars, TableInv, ReservedFor
    <3> QED BY <2>1, <3>1, TableSame DEF throttleVars
  <2>2. CASE Tick
    <3>1. ReservedFor'
      BY <2>2 DEF Tick, TableInv, ReservedFor
    <3> QED BY <2>2, <3>1, TableSame DEF Tick
  <2>3. CASE Sweep
    BY <2>3, SweepCounts
  <2>4. ASSUME NEW l \in Logins, Fail(l) \/ Succeed(l) \/ Release(l)
        PROVE  CountedTable(entries', clientEntries') /\ TableCounted' /\ ReservedFor'
    BY <2>4, RecordCounts, ReleaseCounts DEF ThrottleInv
  <2>5. ASSUME NEW l \in Logins, NEW k \in Keys, BeginAgain(l, k) \/ BeginNew(l, k)
        PROVE  CountedTable(entries', clientEntries') /\ TableCounted' /\ ReservedFor'
    BY <2>5, BeginAgainCounts, BeginNewCounts DEF ThrottleInv
  <2> QED BY <2>1, <2>2, <2>3, <2>4, <2>5 DEF ThrottleNext
<1> QED BY <1>1, <1>2, ThrottleInvariant, PTL DEF ThrottleSpec

(* The limiter's two counts are those of its table, for any limits: an     *)
(* entry that goes because of a success, a sweep or an overflow is counted *)
(* out exactly once, and neither limit is passed (deleteEntryLocked).      *)
THEOREM TableStaysCounted == ThrottleSpec => []TableCounted
<1>1. TableInv => TableCounted
  BY DEF TableInv
<1> QED BY <1>1, TableInvariant, PTL

(* A profile and a client have one attempt at a time, from its admission   *)
(* to its release, and its entry is there all the while, whatever is swept *)
(* or pruned; and no reservation outlives its attempt, so nobody is locked *)
(* out for good by an attempt that failed (beginAttempt, releaseAttempt).  *)
THEOREM AttemptsAlone == ThrottleSpec => []OneAttempt
<1>1. TableInv => OneAttempt
  <2> SUFFICES ASSUME TableInv, NEW k \in Keys
               PROVE  /\ Cardinality(Comparing(k)) <= 1
                      /\ Comparing(k) # {} <=> entries[k].inFlight
    BY DEF OneAttempt
  <2>1. \A l \in Logins : at[l].pc # "idle" /\ at[l].key = k => entries[k].inFlight
    BY DEF TableInv, ThrottleInv, AttemptOK
  <2>2. Comparing(k) # {} <=> entries[k].inFlight
    <3>1. Comparing(k) # {} => entries[k].inFlight
      BY <2>1 DEF Comparing
    <3>2. entries[k].inFlight => Comparing(k) # {}
      BY DEF TableInv, ReservedFor, Comparing
    <3> QED BY <3>1, <3>2
  <2>3. Comparing(k) = {} \/ \E l : Comparing(k) = {l}
    BY DEF Comparing, TableInv, ThrottleInv, AloneWithKey
  <2>4. Cardinality(Comparing(k)) \in {0, 1}
    BY <2>3, FS_EmptySet, FS_Singleton
  <2> QED BY <2>2, <2>4
<1> QED BY <1>1, TableInvariant, PTL
=============================================================================
