------------------------- MODULE SettingsSyncProofs -------------------------
(* Proofs, for any profiles, fields and values and any number of edits and *)
(* sign-ins, that the tab saves to a profile that profile's settings only, *)
(* and that an edit is saved unless the reader was told that it is not;    *)
(* for any profiles and any number of themes, loads and writes, that the   *)
(* resolver gives up no theme that the server still has; and, for any      *)
(* logins and calls in flight, that a tab gives up no login that the       *)
(* server honours unless the reader signs out.                             *)
EXTENDS SettingsSync, ThemeStore, ClientSession, FiniteSetTheorems, SequenceTheorems, TLAPS

-----------------------------------------------------------------------------
Profiles == Users \cup {"none"}
ValueOwners == Users \cup {"defaults"}
Touched == [SettingFields -> SUBSET FieldValues]

Stores == [profile : Profiles, signedOut : BOOLEAN, loaded : BOOLEAN,
           values : Objects, from : ValueOwners, lastSaved : Objects,
           dirty : Touched, generation : Nat, revision : Nat,
           timer : BOOLEAN, attempt : Nat, current : Nat]

Gets == [by : Users, generation : Nat, aborted : BOOLEAN,
         waits : BOOLEAN, served : BOOLEAN, got : Objects]

Puts == [by : Users, from : ValueOwners, payload : Objects, revision : Nat, attempt : Nat,
         aborted : BOOLEAN, answer : {"none", "ok", "lost", "failed", "rejected", "cancelled"}]

SettingsTypeOK ==
    /\ row \in [Users -> Objects]
    /\ store \in Stores
    /\ loads \in Seq(Gets)
    /\ saves \in Seq(Puts)
    /\ bounds \in Nat

(* What is loaded is the row of the profile that is signed in, and a save  *)
(* is scheduled of nothing else.                                           *)
LoadedIsOwn(s) ==
    /\ s.loaded => s.from = s.profile
    /\ s.timer => s.loaded

(* A GET that may still publish was sent for the profile that is signed in.*)
GetFits(l, s) ==
    /\ l.generation <= s.generation
    /\ l.generation = s.generation => l.by = s.profile

LoadsFit == \A i \in DOMAIN loads : GetFits(loads[i], store)

IInv == /\ SettingsTypeOK
        /\ LoadedIsOwn(store)
        /\ LoadsFit
        /\ SavesOwnSettings

-----------------------------------------------------------------------------
(* Sequences of requests: what is left of one after an answer, an abort or *)
(* a new request.                                                          *)
LEMMA DropAt ==
  ASSUME NEW S, NEW q \in Seq(S), NEW i \in DOMAIN q
  PROVE  /\ Drop(q, i) \in Seq(S)
         /\ DOMAIN Drop(q, i) = 1 .. Len(q) - 1 /\ Len(Drop(q, i)) = Len(q) - 1
         /\ Len(q) \in Nat /\ DOMAIN q = 1 .. Len(q)
         /\ \A j \in 1 .. Len(q) - 1 : Drop(q, i)[j] = IF j < i THEN q[j] ELSE q[j + 1]
<1>1. Len(q) \in Nat /\ i \in 1 .. Len(q) /\ DOMAIN q = 1 .. Len(q)
  BY LenProperties
<1> DEFINE front == SubSeq(q, 1, i - 1)
           rest == SubSeq(q, i + 1, Len(q))
<1>2. \A k \in 1 .. Len(q) : q[k] \in S
  BY <1>1, ElementOfSeq
<1>3. /\ front \in Seq(S)
      /\ Len(front) = i - 1
      /\ \A k \in 1 .. i - 1 : front[k] = q[k]
  <2>1. 1 \in Int /\ i - 1 \in Int /\ \A k \in 1 .. i - 1 : q[k] \in S
    BY <1>1, <1>2
  <2>2. /\ front \in Seq(S)
        /\ Len(front) = IF 1 <= i - 1 THEN (i - 1) - 1 + 1 ELSE 0
        /\ \A k \in 1 .. (i - 1) - 1 + 1 : front[k] = q[1 + k - 1]
    BY <2>1, SubSeqProperties
  <2> HIDE DEF front
  <2>3. (i - 1) - 1 + 1 = i - 1 /\ \A k \in 1 .. i - 1 : 1 + k - 1 = k
    BY <1>1
  <2> QED BY <1>1, <2>2, <2>3
<1>4. /\ rest \in Seq(S)
      /\ Len(rest) = Len(q) - i
      /\ \A k \in 1 .. Len(q) - i : rest[k] = q[i + k]
  <2>1. i + 1 \in Int /\ Len(q) \in Int /\ \A k \in i + 1 .. Len(q) : q[k] \in S
    BY <1>1, <1>2
  <2>2. /\ rest \in Seq(S)
        /\ Len(rest) = IF i + 1 <= Len(q) THEN Len(q) - (i + 1) + 1 ELSE 0
        /\ \A k \in 1 .. Len(q) - (i + 1) + 1 : rest[k] = q[(i + 1) + k - 1]
    BY <2>1, SubSeqProperties
  <2> HIDE DEF rest
  <2>3. Len(q) - (i + 1) + 1 = Len(q) - i /\ \A k \in 1 .. Len(q) - i : (i + 1) + k - 1 = i + k
    BY <1>1
  <2> QED BY <1>1, <2>2, <2>3
<1> HIDE DEF front, rest
<1>5. /\ front \o rest \in Seq(S)
      /\ Len(front \o rest) = Len(front) + Len(rest)
      /\ \A k \in 1 .. Len(front) + Len(rest) :
            (front \o rest)[k] = IF k <= Len(front) THEN front[k] ELSE rest[k - Len(front)]
  BY <1>3, <1>4, ConcatProperties
<1>6. Drop(q, i) = front \o rest
  BY DEF Drop, front, rest
<1>7. ASSUME NEW j \in 1 .. Len(q) - 1
      PROVE  Drop(q, i)[j] = IF j < i THEN q[j] ELSE q[j + 1]
  <2>2. CASE j <= i - 1
    <3>1. Drop(q, i)[j] = q[j]
      BY <1>1, <1>3, <1>4, <1>5, <1>6, <2>2
    <3> QED BY <1>1, <2>2, <3>1
  <2>3. CASE ~(j <= i - 1)
    <3>1. j - (i - 1) \in 1 .. Len(q) - i /\ i + (j - (i - 1)) = j + 1
      BY <1>1, <2>3
    <3>2. Drop(q, i)[j] = rest[j - (i - 1)]
      BY <1>1, <1>3, <1>4, <1>5, <1>6, <2>3
    <3>3. Drop(q, i)[j] = q[j + 1]
      BY <1>4, <3>1, <3>2
    <3> QED BY <1>1, <2>3, <3>3
  <2> QED BY <2>2, <2>3
<1>8. Len(Drop(q, i)) = Len(q) - 1 /\ Drop(q, i) \in Seq(S)
  <2>1. (i - 1) + (Len(q) - i) = Len(q) - 1
    BY <1>1
  <2>2. Len(front) + Len(rest) = Len(q) - 1
    BY <1>3, <1>4, <2>1
  <2> QED BY <1>5, <1>6, <2>2
<1>9. DOMAIN Drop(q, i) = 1 .. Len(q) - 1
  BY <1>8, LenProperties
<1> QED BY <1>1, <1>7, <1>8, <1>9


LEMMA DropKeeps ==
  ASSUME NEW S, NEW q \in Seq(S), NEW i \in DOMAIN q
  PROVE  /\ Drop(q, i) \in Seq(S)
         /\ \A j \in DOMAIN Drop(q, i) : \E k \in DOMAIN q : Drop(q, i)[j] = q[k]
<1>1. Len(q) \in Nat /\ i \in 1 .. Len(q) /\ DOMAIN q = 1 .. Len(q) /\ DOMAIN Drop(q, i) = 1 .. Len(q) - 1
  BY DropAt, LenProperties
<1>2. ASSUME NEW j \in 1 .. Len(q) - 1
      PROVE  \E k \in DOMAIN q : Drop(q, i)[j] = q[k]
  <2>1. Drop(q, i)[j] = IF j < i THEN q[j] ELSE q[j + 1]
    BY DropAt
  <2>2. j \in DOMAIN q /\ j + 1 \in DOMAIN q
    BY <1>1
  <2> QED BY <2>1, <2>2
<1> QED BY <1>1, <1>2, DropAt

LEMMA GetsAborted ==
  ASSUME NEW q \in Seq(Gets)
  PROVE  /\ Aborted(q) \in Seq(Gets)
         /\ DOMAIN Aborted(q) = DOMAIN q
         /\ \A j \in DOMAIN q : Aborted(q)[j].by = q[j].by /\ Aborted(q)[j].generation = q[j].generation
<1>1. DOMAIN q = 1 .. Len(q) /\ Len(q) \in Nat
  BY LenProperties
<1>2. \A j \in DOMAIN q : q[j] \in Gets
  BY <1>1, ElementOfSeq
<1>3. \A j \in DOMAIN q : [q[j] EXCEPT !.aborted = TRUE] \in Gets
  BY <1>2 DEF Gets
<1>4. Aborted(q) \in [1 .. Len(q) -> Gets]
  BY <1>1, <1>3 DEF Aborted
<1>5. Aborted(q) \in Seq(Gets)
  BY <1>1, <1>4
<1>6. \A j \in DOMAIN q : Aborted(q)[j].by = q[j].by /\ Aborted(q)[j].generation = q[j].generation
  BY <1>2 DEF Aborted, Gets
<1> QED BY <1>5, <1>6 DEF Aborted

LEMMA PutsAborted ==
  ASSUME NEW q \in Seq(Puts)
  PROVE  /\ Aborted(q) \in Seq(Puts)
         /\ DOMAIN Aborted(q) = DOMAIN q
         /\ \A j \in DOMAIN q : Aborted(q)[j].by = q[j].by /\ Aborted(q)[j].from = q[j].from
<1>1. DOMAIN q = 1 .. Len(q) /\ Len(q) \in Nat
  BY LenProperties
<1>2. \A j \in DOMAIN q : q[j] \in Puts
  BY <1>1, ElementOfSeq
<1>3. \A j \in DOMAIN q : [q[j] EXCEPT !.aborted = TRUE] \in Puts
  BY <1>2 DEF Puts
<1>4. Aborted(q) \in [1 .. Len(q) -> Puts]
  BY <1>1, <1>3 DEF Aborted
<1>5. Aborted(q) \in Seq(Puts)
  BY <1>1, <1>4
<1>6. \A j \in DOMAIN q : Aborted(q)[j].by = q[j].by /\ Aborted(q)[j].from = q[j].from
  BY <1>2 DEF Aborted, Puts
<1> QED BY <1>5, <1>6 DEF Aborted

LEMMA AppendKeeps ==
  ASSUME NEW S, NEW q \in Seq(S), NEW e \in S
  PROVE  /\ Append(q, e) \in Seq(S)
         /\ \A j \in DOMAIN Append(q, e) : (j \in DOMAIN q /\ Append(q, e)[j] = q[j]) \/ Append(q, e)[j] = e
<1>1. /\ Append(q, e) \in Seq(S)
      /\ Len(Append(q, e)) = Len(q) + 1
      /\ \A i \in 1 .. Len(q) : Append(q, e)[i] = q[i]
      /\ Append(q, e)[Len(q) + 1] = e
  BY AppendProperties
<1>2. DOMAIN q = 1 .. Len(q) /\ Len(q) \in Nat /\ DOMAIN Append(q, e) = 1 .. Len(q) + 1
  BY <1>1, LenProperties
<1> QED BY <1>1, <1>2

(* Answers change of a PUT the answer alone.                               *)
LEMMA PutsAnswered ==
  ASSUME NEW q \in Seq(Puts), NEW new, new = [j \in DOMAIN q |-> new[j]],
         \A j \in DOMAIN q : new[j] \in Puts /\ new[j].by = q[j].by /\ new[j].from = q[j].from,
         \A j \in DOMAIN q : q[j].from = q[j].by
  PROVE  new \in Seq(Puts) /\ \A j \in DOMAIN new : new[j].from = new[j].by
<1>1. DOMAIN q = 1 .. Len(q) /\ Len(q) \in Nat
  BY LenProperties
<1>2. new \in [1 .. Len(q) -> Puts]
  BY <1>1
<1>3. new \in Seq(Puts)
  BY <1>1, <1>2
<1> QED BY <1>3

LEMMA CancelledKeeps ==
  ASSUME NEW s \in Puts
  PROVE  Cancelled(s) \in Puts /\ Cancelled(s).by = s.by /\ Cancelled(s).from = s.from
  BY DEF Cancelled, Puts

LEMMA OverType ==
  ASSUME NEW changed \in Touched, NEW base \in Objects
  PROVE  Over(changed, base) \in Objects
<1>1. ASSUME NEW f \in SettingFields, changed[f] # {}
      PROVE  (CHOOSE v \in changed[f] : TRUE) \in FieldValues
  <2>1. changed[f] \subseteq FieldValues
    BY DEF Touched
  <2>2. (CHOOSE v \in changed[f] : TRUE) \in changed[f]
    BY <1>1
  <2> QED BY <2>1, <2>2
<1>2. \A f \in SettingFields : base[f] \in FieldValues
  BY DEF Objects
<1> QED BY <1>1, <1>2 DEF Over, Objects

LEMMA DefaultsType == Defaults \in Objects /\ Untouched \in Touched
  BY SettingsAssumption DEF Defaults, Objects, Untouched, Touched

-----------------------------------------------------------------------------
(* What the store's functions do to the fields that count here.            *)
Kin(t, s) == /\ t \in Stores
             /\ t.profile = s.profile
             /\ t.generation = s.generation

LEMMA FieldTypes ==
  ASSUME NEW s \in Stores
  PROVE  /\ s.profile \in Profiles /\ s.signedOut \in BOOLEAN /\ s.loaded \in BOOLEAN
         /\ s.values \in Objects /\ s.from \in ValueOwners /\ s.lastSaved \in Objects
         /\ s.dirty \in Touched /\ s.generation \in Nat /\ s.revision \in Nat
         /\ s.timer \in BOOLEAN /\ s.attempt \in Nat /\ s.current \in Nat
  BY DEF Stores

LEMMA ResetStore ==
  ASSUME NEW s \in Stores
  PROVE  /\ Reset(s) \in Stores
         /\ Reset(s).profile = s.profile
         /\ Reset(s).generation = s.generation + 1
         /\ ~Reset(s).loaded /\ ~Reset(s).timer
<1>1. s.generation + 1 \in Nat /\ s.revision + 1 \in Nat /\ "defaults" \in ValueOwners
  BY FieldTypes DEF ValueOwners
<1>2. Reset(s) \in Stores
  BY <1>1, DefaultsType DEF Reset, Stores
<1>3. Reset(s).profile = s.profile /\ Reset(s).generation = s.generation + 1
  BY DEF Reset, Stores
<1>4. ~Reset(s).loaded
  BY DEF Reset, Stores
<1>5. ~Reset(s).timer
  BY DEF Reset, Stores
<1> QED BY <1>2, <1>3, <1>4, <1>5

LEMMA PublishedStore ==
  ASSUME NEW s \in Stores, NEW l \in Gets
  PROVE  /\ Kin(PublishSettings(s, l), s)
         /\ PublishSettings(s, l).from = l.by
         /\ PublishSettings(s, l).loaded
<1>1. Over(s.dirty, l.got) \in Objects
  BY OverType DEF Stores, Gets
<1>2. l.by \in ValueOwners /\ l.got \in Objects /\ l.waits \in BOOLEAN
  BY DEF Gets, ValueOwners
<1>3. (s.timer \/ l.waits) \in BOOLEAN /\ s.revision + 1 \in Nat
  BY <1>2, FieldTypes
<1>4. PublishSettings(s, l) \in Stores
  BY <1>1, <1>2, <1>3, DefaultsType DEF PublishSettings, Stores
<1>5. /\ PublishSettings(s, l).profile = s.profile
      /\ PublishSettings(s, l).generation = s.generation
  BY DEF PublishSettings, Stores
<1>6. PublishSettings(s, l).from = l.by
  BY DEF PublishSettings, Stores
<1>7. PublishSettings(s, l).loaded
  BY DEF PublishSettings, Stores
<1> QED BY <1>4, <1>5, <1>6, <1>7 DEF Kin

LEMMA UpdatedStore ==
  ASSUME NEW s \in Stores, NEW f \in SettingFields, NEW v \in FieldValues
  PROVE  /\ Kin(Update(s, f, v), s)
         /\ Update(s, f, v).from = s.from
         /\ Update(s, f, v).loaded = s.loaded
         /\ Update(s, f, v).timer => s.timer \/ s.loaded
<1> DEFINE values == [s.values EXCEPT ![f] = v]
           dirty == [s.dirty EXCEPT ![f] = {v}]
           t == [s EXCEPT !.values[f] = v, !.revision = @ + 1]
<1>1. values \in Objects
  BY DEF Stores, Objects
<1>2. dirty \in Touched
  BY DEF Stores, Touched
<1>3. t = [s EXCEPT !.values = values, !.revision = s.revision + 1]
  BY DEF Stores
<1>4. /\ t \in Stores /\ t.profile = s.profile /\ t.generation = s.generation
      /\ t.from = s.from /\ t.loaded = s.loaded /\ t.timer = s.timer /\ t.dirty = s.dirty
      /\ t.signedOut = s.signedOut
  <2> DEFINE u == [s EXCEPT !.values = values, !.revision = s.revision + 1]
  <2>1. s.revision + 1 \in Nat
    BY FieldTypes
  <2> HIDE DEF values
  <2>2. u \in Stores
    BY <1>1, <2>1 DEF Stores
  <2>3. u.profile = s.profile /\ u.generation = s.generation /\ u.from = s.from /\ u.dirty = s.dirty
    BY DEF Stores
  <2>4. u.loaded = s.loaded
    BY DEF Stores
  <2>5. u.timer = s.timer
    BY DEF Stores
  <2>6. u.signedOut = s.signedOut
    BY DEF Stores
  <2>7. t = u
    BY <1>3
  <2> HIDE DEF t, u
  <2> QED BY <2>2, <2>3, <2>4, <2>5, <2>6, <2>7
<1> HIDE DEF t
<1>5. [t EXCEPT !.dirty[f] = {v}] = [t EXCEPT !.dirty = dirty]
  BY <1>4 DEF Stores
<1>6. Update(s, f, v) = IF s.signedOut THEN t
                        ELSE IF ~s.loaded THEN [t EXCEPT !.dirty = dirty]
                        ELSE [t EXCEPT !.timer = TRUE]
  BY <1>5 DEF Update, t
<1> HIDE DEF dirty
<1>7. CASE s.signedOut
  BY <1>4, <1>6, <1>7 DEF Kin
<1>8. CASE ~s.signedOut /\ ~s.loaded
  BY <1>2, <1>4, <1>6, <1>8 DEF Kin, Stores
<1>9. CASE ~s.signedOut /\ s.loaded
  BY <1>4, <1>6, <1>9 DEF Kin, Stores
<1> QED BY <1>7, <1>8, <1>9

(* A store of the same profile and generation, loaded as it was, changes   *)
(* nothing for the requests.                                               *)
LEMMA KinStep ==
  ASSUME IInv, Kin(store', store), LoadedIsOwn(store'),
         row' \in [Users -> Objects], bounds' \in Nat,
         loads' \in Seq(Gets), saves' \in Seq(Puts),
         \A j \in DOMAIN loads' :
            \E k \in DOMAIN loads : /\ loads'[j].by = loads[k].by
                                    /\ loads'[j].generation = loads[k].generation,
         \A j \in DOMAIN saves' : saves'[j].from = saves'[j].by
  PROVE  IInv'
<1>1. SettingsTypeOK'
  BY DEF Kin, SettingsTypeOK
<1>2. LoadsFit'
  BY DEF IInv, LoadsFit, GetFits, Kin
<1>3. SavesOwnSettings'
  BY DEF SavesOwnSettings
<1> QED BY <1>1, <1>2, <1>3 DEF IInv

(* A GET that is sent asks for the profile that is signed in.              *)
LEMMA NewGet ==
  ASSUME NEW s \in Stores, NEW w \in BOOLEAN, s.profile # "none"
  PROVE  /\ NewLoad(s, w) \in Gets
         /\ NewLoad(s, w).by = s.profile
         /\ NewLoad(s, w).generation = s.generation
  BY DefaultsType DEF NewLoad, Gets, Stores, Profiles

-----------------------------------------------------------------------------
THEOREM SettingsInitIInv == SettingsInit => IInv
<1> SUFFICES ASSUME SettingsInit PROVE IInv
  OBVIOUS
<1>1. FreshStore \in Stores
  BY DefaultsType DEF FreshStore, Stores, Profiles, ValueOwners
<1>2. row \in [Users -> Objects]
  BY DefaultsType DEF SettingsInit
<1>3. loads = << >> /\ saves = << >> /\ store = FreshStore /\ bounds = 0
  BY DEF SettingsInit
<1>4. loads \in Seq(Gets) /\ saves \in Seq(Puts) /\ DOMAIN loads = {} /\ DOMAIN saves = {}
  BY <1>3, EmptySeq, LenProperties
<1>5. SettingsTypeOK
  BY <1>1, <1>2, <1>3, <1>4 DEF SettingsTypeOK
<1>6. LoadedIsOwn(store)
  BY <1>3 DEF LoadedIsOwn, FreshStore
<1> QED BY <1>4, <1>5, <1>6 DEF IInv, LoadsFit, SavesOwnSettings

(* A sign-in starts a new generation: no GET that was sent fits it, and    *)
(* the one that is sent now does.                                          *)
LEMMA ActivateKeeps ==
  ASSUME IInv, NEW p \in Profiles, Activate(p)
  PROVE  IInv'
<1> DEFINE t == [store EXCEPT !.profile = p, !.signedOut = (p = "none")]
           s == Reset(t)
           new == IF p = "none" THEN << >> ELSE <<NewLoad(s, FALSE)>>
<1>1. store \in Stores /\ loads \in Seq(Gets) /\ saves \in Seq(Puts)
  BY DEF IInv, SettingsTypeOK
<1>2. t \in Stores /\ t.profile = p /\ t.generation = store.generation
  BY <1>1 DEF Stores
<1> HIDE DEF t
<1>3. s \in Stores /\ s.profile = p /\ s.generation = store.generation + 1 /\ ~s.loaded /\ ~s.timer
  BY <1>2, ResetStore
<1>4. store' = s /\ loads' = Aborted(loads) \o new /\ saves' = Aborted(saves)
  BY DEF Activate, t
<1> HIDE DEF s
<1>5. /\ new \in Seq(Gets)
      /\ \A j \in 1 .. Len(new) : GetFits(new[j], s)
  <2>1. CASE p = "none"
    BY <2>1, EmptySeq
  <2>2. CASE p # "none"
    <3>1. /\ NewLoad(s, FALSE) \in Gets /\ NewLoad(s, FALSE).by = s.profile
          /\ NewLoad(s, FALSE).generation = s.generation
      BY <1>3, <2>2, NewGet
    <3>2. GetFits(NewLoad(s, FALSE), s)
      <4> DEFINE l == NewLoad(s, FALSE)
      <4>1. s.generation \in Nat /\ l.by = s.profile /\ l.generation = s.generation
        BY <1>3, <3>1, FieldTypes
      <4> HIDE DEF l
      <4>2. GetFits(l, s)
        BY <4>1 DEF GetFits
      <4> QED BY <4>2 DEF l
    <3>3. new = <<NewLoad(s, FALSE)>>
      BY <2>2
    <3>4. new \in Seq(Gets) /\ Len(new) = 1 /\ new[1] = NewLoad(s, FALSE)
      <4> DEFINE l == NewLoad(s, FALSE)
      <4>1. l \in Gets
        BY <3>1
      <4> HIDE DEF l
      <4>2. <<l>> \in Seq(Gets) /\ Len(<<l>>) = 1 /\ <<l>>[1] = l
        BY <4>1
      <4> QED BY <3>3, <4>2 DEF l
    <3>5. \A j \in 1 .. Len(new) : j = 1
      BY <3>4
    <3> QED BY <3>2, <3>4, <3>5
  <2> QED BY <2>1, <2>2
<1> HIDE DEF new
<1>6. /\ Aborted(loads) \in Seq(Gets)
      /\ \A j \in DOMAIN loads : /\ Aborted(loads)[j].by = loads[j].by
                                 /\ Aborted(loads)[j].generation = loads[j].generation
      /\ DOMAIN Aborted(loads) = DOMAIN loads
  BY <1>1, GetsAborted
<1>7. \A j \in 1 .. Len(Aborted(loads)) : GetFits(Aborted(loads)[j], s)
  <2>1. DOMAIN loads = 1 .. Len(Aborted(loads))
    BY <1>6, LenProperties
  <2>2. \A j \in DOMAIN loads : loads[j].generation <= store.generation /\ loads[j] \in Gets
    BY <1>1, ElementOfSeq, LenProperties DEF IInv, LoadsFit, GetFits
  <2>3. store.generation \in Nat /\ \A j \in DOMAIN loads : loads[j].generation \in Nat
    BY <1>1, <2>2, FieldTypes DEF Gets
  <2>4. \A j \in DOMAIN loads : loads[j].generation <= s.generation /\ loads[j].generation # s.generation
    BY <1>3, <2>2, <2>3
  <2> QED BY <1>6, <2>1, <2>4 DEF GetFits
<1>8. loads' \in Seq(Gets) /\ \A j \in DOMAIN loads' : GetFits(loads'[j], s)
  <2>1. /\ loads' \in Seq(Gets)
        /\ Len(loads') = Len(Aborted(loads)) + Len(new)
        /\ \A i \in 1 .. Len(Aborted(loads)) + Len(new) :
              loads'[i] = IF i <= Len(Aborted(loads)) THEN Aborted(loads)[i] ELSE new[i - Len(Aborted(loads))]
    BY <1>4, <1>5, <1>6, ConcatProperties
  <2>2. DOMAIN loads' = 1 .. Len(Aborted(loads)) + Len(new) /\ Len(Aborted(loads)) \in Nat /\ Len(new) \in Nat
    BY <1>5, <1>6, <2>1, LenProperties
  <2>3. ASSUME NEW i \in DOMAIN loads' PROVE GetFits(loads'[i], s)
    <3>1. CASE i <= Len(Aborted(loads))
      <4>1. i \in 1 .. Len(Aborted(loads)) /\ loads'[i] = Aborted(loads)[i]
        BY <2>1, <2>2, <3>1
      <4> QED BY <1>7, <4>1
    <3>2. CASE ~(i <= Len(Aborted(loads)))
      <4>1. i - Len(Aborted(loads)) \in 1 .. Len(new) /\ loads'[i] = new[i - Len(Aborted(loads))]
        BY <2>1, <2>2, <3>2
      <4> QED BY <1>5, <4>1
    <3> QED BY <3>1, <3>2
  <2> QED BY <2>1, <2>3
<1>9. saves' \in Seq(Puts) /\ \A j \in DOMAIN saves' : saves'[j].from = saves'[j].by
  BY <1>1, <1>4, PutsAborted DEF IInv, SavesOwnSettings
<1>10. row' = row /\ bounds' \in Nat
  BY DEF Activate, IInv, SettingsTypeOK
<1>11. SettingsTypeOK'
  BY <1>3, <1>4, <1>8, <1>9, <1>10 DEF IInv, SettingsTypeOK
<1>12. LoadedIsOwn(store)'
  BY <1>3, <1>4 DEF LoadedIsOwn
<1>13. LoadsFit' /\ SavesOwnSettings'
  BY <1>4, <1>8, <1>9 DEF LoadsFit, SavesOwnSettings
<1> QED BY <1>11, <1>12, <1>13 DEF IInv

(* A GET more, sent for the store as it is.                                *)
LEMMA OneMoreGet ==
  ASSUME IInv, Kin(store', store), LoadedIsOwn(store'), store.profile # "none",
         NEW w \in BOOLEAN, loads' = Append(loads, NewLoad(store, w)),
         UNCHANGED <<row, saves>>, bounds' \in Nat
  PROVE  IInv'
<1>1. store \in Stores /\ loads \in Seq(Gets)
  BY DEF IInv, SettingsTypeOK
<1>2. /\ NewLoad(store, w) \in Gets /\ NewLoad(store, w).by = store.profile
      /\ NewLoad(store, w).generation = store.generation
  BY <1>1, NewGet
<1>3. /\ loads' \in Seq(Gets)
      /\ \A j \in DOMAIN loads' : (j \in DOMAIN loads /\ loads'[j] = loads[j]) \/ loads'[j] = NewLoad(store, w)
  BY <1>1, <1>2, AppendKeeps
<1>4. LoadsFit'
  BY <1>1, <1>2, <1>3 DEF IInv, LoadsFit, GetFits, Kin, Stores
<1>5. SettingsTypeOK' /\ SavesOwnSettings'
  BY <1>3 DEF IInv, Kin, SettingsTypeOK, SavesOwnSettings
<1> QED BY <1>4, <1>5 DEF IInv

LEMMA ReactivateKeeps ==
  ASSUME IInv, Reactivate
  PROVE  IInv'
<1>1. store.profile # "none" /\ loads' = Append(loads, NewLoad(store, FALSE))
      /\ UNCHANGED <<row, store, saves, bounds>>
  BY DEF Reactivate
<1>2. Kin(store', store) /\ LoadedIsOwn(store') /\ bounds' \in Nat
  BY <1>1 DEF IInv, SettingsTypeOK, Kin
<1> QED BY <1>1, <1>2, OneMoreGet

LEMMA EditKeeps ==
  ASSUME IInv, NEW f \in SettingFields, NEW v \in FieldValues, Edit(f, v)
  PROVE  IInv'
<1>1. store \in Stores /\ loads \in Seq(Gets)
  BY DEF IInv, SettingsTypeOK
<1>2. /\ store.profile # "none" /\ store' = Update(store, f, v)
      /\ UNCHANGED <<row, saves>> /\ bounds' \in Nat
  BY DEF Edit, IInv, SettingsTypeOK
<1>3. Kin(store', store) /\ LoadedIsOwn(store')
  BY <1>1, <1>2, UpdatedStore DEF IInv, LoadedIsOwn, Kin
<1>4. CASE loads' = loads
  <2>1. saves' \in Seq(Puts) /\ row' \in [Users -> Objects]
    BY <1>2 DEF IInv, SettingsTypeOK
  <2>2. \A j \in DOMAIN saves' : saves'[j].from = saves'[j].by
    BY <1>2 DEF IInv, SavesOwnSettings
  <2> QED BY <1>1, <1>2, <1>3, <1>4, <2>1, <2>2, KinStep
<1>5. CASE loads' = Append(loads, NewLoad(store, TRUE))
  BY <1>2, <1>3, <1>5, OneMoreGet
<1>6. CASE loads' = [i \in DOMAIN loads |-> [loads[i] EXCEPT
                        !.waits = @ \/ loads[i].generation = store.generation]]
  <2>1. DOMAIN loads = 1 .. Len(loads) /\ Len(loads) \in Nat /\ \A j \in DOMAIN loads : loads[j] \in Gets
    BY <1>1, ElementOfSeq, LenProperties
  <2>2. \A j \in DOMAIN loads : /\ loads'[j] \in Gets
                                /\ loads'[j].by = loads[j].by
                                /\ loads'[j].generation = loads[j].generation
    BY <1>6, <2>1 DEF Gets
  <2>3. loads' \in [1 .. Len(loads) -> Gets]
    BY <1>6, <2>1, <2>2
  <2>4. loads' \in Seq(Gets) /\ DOMAIN loads' = DOMAIN loads
    BY <1>6, <2>1, <2>3
  <2>5. saves' \in Seq(Puts) /\ row' \in [Users -> Objects]
    BY <1>2 DEF IInv, SettingsTypeOK
  <2>6. \A j \in DOMAIN saves' : saves'[j].from = saves'[j].by
    BY <1>2 DEF IInv, SavesOwnSettings
  <2> QED BY <1>2, <1>3, <2>2, <2>4, <2>5, <2>6, KinStep
<1> QED BY <1>4, <1>5, <1>6 DEF Edit

(* An answer to a GET: what it got is of its own profile's row.            *)
LEMMA ServeLoadKeeps ==
  ASSUME IInv, NEW i \in DOMAIN loads, ServeLoad(i)
  PROVE  IInv'
<1>1. /\ store \in Stores /\ loads \in Seq(Gets) /\ saves \in Seq(Puts)
      /\ row \in [Users -> Objects] /\ bounds \in Nat
  BY DEF IInv, SettingsTypeOK
<1>2. DOMAIN loads = 1 .. Len(loads) /\ Len(loads) \in Nat /\ \A j \in DOMAIN loads : loads[j] \in Gets
  BY <1>1, ElementOfSeq, LenProperties
<1> DEFINE got == row[loads[i].by]
           l == [loads[i] EXCEPT !.served = TRUE, !.got = got]
<1>3. got \in Objects
  BY <1>1, <1>2 DEF Gets
<1>4. loads' = [loads EXCEPT ![i] = l]
  <2>1. loads' = [loads EXCEPT ![i].served = TRUE, ![i].got = got]
    BY DEF ServeLoad
  <2>2. [loads EXCEPT ![i].served = TRUE, ![i].got = got] = [loads EXCEPT ![i] = l]
    BY <1>2
  <2> QED BY <2>1, <2>2
<1>5. l \in Gets /\ l.by = loads[i].by /\ l.generation = loads[i].generation
  <2> HIDE DEF got
  <2>1. l \in Gets
    BY <1>2, <1>3 DEF Gets
  <2>2. l.by = loads[i].by /\ l.generation = loads[i].generation
    BY <1>2 DEF Gets
  <2> QED BY <2>1, <2>2
<1> HIDE DEF l
<1>6. loads' \in Seq(Gets) /\ DOMAIN loads' = DOMAIN loads
  BY <1>1, <1>2, <1>4, <1>5, ExceptSeq
<1>7. \A j \in DOMAIN loads' : loads'[j].by = loads[j].by /\ loads'[j].generation = loads[j].generation
  BY <1>2, <1>4, <1>5, <1>6
<1>8. saves' = [j \in DOMAIN saves |-> Cancelled(saves[j])]
  BY DEF ServeLoad
<1>9. \A j \in DOMAIN saves : saves[j] \in Puts
  BY <1>1, ElementOfSeq, LenProperties
<1>10. saves' \in Seq(Puts) /\ \A j \in DOMAIN saves' : saves'[j].from = saves'[j].by
  <2>1. saves' = [j \in DOMAIN saves |-> saves'[j]]
    BY <1>8
  <2>2. \A j \in DOMAIN saves : /\ saves'[j] \in Puts
                                /\ saves'[j].by = saves[j].by
                                /\ saves'[j].from = saves[j].from
    BY <1>8, <1>9, CancelledKeeps
  <2>3. \A j \in DOMAIN saves : saves[j].from = saves[j].by
    BY DEF IInv, SavesOwnSettings
  <2> QED BY <1>1, <2>1, <2>2, <2>3, PutsAnswered
<1>11. UNCHANGED <<row, store, bounds>>
  BY DEF ServeLoad
<1>12. Kin(store', store) /\ LoadedIsOwn(store')
  BY <1>1, <1>11 DEF IInv, Kin
<1> QED BY <1>1, <1>6, <1>7, <1>10, <1>11, <1>12, KinStep

(* What the end of a GET publishes is the settings of the profile that is  *)
(* signed in: the generation has not changed since it was sent.            *)
LEMMA EndLoadKeeps ==
  ASSUME IInv, NEW i \in DOMAIN loads, EndLoad(i)
  PROVE  IInv'
<1>1. /\ store \in Stores /\ loads \in Seq(Gets) /\ saves \in Seq(Puts)
      /\ row \in [Users -> Objects] /\ bounds \in Nat
  BY DEF IInv, SettingsTypeOK
<1>2. loads[i] \in Gets
  BY <1>1, ElementOfSeq, LenProperties
<1>3. /\ loads' = Drop(loads, i) /\ UNCHANGED <<row, saves, bounds>>
  BY DEF EndLoad
<1>4. /\ loads' \in Seq(Gets)
      /\ \A j \in DOMAIN loads' : \E k \in DOMAIN loads : loads'[j] = loads[k]
  BY <1>1, <1>3, DropKeeps
<1>5. \A j \in DOMAIN saves' : saves'[j].from = saves'[j].by
  BY <1>3 DEF IInv, SavesOwnSettings
<1>6. CASE MayPublish(store, loads[i]) /\ store' = PublishSettings(store, loads[i])
  <2>1. loads[i].by = store.profile
    BY <1>6 DEF MayPublish, IInv, LoadsFit, GetFits
  <2>2. Kin(store', store) /\ store'.from = loads[i].by /\ store'.loaded
    BY <1>1, <1>2, <1>6, PublishedStore
  <2>3. LoadedIsOwn(store')
    BY <2>1, <2>2 DEF LoadedIsOwn, Kin
  <2> QED BY <1>1, <1>3, <1>4, <1>5, <2>2, <2>3, KinStep
<1>7. CASE store' = [store EXCEPT !.timer = @ \/ (loads[i].waits /\ store.loaded)]
  <2> DEFINE b == store.timer \/ (loads[i].waits /\ store.loaded)
  <2>1. b \in BOOLEAN /\ (b => store.timer \/ store.loaded)
    BY <1>1, <1>2 DEF Stores, Gets
  <2> HIDE DEF b
  <2>2. store' = [store EXCEPT !.timer = b]
    BY <1>7 DEF b
  <2>3. store' \in Stores
    BY <1>1, <2>1, <2>2 DEF Stores
  <2>4. /\ store'.profile = store.profile /\ store'.generation = store.generation
        /\ store'.from = store.from
    BY <1>1, <2>2 DEF Stores
  <2>5. store'.loaded = store.loaded
    BY <1>1, <2>2 DEF Stores
  <2>6. store'.timer = b
    BY <1>1, <2>2 DEF Stores
  <2>7. LoadedIsOwn(store')
    BY <2>1, <2>4, <2>5, <2>6 DEF IInv, LoadedIsOwn
  <2>8. Kin(store', store)
    BY <2>3, <2>4 DEF Kin
  <2> QED BY <1>1, <1>3, <1>4, <1>5, <2>7, <2>8, KinStep
<1> QED BY <1>6, <1>7 DEF EndLoad

(* A save takes what is shown, and that is loaded: it is the profile's own.*)
LEMMA SaveNowKeeps ==
  ASSUME IInv, SaveNow
  PROVE  IInv'
<1>1. /\ store \in Stores /\ loads \in Seq(Gets) /\ saves \in Seq(Puts)
      /\ row \in [Users -> Objects] /\ bounds \in Nat
  BY DEF IInv, SettingsTypeOK
<1> DEFINE put == [by |-> store.profile, from |-> store.from, payload |-> store.values,
                   revision |-> store.revision, attempt |-> store.attempt + 1,
                   aborted |-> FALSE, answer |-> "none"]
<1>2. /\ store.timer /\ saves' = Append(Aborted(saves), put)
      /\ store' = [store EXCEPT !.timer = FALSE, !.attempt = store.attempt + 1,
                                !.current = store.attempt + 1]
      /\ UNCHANGED <<row, loads, bounds>>
  BY DEF SaveNow
<1>3. store.from = store.profile
  BY <1>2 DEF IInv, LoadedIsOwn
<1>4. store.profile \in Users
  BY <1>1, <1>3, SettingsAssumption DEF Stores, Profiles, ValueOwners
<1>5. put \in Puts /\ put.from = put.by
  <2>1. store.attempt + 1 \in Nat /\ store.from \in ValueOwners /\ store.values \in Objects /\ store.revision \in Nat
    BY <1>1, FieldTypes
  <2>2. put \in Puts
    BY <1>4, <2>1 DEF Puts
  <2>3. put.from = put.by
    BY <1>3
  <2> QED BY <2>2, <2>3
<1> HIDE DEF put
<1>6. /\ Aborted(saves) \in Seq(Puts)
      /\ \A j \in DOMAIN Aborted(saves) : Aborted(saves)[j].from = Aborted(saves)[j].by
  BY <1>1, PutsAborted DEF IInv, SavesOwnSettings
<1>7. saves' \in Seq(Puts) /\ \A j \in DOMAIN saves' : saves'[j].from = saves'[j].by
  <2>1. /\ Append(Aborted(saves), put) \in Seq(Puts)
        /\ \A j \in DOMAIN Append(Aborted(saves), put) :
              \/ j \in DOMAIN Aborted(saves) /\ Append(Aborted(saves), put)[j] = Aborted(saves)[j]
              \/ Append(Aborted(saves), put)[j] = put
    BY <1>5, <1>6, AppendKeeps
  <2> QED BY <1>2, <1>5, <1>6, <2>1
<1>8. Kin(store', store) /\ LoadedIsOwn(store')
  <2>1. store.attempt + 1 \in Nat
    BY <1>1, FieldTypes
  <2>2. store' \in Stores
    BY <1>1, <1>2, <2>1 DEF Stores
  <2>3. store'.profile = store.profile /\ store'.generation = store.generation /\ store'.from = store.from
    BY <1>1, <1>2 DEF Stores
  <2>4. ~store'.timer
    BY <1>1, <1>2 DEF Stores
  <2> QED BY <1>3, <2>2, <2>3, <2>4 DEF Kin, LoadedIsOwn
<1> QED BY <1>1, <1>2, <1>7, <1>8, KinStep

(* The PUTs that are left are PUTs that were there, and the store is kin.  *)
LEMMA PutsStep ==
  ASSUME IInv, Kin(store', store), LoadedIsOwn(store'),
         row' \in [Users -> Objects], UNCHANGED <<loads, bounds>>,
         saves' \in Seq(Puts), \A j \in DOMAIN saves' : saves'[j].from = saves'[j].by
  PROVE  IInv'
<1>1. loads' \in Seq(Gets) /\ bounds' \in Nat
  BY DEF IInv, SettingsTypeOK
<1> QED BY <1>1, KinStep

LEMMA ServeSaveKeeps ==
  ASSUME IInv, NEW i \in DOMAIN saves, ServeSave(i)
  PROVE  IInv'
<1>1. store \in Stores /\ saves \in Seq(Puts) /\ row \in [Users -> Objects]
  BY DEF IInv, SettingsTypeOK
<1>2. \A j \in DOMAIN saves : saves[j] \in Puts
  BY <1>1, ElementOfSeq, LenProperties
<1>3. UNCHANGED <<store, loads, bounds>>
  BY DEF ServeSave
<1>4. PICK a \in {"ok", "lost", "failed", "rejected"} : saves' = SaveAnswered(i, a)
  BY DEF ServeSave
<1>5. row' \in [Users -> Objects]
  <2>1. saves[i].payload \in Objects
    BY <1>2 DEF Puts
  <2>2. row' = row \/ row' = [row EXCEPT ![saves[i].by] = saves[i].payload]
    BY DEF ServeSave
  <2> QED BY <1>1, <2>1, <2>2
<1>6. saves' = [j \in DOMAIN saves |-> saves'[j]]
  BY <1>4 DEF SaveAnswered
<1>7. ASSUME NEW j \in DOMAIN saves
      PROVE  saves'[j] \in Puts /\ saves'[j].by = saves[j].by /\ saves'[j].from = saves[j].from
  <2>1. CASE j = i
    <3>1. saves'[j] = [saves[j] EXCEPT !.answer = a]
      BY <1>4, <2>1 DEF SaveAnswered
    <3> QED BY <1>2, <3>1 DEF Puts
  <2>2. CASE saves'[j] = Cancelled(saves[j])
    BY <1>2, <2>2, CancelledKeeps
  <2>3. CASE saves'[j] = saves[j]
    BY <1>2, <2>3
  <2> QED BY <1>4, <2>1, <2>2, <2>3 DEF SaveAnswered
<1>8. \A j \in DOMAIN saves : saves[j].from = saves[j].by
  BY DEF IInv, SavesOwnSettings
<1>9. saves' \in Seq(Puts) /\ \A j \in DOMAIN saves' : saves'[j].from = saves'[j].by
  BY <1>1, <1>6, <1>7, <1>8, PutsAnswered
<1>10. Kin(store', store) /\ LoadedIsOwn(store')
  BY <1>1, <1>3 DEF IInv, Kin
<1> QED BY <1>3, <1>5, <1>9, <1>10, PutsStep

LEMMA PutsDropped ==
  ASSUME IInv, NEW i \in DOMAIN saves
  PROVE  /\ Drop(saves, i) \in Seq(Puts)
         /\ \A j \in DOMAIN Drop(saves, i) : Drop(saves, i)[j].from = Drop(saves, i)[j].by
<1>1. saves \in Seq(Puts)
  BY DEF IInv, SettingsTypeOK
<1> QED BY <1>1, DropKeeps DEF IInv, SavesOwnSettings

LEMMA SettledStore ==
  ASSUME NEW s \in Stores, NEW save, LoadedIsOwn(s)
  PROVE  Kin(SaveSettled(s, save), s) /\ LoadedIsOwn(SaveSettled(s, save))
<1>1. CASE StillOwner(s, save)
  <2> DEFINE t == [s EXCEPT !.current = 0]
  <2>1. t \in Stores
    BY DEF Stores
  <2>2. t.profile = s.profile /\ t.generation = s.generation /\ t.from = s.from
    BY DEF Stores
  <2>3. t.loaded = s.loaded
    BY DEF Stores
  <2>4. t.timer = s.timer
    BY DEF Stores
  <2>5. SaveSettled(s, save) = t
    BY <1>1 DEF SaveSettled
  <2> HIDE DEF t
  <2> QED BY <2>1, <2>2, <2>3, <2>4, <2>5 DEF Kin, LoadedIsOwn
<1>2. CASE ~StillOwner(s, save)
  BY <1>2 DEF SaveSettled, Kin
<1> QED BY <1>1, <1>2

LEMMA SaveAcceptedKeeps ==
  ASSUME IInv, NEW i \in DOMAIN saves, SaveAccepted(i)
  PROVE  IInv'
<1>1. store \in Stores /\ saves \in Seq(Puts) /\ LoadedIsOwn(store) /\ row \in [Users -> Objects]
  BY DEF IInv, SettingsTypeOK
<1>2. saves[i].payload \in Objects
  <2>1. saves[i] \in Puts
    BY <1>1, ElementOfSeq, LenProperties
  <2> QED BY <2>1 DEF Puts
<1> DEFINE kept == [store EXCEPT !.lastSaved = saves[i].payload]
           s == IF StillOwner(store, saves[i]) THEN kept ELSE store
<1>3. kept \in Stores
  BY <1>1, <1>2 DEF Stores
<1>4. kept.profile = store.profile /\ kept.generation = store.generation /\ kept.from = store.from
  BY <1>1 DEF Stores
<1>5. kept.loaded = store.loaded
  BY <1>1 DEF Stores
<1>6. kept.timer = store.timer
  BY <1>1 DEF Stores
<1>7. /\ store' = SaveSettled(s, saves[i]) /\ saves' = Drop(saves, i)
      /\ UNCHANGED <<row, loads, bounds>>
  BY DEF SaveAccepted
<1> HIDE DEF kept
<1>8. Kin(s, store) /\ LoadedIsOwn(s) /\ s \in Stores
  BY <1>1, <1>3, <1>4, <1>5, <1>6 DEF Kin, LoadedIsOwn
<1> HIDE DEF s
<1>9. Kin(store', store) /\ LoadedIsOwn(store')
  BY <1>7, <1>8, SettledStore DEF Kin
<1> QED BY <1>1, <1>7, <1>9, PutsDropped, PutsStep

(* A rollback shows what the profile's own row was last known to hold.     *)
LEMMA SaveFailedKeeps ==
  ASSUME IInv, NEW i \in DOMAIN saves, SaveFailed(i)
  PROVE  IInv'
<1>1. store \in Stores /\ saves \in Seq(Puts) /\ LoadedIsOwn(store) /\ row \in [Users -> Objects]
  BY DEF IInv, SettingsTypeOK
<1> DEFINE undone == TellsTheFailure(store, saves[i]) /\ saves[i].answer = "rejected"
           s == IF undone THEN Rollback(store) ELSE store
<1>2. Rollback(store) \in Stores
  <2>1. store.lastSaved \in Objects /\ store.revision + 1 \in Nat
    BY <1>1, FieldTypes
  <2> QED BY <1>1, <2>1 DEF Rollback, Stores
<1>3. /\ Rollback(store).profile = store.profile
      /\ Rollback(store).generation = store.generation
      /\ Rollback(store).from = store.from
  BY <1>1 DEF Rollback, Stores
<1>4. Rollback(store).loaded = store.loaded
  BY <1>1 DEF Rollback, Stores
<1>5. Rollback(store).timer = store.timer
  BY <1>1 DEF Rollback, Stores
<1>6. /\ store' = SaveSettled(s, saves[i]) /\ saves' = Drop(saves, i)
      /\ UNCHANGED <<row, loads, bounds>>
  BY DEF SaveFailed
<1>7. Kin(s, store) /\ LoadedIsOwn(s) /\ s \in Stores
  BY <1>1, <1>2, <1>3, <1>4, <1>5 DEF Kin, LoadedIsOwn
<1> HIDE DEF s
<1>8. Kin(store', store) /\ LoadedIsOwn(store')
  BY <1>6, <1>7, SettledStore DEF Kin
<1> QED BY <1>1, <1>6, <1>8, PutsDropped, PutsStep

LEMMA EndAbortedSaveKeeps ==
  ASSUME IInv, NEW i \in DOMAIN saves, EndAbortedSave(i)
  PROVE  IInv'
<1>1. saves' = Drop(saves, i) /\ UNCHANGED <<row, store, loads, bounds>>
  BY DEF EndAbortedSave
<1>2. Kin(store', store) /\ LoadedIsOwn(store') /\ row' \in [Users -> Objects]
  BY <1>1 DEF IInv, SettingsTypeOK, Kin
<1> QED BY <1>1, <1>2, PutsDropped, PutsStep

-----------------------------------------------------------------------------
LEMMA SettingsNextIInv ==
  ASSUME IInv, [SettingsNext]_settingsVars
  PROVE  IInv'
<1>1. CASE UNCHANGED settingsVars
  BY <1>1 DEF settingsVars, IInv, SettingsTypeOK, LoadedIsOwn, LoadsFit, SavesOwnSettings
<1>2. ASSUME NEW p \in Users \cup {"none"}, Activate(p) PROVE IInv'
  BY <1>2, ActivateKeeps DEF Profiles
<1>3. CASE Reactivate \/ SaveNow
  BY <1>3, ReactivateKeeps, SaveNowKeeps
<1>4. ASSUME NEW f \in SettingFields, NEW v \in FieldValues, Edit(f, v) PROVE IInv'
  BY <1>4, EditKeeps
<1>5. ASSUME NEW i \in DOMAIN loads, ServeLoad(i) \/ EndLoad(i) PROVE IInv'
  BY <1>5, ServeLoadKeeps, EndLoadKeeps
<1>6. ASSUME NEW i \in DOMAIN saves,
             ServeSave(i) \/ EndAbortedSave(i) \/ SaveAccepted(i) \/ SaveFailed(i)
      PROVE  IInv'
  BY <1>6, ServeSaveKeeps, EndAbortedSaveKeeps, SaveAcceptedKeeps, SaveFailedKeeps
<1> QED BY <1>1, <1>2, <1>3, <1>4, <1>5, <1>6 DEF SettingsNext

(* Whoever signs in and out while settings are loaded, edited and saved    *)
(* (lib/settings.ts), a PUT carries the settings of the profile it is sent *)
(* for: never another profile's, and never defaults that were not loaded.  *)
THEOREM OwnSettingsSaved == SettingsSpec => []SavesOwnSettings
<1>1. IInv /\ [SettingsNext]_settingsVars => IInv'
  BY SettingsNextIInv
<1>2. IInv => SavesOwnSettings
  BY DEF IInv
<1> QED BY SettingsInitIInv, <1>1, <1>2, PTL DEF SettingsSpec

-----------------------------------------------------------------------------
(* Nothing is lost (SavedOrTold)                                           *)

NonePending(q) == \A i \in DOMAIN q : q[i].answer # "none"
OfNow(l, s) == l.generation = s.generation

(* The load the store waits for: there is at most one, and once the server *)
(* has answered it nothing changes the row until it arrives.               *)
OneGet ==
    \A i \in DOMAIN loads : OfNow(loads[i], store) =>
        /\ ~store.loaded /\ ~loads[i].aborted
        /\ loads[i].served => loads[i].got = row[loads[i].by] /\ NonePending(saves)
        /\ \A j \in DOMAIN loads : OfNow(loads[j], store) => j = i

(* Edits made before the load are parked, with a load that waits for them  *)
(* unless it has failed.                                                   *)
EditsParked ==
    /\ store.signedOut => store.profile = "none"
    /\ ~store.loaded =>
          /\ store.current = 0 /\ wanted = store.dirty
          /\ store.dirty # Untouched => missed \/ \E i \in DOMAIN loads : OfNow(loads[i], store) /\ loads[i].waits
    /\ store.loaded => Over(wanted, store.values) = store.values

(* Only the newest PUT counts: it is the current one, and carries what is  *)
(* shown unless a further save is scheduled.                               *)
OnePut ==
    \A i \in DOMAIN saves : ~saves[i].aborted =>
        /\ i = Len(saves)
        /\ saves[i].attempt = store.current /\ store.current # 0
        /\ saves[i].by = store.profile
        /\ ~store.timer => saves[i].payload = store.values /\ saves[i].revision = store.revision
        /\ saves[i].answer = "ok" => row[saves[i].by] = saves[i].payload /\ NonePending(saves)

Settled ==
    Quiet /\ ~told /\ ~missed => row[store.profile] = store.values /\ NonePending(saves)

SavedInv == wanted \in Touched /\ OneGet /\ EditsParked /\ OnePut /\ Settled

(* No PUT is pending among those that are left.                            *)
LEMMA NonePendingLeft ==
  ASSUME NEW q \in Seq(Puts), NEW i \in DOMAIN q, NonePending(q)
  PROVE  NonePending(Drop(q, i))
BY DropKeeps DEF NonePending

LEMMA OverTwice ==
  ASSUME NEW c, NEW base
  PROVE  Over(c, Over(c, base)) = Over(c, base)
BY DEF Over

LEMMA OverUntouched ==
  ASSUME NEW base \in Objects
  PROVE  Over(Untouched, base) = base
BY DEF Over, Untouched, Objects

LEMMA OverOneMore ==
  ASSUME NEW c \in Touched, NEW base \in Objects, Over(c, base) = base,
         NEW f \in SettingFields, NEW v \in FieldValues,
         NEW d, NEW b \in Objects, d[f] = {v}, b[f] = v,
         \A g \in SettingFields : g # f => d[g] = c[g] /\ b[g] = base[g]
  PROVE  Over(d, b) = b
<1>1. ASSUME NEW g \in SettingFields  PROVE Over(d, b)[g] = b[g]
  <2>1. CASE g = f
    <3>1. d[g] = {v} /\ b[g] = v
      BY <2>1
    <3>2. (CHOOSE x \in {v} : TRUE) = v
      OBVIOUS
    <3> QED BY <3>1, <3>2 DEF Over
  <2>2. CASE g # f
    <3>1. d[g] = c[g] /\ b[g] = base[g]
      BY <2>2
    <3> DEFINE Pick(S) == CHOOSE x \in S : TRUE
    <3>2. /\ Over(c, base)[g] = IF c[g] = {} THEN base[g] ELSE Pick(c[g])
          /\ Over(d, b)[g] = IF d[g] = {} THEN b[g] ELSE Pick(d[g])
      BY DEF Over
    <3> HIDE DEF Pick
    <3>3. Over(c, base)[g] = Over(d, b)[g]
      BY <3>1, <3>2
    <3> QED BY <3>1, <3>3
  <2> QED BY <2>1, <2>2
<1>3. b = [g \in SettingFields |-> b[g]]
  BY DEF Objects
<1>4. Over(d, b) = [g \in SettingFields |-> Over(d, b)[g]]
  BY DEF Over
<1> QED BY <1>1, <1>3, <1>4

-----------------------------------------------------------------------------
LEMMA StoreFields ==
  ASSUME NEW s \in Stores, NEW f \in SettingFields, NEW v \in FieldValues, ~s.signedOut,
         NEW t, t = Update(s, f, v)
  PROVE  /\ t.profile = s.profile /\ t.signedOut = s.signedOut /\ t.generation = s.generation
         /\ t.loaded = s.loaded /\ t.current = s.current
         /\ s.loaded => t.values = [s.values EXCEPT ![f] = v] /\ t.timer
         /\ ~s.loaded => t.dirty = [s.dirty EXCEPT ![f] = {v}]
<1>1. PICK values : values = [s.values EXCEPT ![f] = v]
  OBVIOUS
<1>2. PICK dirty : dirty = [s.dirty EXCEPT ![f] = {v}]
  OBVIOUS
<1>3. PICK u : u = [s EXCEPT !.values = values, !.revision = s.revision + 1]
  OBVIOUS
<1>4. u = [s EXCEPT !.values[f] = v, !.revision = @ + 1]
  BY <1>1, <1>3 DEF Stores
<1>5. u.dirty = s.dirty /\ u.values = values
  BY <1>3 DEF Stores
<1>6. u.profile = s.profile /\ u.signedOut = s.signedOut /\ u.generation = s.generation
      /\ u.loaded = s.loaded /\ u.current = s.current
  BY <1>3 DEF Stores
<1>7. CASE s.loaded
  <2>1. t = [u EXCEPT !.timer = TRUE]
    BY <1>4, <1>7 DEF Update
  <2>2. t = [s EXCEPT !.values = values, !.revision = s.revision + 1, !.timer = TRUE]
    BY <1>3, <2>1 DEF Stores
  <2>3. t.values = values /\ t.timer
    BY <2>2 DEF Stores
  <2>4. t.profile = s.profile /\ t.signedOut = s.signedOut /\ t.generation = s.generation
    BY <2>2 DEF Stores
  <2>5. t.loaded = s.loaded /\ t.current = s.current
    BY <2>2 DEF Stores
  <2> QED BY <1>1, <1>7, <2>3, <2>4, <2>5
<1>8. CASE ~s.loaded
  <2>1. t = [u EXCEPT !.dirty[f] = {v}]
    BY <1>4, <1>8 DEF Update
  <2>2. t = [s EXCEPT !.values = values, !.revision = s.revision + 1, !.dirty = dirty]
    BY <1>2, <1>3, <1>5, <2>1 DEF Stores
  <2>3. t.dirty = dirty
    BY <2>2 DEF Stores
  <2>4. t.profile = s.profile /\ t.signedOut = s.signedOut /\ t.generation = s.generation
    BY <2>2 DEF Stores
  <2>5. t.loaded = s.loaded /\ t.current = s.current
    BY <2>2 DEF Stores
  <2> QED BY <1>2, <1>8, <2>3, <2>4, <2>5
<1> QED BY <1>7, <1>8

LEMMA ResetFields ==
  ASSUME NEW s \in Stores, NEW t, t = Reset(s)
  PROVE  /\ t.profile = s.profile /\ t.signedOut = s.signedOut /\ t.generation = s.generation + 1
         /\ ~t.loaded /\ t.current = 0 /\ t.dirty = Untouched
<1>1. t.profile = s.profile /\ t.signedOut = s.signedOut /\ t.generation = s.generation + 1
  BY DEF Reset, Stores
<1>2. ~t.loaded /\ t.current = 0 /\ t.dirty = Untouched
  BY DEF Reset, Stores
<1> QED BY <1>1, <1>2

LEMMA GetFields ==
  ASSUME NEW s, NEW w, NEW l, l = NewLoad(s, w)
  PROVE  l.generation = s.generation /\ ~l.aborted /\ ~l.served /\ l.waits = w
BY DEF NewLoad

-----------------------------------------------------------------------------
(* One step at a time.                                                     *)

LEMMA SavedTypes ==
  ASSUME IInv
  PROVE  /\ store \in Stores /\ loads \in Seq(Gets) /\ saves \in Seq(Puts) /\ row \in [Users -> Objects]
         /\ DOMAIN loads = 1 .. Len(loads) /\ Len(loads) \in Nat
         /\ DOMAIN saves = 1 .. Len(saves) /\ Len(saves) \in Nat
         /\ \A i \in DOMAIN loads : loads[i] \in Gets
         /\ \A i \in DOMAIN saves : saves[i] \in Puts
<1>1. store \in Stores /\ loads \in Seq(Gets) /\ saves \in Seq(Puts) /\ row \in [Users -> Objects]
  BY DEF IInv, SettingsTypeOK
<1> QED BY <1>1, ElementOfSeq, LenProperties

(* A store that is loaded waits for no GET, and one that is not has no PUT.*)
LEMMA Loaded ==
  ASSUME SavedInv
  PROVE  /\ store.loaded => \A i \in DOMAIN loads : ~OfNow(loads[i], store)
         /\ ~store.loaded => \A i \in DOMAIN saves : saves[i].aborted
BY DEF SavedInv, OneGet, EditsParked, OnePut

LEMMA AfterAppend ==
  ASSUME NEW S, NEW q \in Seq(S), NEW e \in S, NEW r, r = Append(q, e)
  PROVE  /\ DOMAIN r = 1 .. Len(q) + 1 /\ Len(r) = Len(q) + 1 /\ r[Len(q) + 1] = e
         /\ \A j \in 1 .. Len(q) : r[j] = q[j]
         /\ DOMAIN q = 1 .. Len(q) /\ Len(q) \in Nat
<1>1. /\ Append(q, e) \in Seq(S)
      /\ Len(Append(q, e)) = Len(q) + 1
      /\ \A i \in 1 .. Len(q) : Append(q, e)[i] = q[i]
      /\ Append(q, e)[Len(q) + 1] = e
  BY AppendProperties
<1> QED BY <1>1, LenProperties

LEMMA ActivateSaves ==
  ASSUME IInv, SavedInv, NEW p \in Profiles, Activate(p)
  PROVE  SavedInv'
<1>1. store \in Stores /\ loads \in Seq(Gets) /\ saves \in Seq(Puts)
  BY SavedTypes
<1>2. PICK t : t = [store EXCEPT !.profile = p, !.signedOut = (p = "none")]
  OBVIOUS
<1>3. t \in Stores /\ t.profile = p /\ t.signedOut = (p = "none") /\ t.generation = store.generation
  BY <1>1, <1>2 DEF Stores
<1>4. PICK s : s = Reset(t)
  OBVIOUS
<1>5. /\ s.signedOut = (p = "none") /\ s.profile = p /\ s.generation = store.generation + 1
      /\ ~s.loaded /\ s.current = 0 /\ s.dirty = Untouched
  BY <1>3, <1>4, ResetFields
<1>6. PICK l : l = NewLoad(s, FALSE)
  OBVIOUS
<1>7. l.generation = s.generation /\ ~l.aborted /\ ~l.served
  BY <1>6, GetFields
<1>8. /\ store' = s /\ saves' = Aborted(saves) /\ wanted' = Untouched
      /\ loads' = Aborted(loads) \o (IF p = "none" THEN <<>> ELSE <<l>>)
  BY <1>2, <1>4, <1>6 DEF Activate
<1>9. PICK old : old = Aborted(loads)
  OBVIOUS
<1>10. /\ old \in Seq(Gets) /\ DOMAIN old = DOMAIN loads
       /\ \A j \in DOMAIN loads : old[j].generation = loads[j].generation
  BY <1>1, <1>9, GetsAborted
<1>11. \A j \in DOMAIN old : old[j].generation # s.generation
  <2>1. \A j \in DOMAIN loads : loads[j].generation <= store.generation /\ loads[j].generation \in Nat
    BY SavedTypes DEF IInv, LoadsFit, GetFits, Gets
  <2>2. store.generation \in Nat
    BY <1>1, FieldTypes
  <2> QED BY <1>5, <1>10, <2>1, <2>2
<1>12. \A j \in DOMAIN loads' : OfNow(loads'[j], s) => j = Len(old) + 1 /\ loads'[j] = l
  <2>1. Len(old) \in Nat /\ DOMAIN old = 1 .. Len(old)
    BY <1>10, LenProperties
  <2>2. CASE p = "none"
    <3>1. loads' = old
      BY <1>8, <1>9, <1>10, <2>2, ConcatEmptySeq
    <3> QED BY <1>11, <3>1 DEF OfNow
  <2>3. CASE p # "none"
    <3>1. loads' = old \o <<l>>
      BY <1>8, <1>9, <2>3
    <3>2. s \in Stores /\ l \in Gets
      BY <1>3, <1>4, <1>5, <1>6, <2>3, ResetStore, NewGet
    <3>3. loads' = Append(old, l)
      BY <1>10, <3>1, <3>2, AppendIsConcat
    <3>4. /\ DOMAIN loads' = 1 .. Len(old) + 1 /\ loads'[Len(old) + 1] = l
          /\ \A j \in 1 .. Len(old) : loads'[j] = old[j]
      BY <1>10, <3>2, <3>3, AfterAppend
    <3>5. ASSUME NEW j \in DOMAIN loads', OfNow(loads'[j], s)  PROVE j = Len(old) + 1
      <4>1. j \notin 1 .. Len(old)
        BY <1>11, <2>1, <3>4, <3>5 DEF OfNow
      <4> QED BY <2>1, <3>4, <4>1
    <3> QED BY <3>4, <3>5
  <2> QED BY <2>2, <2>3
<1>13. OneGet'
  BY <1>5, <1>7, <1>8, <1>12 DEF OneGet
<1>14. EditsParked'
  BY <1>5, <1>8 DEF EditsParked
<1>15. OnePut'
  <2>1. \A j \in DOMAIN saves' : saves'[j].aborted
    BY <1>8, SavedTypes DEF Aborted, Puts
  <2> QED BY <2>1 DEF OnePut
<1>16. Settled'
  BY <1>5, <1>8 DEF Settled, Quiet
<1> QED BY <1>8, <1>13, <1>14, <1>15, <1>16, DefaultsType DEF SavedInv

(* A GET more, sent while none is under way.                               *)
LEMMA AskedOnce ==
  ASSUME IInv, SavedInv, NEW w \in BOOLEAN, StartsLoad(store), store.profile # "none",
         loads' = Append(loads, NewLoad(store, w)),
         store'.generation = store.generation, store'.loaded = store.loaded
  PROVE  OneGet' /\ \E i \in DOMAIN loads' : OfNow(loads'[i], store') /\ loads'[i].waits = w
<1>1. PICK l : l = NewLoad(store, w)
  OBVIOUS
<1>2. l.generation = store.generation /\ ~l.aborted /\ ~l.served /\ l.waits = w
  BY <1>1, GetFields
<1>3. l \in Gets /\ loads \in Seq(Gets)
  BY <1>1, NewGet, SavedTypes
<1>4. /\ DOMAIN loads' = 1 .. Len(loads) + 1 /\ loads'[Len(loads) + 1] = l /\ Len(loads) \in Nat
      /\ \A j \in 1 .. Len(loads) : loads'[j] = loads[j] /\ j \in DOMAIN loads
  BY <1>1, <1>3, AfterAppend
<1>5. \A j \in DOMAIN loads' : OfNow(loads'[j], store') => j = Len(loads) + 1
  <2> SUFFICES ASSUME NEW j \in DOMAIN loads', OfNow(loads'[j], store')  PROVE j = Len(loads) + 1
    OBVIOUS
  <2>1. j \notin 1 .. Len(loads)
    BY <1>4 DEF StartsLoad, LoadPending, OfNow
  <2> QED BY <1>4, <2>1
<1>6. OneGet'
  BY <1>2, <1>4, <1>5 DEF OneGet, StartsLoad
<1>7. Len(loads) + 1 \in DOMAIN loads'
  BY <1>4
<1> QED BY <1>2, <1>4, <1>6, <1>7 DEF OfNow

LEMMA ReactivateSaves ==
  ASSUME IInv, SavedInv, Reactivate
  PROVE  SavedInv'
<1>1. /\ store.profile # "none" /\ StartsLoad(store) /\ loads' = Append(loads, NewLoad(store, FALSE))
      /\ UNCHANGED <<row, store, saves, bounds, wanted, told, missed>>
  BY DEF Reactivate
<1>2. OneGet'
  BY <1>1, AskedOnce
<1>3. \A i \in DOMAIN loads : ~OfNow(loads[i], store)
  BY <1>1 DEF StartsLoad, LoadPending, OfNow
<1>4. EditsParked'
  BY <1>1, <1>3 DEF SavedInv, EditsParked
<1>5. OnePut' /\ Settled'
  BY <1>1 DEF SavedInv, OnePut, NonePending, Settled, Quiet
<1> QED BY <1>1, <1>2, <1>4, <1>5 DEF SavedInv

LEMMA EditSaves ==
  ASSUME IInv, SavedInv, NEW f \in SettingFields, NEW v \in FieldValues, Edit(f, v)
  PROVE  SavedInv'
<1>1. /\ store.profile # "none" /\ store' = Update(store, f, v)
      /\ loads' = IF store.loaded THEN loads
                  ELSE IF StartsLoad(store) THEN Append(loads, NewLoad(store, TRUE))
                  ELSE [i \in DOMAIN loads |-> [loads[i] EXCEPT
                          !.waits = @ \/ loads[i].generation = store.generation]]
      /\ wanted' = [wanted EXCEPT ![f] = {v}]
      /\ UNCHANGED <<row, saves>>
  BY DEF Edit
<1>2. store \in Stores /\ wanted \in Touched
  BY SavedTypes DEF SavedInv
<1>3. ~store.signedOut
  BY <1>1 DEF SavedInv, EditsParked
<1>4. /\ store'.profile = store.profile /\ store'.signedOut = store.signedOut
      /\ store'.generation = store.generation
      /\ store'.loaded = store.loaded /\ store'.current = store.current
      /\ store.loaded => store'.values = [store.values EXCEPT ![f] = v] /\ store'.timer
      /\ ~store.loaded => store'.dirty = [store.dirty EXCEPT ![f] = {v}]
  BY <1>1, <1>2, <1>3, StoreFields
<1>5. wanted' \in Touched
  BY <1>1, <1>2 DEF Touched
<1>6. CASE store.loaded
  <2>1. OneGet'
    BY <1>1, <1>4, <1>6, Loaded DEF OneGet, OfNow
  <2>2. Over(wanted', store'.values) = store'.values
    <3>1. Over(wanted, store.values) = store.values /\ store.values \in Objects
      BY <1>2, <1>6, FieldTypes DEF SavedInv, EditsParked
    <3>2. PICK b : b = [store.values EXCEPT ![f] = v]
      OBVIOUS
    <3>3. PICK d : d = [wanted EXCEPT ![f] = {v}]
      OBVIOUS
    <3>4. Over(d, b) = b
      <4>1. b \in Objects /\ b[f] = v /\ d[f] = {v}
        BY <1>2, <3>1, <3>2, <3>3 DEF Objects, Touched
      <4>2. \A g \in SettingFields : g # f => d[g] = wanted[g] /\ b[g] = store.values[g]
        BY <1>2, <3>1, <3>2, <3>3 DEF Objects, Touched
      <4> QED BY <1>2, <3>1, <4>1, <4>2, OverOneMore
    <3>5. store'.values = b /\ wanted' = d
      BY <1>1, <1>4, <1>6, <3>2, <3>3
    <3> QED BY <3>4, <3>5
  <2>3. EditsParked'
    BY <1>3, <1>4, <1>6, <2>2 DEF EditsParked
  <2>4. OnePut' /\ Settled'
    BY <1>1, <1>4, <1>6 DEF SavedInv, OnePut, NonePending, Settled, Quiet
  <2> QED BY <1>5, <2>1, <2>3, <2>4 DEF SavedInv
<1>7. CASE ~store.loaded
  <2>1. OnePut' /\ Settled'
    BY <1>1, <1>4, <1>7, Loaded DEF OnePut, Settled, Quiet
  <2>2. wanted' = store'.dirty /\ store'.current = 0
    BY <1>1, <1>4, <1>7 DEF SavedInv, EditsParked
  <2>3. OneGet' /\ \E i \in DOMAIN loads' : OfNow(loads'[i], store') /\ loads'[i].waits
    <3>1. CASE StartsLoad(store)
      BY <1>1, <1>4, <1>7, <3>1, AskedOnce
    <3>2. CASE ~StartsLoad(store)
      <4>1. PICK k \in DOMAIN loads : OfNow(loads[k], store)
        BY <1>3, <1>7, <3>2 DEF StartsLoad, LoadPending, OfNow
      <4>2. DOMAIN loads' = DOMAIN loads
        BY <1>1, <1>7, <3>2
      <4>3. ASSUME NEW i \in DOMAIN loads
            PROVE  /\ loads'[i].generation = loads[i].generation /\ loads'[i].aborted = loads[i].aborted
                   /\ loads'[i].served = loads[i].served /\ loads'[i].got = loads[i].got
                   /\ loads'[i].by = loads[i].by
                   /\ OfNow(loads[i], store) => loads'[i].waits
        <5>1. loads'[i] = [loads[i] EXCEPT !.waits = @ \/ loads[i].generation = store.generation]
          BY <1>1, <1>7, <3>2
        <5>2. loads[i] \in Gets
          BY SavedTypes
        <5> QED BY <5>1, <5>2 DEF Gets, OfNow
      <4>4. OneGet'
        <5>1. ASSUME NEW i \in DOMAIN loads, loads'[i].generation = store'.generation
              PROVE  /\ ~loads[i].aborted
                     /\ loads[i].served => loads[i].got = row[loads[i].by] /\ NonePending(saves)
                     /\ \A j \in DOMAIN loads : loads[j].generation = store.generation => j = i
          <6>1. loads[i].generation = store.generation
            BY <1>4, <4>3, <5>1
          <6> QED BY <6>1 DEF SavedInv, OneGet, OfNow
        <5>2. NonePending(saves)' <=> NonePending(saves)
          BY <1>1 DEF NonePending
        <5>3. store'.generation = store.generation /\ ~store'.loaded /\ row' = row
          BY <1>1, <1>4, <1>7
        <5> QED BY <4>2, <4>3, <5>1, <5>2, <5>3 DEF OneGet, OfNow
      <4> QED BY <1>4, <4>1, <4>2, <4>3, <4>4 DEF OfNow
    <3> QED BY <3>1, <3>2
  <2>4. EditsParked'
    BY <1>3, <1>4, <1>7, <2>2, <2>3 DEF EditsParked
  <2> QED BY <1>5, <2>1, <2>3, <2>4 DEF SavedInv
<1> QED BY <1>6, <1>7

LEMMA CancelledLeaves ==
  ASSUME NEW s \in Puts, NEW t, t = Cancelled(s)
  PROVE  /\ t.aborted = s.aborted /\ t.attempt = s.attempt /\ t.by = s.by /\ t.payload = s.payload
         /\ t.revision = s.revision /\ (s.answer # "none" => t.answer # "none")
         /\ s.aborted => t.answer # "none"
         /\ ~s.aborted => t = s
BY DEF Cancelled, Puts

(* The answer to a GET ends what an aborted PUT could still do.            *)
LEMMA ServeLoadSaves ==
  ASSUME IInv, SavedInv, NEW i \in DOMAIN loads, ServeLoad(i)
  PROVE  SavedInv'
<1>1. /\ loads' = [loads EXCEPT ![i].served = TRUE, ![i].got = row[loads[i].by]]
      /\ saves' = [j \in DOMAIN saves |-> Cancelled(saves[j])]
      /\ UNCHANGED <<row, store, wanted, told, missed>>
  BY DEF ServeLoad
<1>2. /\ \A j \in DOMAIN loads : loads[j] \in Gets
      /\ \A j \in DOMAIN saves : saves[j] \in Puts
  BY SavedTypes
<1>3. PICK l : l = [loads[i] EXCEPT !.served = TRUE, !.got = row[loads[i].by]]
  OBVIOUS
<1>4. /\ l.generation = loads[i].generation /\ l.aborted = loads[i].aborted /\ l.by = loads[i].by
      /\ l.got = row[loads[i].by] /\ l.waits = loads[i].waits
  BY <1>2, <1>3 DEF Gets
<1>5. loads' = [loads EXCEPT ![i] = l]
  BY <1>1, <1>2, <1>3
<1>6. /\ DOMAIN loads' = DOMAIN loads
      /\ loads'[i] = l
      /\ \A j \in DOMAIN loads : j # i => loads'[j] = loads[j]
  BY <1>5
<1>7. ASSUME NEW j \in DOMAIN saves
      PROVE  /\ saves'[j].aborted = saves[j].aborted
             /\ saves[j].aborted => saves'[j].answer # "none"
             /\ ~saves[j].aborted => saves'[j] = saves[j]
             /\ saves[j].answer # "none" => saves'[j].answer # "none"
  <2>1. PICK t : t = Cancelled(saves[j])
    OBVIOUS
  <2> QED BY <1>1, <1>2, <2>1, CancelledLeaves
<1>8. DOMAIN saves' = DOMAIN saves /\ Len(saves') = Len(saves)
  <2>1. saves' \in Seq(Puts)
    <3>1. \A j \in DOMAIN saves : saves'[j] \in Puts
      BY <1>1, <1>2, CancelledKeeps
    <3>2. saves' = [j \in 1 .. Len(saves) |-> saves'[j]] /\ Len(saves) \in Nat
      BY <1>1, SavedTypes
    <3> QED BY <1>1, <3>1, <3>2, SavedTypes
  <2>2. DOMAIN saves' = DOMAIN saves
    BY <1>1
  <2> QED BY <2>1, <2>2, SavedTypes, LenProperties
<1>9. NonePending(saves) => NonePending(saves')
  BY <1>7, <1>8 DEF NonePending
<1>10. OneGet'
  <2> SUFFICES ASSUME NEW k \in DOMAIN loads', OfNow(loads'[k], store')
               PROVE  /\ ~store'.loaded /\ ~loads'[k].aborted
                      /\ loads'[k].served => loads'[k].got = row'[loads'[k].by] /\ NonePending(saves')
                      /\ \A j \in DOMAIN loads' : OfNow(loads'[j], store') => j = k
    BY DEF OneGet, NonePending
  <2>1. k \in DOMAIN loads /\ OfNow(loads[k], store)
    BY <1>1, <1>4, <1>6 DEF OfNow
  <2>2. /\ ~store.loaded /\ ~loads[k].aborted
        /\ loads[k].served => loads[k].got = row[loads[k].by] /\ NonePending(saves)
        /\ \A j \in DOMAIN loads : OfNow(loads[j], store) => j = k
    BY <2>1 DEF SavedInv, OneGet
  <2>3. \A j \in DOMAIN loads' : OfNow(loads'[j], store') => j = k
    BY <1>1, <1>4, <1>6, <2>2 DEF OfNow
  <2>4. CASE k = i
    <3>1. NonePending(saves')
      BY <1>7, <1>8, <2>2, Loaded DEF NonePending
    <3> QED BY <1>1, <1>4, <1>6, <2>2, <2>3, <2>4, <3>1
  <2>5. CASE k # i
    BY <1>1, <1>6, <1>9, <2>1, <2>2, <2>3, <2>5
  <2> QED BY <2>4, <2>5
<1>11. EditsParked'
  <2>1. \A j \in DOMAIN loads : OfNow(loads[j], store) /\ loads[j].waits
                                 => OfNow(loads'[j], store) /\ loads'[j].waits
    BY <1>4, <1>6 DEF OfNow
  <2> QED BY <1>1, <1>6, <2>1 DEF SavedInv, EditsParked
<1>12. OnePut'
  <2> SUFFICES ASSUME NEW k \in DOMAIN saves', ~saves'[k].aborted
               PROVE  /\ k = Len(saves')
                      /\ saves'[k].attempt = store'.current /\ store'.current # 0
                      /\ saves'[k].by = store'.profile
                      /\ ~store'.timer => saves'[k].payload = store'.values
                                          /\ saves'[k].revision = store'.revision
                      /\ saves'[k].answer = "ok" => row'[saves'[k].by] = saves'[k].payload
                                                    /\ NonePending(saves')
    BY DEF OnePut, NonePending
  <2>1. k \in DOMAIN saves /\ saves'[k] = saves[k] /\ ~saves[k].aborted
    BY <1>7, <1>8
  <2> QED BY <1>1, <1>8, <1>9, <2>1 DEF SavedInv, OnePut
<1>13. Settled'
  BY <1>1, <1>9 DEF SavedInv, Settled, Quiet, NonePending
<1> QED BY <1>1, <1>10, <1>11, <1>12, <1>13 DEF SavedInv

(* A GET that is over: which are left, where they stood.                   *)
LEMMA GetsLeft ==
  ASSUME IInv, NEW i \in DOMAIN loads, NEW rest, rest = Drop(loads, i)
  PROVE  /\ \A j \in DOMAIN rest : \E k \in DOMAIN loads : k # i /\ rest[j] = loads[k]
         /\ \A k \in DOMAIN loads : k # i => \E j \in DOMAIN rest : rest[j] = loads[k]
<1>1. /\ DOMAIN rest = 1 .. Len(loads) - 1 /\ Len(loads) \in Nat /\ DOMAIN loads = 1 .. Len(loads)
      /\ \A j \in 1 .. Len(loads) - 1 : rest[j] = IF j < i THEN loads[j] ELSE loads[j + 1]
  BY SavedTypes, DropAt
<1>2. ASSUME NEW j \in DOMAIN rest  PROVE \E k \in DOMAIN loads : k # i /\ rest[j] = loads[k]
  <2>1. j \in Nat /\ j >= 1 /\ j + 1 <= Len(loads) /\ i \in Nat
    BY <1>1
  <2>2. CASE j < i
    BY <1>1, <2>1, <2>2
  <2>3. CASE ~(j < i)
    <3>1. j + 1 \in DOMAIN loads /\ j + 1 # i /\ rest[j] = loads[j + 1]
      BY <1>1, <2>1, <2>3
    <3> QED BY <3>1
  <2> QED BY <2>2, <2>3
<1>3. ASSUME NEW k \in DOMAIN loads, k # i  PROVE \E j \in DOMAIN rest : rest[j] = loads[k]
  <2>1. k \in Nat /\ k >= 1 /\ k <= Len(loads) /\ i \in Nat /\ i >= 1 /\ i <= Len(loads)
    BY <1>1
  <2>2. CASE k < i
    <3>1. k \in 1 .. Len(loads) - 1
      BY <1>1, <2>1, <2>2
    <3> QED BY <1>1, <2>2, <3>1
  <2>3. CASE ~(k < i)
    <3>1. k - 1 \in 1 .. Len(loads) - 1 /\ ~(k - 1 < i) /\ k - 1 + 1 = k
      BY <1>1, <1>3, <2>1, <2>3
    <3> QED BY <1>1, <3>1
  <2> QED BY <2>2, <2>3
<1> QED BY <1>2, <1>3

LEMMA PublishedFields ==
  ASSUME NEW s \in Stores, NEW l \in Gets, NEW t, t = PublishSettings(s, l)
  PROVE  /\ t.profile = s.profile /\ t.signedOut = s.signedOut /\ t.generation = s.generation
         /\ t.loaded /\ t.values = Over(s.dirty, l.got) /\ t.timer = (s.timer \/ l.waits)
         /\ t.current = s.current
<1>1. t.profile = s.profile /\ t.signedOut = s.signedOut /\ t.generation = s.generation
  BY DEF PublishSettings, Stores
<1>2. t.loaded
  BY DEF PublishSettings, Stores
<1>3. t.values = Over(s.dirty, l.got)
  BY DEF PublishSettings, Stores
<1>4. t.timer = (s.timer \/ l.waits)
  BY DEF PublishSettings, Stores
<1>5. t.current = s.current
  BY DEF PublishSettings, Stores
<1> QED BY <1>1, <1>2, <1>3, <1>4, <1>5

(* The GET arrives: what it got is still the row, the parked edits are     *)
(* laid over it, and saved if there are any.                               *)
LEMMA PublishSaves ==
  ASSUME IInv, SavedInv, NEW i \in DOMAIN loads, loads[i].served, MayPublish(store, loads[i]),
         store' = PublishSettings(store, loads[i]), loads' = Drop(loads, i),
         UNCHANGED <<row, saves, wanted, told, missed>>
  PROVE  SavedInv'
<1>1. store \in Stores /\ loads[i] \in Gets
  BY SavedTypes
<1>2. OfNow(loads[i], store)
  BY DEF MayPublish, OfNow
<1>3. /\ ~store.loaded /\ ~loads[i].aborted /\ loads[i].got = row[loads[i].by] /\ NonePending(saves)
      /\ \A j \in DOMAIN loads : OfNow(loads[j], store) => j = i
  BY <1>2 DEF SavedInv, OneGet
<1>4. /\ store'.profile = store.profile /\ store'.signedOut = store.signedOut
      /\ store'.generation = store.generation
      /\ store'.loaded /\ store'.values = Over(store.dirty, loads[i].got)
      /\ store'.timer = (store.timer \/ loads[i].waits)
      /\ store'.current = store.current
  BY <1>1, PublishedFields
<1>5. wanted = store.dirty /\ store.current = 0 /\ ~store.timer
  BY <1>3 DEF SavedInv, EditsParked, IInv, LoadedIsOwn
<1>6. OneGet'
  <2>1. \A j \in DOMAIN loads' : ~OfNow(loads'[j], store')
    BY <1>3, <1>4, GetsLeft DEF OfNow
  <2> QED BY <2>1 DEF OneGet
<1>7. EditsParked'
  BY <1>4, <1>5, OverTwice DEF SavedInv, EditsParked
<1>8. OnePut'
  BY <1>3, Loaded DEF OnePut
<1>9. Settled'
  <2> SUFFICES ASSUME ~store'.timer, ~missed
               PROVE  row[store.profile] = store'.values /\ NonePending(saves)
    BY <1>4 DEF Settled, Quiet, NonePending
  <2>1. ~loads[i].waits
    BY <1>4
  <2>2. store.dirty = Untouched
    BY <1>3, <2>1 DEF SavedInv, EditsParked
  <2>3. loads[i].by = store.profile
    BY <1>2 DEF OfNow, IInv, LoadsFit, GetFits
  <2>4. store'.values = loads[i].got
    BY <1>1, <1>4, <2>2, OverUntouched DEF Gets
  <2> QED BY <1>3, <2>3, <2>4
<1> QED BY <1>6, <1>7, <1>8, <1>9 DEF SavedInv

(* A GET that publishes nothing: the one that was waited for has failed.   *)
LEMMA EndLoadSaves ==
  ASSUME IInv, SavedInv, NEW i \in DOMAIN loads, EndLoad(i)
  PROVE  SavedInv'
<1>1. loads' = Drop(loads, i) /\ UNCHANGED <<row, saves, wanted, told>>
  BY DEF EndLoad
<1>2. CASE /\ loads[i].served /\ MayPublish(store, loads[i])
           /\ store' = PublishSettings(store, loads[i]) /\ missed' = missed
  BY <1>1, <1>2, PublishSaves
<1>3. CASE /\ ~MayPublish(store, loads[i]) \/ ~loads[i].served
           /\ missed' = (missed \/ (loads[i].waits /\ ~loads[i].aborted))
           /\ store' = [store EXCEPT !.timer = @ \/ (loads[i].waits /\ store.loaded)]
  <2>1. store \in Stores
    BY SavedTypes
  <2>2. PICK b : b = (store.timer \/ (loads[i].waits /\ store.loaded))
    OBVIOUS
  <2>3. store' = [store EXCEPT !.timer = b]
    BY <1>3, <2>2
  <2>4. /\ store'.profile = store.profile /\ store'.signedOut = store.signedOut
        /\ store'.generation = store.generation /\ store'.values = store.values
    BY <2>1, <2>3 DEF Stores
  <2>5. /\ store'.loaded = store.loaded /\ store'.current = store.current
        /\ store'.revision = store.revision /\ store'.dirty = store.dirty
    BY <2>1, <2>3 DEF Stores
  <2>6. store'.timer = b /\ (store.timer => b)
    BY <2>1, <2>2, <2>3 DEF Stores
  <2>7. /\ \A j \in DOMAIN loads' : \E k \in DOMAIN loads : k # i /\ loads'[j] = loads[k]
        /\ \A k \in DOMAIN loads : k # i => \E j \in DOMAIN loads' : loads'[j] = loads[k]
    BY <1>1, GetsLeft
  <2>8. OneGet'
    <3> SUFFICES ASSUME NEW j \in DOMAIN loads', OfNow(loads'[j], store')
                 PROVE  /\ ~store'.loaded /\ ~loads'[j].aborted
                        /\ loads'[j].served => loads'[j].got = row[loads'[j].by] /\ NonePending(saves)
                        /\ \A m \in DOMAIN loads' : OfNow(loads'[m], store') => m = j
      BY <1>1 DEF OneGet, NonePending
    <3>1. PICK k \in DOMAIN loads : k # i /\ loads'[j] = loads[k]
      BY <2>7
    <3>2. OfNow(loads[k], store)
      BY <2>4, <3>1 DEF OfNow
    <3>3. /\ ~store.loaded /\ ~loads[k].aborted
          /\ loads[k].served => loads[k].got = row[loads[k].by] /\ NonePending(saves)
          /\ \A m \in DOMAIN loads : OfNow(loads[m], store) => m = k
      BY <3>2 DEF SavedInv, OneGet
    <3>4. ASSUME NEW m \in DOMAIN loads', OfNow(loads'[m], store')  PROVE m = j
      <4>1. /\ DOMAIN loads' = 1 .. Len(loads) - 1 /\ Len(loads) \in Nat /\ DOMAIN loads = 1 .. Len(loads)
            /\ \A n \in 1 .. Len(loads) - 1 : loads'[n] = IF n < i THEN loads[n] ELSE loads[n + 1]
        BY <1>1, SavedTypes, DropAt
      <4>2. ASSUME NEW n \in DOMAIN loads', OfNow(loads'[n], store')
            PROVE  n = IF n < i THEN k ELSE k - 1
        <5>1. n \in Nat /\ n >= 1 /\ n + 1 <= Len(loads) /\ i \in Nat /\ k \in Nat
          BY <4>1
        <5>2. CASE n < i
          <6>1. n \in DOMAIN loads /\ loads'[n] = loads[n]
            BY <4>1, <5>1, <5>2
          <6>2. n = k
            BY <2>4, <3>3, <4>2, <6>1 DEF OfNow
          <6> QED BY <5>2, <6>2
        <5>3. CASE ~(n < i)
          <6>1. n + 1 \in DOMAIN loads /\ loads'[n] = loads[n + 1]
            BY <4>1, <5>1, <5>3
          <6>2. n + 1 = k
            BY <2>4, <3>3, <4>2, <6>1 DEF OfNow
          <6> QED BY <5>1, <5>3, <6>2
        <5> QED BY <5>2, <5>3
      <4>3. j = (IF j < i THEN k ELSE k - 1) /\ m = (IF m < i THEN k ELSE k - 1)
        BY <3>4, <4>2
      <4>4. j \in Nat /\ m \in Nat /\ i \in Nat /\ k \in Nat
        BY <4>1
      <4> QED BY <3>1, <4>3, <4>4
    <3> QED BY <2>5, <3>1, <3>3, <3>4
  <2>9. EditsParked'
    <3>1. ASSUME ~store.loaded, store.dirty # Untouched
          PROVE  missed' \/ \E j \in DOMAIN loads' : OfNow(loads'[j], store') /\ loads'[j].waits
      <4>1. CASE missed
        BY <1>3, <4>1
      <4>2. ASSUME NEW k \in DOMAIN loads, OfNow(loads[k], store), loads[k].waits, k # i
            PROVE  \E j \in DOMAIN loads' : OfNow(loads'[j], store') /\ loads'[j].waits
        BY <2>4, <2>7, <4>2 DEF OfNow
      <4>3. CASE OfNow(loads[i], store) /\ loads[i].waits
        <5>1. ~loads[i].aborted
          BY <4>3 DEF SavedInv, OneGet
        <5> QED BY <1>3, <4>3, <5>1
      <4> QED BY <3>1, <4>1, <4>2, <4>3 DEF SavedInv, EditsParked
    <3> QED BY <1>1, <2>4, <2>5, <3>1 DEF SavedInv, EditsParked
  <2>10. OnePut'
    BY <1>1, <2>4, <2>5, <2>6 DEF SavedInv, OnePut, NonePending
  <2>11. Settled'
    BY <1>1, <1>3, <2>4, <2>5, <2>6 DEF SavedInv, Settled, Quiet, NonePending
  <2> QED BY <1>1, <2>8, <2>9, <2>10, <2>11 DEF SavedInv
<1> QED BY <1>2, <1>3 DEF EndLoad

(* The settings shown are sent, and every PUT before is aborted.           *)
LEMMA SaveNowSaves ==
  ASSUME IInv, SavedInv, SaveNow
  PROVE  SavedInv'
<1>1. PICK put : put = [by |-> store.profile, from |-> store.from, payload |-> store.values,
                   revision |-> store.revision, attempt |-> store.attempt + 1,
                   aborted |-> FALSE, answer |-> "none"]
  OBVIOUS
<1>2. /\ store.timer /\ saves' = Append(Aborted(saves), put)
      /\ store' = [store EXCEPT !.timer = FALSE, !.attempt = store.attempt + 1,
                                !.current = store.attempt + 1]
      /\ UNCHANGED <<row, loads, wanted, told, missed>>
  BY <1>1 DEF SaveNow
<1>3. store \in Stores /\ store.loaded /\ store.profile \in Users /\ store.attempt + 1 \in Nat
      /\ store.attempt + 1 # 0
  <2>1. store \in Stores /\ store.loaded /\ store.from = store.profile /\ store.attempt \in Nat
    BY <1>2, SavedTypes, FieldTypes DEF IInv, LoadedIsOwn
  <2> QED BY <2>1, SettingsAssumption DEF Stores, Profiles, ValueOwners
<1>4. /\ store'.profile = store.profile /\ store'.generation = store.generation
      /\ store'.signedOut = store.signedOut /\ store'.values = store.values
  BY <1>2, <1>3 DEF Stores
<1>5. /\ store'.loaded = store.loaded /\ store'.revision = store.revision
      /\ store'.dirty = store.dirty
  BY <1>2, <1>3 DEF Stores
<1>6. store'.current = store.attempt + 1 /\ ~store'.timer
  BY <1>2, <1>3 DEF Stores
<1>7. put \in Puts
  <2>1. store.from \in ValueOwners /\ store.values \in Objects /\ store.revision \in Nat
    BY <1>3, FieldTypes
  <2> QED BY <1>1, <1>3, <2>1 DEF Puts
<1>8. PICK old : old = Aborted(saves)
  OBVIOUS
<1>9. old \in Seq(Puts) /\ DOMAIN old = DOMAIN saves /\ \A j \in DOMAIN old : old[j].aborted
  <2>1. old \in Seq(Puts) /\ DOMAIN old = DOMAIN saves
    BY <1>8, SavedTypes, PutsAborted
  <2>2. \A j \in DOMAIN saves : old[j].aborted
    BY <1>8, SavedTypes DEF Aborted, Puts
  <2> QED BY <2>1, <2>2
<1>10. /\ DOMAIN saves' = 1 .. Len(old) + 1 /\ Len(saves') = Len(old) + 1
       /\ saves'[Len(old) + 1] = put /\ Len(old) \in Nat /\ DOMAIN old = 1 .. Len(old)
       /\ \A j \in 1 .. Len(old) : saves'[j] = old[j]
  BY <1>2, <1>7, <1>8, <1>9, AfterAppend
<1>11. OneGet'
  BY <1>2, <1>3, <1>4, Loaded DEF OneGet, OfNow
<1>12. EditsParked'
  BY <1>2, <1>3, <1>4, <1>5 DEF SavedInv, EditsParked
<1>13. OnePut'
  <2>1. ASSUME NEW j \in DOMAIN saves', ~saves'[j].aborted
        PROVE  j = Len(saves') /\ saves'[j] = put
    <3>1. j \notin 1 .. Len(old)
      BY <1>9, <1>10, <2>1
    <3> QED BY <1>10, <3>1
  <2>2. /\ put.attempt = store.attempt + 1 /\ put.by = store.profile /\ put.payload = store.values
        /\ put.revision = store.revision /\ put.answer = "none"
    BY <1>1
  <2> QED BY <1>3, <1>4, <1>5, <1>6, <2>1, <2>2 DEF OnePut
<1>14. Settled'
  BY <1>3, <1>6 DEF Settled, Quiet
<1> QED BY <1>2, <1>11, <1>12, <1>13, <1>14 DEF SavedInv

(* The server writes a PUT, or does not: what is written last is the       *)
(* newest, whatever aborted PUTs were written before.                      *)
LEMMA ServeSaveSaves ==
  ASSUME IInv, SavedInv, NEW i \in DOMAIN saves, ServeSave(i)
  PROVE  SavedInv'
<1>1. PICK a \in {"ok", "lost", "failed", "rejected"} :
         /\ saves' = SaveAnswered(i, a)
         /\ a = "ok" => row' = [row EXCEPT ![saves[i].by] = saves[i].payload]
  BY DEF ServeSave
<1>2. saves[i].answer = "none" /\ UNCHANGED <<store, loads, wanted, told, missed>>
  BY DEF ServeSave
<1>3. /\ \A j \in DOMAIN saves : saves[j] \in Puts
      /\ DOMAIN saves = 1 .. Len(saves) /\ Len(saves) \in Nat /\ row \in [Users -> Objects]
  BY SavedTypes
<1>4. ~NonePending(saves)
  BY <1>2 DEF NonePending
<1>5. DOMAIN saves' = DOMAIN saves
  BY <1>1 DEF SaveAnswered
<1>6. ASSUME NEW j \in DOMAIN saves
      PROVE  /\ saves'[j].aborted = saves[j].aborted /\ saves'[j].attempt = saves[j].attempt
             /\ saves'[j].by = saves[j].by /\ saves'[j].payload = saves[j].payload
             /\ saves'[j].revision = saves[j].revision
             /\ j = i => saves'[j].answer = a
             /\ j < i /\ saves[j].aborted => saves'[j].answer # "none"
             /\ j # i /\ ~saves[j].aborted => saves'[j].answer = saves[j].answer
  <2>1. CASE j = i
    <3>1. saves'[j] = [saves[j] EXCEPT !.answer = a]
      BY <1>1, <2>1 DEF SaveAnswered
    <3> QED BY <1>3, <2>1, <3>1 DEF Puts
  <2>2. CASE j # i /\ j < i
    <3>1. PICK t : t = Cancelled(saves[j])
      OBVIOUS
    <3>2. saves'[j] = t
      BY <1>1, <2>2, <3>1 DEF SaveAnswered
    <3> QED BY <1>3, <2>2, <3>1, <3>2, CancelledLeaves
  <2>3. CASE j # i /\ ~(j < i)
    <3>1. saves'[j] = saves[j]
      BY <1>1, <2>3 DEF SaveAnswered
    <3> QED BY <2>3, <3>1
  <2> QED BY <2>1, <2>2, <2>3
<1>7. Len(saves') = Len(saves)
  <2>1. saves' \in Seq(Puts)
    <3>1. \A j \in DOMAIN saves : saves'[j] \in Puts
      <4> SUFFICES ASSUME NEW j \in DOMAIN saves  PROVE saves'[j] \in Puts
        OBVIOUS
      <4>1. CASE saves'[j] = [saves[j] EXCEPT !.answer = a]
        BY <1>3, <4>1 DEF Puts
      <4>2. CASE saves'[j] = Cancelled(saves[j])
        BY <1>3, <4>2, CancelledKeeps
      <4>3. CASE saves'[j] = saves[j]
        BY <1>3, <4>3
      <4> QED BY <1>1, <4>1, <4>2, <4>3 DEF SaveAnswered
    <3>2. saves' = [j \in 1 .. Len(saves) |-> saves'[j]]
      BY <1>1, <1>3 DEF SaveAnswered
    <3> QED BY <1>3, <3>1, <3>2
  <2> QED BY <1>3, <1>5, <2>1, LenProperties
<1>8. OneGet'
  <2> SUFFICES ASSUME NEW k \in DOMAIN loads', OfNow(loads'[k], store')
               PROVE  /\ ~store'.loaded /\ ~loads'[k].aborted
                      /\ ~loads'[k].served
                      /\ \A j \in DOMAIN loads' : OfNow(loads'[j], store') => j = k
    BY DEF OneGet
  <2> QED BY <1>2, <1>4 DEF SavedInv, OneGet
<1>9. EditsParked'
  BY <1>2 DEF SavedInv, EditsParked
<1>10. OnePut'
  <2> SUFFICES ASSUME NEW k \in DOMAIN saves', ~saves'[k].aborted
               PROVE  /\ k = Len(saves')
                      /\ saves'[k].attempt = store'.current /\ store'.current # 0
                      /\ saves'[k].by = store'.profile
                      /\ ~store'.timer => saves'[k].payload = store'.values
                                          /\ saves'[k].revision = store'.revision
                      /\ saves'[k].answer = "ok" => row'[saves'[k].by] = saves'[k].payload
                                                    /\ NonePending(saves')
    BY DEF OnePut, NonePending
  <2>1. k \in DOMAIN saves /\ ~saves[k].aborted
    BY <1>5, <1>6
  <2>2. /\ k = Len(saves)
        /\ saves[k].attempt = store.current /\ store.current # 0
        /\ saves[k].by = store.profile
        /\ ~store.timer => saves[k].payload = store.values /\ saves[k].revision = store.revision
        /\ saves[k].answer # "ok"
    BY <1>4, <2>1 DEF SavedInv, OnePut
  <2>3. ASSUME saves'[k].answer = "ok"
        PROVE  row'[saves'[k].by] = saves'[k].payload /\ NonePending(saves')
    <3>1. k = i /\ a = "ok"
      BY <1>6, <2>1, <2>2, <2>3
    <3>2. row'[saves[i].by] = saves[i].payload
      BY <1>1, <1>3, <3>1 DEF Puts
    <3>3. \A j \in DOMAIN saves : j # i => j < i /\ saves[j].aborted
      <4>1. \A j \in DOMAIN saves : ~saves[j].aborted => j = Len(saves)
        BY DEF SavedInv, OnePut
      <4> QED BY <1>3, <2>2, <3>1, <4>1
    <3>4. NonePending(saves')
      BY <1>5, <1>6, <3>1, <3>3 DEF NonePending
    <3> QED BY <1>6, <2>1, <3>1, <3>2, <3>4
  <2> QED BY <1>2, <1>6, <1>7, <2>1, <2>2, <2>3
<1>11. Settled'
  BY <1>2, <1>4 DEF SavedInv, Settled, Quiet
<1> QED BY <1>2, <1>8, <1>9, <1>10, <1>11 DEF SavedInv

(* A PUT is over; what the others are is left as it was.                   *)
LEMMA PutsLeft ==
  ASSUME IInv, SavedInv, NEW i \in DOMAIN saves, NEW rest, rest = Drop(saves, i)
  PROVE  /\ Len(rest) = Len(saves) - 1
         /\ NonePending(saves) => NonePending(rest)
         /\ \A j \in DOMAIN rest : ~rest[j].aborted =>
               saves[i].aborted /\ j = Len(rest) /\ rest[j] = saves[Len(saves)]
                 /\ Len(saves) \in DOMAIN saves
<1>1. /\ DOMAIN rest = 1 .. Len(saves) - 1 /\ Len(saves) \in Nat /\ DOMAIN saves = 1 .. Len(saves)
      /\ Len(rest) = Len(saves) - 1
      /\ \A j \in 1 .. Len(saves) - 1 : rest[j] = IF j < i THEN saves[j] ELSE saves[j + 1]
  BY SavedTypes, DropAt
<1>2. NonePending(saves) => NonePending(rest)
  BY SavedTypes, NonePendingLeft
<1>3. ASSUME NEW j \in DOMAIN rest, ~rest[j].aborted
      PROVE  saves[i].aborted /\ j = Len(rest) /\ rest[j] = saves[Len(saves)]
             /\ Len(saves) \in DOMAIN saves
  <2>1. j \in Nat /\ j >= 1 /\ j + 1 <= Len(saves) /\ i \in Nat /\ i >= 1 /\ i <= Len(saves)
    BY <1>1
  <2>2. \A k \in DOMAIN saves : ~saves[k].aborted => k = Len(saves)
    BY DEF SavedInv, OnePut
  <2>3. ~(j < i)
    <3> SUFFICES ASSUME j < i  PROVE FALSE
      OBVIOUS
    <3>1. rest[j] = saves[j] /\ j \in DOMAIN saves
      BY <1>1, <2>1
    <3>2. j = Len(saves)
      BY <1>3, <2>2, <3>1
    <3> QED BY <1>1, <2>1, <3>2
  <2>4. rest[j] = saves[j + 1] /\ j + 1 \in DOMAIN saves
    BY <1>1, <2>1, <2>3
  <2>5. j + 1 = Len(saves)
    BY <1>3, <2>2, <2>4
  <2>6. saves[i].aborted
    <3>1. i # Len(saves)
      BY <1>1, <2>1, <2>3, <2>5
    <3> QED BY <2>2, <3>1
  <2> QED BY <1>1, <2>1, <2>4, <2>5, <2>6
<1> QED BY <1>1, <1>2, <1>3

LEMMA EndAbortedSaves ==
  ASSUME IInv, SavedInv, NEW i \in DOMAIN saves, EndAbortedSave(i)
  PROVE  SavedInv'
<1>1. saves' = Drop(saves, i) /\ UNCHANGED <<row, store, loads, wanted, told, missed>>
  BY DEF EndAbortedSave
<1>2. /\ NonePending(saves) => NonePending(saves')
      /\ \A j \in DOMAIN saves' : ~saves'[j].aborted =>
               saves[i].aborted /\ j = Len(saves') /\ saves'[j] = saves[Len(saves)]
                 /\ Len(saves) \in DOMAIN saves
  BY <1>1, PutsLeft
<1>3. OneGet'
  <2> SUFFICES ASSUME NEW k \in DOMAIN loads', OfNow(loads'[k], store')
               PROVE  /\ ~store'.loaded /\ ~loads'[k].aborted
                      /\ loads'[k].served => loads'[k].got = row'[loads'[k].by] /\ NonePending(saves')
                      /\ \A j \in DOMAIN loads' : OfNow(loads'[j], store') => j = k
    BY DEF OneGet, NonePending
  <2> QED BY <1>1, <1>2 DEF SavedInv, OneGet
<1>4. EditsParked'
  BY <1>1 DEF SavedInv, EditsParked
<1>5. OnePut'
  <2> SUFFICES ASSUME NEW k \in DOMAIN saves', ~saves'[k].aborted
               PROVE  /\ k = Len(saves')
                      /\ saves'[k].attempt = store'.current /\ store'.current # 0
                      /\ saves'[k].by = store'.profile
                      /\ ~store'.timer => saves'[k].payload = store'.values
                                          /\ saves'[k].revision = store'.revision
                      /\ saves'[k].answer = "ok" => row'[saves'[k].by] = saves'[k].payload
                                                    /\ NonePending(saves')
    BY DEF OnePut, NonePending
  <2>1. /\ k = Len(saves') /\ saves'[k] = saves[Len(saves)] /\ Len(saves) \in DOMAIN saves
        /\ ~saves[Len(saves)].aborted
    BY <1>2
  <2> QED BY <1>1, <1>2, <2>1 DEF SavedInv, OnePut
<1>6. Settled'
  BY <1>1, <1>2 DEF SavedInv, Settled, Quiet, NonePending
<1> QED BY <1>1, <1>3, <1>4, <1>5, <1>6 DEF SavedInv

(* The newest PUT is over: none is left that counts.                       *)
LEMMA PutSettled ==
  ASSUME IInv, SavedInv, NEW i \in DOMAIN saves, ~saves[i].aborted, saves' = Drop(saves, i),
         UNCHANGED <<row, loads, missed>>, NEW t, store' = t,
         t.signedOut = store.signedOut, t.profile = store.profile, t.generation = store.generation,
         t.loaded = store.loaded, wanted' \in Touched, Over(wanted', t.values) = t.values,
         Settled'
  PROVE  SavedInv'
<1>1. store.loaded
  BY Loaded
<1>2. OneGet'
  BY <1>1, Loaded DEF OneGet, OfNow
<1>3. EditsParked'
  BY <1>1 DEF SavedInv, EditsParked
<1>4. OnePut'
  BY PutsLeft DEF OnePut
<1> QED BY <1>2, <1>3, <1>4 DEF SavedInv

LEMMA AcceptedSaves ==
  ASSUME IInv, SavedInv, NEW i \in DOMAIN saves, SaveAccepted(i)
  PROVE  SavedInv'
<1>1. ~saves[i].aborted /\ saves[i].answer = "ok" /\ saves' = Drop(saves, i)
      /\ UNCHANGED <<row, loads, wanted, told, missed>>
  BY DEF SaveAccepted
<1>2. /\ saves[i].attempt = store.current /\ saves[i].by = store.profile
      /\ ~store.timer => saves[i].payload = store.values
      /\ row[saves[i].by] = saves[i].payload /\ NonePending(saves)
  BY <1>1 DEF SavedInv, OnePut
<1>3. store \in Stores /\ store.loaded
  BY <1>1, SavedTypes, Loaded
<1>4. PICK t : t = [store EXCEPT !.lastSaved = saves[i].payload, !.current = 0]
  OBVIOUS
<1>5. store' = t
  <2>1. PICK u : u = [store EXCEPT !.lastSaved = saves[i].payload]
    OBVIOUS
  <2>2. u.current = store.current
    BY <1>3, <2>1 DEF Stores
  <2>3. store' = SaveSettled(u, saves[i])
    BY <1>2, <2>1 DEF SaveAccepted, StillOwner
  <2>4. store' = [u EXCEPT !.current = 0]
    BY <1>2, <2>2, <2>3 DEF SaveSettled, StillOwner
  <2> QED BY <1>3, <1>4, <2>1, <2>4 DEF Stores
<1>6. /\ t.profile = store.profile /\ t.signedOut = store.signedOut /\ t.generation = store.generation
      /\ t.values = store.values
  BY <1>3, <1>4 DEF Stores
<1>7. t.loaded = store.loaded /\ t.timer = store.timer
  BY <1>3, <1>4 DEF Stores
<1>8. wanted' \in Touched /\ Over(wanted', t.values) = t.values
  BY <1>1, <1>3, <1>6 DEF SavedInv, EditsParked
<1>9. NonePending(saves')
  BY <1>1, <1>2, PutsLeft
<1>10. Settled'
  BY <1>1, <1>2, <1>5, <1>6, <1>7, <1>9 DEF Settled, Quiet, NonePending
<1> QED BY <1>1, <1>5, <1>6, <1>7, <1>8, <1>10, PutSettled

(* A failure of the newest PUT is told, unless a further one is scheduled. *)
LEMMA FailedSaves ==
  ASSUME IInv, SavedInv, NEW i \in DOMAIN saves, SaveFailed(i)
  PROVE  SavedInv'
<1>1. PICK undone : undone = (TellsTheFailure(store, saves[i]) /\ saves[i].answer = "rejected")
  OBVIOUS
<1>2. PICK s : s = IF undone THEN Rollback(store) ELSE store
  OBVIOUS
<1>3. /\ ~saves[i].aborted /\ saves' = Drop(saves, i)
      /\ store' = SaveSettled(s, saves[i])
      /\ told' = (told \/ TellsTheFailure(store, saves[i]))
      /\ wanted' = IF undone THEN Untouched ELSE wanted
      /\ UNCHANGED <<row, loads, missed>>
  BY <1>1, <1>2 DEF SaveFailed
<1>4. /\ saves[i].attempt = store.current
      /\ ~store.timer => saves[i].revision = store.revision
  BY <1>3 DEF SavedInv, OnePut
<1>5. store \in Stores /\ store.loaded /\ store.lastSaved \in Objects
  BY <1>3, SavedTypes, Loaded, FieldTypes
<1>6. PICK r : r = Rollback(store)
  OBVIOUS
<1>7. r = [store EXCEPT !.values = store.lastSaved, !.revision = store.revision + 1]
  BY <1>6 DEF Rollback
<1>8. /\ r.profile = store.profile /\ r.signedOut = store.signedOut /\ r.generation = store.generation
      /\ r.values = store.lastSaved
  BY <1>5, <1>7 DEF Stores
<1>9. r.loaded = store.loaded /\ r.timer = store.timer /\ r.current = store.current
  BY <1>5, <1>7 DEF Stores
<1>10. r \in Stores
  <2>1. store.revision + 1 \in Nat
    BY <1>5, FieldTypes
  <2> QED BY <1>5, <1>7, <2>1 DEF Stores
<1>11. /\ s \in Stores /\ s.profile = store.profile /\ s.signedOut = store.signedOut
       /\ s.generation = store.generation
       /\ s.loaded = store.loaded /\ s.timer = store.timer /\ s.current = store.current
       /\ undone => s.values = store.lastSaved
       /\ ~undone => s.values = store.values
  <2>1. CASE undone
    BY <1>2, <1>6, <1>8, <1>9, <1>10, <2>1
  <2>2. CASE ~undone
    BY <1>2, <1>5, <2>2
  <2> QED BY <2>1, <2>2
<1>12. PICK t : t = [s EXCEPT !.current = 0]
  OBVIOUS
<1>13. store' = t
  BY <1>3, <1>4, <1>11, <1>12 DEF SaveSettled, StillOwner
<1>14. /\ t.profile = s.profile /\ t.signedOut = s.signedOut /\ t.generation = s.generation
       /\ t.values = s.values
  BY <1>11, <1>12 DEF Stores
<1>15. t.loaded = s.loaded /\ t.timer = s.timer
  BY <1>11, <1>12 DEF Stores
<1>16. wanted' \in Touched /\ Over(wanted', t.values) = t.values
  <2>1. CASE undone
    <3>1. wanted' = Untouched /\ t.values \in Objects
      BY <1>3, <1>5, <1>11, <1>14, <2>1
    <3>2. Over(Untouched, t.values) = t.values
      BY <3>1, OverUntouched
    <3> QED BY <3>1, <3>2, DefaultsType
  <2>2. CASE ~undone
    BY <1>3, <1>5, <1>11, <1>14, <2>2 DEF SavedInv, EditsParked
  <2> QED BY <2>1, <2>2
<1>17. Settled'
  <2>1. ~store.timer => told'
    BY <1>3, <1>4 DEF TellsTheFailure, StillOwner
  <2> QED BY <1>11, <1>13, <1>15, <2>1 DEF Settled, Quiet
<1> QED BY <1>3, <1>11, <1>13, <1>14, <1>15, <1>16, <1>17, PutSettled

-----------------------------------------------------------------------------
(* Whenever nothing is under way, the row of the profile that is signed in *)
(* is what the tab shows and holds every last edit, those made before the  *)
(* settings were loaded included (lib/settings.ts), unless a toast has     *)
(* told of a failed save since, or the load failed.                        *)
THEOREM EditsAreSaved == SettingsSpec => []SavedOrTold
<1>1. SettingsInit => IInv /\ SavedInv
  <2> SUFFICES ASSUME SettingsInit  PROVE SavedInv
    BY SettingsInitIInv
  <2>1. loads = <<>> /\ saves = <<>> /\ store = FreshStore /\ wanted = Untouched
    BY DEF SettingsInit
  <2>2. DOMAIN loads = {} /\ DOMAIN saves = {}
    BY <2>1
  <2>3. ~store.signedOut /\ ~store.loaded /\ store.current = 0 /\ store.dirty = Untouched
    BY <2>1 DEF FreshStore
  <2> QED BY <2>1, <2>2, <2>3, DefaultsType DEF SavedInv, OneGet, EditsParked, OnePut, Settled, Quiet
<1>2. IInv /\ SavedInv /\ [SettingsNext]_settingsVars => (IInv /\ SavedInv)'
  <2> SUFFICES ASSUME IInv, SavedInv, [SettingsNext]_settingsVars  PROVE SavedInv'
    BY SettingsNextIInv
  <2>1. CASE UNCHANGED settingsVars
    BY <2>1 DEF settingsVars, SavedInv, OneGet, EditsParked, OnePut, Settled, Quiet, NonePending
  <2>2. ASSUME NEW p \in Users \cup {"none"}, Activate(p) PROVE SavedInv'
    BY <2>2, ActivateSaves DEF Profiles
  <2>3. CASE Reactivate \/ SaveNow
    BY <2>3, ReactivateSaves, SaveNowSaves
  <2>4. ASSUME NEW f \in SettingFields, NEW v \in FieldValues, Edit(f, v) PROVE SavedInv'
    BY <2>4, EditSaves
  <2>5. ASSUME NEW i \in DOMAIN loads, ServeLoad(i) \/ EndLoad(i) PROVE SavedInv'
    BY <2>5, ServeLoadSaves, EndLoadSaves
  <2>6. ASSUME NEW i \in DOMAIN saves,
               ServeSave(i) \/ EndAbortedSave(i) \/ SaveAccepted(i) \/ SaveFailed(i)
        PROVE  SavedInv'
    BY <2>6, ServeSaveSaves, EndAbortedSaves, AcceptedSaves, FailedSaves
  <2> QED BY <2>1, <2>2, <2>3, <2>4, <2>5, <2>6 DEF SettingsNext
<1>3. SavedInv => SavedOrTold
  BY DEF SavedInv, Settled, EditsParked, SavedOrTold, Quiet, Kept
<1> QED BY <1>1, <1>2, <1>3, PTL DEF SettingsSpec

-----------------------------------------------------------------------------
(* The themes of a tab and of the server.  A theme's id is never used      *)
(* again.                                                                  *)
AllThemes == (Nat \ {0}) \X Nat

ThemeBooks == [profile : Owners \cup {"none"}, generation : Nat, mutations : Nat,
               list : Seq(AllThemes), loaded : BOOLEAN, loading : BOOLEAN]
ThemeLoads == [by : Owners, generation : Nat, mutations : Nat, attempt : Nat,
               served : BOOLEAN, got : SUBSET AllThemes]
ThemeEdits == [op : {"create", "update", "remove"}, theme : AllThemes, by : Owners,
               generation : Nat, stage : {"sent", "done"}]

ThemeTypes ==
    /\ saved \in [Owners -> SUBSET AllThemes] /\ chosen \in [Owners -> Nat]
    /\ themes \in ThemeBooks /\ fetches \subseteq ThemeLoads /\ edits \subseteq ThemeEdits
    /\ made \in [themes : Nat, writes : Nat, activations : Nat]

ThemesFinite ==
    /\ \A p \in Owners : IsFiniteSet(saved[p])
    /\ \A q \in fetches : IsFiniteSet(q.got)

(* Every id in use has been made.                                          *)
IdsMade ==
    /\ \A p \in Owners : chosen[p] <= made.themes /\ \A t \in saved[p] : t[1] <= made.themes
    /\ \A e \in edits : e.theme[1] <= made.themes

HasTheme(p, id) == \E t \in saved[p] : t[1] = id

(* What is being created is nobody's choice yet, and the server has it     *)
(* only when it has said so.                                               *)
CreatesNew ==
    \A e \in edits : e.op = "create" =>
        /\ chosen[e.by] # e.theme[1]
        /\ e.stage = "sent" => ~HasTheme(e.by, e.theme[1])

(* What the server has removed stays removed.                              *)
RemovedForGood ==
    \A e \in edits : e.op = "remove" /\ e.stage = "done" =>
        /\ ~HasTheme(e.by, e.theme[1])
        /\ \A c \in edits : c.op = "create" /\ c.stage = "sent" /\ c.by = e.by
                                => c.theme[1] # e.theme[1]

CreatesApart ==
    \A c, d \in edits : c.op = "create" /\ d.op = "create" /\ c.theme[1] = d.theme[1] => c = d

(* A load belongs to this session or to an earlier one, and to no later    *)
(* write.                                                                  *)
LoadsPast == \A q \in fetches : q.generation <= themes.generation /\ q.mutations <= themes.mutations

(* A list that counts, shown or on its way, has the chosen theme if the    *)
(* server has it.                                                          *)
LoadsHold ==
    \A q \in fetches : q.served /\ IsCurrentTheme(themes, q.by, q.generation) /\ FreshThemes(themes, q) =>
        (HasTheme(q.by, chosen[q.by]) => \E t \in q.got : t[1] = chosen[q.by])

ListHolds ==
    \A p \in Owners : themes.loaded /\ themes.profile = p /\ HasTheme(p, chosen[p])
        => chosen[p] \in Ids(themes.list)

ThemeInv ==
    /\ ThemeTypes /\ ThemesFinite /\ IdsMade /\ CreatesNew /\ RemovedForGood /\ CreatesApart
    /\ LoadsPast /\ LoadsHold /\ ListHolds

(* The n-th smallest of a finite set is one of it, and each of it is the   *)
(* n-th for some n.                                                        *)
LEMMA NthIsThere ==
    ASSUME NEW S \in SUBSET Nat, IsFiniteSet(S)
    PROVE  /\ Cardinality(S) \in Nat
           /\ \A n \in 1 .. Cardinality(S) : Nth(S, n) \in S
           /\ \A x \in S : \E n \in 1 .. Cardinality(S) : Nth(S, n) = x
<1> DEFINE upTo(x) == {j \in S : j <= x}
           rank == [x \in S |-> Cardinality(upTo(x))]
<1>1. Cardinality(S) \in Nat BY FS_CardinalityType
<1>2. ASSUME NEW x \in S PROVE rank[x] \in 1 .. Cardinality(S)
  <2>1. upTo(x) \in SUBSET S /\ upTo(x) # {} OBVIOUS
  <2> HIDE DEF upTo
  <2>2. IsFiniteSet(upTo(x)) /\ Cardinality(upTo(x)) <= Cardinality(S) BY <2>1, FS_Subset
  <2>3. Cardinality(upTo(x)) \in Nat /\ Cardinality(upTo(x)) # 0
    BY <2>1, <2>2, FS_CardinalityType, FS_EmptySet
  <2> QED BY <1>1, <2>2, <2>3
<1>3. ASSUME NEW x \in S, NEW y \in S, x < y PROVE rank[x] < rank[y]
  <2>1. upTo(y) \in SUBSET S /\ upTo(x) \in SUBSET upTo(y) /\ y \in upTo(y) /\ y \notin upTo(x)
    <3>1. x \in Nat /\ y \in Nat /\ \A j \in S : j \in Nat OBVIOUS
    <3>2. \A j \in S : j <= x => j <= y BY <1>3, <3>1
    <3>3. y <= y /\ ~(y <= x) BY <1>3, <3>1
    <3> QED BY <3>2, <3>3
  <2>2. rank[x] \in Nat /\ rank[y] \in Nat BY <1>2
  <2> HIDE DEF upTo
  <2>3. IsFiniteSet(upTo(y)) BY <2>1, FS_Subset
  <2>4. Cardinality(upTo(x)) <= Cardinality(upTo(y)) BY <2>1, <2>3, FS_Subset
  <2>5. Cardinality(upTo(x)) # Cardinality(upTo(y))
    <3>1. upTo(x) # upTo(y) BY <2>1
    <3> QED BY <2>1, <2>3, <3>1, FS_Subset
  <2> QED BY <2>2, <2>4, <2>5
<1>4. ASSUME NEW x \in S, NEW y \in S, rank[x] = rank[y] PROVE x = y
  <2>1. x \in Nat /\ y \in Nat /\ rank[x] \in Nat BY <1>2
  <2> HIDE DEF rank
  <2> QED BY <1>3, <1>4, <2>1
<1>5. \A n : Nth(S, n) = CHOOSE i \in S : rank[i] = n
  BY Zenon DEF Nth
<1> HIDE DEF rank
<1>6. ASSUME NEW x \in S PROVE \E n \in 1 .. Cardinality(S) : Nth(S, n) = x
  <2> DEFINE n == rank[x]
  <2>1. Nth(S, n) \in S /\ rank[Nth(S, n)] = n BY <1>5
  <2> QED BY <1>2, <1>4, <2>1
<1>7. ASSUME NEW n \in 1 .. Cardinality(S) PROVE Nth(S, n) \in S
  <2> DEFINE N == 1 .. Cardinality(S)
  <2>1. IsFiniteSet(N) /\ Cardinality(N) = Cardinality(S)
    BY <1>1, FS_Interval
  <2>2. rank \in [S -> N] BY <1>2 DEF rank
  <2> HIDE DEF N
  <2>3. rank \in Injection(S, N) BY <1>4, <2>2 DEF Injection, IsInjective
  <2>4. rank \in Surjection(S, N) BY <2>1, <2>3, FS_Injection
  <2>5. \E x \in S : rank[x] = n BY <2>4 DEF Surjection, N
  <2> QED BY <1>5, <2>5
<1> QED BY <1>1, <1>6, <1>7

(* The list in order has every theme of the set.                           *)
LEMMA InOrderHasAll ==
    ASSUME NEW set \in SUBSET AllThemes, IsFiniteSet(set)
    PROVE  /\ InOrder(set) \in Seq(AllThemes)
           /\ \A t \in set : t[1] \in Ids(InOrder(set))
<1> DEFINE ids == {t[1] : t \in set}
           c == Cardinality(ids)
           at(n) == CHOOSE t \in set : t[1] = Nth(ids, n)
           list == [n \in 1 .. c |-> at(n)]
<1>1. ids \in SUBSET Nat BY DEF AllThemes
<1>2. IsFiniteSet(ids)
  <2> DEFINE f == [t \in set |-> t[1]]
  <2>1. f \in Surjection(set, ids) BY DEF Surjection
  <2> QED BY <2>1, FS_Surjection
<1>3. InOrder(set) = list BY DEF InOrder
<1>4. ASSUME NEW n \in 1 .. c PROVE at(n) \in set /\ at(n)[1] = Nth(ids, n)
  <2>1. Nth(ids, n) \in ids BY <1>1, <1>2, NthIsThere
  <2>2. \E t \in set : t[1] = Nth(ids, n) BY <2>1
  <2> QED BY <2>2
<1>5. c \in Nat BY <1>2, FS_CardinalityType
<1>6. \A t \in set : \E n \in 1 .. c : Nth(ids, n) = t[1]
  <2>1. \A x \in ids : \E n \in 1 .. c : Nth(ids, n) = x BY <1>1, <1>2, NthIsThere
  <2> QED BY <2>1
<1> HIDE DEF c, at, ids
<1>7. list \in Seq(AllThemes) BY <1>4, <1>5
<1>8. ASSUME NEW t \in set PROVE t[1] \in Ids(list)
  <2>1. PICK n \in 1 .. c : Nth(ids, n) = t[1] BY <1>6
  <2>2. n \in DOMAIN list /\ list[n][1] = t[1] BY <1>4, <2>1
  <2> HIDE DEF list
  <2> QED BY <2>2 DEF Ids
<1> QED BY <1>3, <1>7, <1>8

(* A removal takes one id, and no other.                                   *)
LEMMA RemovalKeepsOthers ==
    ASSUME NEW list \in Seq(AllThemes), NEW id
    PROVE  /\ WithoutTheme(list, id) \in Seq(AllThemes)
           /\ \A x \in Ids(list) : x # id => x \in Ids(WithoutTheme(list, id))
<1> DEFINE kept == {i \in DOMAIN list : list[i][1] # id}
           c == Cardinality(kept)
           rest == [n \in 1 .. c |-> list[Nth(kept, n)]]
<1>1. kept \in SUBSET (1 .. Len(list)) /\ Len(list) \in Nat /\ DOMAIN list = 1 .. Len(list) OBVIOUS
<1>2. IsFiniteSet(kept) /\ kept \in SUBSET Nat
  <2>1. IsFiniteSet(1 .. Len(list)) BY <1>1, FS_Interval
  <2>2. 1 .. Len(list) \subseteq Nat BY <1>1
  <2> HIDE DEF kept
  <2>3. IsFiniteSet(kept) BY <1>1, <2>1, FS_Subset
  <2> QED BY <1>1, <2>2, <2>3
<1>3. WithoutTheme(list, id) = rest BY DEF WithoutTheme
<1>4. ASSUME NEW i \in DOMAIN list, list[i][1] # id PROVE i \in kept BY <1>4
<1> HIDE DEF kept
<1>5. /\ c \in Nat /\ \A n \in 1 .. c : Nth(kept, n) \in kept
      /\ \A x \in kept : \E n \in 1 .. c : Nth(kept, n) = x
  BY <1>2, NthIsThere
<1> HIDE DEF c
<1>6. \A n \in 1 .. c : list[Nth(kept, n)] \in AllThemes
  <2>1. \A i \in DOMAIN list : list[i] \in AllThemes OBVIOUS
  <2>2. \A i \in kept : i \in DOMAIN list BY <1>1
  <2> QED BY <1>5, <2>1, <2>2
<1>7. rest \in Seq(AllThemes) BY <1>5, <1>6
<1>8. ASSUME NEW x \in Ids(list), x # id PROVE x \in Ids(rest)
  <2>1. PICK i \in DOMAIN list : list[i][1] = x BY DEF Ids
  <2>2. i \in kept BY <1>4, <1>8, <2>1
  <2>3. PICK n \in 1 .. c : Nth(kept, n) = i BY <1>5, <2>2
  <2>4. n \in DOMAIN rest /\ rest[n][1] = x BY <2>1, <2>3
  <2> HIDE DEF rest
  <2> QED BY <2>4 DEF Ids
<1> QED BY <1>3, <1>7, <1>8

(* What a write that has arrived does to the list.                         *)
LEMMA AppliedHasTheRest ==
    ASSUME NEW list \in Seq(AllThemes), NEW e \in ThemeEdits
    PROVE  /\ AppliedTo(list, e) \in Seq(AllThemes)
           /\ e.op = "create" => e.theme[1] \in Ids(AppliedTo(list, e))
           /\ \A x \in Ids(list) : e.op # "remove" \/ x # e.theme[1] => x \in Ids(AppliedTo(list, e))
<1>1. e.op \in {"create", "update", "remove"} /\ e.theme \in AllThemes BY DEF ThemeEdits
<1>2. CASE e.op = "create"
  <2> DEFINE r == Append(list, e.theme)
  <2>1. AppliedTo(list, e) = r
    <3>1. e.op # "update" /\ e.op # "remove" BY <1>2
    <3> QED BY <1>2, <3>1, Zenon DEF AppliedTo
  <2>2. r \in Seq(AllThemes) /\ Len(list) + 1 \in DOMAIN r /\ r[Len(list) + 1] = e.theme
    BY <1>1
  <2>3. \A i \in DOMAIN list : i \in DOMAIN r /\ r[i] = list[i] BY <1>1
  <2> HIDE DEF r
  <2> QED BY <2>1, <2>2, <2>3 DEF Ids
<1>3. CASE e.op = "update"
  <2> DEFINE r == [i \in DOMAIN list |-> IF list[i][1] = e.theme[1] THEN e.theme ELSE list[i]]
  <2>1. AppliedTo(list, e) = r
    <3>1. e.op # "create" /\ e.op # "remove" BY <1>3
    <3> QED BY <1>3, <3>1, Zenon DEF AppliedTo
  <2>2. r \in Seq(AllThemes)
    <3>1. DOMAIN list = 1 .. Len(list) /\ Len(list) \in Nat OBVIOUS
    <3>2. \A i \in 1 .. Len(list) : r[i] \in AllThemes BY <1>1, <3>1
    <3> QED BY <3>1, <3>2
  <2>3. \A i \in DOMAIN list : i \in DOMAIN r /\ r[i][1] = list[i][1] OBVIOUS
  <2> HIDE DEF r
  <2>4. \A x \in Ids(list) : x \in Ids(r) BY <2>3 DEF Ids
  <2> QED BY <1>3, <2>1, <2>2, <2>4
<1>4. CASE e.op = "remove"
  <2>1. AppliedTo(list, e) = WithoutTheme(list, e.theme[1])
    <3>1. e.op # "create" /\ e.op # "update" BY <1>4
    <3> QED BY <1>4, <3>1, Zenon DEF AppliedTo
  <2> QED BY <1>4, <2>1, RemovalKeepsOthers
<1> QED BY <1>1, <1>2, <1>3, <1>4

(* A request for the list is new.                                          *)
LEMMA NewThemeLoad ==
    ASSUME NEW s \in ThemeBooks, s.profile # "none", NEW attempt \in Nat
    PROVE  LET q == Fetch(s, attempt)
           IN  /\ q \in ThemeLoads /\ q.served = FALSE /\ IsFiniteSet(q.got)
               /\ q.generation = s.generation /\ q.mutations = s.mutations
BY FS_EmptySet DEF Fetch, ThemeBooks, ThemeLoads

(* What the server and the dialogs know, when no write begins, is served   *)
(* or arrives.                                                             *)
LEMMA WritesKept ==
    ASSUME ThemeInv, saved' = saved, chosen' = chosen, edits' = edits, made'.themes = made.themes
    PROVE  (IdsMade /\ CreatesNew /\ RemovedForGood /\ CreatesApart)'
BY DEF ThemeInv, IdsMade, CreatesNew, RemovedForGood, CreatesApart, HasTheme

(* Loads that go on, with new ones that have not been served.              *)
LEMMA LoadsKept ==
    ASSUME ThemeInv, saved' = saved, chosen' = chosen,
           themes'.generation = themes.generation, themes'.mutations = themes.mutations,
           themes'.profile = themes.profile, themes' \in ThemeBooks, fetches' \subseteq ThemeLoads,
           \A q \in fetches' :
              \/ q \in fetches
              \/ /\ q.served = FALSE /\ IsFiniteSet(q.got)
                 /\ q.generation = themes.generation /\ q.mutations = themes.mutations
    PROVE  (ThemesFinite /\ LoadsPast /\ LoadsHold)'
<1>1. ThemesFinite' BY DEF ThemeInv, ThemesFinite
<1>2. LoadsPast'
  <2>1. themes.generation \in Nat /\ themes.mutations \in Nat
    BY DEF ThemeInv, ThemeTypes, ThemeBooks
  <2> QED BY <2>1 DEF ThemeInv, LoadsPast
<1>3. LoadsHold'
  BY DEF ThemeInv, LoadsHold, IsCurrentTheme, FreshThemes, HasTheme
<1> QED BY <1>1, <1>2, <1>3

LEMMA ActivationKeepsThemes ==
    ASSUME ThemeInv, NEW p \in Owners \cup {"none"}, ActivateThemes(p)
    PROVE  ThemeInv'
<1> DEFINE signed == (p # "none")
           s == [themes EXCEPT !.profile = p, !.generation = @ + 1, !.loaded = FALSE,
                               !.list = <<>>, !.loading = signed]
<1>1. themes \in ThemeBooks /\ fetches \subseteq ThemeLoads /\ made \in [themes : Nat, writes : Nat, activations : Nat]
  BY DEF ThemeInv, ThemeTypes
<1>2. themes' = s /\ fetches' = IF p = "none" THEN fetches ELSE fetches \cup {Fetch(s, 1)}
  BY DEF ActivateThemes
<1>3. /\ saved' = saved /\ chosen' = chosen /\ edits' = edits
      /\ made' \in [themes : Nat, writes : Nat, activations : Nat] /\ made'.themes = made.themes
  BY <1>1 DEF ActivateThemes
<1> signed \in BOOLEAN OBVIOUS
<1> HIDE DEF signed
<1>4. s \in ThemeBooks
  <2>1. <<>> \in Seq(AllThemes) OBVIOUS
  <2>2. themes.generation + 1 \in Nat /\ themes.mutations \in Nat BY <1>1 DEF ThemeBooks
  <2>3. ASSUME NEW n \in Nat
        PROVE  /\ [themes EXCEPT !.profile = p, !.generation = n, !.loaded = FALSE,
                                 !.list = <<>>, !.loading = TRUE] \in ThemeBooks
               /\ [themes EXCEPT !.profile = p, !.generation = n, !.loaded = FALSE,
                                 !.list = <<>>, !.loading = FALSE] \in ThemeBooks
    BY <1>1, <2>1 DEF ThemeBooks
  <2>4. signed = TRUE \/ signed = FALSE OBVIOUS
  <2> QED BY <2>2, <2>3, <2>4, Zenon
<1>5. /\ s.profile = p /\ s.generation = themes.generation + 1 /\ s.mutations = themes.mutations
      /\ s.loaded = FALSE
  BY <1>1 DEF ThemeBooks
<1> HIDE DEF s
<1>6. themes.generation \in Nat /\ themes.mutations \in Nat BY <1>1 DEF ThemeBooks
<1>7. \A q \in fetches' :
        /\ q \in ThemeLoads
        /\ \/ q \in fetches
           \/ /\ q.served = FALSE /\ IsFiniteSet(q.got)
              /\ q.generation = s.generation /\ q.mutations = s.mutations
  <2>1. CASE p = "none" BY <1>1, <1>2, <2>1
  <2>2. CASE p # "none"
    <3>1. /\ Fetch(s, 1) \in ThemeLoads /\ Fetch(s, 1).served = FALSE /\ IsFiniteSet(Fetch(s, 1).got)
          /\ Fetch(s, 1).generation = s.generation /\ Fetch(s, 1).mutations = s.mutations
      BY <1>4, <1>5, <2>2, NewThemeLoad
    <3> QED BY <1>1, <1>2, <2>2, <3>1
  <2> QED BY <2>1, <2>2
<1>8. ThemeTypes'
  <2>1. fetches' \subseteq ThemeLoads BY <1>7
  <2> QED BY <1>2, <1>3, <1>4, <2>1 DEF ThemeInv, ThemeTypes
<1>9. ThemesFinite' BY <1>3, <1>7 DEF ThemeInv, ThemesFinite
<1>10. (IdsMade /\ CreatesNew /\ RemovedForGood /\ CreatesApart)' BY <1>3, WritesKept
<1>11. LoadsPast'
  <2>1. \A q \in fetches : q \in ThemeLoads /\ q.generation <= themes.generation /\ q.mutations <= themes.mutations
    BY <1>1 DEF ThemeInv, LoadsPast
  <2>2. \A q \in ThemeLoads : q.generation \in Nat /\ q.mutations \in Nat BY DEF ThemeLoads
  <2> QED BY <1>2, <1>5, <1>6, <1>7, <2>1, <2>2 DEF LoadsPast
<1>12. LoadsHold'
  <2>1. \A q \in fetches : q.generation \in Nat /\ q.generation <= themes.generation
    BY <1>1 DEF ThemeInv, LoadsPast, ThemeLoads
  <2>2. ASSUME NEW q \in fetches', q.served PROVE q.generation # themes'.generation
    <3>1. q \in fetches BY <1>7, <2>2
    <3> QED BY <1>2, <1>5, <1>6, <2>1, <3>1
  <2> QED BY <2>2 DEF LoadsHold, IsCurrentTheme
<1>13. ListHolds' BY <1>2, <1>5 DEF ListHolds
<1> QED BY <1>8, <1>9, <1>10, <1>11, <1>12, <1>13 DEF ThemeInv

LEMMA LoadingKeepsThemes ==
    ASSUME ThemeInv, LoadThemes
    PROVE  ThemeInv'
<1>1. themes \in ThemeBooks /\ fetches \subseteq ThemeLoads BY DEF ThemeInv, ThemeTypes
<1>2. /\ themes' = [themes EXCEPT !.loading = TRUE] /\ fetches' = fetches \cup {Fetch(themes, 1)}
      /\ saved' = saved /\ chosen' = chosen /\ edits' = edits /\ made' = made
  BY DEF LoadThemes
<1>3. /\ themes' \in ThemeBooks /\ themes'.profile = themes.profile
      /\ themes'.generation = themes.generation /\ themes'.mutations = themes.mutations
      /\ themes'.loaded = themes.loaded /\ themes'.list = themes.list
  BY <1>1, <1>2 DEF ThemeBooks
<1>4. /\ Fetch(themes, 1) \in ThemeLoads /\ Fetch(themes, 1).served = FALSE
      /\ IsFiniteSet(Fetch(themes, 1).got)
      /\ Fetch(themes, 1).generation = themes.generation /\ Fetch(themes, 1).mutations = themes.mutations
  <2>1. themes.profile # "none" BY DEF LoadThemes
  <2> QED BY <1>1, <2>1, NewThemeLoad
<1>5. fetches' \subseteq ThemeLoads BY <1>1, <1>2, <1>4
<1>6. ThemeTypes' BY <1>2, <1>3, <1>5 DEF ThemeInv, ThemeTypes
<1>7. (IdsMade /\ CreatesNew /\ RemovedForGood /\ CreatesApart)' BY <1>2, WritesKept
<1>8. (ThemesFinite /\ LoadsPast /\ LoadsHold)' BY <1>2, <1>3, <1>4, <1>5, LoadsKept
<1>9. ListHolds' BY <1>2, <1>3 DEF ThemeInv, ListHolds, HasTheme
<1> QED BY <1>6, <1>7, <1>8, <1>9 DEF ThemeInv

LEMMA ServingKeepsThemes ==
    ASSUME ThemeInv, NEW q \in fetches, ServeThemes(q)
    PROVE  ThemeInv'
<1> DEFINE r == [q EXCEPT !.served = TRUE, !.got = saved[q.by]]
<1>1. /\ fetches \subseteq ThemeLoads /\ q \in ThemeLoads /\ saved \in [Owners -> SUBSET AllThemes]
      /\ q.by \in Owners
  BY DEF ThemeInv, ThemeTypes, ThemeLoads
<1>2. /\ fetches' = (fetches \ {q}) \cup {r} /\ saved' = saved /\ chosen' = chosen
      /\ themes' = themes /\ edits' = edits /\ made' = made
  BY DEF ServeThemes
<1>3. r \in ThemeLoads BY <1>1 DEF ThemeLoads
<1>4. /\ r.by = q.by /\ r.generation = q.generation /\ r.mutations = q.mutations
      /\ r.got = saved[q.by]
  BY <1>1 DEF ThemeLoads
<1> HIDE DEF r
<1>5. ThemeTypes'
  <2>1. fetches' \subseteq ThemeLoads BY <1>1, <1>2, <1>3
  <2> QED BY <1>2, <2>1 DEF ThemeInv, ThemeTypes
<1>6. (IdsMade /\ CreatesNew /\ RemovedForGood /\ CreatesApart)' BY <1>2, WritesKept
<1>7. ThemesFinite' BY <1>1, <1>2, <1>4 DEF ThemeInv, ThemesFinite
<1>8. LoadsPast' BY <1>2, <1>4 DEF ThemeInv, LoadsPast
<1>9. LoadsHold'
  <2>1. ASSUME NEW x \in fetches', x.served, IsCurrentTheme(themes, x.by, x.generation), FreshThemes(themes, x),
               HasTheme(x.by, chosen[x.by])
        PROVE  \E t \in x.got : t[1] = chosen[x.by]
    <3>1. CASE x \in fetches BY <2>1, <3>1 DEF ThemeInv, LoadsHold
    <3>2. CASE x = r BY <1>4, <2>1, <3>2 DEF HasTheme
    <3> QED BY <1>2, <3>1, <3>2
  <2> QED BY <1>2, <2>1 DEF LoadsHold, HasTheme
<1>10. ListHolds' BY <1>2 DEF ThemeInv, ListHolds, HasTheme
<1> QED BY <1>5, <1>6, <1>7, <1>8, <1>9, <1>10 DEF ThemeInv

LEMMA ArrivalKeepsThemes ==
    ASSUME ThemeInv, NEW q \in fetches, ThemesArrive(q) \/ ThemesFail(q)
    PROVE  ThemeInv'
<1>1. themes \in ThemeBooks /\ fetches \subseteq ThemeLoads /\ q \in ThemeLoads /\ q.by \in Owners
  BY DEF ThemeInv, ThemeTypes, ThemeLoads
<1>2. saved' = saved /\ chosen' = chosen /\ edits' = edits /\ made' = made
  BY DEF ThemesArrive, ThemesFail
<1>3. (IdsMade /\ CreatesNew /\ RemovedForGood /\ CreatesApart)' BY <1>2, WritesKept
<1>4. ASSUME themes' = themes \/ themes' = [themes EXCEPT !.loading = FALSE],
             \A x \in fetches' : \/ x \in fetches
                                 \/ IsCurrentTheme(themes, q.by, q.generation) /\ x = Fetch(themes, q.attempt + 1)
      PROVE  ThemeInv'
  <2>1. /\ themes' \in ThemeBooks /\ themes'.profile = themes.profile
        /\ themes'.generation = themes.generation /\ themes'.mutations = themes.mutations
        /\ themes'.loaded = themes.loaded /\ themes'.list = themes.list
    <3>1. CASE themes' = themes BY <1>1, <3>1
    <3>2. CASE themes' = [themes EXCEPT !.loading = FALSE] BY <1>1, <3>2 DEF ThemeBooks
    <3> QED BY <1>4, <3>1, <3>2
  <2>2. ASSUME NEW x \in fetches'
        PROVE  /\ x \in ThemeLoads
               /\ \/ x \in fetches
                  \/ /\ x.served = FALSE /\ IsFiniteSet(x.got)
                     /\ x.generation = themes.generation /\ x.mutations = themes.mutations
    <3>1. CASE x \in fetches BY <1>1, <3>1
    <3>2. CASE IsCurrentTheme(themes, q.by, q.generation) /\ x = Fetch(themes, q.attempt + 1)
      <4>1. themes.profile # "none" BY <1>1, <3>2, ThemeAssumption DEF IsCurrentTheme
      <4>2. q.attempt + 1 \in Nat BY <1>1 DEF ThemeLoads
      <4> QED BY <1>1, <3>2, <4>1, <4>2, NewThemeLoad
    <3> QED BY <1>4, <3>1, <3>2
  <2>3. fetches' \subseteq ThemeLoads BY <2>2
  <2>4. ThemeTypes' BY <1>2, <2>1, <2>3 DEF ThemeInv, ThemeTypes
  <2>5. (ThemesFinite /\ LoadsPast /\ LoadsHold)' BY <1>2, <2>1, <2>2, <2>3, LoadsKept
  <2>6. ListHolds' BY <1>2, <2>1 DEF ThemeInv, ListHolds, HasTheme
  <2> QED BY <1>3, <2>4, <2>5, <2>6 DEF ThemeInv
<1>5. CASE ThemesFail(q)
  <2>1. themes' = themes \/ themes' = [themes EXCEPT !.loading = FALSE] BY <1>5 DEF ThemesFail
  <2>2. \A x \in fetches' : x \in fetches BY <1>5 DEF ThemesFail
  <2> QED BY <1>4, <2>1, <2>2
<1>6. CASE ThemesArrive(q) /\ ~(IsCurrentTheme(themes, q.by, q.generation) /\ FreshThemes(themes, q))
  <2>1. themes' = themes \/ themes' = [themes EXCEPT !.loading = FALSE] BY <1>6 DEF ThemesArrive
  <2>2. \A x \in fetches' : \/ x \in fetches
                            \/ IsCurrentTheme(themes, q.by, q.generation) /\ x = Fetch(themes, q.attempt + 1)
    BY <1>6 DEF ThemesArrive
  <2> QED BY <1>4, <2>1, <2>2
<1>7. CASE ThemesArrive(q) /\ IsCurrentTheme(themes, q.by, q.generation) /\ FreshThemes(themes, q)
  <2> DEFINE list == InOrder(q.got)
  <2>1. q.got \in SUBSET AllThemes /\ IsFiniteSet(q.got) BY <1>1 DEF ThemeLoads, ThemeInv, ThemesFinite
  <2>2. list \in Seq(AllThemes) /\ \A t \in q.got : t[1] \in Ids(list) BY <2>1, InOrderHasAll
  <2>3. themes' = [themes EXCEPT !.list = list, !.loaded = TRUE, !.loading = FALSE]
    BY <1>7 DEF ThemesArrive
  <2>4. fetches' = fetches \ {q} /\ q.served BY <1>7 DEF ThemesArrive
  <2> HIDE DEF list
  <2>5. /\ themes' \in ThemeBooks /\ themes'.profile = themes.profile
        /\ themes'.generation = themes.generation /\ themes'.mutations = themes.mutations
        /\ themes'.list = list
    BY <1>1, <2>2, <2>3 DEF ThemeBooks
  <2>6. fetches' \subseteq ThemeLoads /\ \A x \in fetches' : x \in fetches BY <1>1, <2>4
  <2>7. ThemeTypes' BY <1>2, <2>5, <2>6 DEF ThemeInv, ThemeTypes
  <2>8. (ThemesFinite /\ LoadsPast /\ LoadsHold)' BY <1>2, <2>5, <2>6, LoadsKept
  <2>9. themes.profile = q.by BY <1>7 DEF IsCurrentTheme
  <2>10. HasTheme(q.by, chosen[q.by]) => \E t \in q.got : t[1] = chosen[q.by]
    BY <1>7, <2>4 DEF ThemeInv, LoadsHold
  <2>11. ListHolds' BY <1>2, <2>2, <2>5, <2>9, <2>10 DEF ListHolds, HasTheme
  <2> QED BY <1>3, <2>7, <2>8, <2>11 DEF ThemeInv
<1> QED BY <1>5, <1>6, <1>7

(* A dialog sends its request: what it creates has an id of its own.       *)
LEMMA BeginningKeepsThemes ==
    ASSUME ThemeInv, NEW op \in {"create", "update", "remove"}, NEW theme \in AllThemes,
           op = "create" => theme[1] = made.themes + 1,
           op # "create" => theme[1] <= made.themes,
           BeginWrite(op, theme)
    PROVE  ThemeInv'
<1> DEFINE n == [op |-> op, theme |-> theme, by |-> themes.profile,
                 generation |-> themes.generation, stage |-> "sent"]
<1>1. /\ themes \in ThemeBooks /\ edits \subseteq ThemeEdits /\ chosen \in [Owners -> Nat]
      /\ made \in [themes : Nat, writes : Nat, activations : Nat]
      /\ theme[1] \in Nat /\ \A e \in edits : e.theme[1] \in Nat
  BY DEF ThemeInv, ThemeTypes, ThemeEdits, AllThemes
<1>2. /\ edits' = edits \cup {n} /\ saved' = saved /\ chosen' = chosen /\ themes' = themes
      /\ fetches' = fetches /\ themes.profile # "none"
  BY DEF BeginWrite
<1>3. /\ made' \in [themes : Nat, writes : Nat, activations : Nat]
      /\ made'.themes = IF op = "create" THEN made.themes + 1 ELSE made.themes
  <2>1. made' = [made EXCEPT !.writes = @ + 1, !.themes = IF op = "create" THEN @ + 1 ELSE @]
    BY DEF BeginWrite
  <2>2. CASE op = "create"
    <3>1. made' = [made EXCEPT !.writes = @ + 1, !.themes = @ + 1] BY <2>1, <2>2
    <3>2. made.writes + 1 \in Nat /\ made.themes + 1 \in Nat BY <1>1
    <3>3. made' = [themes |-> made.themes + 1, writes |-> made.writes + 1, activations |-> made.activations]
      BY <1>1, <3>1
    <3> QED BY <1>1, <2>2, <3>2, <3>3
  <2>3. CASE op # "create"
    <3>1. made' = [made EXCEPT !.writes = @ + 1]
      <4>1. made' = [made EXCEPT !.writes = @ + 1, !.themes = @] BY <2>1, <2>3
      <4> QED BY <1>1, <4>1
    <3> QED BY <1>1, <2>3, <3>1
  <2> QED BY <2>2, <2>3
<1>4. n \in ThemeEdits BY <1>1, <1>2 DEF ThemeBooks, ThemeEdits
<1>5. n.op = op /\ n.theme = theme /\ n.stage = "sent" OBVIOUS
<1> HIDE DEF n
<1>6. ThemeTypes'
  <2>1. edits' \subseteq ThemeEdits BY <1>1, <1>2, <1>4
  <2> QED BY <1>2, <1>3, <2>1 DEF ThemeInv, ThemeTypes
<1>7. made.themes \in Nat /\ made.themes <= made'.themes /\ theme[1] <= made'.themes
      /\ (op = "create" => made.themes < theme[1])
  BY <1>1, <1>3
<1>8. IdsMade'
  <2>1. \A p \in Owners : chosen[p] \in Nat /\ \A t \in saved[p] : t[1] \in Nat
    BY <1>1 DEF ThemeInv, ThemeTypes, AllThemes
  <2>2. \A x \in Nat : x <= made.themes => x <= made'.themes BY <1>1, <1>3, <1>7
  <2>3. /\ \A p \in Owners : chosen[p] <= made.themes /\ \A t \in saved[p] : t[1] <= made.themes
        /\ \A e \in edits : e.theme[1] <= made.themes
    BY DEF ThemeInv, IdsMade
  <2>4. \A p \in Owners : chosen[p] <= made'.themes /\ \A t \in saved[p] : t[1] <= made'.themes
    BY <2>1, <2>2, <2>3
  <2>5. \A e \in edits \cup {n} : e.theme[1] <= made'.themes BY <1>1, <1>5, <1>7, <2>2, <2>3
  <2> QED BY <1>2, <2>4, <2>5 DEF IdsMade
<1>9. ASSUME op = "create"
      PROVE  /\ \A p \in Owners : chosen[p] # theme[1] /\ ~HasTheme(p, theme[1])
             /\ \A e \in edits : e.theme[1] # theme[1]
  <2>1. \A x \in Nat : x <= made.themes => x # theme[1] BY <1>1, <1>7, <1>9
  <2>2. \A p \in Owners : chosen[p] \in Nat /\ \A t \in saved[p] : t[1] \in Nat
    BY <1>1 DEF ThemeInv, ThemeTypes, AllThemes
  <2> QED BY <1>1, <2>1, <2>2 DEF ThemeInv, IdsMade, HasTheme
<1>10. n.by \in Owners BY <1>4 DEF ThemeEdits
<1>11. CreatesNew' BY <1>2, <1>5, <1>9, <1>10 DEF ThemeInv, CreatesNew, HasTheme
<1>12. RemovedForGood' BY <1>2, <1>5, <1>9 DEF ThemeInv, RemovedForGood, HasTheme
<1>13. CreatesApart' BY <1>2, <1>5, <1>9 DEF ThemeInv, CreatesApart
<1>14. (ThemesFinite /\ LoadsPast /\ LoadsHold /\ ListHolds)'
  BY <1>2 DEF ThemeInv, ThemesFinite, LoadsPast, LoadsHold, ListHolds, HasTheme
<1> QED BY <1>6, <1>8, <1>11, <1>12, <1>13, <1>14 DEF ThemeInv

(* What the user has chosen comes to a server that lacks it by no write:   *)
(* what is being created is nobody's choice.                               *)
LEMMA ServedKeepsThemes ==
    ASSUME ThemeInv, NEW e \in edits, ServeWrite(e)
    PROVE  ThemeInv'
<1> DEFINE d == [e EXCEPT !.stage = "done"]
           id == e.theme[1]
           had == Without(saved[e.by], id) \cup (IF e.op = "remove" THEN {} ELSE {e.theme})
<1>1. /\ saved \in [Owners -> SUBSET AllThemes] /\ edits \subseteq ThemeEdits /\ e \in ThemeEdits
      /\ e.by \in Owners /\ e.theme \in AllThemes /\ e.op \in {"create", "update", "remove"}
  BY DEF ThemeInv, ThemeTypes, ThemeEdits
<1>2. chosen' = chosen /\ themes' = themes /\ fetches' = fetches /\ made' = made /\ e.stage = "sent"
  BY DEF ServeWrite
<1>3. CASE saved' = saved /\ edits' = edits \ {e}
  <2>1. edits' \subseteq edits BY <1>3
  <2>2. ThemeTypes' BY <1>1, <1>2, <1>3, <2>1 DEF ThemeInv, ThemeTypes
  <2>3. (IdsMade /\ CreatesNew /\ RemovedForGood /\ CreatesApart)'
    BY <1>2, <1>3, <2>1 DEF ThemeInv, IdsMade, CreatesNew, RemovedForGood, CreatesApart, HasTheme
  <2>4. (ThemesFinite /\ LoadsPast /\ LoadsHold /\ ListHolds)'
    BY <1>2, <1>3 DEF ThemeInv, ThemesFinite, LoadsPast, LoadsHold, ListHolds, HasTheme
  <2> QED BY <2>2, <2>3, <2>4 DEF ThemeInv
<1>4. CASE /\ e.op = "create" \/ HasTheme(e.by, id)
           /\ saved' = [saved EXCEPT ![e.by] = had] /\ edits' = (edits \ {e}) \cup {d}
  <2>1. /\ d \in ThemeEdits /\ d.op = e.op /\ d.theme = e.theme /\ d.by = e.by /\ d.stage = "done"
    BY <1>1 DEF ThemeEdits
  <2>2. saved'[e.by] = had /\ \A p \in Owners : p # e.by => saved'[p] = saved[p]
    BY <1>1, <1>4
  <2>3. had \in SUBSET AllThemes BY <1>1 DEF Without
  <2>4. saved' \in [Owners -> SUBSET AllThemes] BY <1>1, <1>4, <2>3
  <2>5. \A t \in had : t \in saved[e.by] \/ (e.op # "remove" /\ t = e.theme) BY DEF Without
  <2>6. e.op = "remove" => \A t \in had : t[1] # id BY DEF Without
  <2>7. IsFiniteSet(had)
    <3>1. IsFiniteSet(saved[e.by]) BY <1>1 DEF ThemeInv, ThemesFinite
    <3>2. had \subseteq saved[e.by] \cup {e.theme} BY <2>5
    <3> HIDE DEF had
    <3>3. IsFiniteSet(saved[e.by] \cup {e.theme}) BY <3>1, FS_AddElement
    <3> QED BY <3>2, <3>3, FS_Subset
  <2> HIDE DEF d, had
  <2>8. ThemeTypes'
    <3>1. edits' \subseteq ThemeEdits BY <1>1, <1>4, <2>1
    <3> QED BY <1>2, <2>4, <3>1 DEF ThemeInv, ThemeTypes
  <2>9. ThemesFinite' BY <1>2, <2>2, <2>7 DEF ThemeInv, ThemesFinite
  <2>10. ASSUME NEW p \in Owners, NEW x, HasTheme(p, x)'
         PROVE  HasTheme(p, x) \/ (e.op = "create" /\ p = e.by /\ x = id)
    <3>1. PICK t \in saved'[p] : t[1] = x BY <2>10 DEF HasTheme
    <3>2. CASE p # e.by BY <2>2, <3>1, <3>2 DEF HasTheme
    <3>3. CASE p = e.by
      <4>1. t \in saved[p] \/ (e.op # "remove" /\ t = e.theme) BY <2>2, <2>5, <3>1, <3>3
      <4>2. CASE t \in saved[p] BY <3>1, <4>2 DEF HasTheme
      <4>3. CASE e.op # "remove" /\ t = e.theme BY <1>1, <1>4, <3>1, <3>3, <4>3
      <4> QED BY <4>1, <4>2, <4>3
    <3> QED BY <3>2, <3>3
  <2>11. e.op = "remove" => ~HasTheme(e.by, id)' BY <2>2, <2>6 DEF HasTheme
  <2>12. IdsMade'
    <3>1. ASSUME NEW p \in Owners, NEW t \in saved'[p] PROVE t[1] <= made.themes
      <4>1. t \in saved[p] \/ t = e.theme BY <2>2, <2>5
      <4> QED BY <4>1 DEF ThemeInv, IdsMade
    <3>2. \A c \in edits' : c.theme[1] <= made.themes BY <1>4, <2>1 DEF ThemeInv, IdsMade
    <3>3. \A p \in Owners : chosen[p] <= made.themes BY DEF ThemeInv, IdsMade
    <3> QED BY <1>2, <3>1, <3>2, <3>3 DEF IdsMade
  <2>13. \A c \in edits : c.by \in Owners BY <1>1 DEF ThemeEdits
  <2>14. CreatesNew'
    <3>1. ASSUME NEW c \in edits', c.op = "create"
          PROVE  chosen[c.by] # c.theme[1] /\ (c.stage = "sent" => ~HasTheme(c.by, c.theme[1])')
      <4>1. CASE c = d BY <1>1, <2>1, <3>1, <4>1 DEF ThemeInv, CreatesNew
      <4>2. CASE c \in edits /\ c # e
        <5>1. chosen[c.by] # c.theme[1] /\ (c.stage = "sent" => ~HasTheme(c.by, c.theme[1]))
          BY <3>1, <4>2 DEF ThemeInv, CreatesNew
        <5>2. ~(e.op = "create" /\ c.theme[1] = id) BY <3>1, <4>2 DEF ThemeInv, CreatesApart
        <5> QED BY <2>10, <2>13, <4>2, <5>1, <5>2
      <4> QED BY <1>4, <4>1, <4>2
    <3> QED BY <1>2, <3>1 DEF CreatesNew, HasTheme
  <2>15. RemovedForGood'
    <3>1. ASSUME NEW r \in edits', r.op = "remove", r.stage = "done"
          PROVE  /\ ~HasTheme(r.by, r.theme[1])'
                 /\ \A c \in edits' : c.op = "create" /\ c.stage = "sent" /\ c.by = r.by
                                        => c.theme[1] # r.theme[1]
      <4>1. CASE r = d
        <5>1. HasTheme(e.by, id) /\ e.op = "remove" BY <1>4, <2>1, <3>1, <4>1
        <5>2. ASSUME NEW c \in edits', c.op = "create", c.stage = "sent", c.by = e.by
              PROVE  c.theme[1] # id
          <6>1. c \in edits BY <1>4, <2>1, <5>2
          <6> QED BY <5>1, <5>2, <6>1 DEF ThemeInv, CreatesNew
        <5> QED BY <2>1, <2>11, <4>1, <5>1, <5>2
      <4>2. CASE r \in edits /\ r # e
        <5>1. /\ ~HasTheme(r.by, r.theme[1])
              /\ \A c \in edits : c.op = "create" /\ c.stage = "sent" /\ c.by = r.by
                                        => c.theme[1] # r.theme[1]
          BY <3>1, <4>2 DEF ThemeInv, RemovedForGood
        <5>2. ~HasTheme(r.by, r.theme[1])' BY <1>2, <2>10, <2>13, <4>2, <5>1
        <5>3. \A c \in edits' : c.stage = "sent" => c \in edits BY <1>4, <2>1
        <5> QED BY <5>1, <5>2, <5>3
      <4> QED BY <1>4, <4>1, <4>2
    <3> QED BY <3>1 DEF RemovedForGood, HasTheme
  <2>16. CreatesApart' BY <1>4, <2>1 DEF ThemeInv, CreatesApart
  <2>17. \A p \in Owners : HasTheme(p, chosen[p])' => HasTheme(p, chosen[p])
    BY <1>2, <2>10 DEF ThemeInv, CreatesNew
  <2>18. LoadsHold'
    <3>1. \A q \in fetches : q.by \in Owners BY DEF ThemeInv, ThemeTypes, ThemeLoads
    <3> QED BY <1>2, <2>17, <3>1 DEF ThemeInv, LoadsHold
  <2>19. ListHolds' BY <1>2, <2>17 DEF ThemeInv, ListHolds
  <2>20. LoadsPast' BY <1>2 DEF ThemeInv, LoadsPast
  <2> QED BY <2>8, <2>9, <2>12, <2>14, <2>15, <2>16, <2>18, <2>19, <2>20 DEF ThemeInv
<1> QED BY <1>3, <1>4 DEF ServeWrite, HasTheme

(* A write that arrives makes every load of this session an old one.       *)
LEMMA WriteArrivalKeepsThemes ==
    ASSUME ThemeInv, NEW e \in edits, WriteArrives(e)
    PROVE  ThemeInv'
<1> DEFINE list == AppliedTo(themes.list, e)
<1>1. /\ themes \in ThemeBooks /\ edits \subseteq ThemeEdits /\ e \in ThemeEdits
      /\ e.by \in Owners /\ e.theme \in AllThemes /\ e.op \in {"create", "update", "remove"}
      /\ chosen \in [Owners -> Nat] /\ e.theme[1] \in Nat
  BY DEF ThemeInv, ThemeTypes, ThemeEdits, AllThemes
<1>2. saved' = saved /\ fetches' = fetches /\ made' = made /\ edits' = edits \ {e} /\ e.stage = "done"
  BY DEF WriteArrives
<1>3. edits' \subseteq edits /\ edits' \subseteq ThemeEdits BY <1>1, <1>2
<1>4. RemovedForGood' /\ CreatesApart' /\ ThemesFinite'
  BY <1>2, <1>3 DEF ThemeInv, RemovedForGood, CreatesApart, ThemesFinite, HasTheme
<1>5. CASE themes' = themes /\ chosen' = chosen
  <2>1. ThemeTypes' BY <1>2, <1>3, <1>5 DEF ThemeInv, ThemeTypes
  <2>2. (IdsMade /\ CreatesNew)' BY <1>2, <1>3, <1>5 DEF ThemeInv, IdsMade, CreatesNew, HasTheme
  <2>3. (LoadsPast /\ LoadsHold /\ ListHolds)'
    BY <1>2, <1>5 DEF ThemeInv, LoadsPast, LoadsHold, ListHolds, HasTheme
  <2> QED BY <1>4, <2>1, <2>2, <2>3 DEF ThemeInv
<1>6. CASE /\ IsCurrentTheme(themes, e.by, e.generation)
           /\ themes' = [themes EXCEPT !.list = list, !.mutations = @ + 1]
           /\ chosen' = IF e.op = "create" THEN [chosen EXCEPT ![e.by] = e.theme[1]] ELSE chosen
  <2>1. themes.list \in Seq(AllThemes) BY <1>1 DEF ThemeBooks
  <2>2. /\ list \in Seq(AllThemes)
        /\ e.op = "create" => e.theme[1] \in Ids(list)
        /\ \A x \in Ids(themes.list) : e.op # "remove" \/ x # e.theme[1] => x \in Ids(list)
    BY <1>1, <2>1, AppliedHasTheRest
  <2> HIDE DEF list
  <2>3. /\ themes' \in ThemeBooks /\ themes'.profile = themes.profile
        /\ themes'.generation = themes.generation /\ themes'.mutations = themes.mutations + 1
        /\ themes'.loaded = themes.loaded /\ themes'.list = list
    <3>1. themes.mutations + 1 \in Nat BY <1>1 DEF ThemeBooks
    <3>2. themes' = [themes EXCEPT !.list = list, !.mutations = themes.mutations + 1] BY <1>6
    <3>3. themes' \in ThemeBooks BY <1>1, <2>2, <3>1, <3>2 DEF ThemeBooks
    <3> QED BY <1>1, <3>2, <3>3 DEF ThemeBooks
  <2>4. /\ chosen' \in [Owners -> Nat]
        /\ e.op # "create" => chosen' = chosen
        /\ \A p \in Owners : chosen'[p] = chosen[p] \/ (e.op = "create" /\ p = e.by /\ chosen'[p] = e.theme[1])
        /\ e.op = "create" => chosen'[e.by] = e.theme[1]
    <3>1. CASE e.op = "create" BY <1>1, <1>6, <3>1
    <3>2. CASE e.op # "create" BY <1>1, <1>6, <3>2
    <3> QED BY <3>1, <3>2
  <2>5. ThemeTypes' BY <1>2, <1>3, <2>3, <2>4 DEF ThemeInv, ThemeTypes
  <2>6. IdsMade'
    <3>1. \A p \in Owners : chosen'[p] <= made.themes BY <2>4 DEF ThemeInv, IdsMade
    <3> QED BY <1>2, <1>3, <3>1 DEF ThemeInv, IdsMade
  <2>7. CreatesNew'
    <3>1. ASSUME NEW c \in edits', c.op = "create"
          PROVE  chosen'[c.by] # c.theme[1] /\ (c.stage = "sent" => ~HasTheme(c.by, c.theme[1]))
      <4>1. c \in edits /\ c # e /\ c.by \in Owners BY <1>1, <1>2 DEF ThemeEdits
      <4>2. chosen[c.by] # c.theme[1] /\ (c.stage = "sent" => ~HasTheme(c.by, c.theme[1]))
        BY <3>1, <4>1 DEF ThemeInv, CreatesNew
      <4>3. ~(e.op = "create" /\ c.theme[1] = e.theme[1]) BY <3>1, <4>1 DEF ThemeInv, CreatesApart
      <4> QED BY <2>4, <4>1, <4>2, <4>3
    <3> QED BY <1>2, <3>1 DEF CreatesNew, HasTheme
  <2>8. themes.mutations \in Nat /\ themes.generation \in Nat BY <1>1 DEF ThemeBooks
  <2>9. \A q \in fetches : q.mutations \in Nat /\ q.mutations <= themes.mutations
                             /\ q.generation <= themes.generation
    BY DEF ThemeInv, ThemeTypes, ThemeLoads, LoadsPast
  <2>10. LoadsPast'
    <3>1. \A x \in Nat : x <= themes.mutations => x <= themes.mutations + 1 BY <2>8
    <3> QED BY <1>2, <2>3, <2>9, <3>1 DEF LoadsPast
  <2>11. LoadsHold'
    <3>1. \A x \in Nat : x <= themes.mutations => x # themes.mutations + 1 BY <2>8
    <3> QED BY <1>2, <2>3, <2>9, <3>1 DEF LoadsHold, FreshThemes
  <2>12. ListHolds'
    <3>1. ASSUME NEW p \in Owners, themes.loaded, themes.profile = p, HasTheme(p, chosen'[p])
          PROVE  chosen'[p] \in Ids(list)
      <4>1. p = e.by BY <1>6, <3>1 DEF IsCurrentTheme
      <4>2. CASE e.op = "create" BY <2>2, <2>4, <4>1, <4>2
      <4>3. CASE e.op # "create"
        <5>1. chosen'[p] = chosen[p] BY <2>4, <4>3
        <5>2. chosen[p] \in Ids(themes.list) BY <3>1, <5>1 DEF ThemeInv, ListHolds
        <5>3. e.op = "remove" => chosen[p] # e.theme[1]
          BY <1>2, <3>1, <4>1, <5>1 DEF ThemeInv, RemovedForGood
        <5> QED BY <2>2, <5>1, <5>2, <5>3
      <4> QED BY <4>2, <4>3
    <3> QED BY <1>2, <2>3, <3>1 DEF ListHolds, HasTheme
  <2> QED BY <1>4, <2>5, <2>6, <2>7, <2>10, <2>11, <2>12 DEF ThemeInv
<1> QED BY <1>5, <1>6 DEF WriteArrives

LEMMA DeletionKeepsThemes ==
    ASSUME ThemeInv, NEW p \in Owners, NEW t \in saved[p], DeletedElsewhere(p, t)
    PROVE  ThemeInv'
<1>1. saved \in [Owners -> SUBSET AllThemes] BY DEF ThemeInv, ThemeTypes
<1>2. /\ saved' = [saved EXCEPT ![p] = saved[p] \ {t}] /\ chosen' = chosen /\ themes' = themes
      /\ fetches' = fetches /\ edits' = edits /\ made' = made
  BY DEF DeletedElsewhere
<1>3. saved' \in [Owners -> SUBSET AllThemes] /\ \A o \in Owners : saved'[o] \subseteq saved[o]
  BY <1>1, <1>2
<1>4. ThemeTypes' BY <1>2, <1>3 DEF ThemeInv, ThemeTypes
<1>5. ThemesFinite' BY <1>2, <1>3, FS_Subset DEF ThemeInv, ThemesFinite
<1>6. \A o \in Owners : \A x : HasTheme(o, x)' => HasTheme(o, x) BY <1>3 DEF HasTheme
<1>7. \A e \in edits : e.by \in Owners BY DEF ThemeInv, ThemeTypes, ThemeEdits
<1>8. IdsMade' BY <1>2, <1>3 DEF ThemeInv, IdsMade
<1>9. CreatesNew' BY <1>2, <1>6, <1>7 DEF ThemeInv, CreatesNew
<1>10. RemovedForGood' BY <1>2, <1>6, <1>7 DEF ThemeInv, RemovedForGood
<1>11. (CreatesApart /\ LoadsPast)' BY <1>2 DEF ThemeInv, CreatesApart, LoadsPast
<1>12. LoadsHold'
  <2>1. \A q \in fetches : q.by \in Owners BY DEF ThemeInv, ThemeTypes, ThemeLoads
  <2> QED BY <1>2, <1>6, <2>1 DEF ThemeInv, LoadsHold
<1>13. ListHolds' BY <1>2, <1>6 DEF ThemeInv, ListHolds
<1> QED BY <1>4, <1>5, <1>8, <1>9, <1>10, <1>11, <1>12, <1>13 DEF ThemeInv

(* The default is no theme of the server's.                                *)
LEMMA RepairKeepsThemes ==
    ASSUME ThemeInv, RepairTheme
    PROVE  ThemeInv'
<1>1. /\ chosen \in [Owners -> Nat] /\ made.themes \in Nat
      /\ \A e \in edits : e.theme[1] # 0 /\ e.by \in Owners
      /\ \A p \in Owners : \A t \in saved[p] : t[1] # 0
  BY DEF ThemeInv, ThemeTypes, ThemeEdits, AllThemes
<1>2. /\ chosen' = [chosen EXCEPT ![themes.profile] = 0] /\ saved' = saved /\ themes' = themes
      /\ fetches' = fetches /\ edits' = edits /\ made' = made
  BY DEF RepairTheme
<1>3. chosen' \in [Owners -> Nat] /\ \A p \in Owners : chosen'[p] = chosen[p] \/ chosen'[p] = 0
  BY <1>1, <1>2
<1>4. ThemeTypes' BY <1>2, <1>3 DEF ThemeInv, ThemeTypes
<1>5. IdsMade' BY <1>1, <1>2, <1>3 DEF ThemeInv, IdsMade
<1>6. CreatesNew' BY <1>1, <1>2, <1>3 DEF ThemeInv, CreatesNew, HasTheme
<1>7. (ThemesFinite /\ RemovedForGood /\ CreatesApart /\ LoadsPast)'
  BY <1>2 DEF ThemeInv, ThemesFinite, RemovedForGood, CreatesApart, LoadsPast, HasTheme
<1>8. \A p \in Owners : HasTheme(p, chosen'[p]) => chosen'[p] = chosen[p]
  BY <1>1, <1>3 DEF HasTheme
<1>9. LoadsHold'
  <2>1. \A q \in fetches : q.by \in Owners BY DEF ThemeInv, ThemeTypes, ThemeLoads
  <2> QED BY <1>2, <1>8, <2>1 DEF ThemeInv, LoadsHold, HasTheme
<1>10. ListHolds' BY <1>2, <1>8 DEF ThemeInv, ListHolds, HasTheme
<1> QED BY <1>4, <1>5, <1>6, <1>7, <1>9, <1>10 DEF ThemeInv

LEMMA ThemesStart == ThemeInit => ThemeInv
<1> SUFFICES ASSUME ThemeInit PROVE ThemeInv OBVIOUS
<1>1. /\ saved = [p \in Owners |-> {<<1, 1>>}] /\ chosen \in [Owners -> {0, 1}] /\ themes = NoThemes
      /\ fetches = {} /\ edits = {} /\ made = [themes |-> 1, writes |-> 0, activations |-> 0]
  BY DEF ThemeInit
<1>2. themes \in ThemeBooks /\ themes.loaded = FALSE
  <2>1. <<>> \in Seq(AllThemes) OBVIOUS
  <2> QED BY <1>1, <2>1 DEF NoThemes, ThemeBooks
<1>3. ThemeTypes
  <2>1. <<1, 1>> \in AllThemes BY DEF AllThemes
  <2>2. saved \in [Owners -> SUBSET AllThemes] BY <1>1, <2>1
  <2> QED BY <1>1, <1>2, <2>2 DEF ThemeTypes
<1>4. ThemesFinite
  <2>1. IsFiniteSet({<<1, 1>>}) BY FS_Singleton
  <2> QED BY <1>1, <2>1 DEF ThemesFinite
<1>5. IdsMade BY <1>1 DEF IdsMade
<1>6. CreatesNew /\ RemovedForGood /\ CreatesApart /\ LoadsPast /\ LoadsHold
  BY <1>1 DEF CreatesNew, RemovedForGood, CreatesApart, LoadsPast, LoadsHold
<1>7. ListHolds BY <1>2 DEF ListHolds
<1> QED BY <1>3, <1>4, <1>5, <1>6, <1>7 DEF ThemeInv

LEMMA ThemeStep == ThemeInv /\ [ThemeNext]_themeVars => ThemeInv'
<1> SUFFICES ASSUME ThemeInv, [ThemeNext]_themeVars PROVE ThemeInv' OBVIOUS
<1> made.themes \in Nat BY DEF ThemeInv, ThemeTypes
<1>1. ASSUME NEW p \in Owners \cup {"none"}, ActivateThemes(p) PROVE ThemeInv'
  BY <1>1, ActivationKeepsThemes
<1>2. CASE LoadThemes BY <1>2, LoadingKeepsThemes
<1>3. CASE RepairTheme BY <1>3, RepairKeepsThemes
<1>4. ASSUME NEW q \in fetches, ServeThemes(q) \/ ThemesArrive(q) \/ ThemesFail(q) PROVE ThemeInv'
  BY <1>4, ServingKeepsThemes, ArrivalKeepsThemes
<1>5. ASSUME NEW v \in 1 .. MaxEdition, BeginWrite("create", <<made.themes + 1, v>>) PROVE ThemeInv'
  <2>1. <<made.themes + 1, v>> \in AllThemes
    <3>1. v \in Nat BY ThemeAssumption
    <3> QED BY <3>1 DEF AllThemes
  <2> QED BY <1>5, <2>1, BeginningKeepsThemes
<1>6. ASSUME NEW v \in 1 .. MaxEdition, NEW id \in 1 .. made.themes,
             BeginWrite("update", <<id, v>>) \/ BeginWrite("remove", <<id, v>>)
      PROVE  ThemeInv'
  <2>1. <<id, v>> \in AllThemes /\ <<id, v>>[1] <= made.themes
    <3>1. v \in Nat BY ThemeAssumption
    <3> QED BY <3>1 DEF AllThemes
  <2> QED BY <1>6, <2>1, BeginningKeepsThemes
<1>7. ASSUME NEW e \in edits, ServeWrite(e) \/ WriteArrives(e) PROVE ThemeInv'
  BY <1>7, ServedKeepsThemes, WriteArrivalKeepsThemes
<1>8. ASSUME NEW p \in Owners, NEW t \in saved[p], DeletedElsewhere(p, t) PROVE ThemeInv'
  BY <1>8, DeletionKeepsThemes
<1>9. CASE UNCHANGED themeVars
  BY <1>9 DEF themeVars, ThemeInv, ThemeTypes, ThemesFinite, IdsMade, CreatesNew, RemovedForGood,
              CreatesApart, LoadsPast, LoadsHold, ListHolds, HasTheme
<1> QED BY <1>1, <1>2, <1>3, <1>4, <1>5, <1>6, <1>7, <1>8, <1>9 DEF ThemeNext

(* The tab's list of themes (lib/customThemes.ts): a list that counts,     *)
(* shown or on its way, has the chosen theme whenever the server has it.   *)
THEOREM ThemesStay == ThemeSpec => []ThemeInv
BY ThemesStart, ThemeStep, PTL DEF ThemeSpec

(* App.tsx's resolver gives up a chosen theme only when the server no      *)
(* longer has it, for any number of profiles, themes and writes.           *)
THEOREM LiveThemeIsKept == ThemeSpec => LiveThemeKept
<1> DEFINE Keeps == \A p \in Owners :
                        chosen[p] # 0 /\ chosen'[p] = 0 => \A t \in saved[p] : t[1] # chosen[p]
<1>1. ASSUME ThemeInv, [ThemeNext]_themeVars PROVE [Keeps]_themeVars
  <2> SUFFICES ASSUME NEW p \in Owners, chosen[p] # 0, chosen'[p] = 0
               PROVE  \A t \in saved[p] : t[1] # chosen[p]
    OBVIOUS
  <2>1. /\ chosen \in [Owners -> Nat]
        /\ \A e \in edits : e.theme[1] # 0
    BY <1>1 DEF ThemeInv, ThemeTypes, ThemeEdits, AllThemes
  <2>2. chosen' # chosen OBVIOUS
  <2>3. CASE RepairTheme
    <3>1. p = themes.profile /\ themes.loaded /\ chosen[p] \notin Ids(themes.list)
      BY <2>1, <2>3 DEF RepairTheme
    <3> QED BY <1>1, <3>1 DEF ThemeInv, ListHolds, HasTheme
  <2>4. ASSUME NEW e \in edits, WriteArrives(e) PROVE FALSE
    <3>1. chosen' = [chosen EXCEPT ![e.by] = e.theme[1]] BY <2>2, <2>4 DEF WriteArrives
    <3> QED BY <2>1, <3>1
  <2> QED BY <1>1, <2>2, <2>3, <2>4
          DEF ThemeNext, themeVars, ActivateThemes, LoadThemes, ServeThemes, ThemesArrive, ThemesFail,
              BeginWrite, ServeWrite, DeletedElsewhere
<1> QED BY <1>1, ThemesStay, PTL DEF ThemeSpec, LiveThemeKept

-----------------------------------------------------------------------------
(* The tab's session.                                                      *)
Pages == [epoch : Nat, since : Nat,
          status : {"checking", "unavailable", "authenticated", "signed-out"},
          init : BOOLEAN, reprobe : BOOLEAN, armed : BOOLEAN, reachable : BOOLEAN,
          launch : BOOLEAN]
Calls == [stage : {"idle", "sent", "answered", "revoked", "recheck", "rechecked"},
          epoch : Nat, cookie : Nat,
          got : {"none", "ok", "authenticated", "anonymous", "unauthenticated", "granted",
                 "invalid_credentials", "removed", "error", "refused", "timeout"}]

Booting(p) == p.status \in {"checking", "unavailable"}
Running(k) == call[k].stage # "idle"

SessionTypes ==
    /\ granted \in Nat /\ honoured \subseteq 1 .. granted /\ jar \in 0 .. granted
    /\ page \in Pages /\ ~page.launch /\ call \in [Kinds -> Calls]

(* No call is of a later epoch, or of a login still to come.               *)
CallsPast == \A k \in Kinds : call[k].epoch <= page.epoch /\ call[k].cookie <= granted

(* Until the first probe has an answer, nobody is signed in and nothing    *)
(* else is sent; and there is no probe afterwards.                         *)
BootAlone ==
    /\ Booting(page) => page.since = 0 /\ ~Running("data") /\ ~Running("login")
                          /\ ~Running("logout") /\ ~Running("delete")
    /\ page.armed \/ page.init => Booting(page)
    /\ Running("probe") => page.init

AnswersFit ==
    \A k \in Kinds :
        /\ call[k].got = "unauthenticated" => k \in {"data", "logout", "delete"}
        /\ call[k].got = "granted" => k = "login" /\ call[k].cookie # 0

(* A request of this session carries its cookie, if the browser has it.    *)
CallsBelong ==
    \A k \in {"data", "delete"} :
        Running(k) /\ call[k].epoch = page.epoch /\ page.since # 0 /\ jar = page.since
            => call[k].cookie = jar

(* A session that an answer says is over is over.                          *)
OverIsOver ==
    \A k \in {"data", "delete"} :
        Running(k) /\ (call[k].got \in {"unauthenticated", "anonymous", "removed"} \/ call[k].stage = "revoked")
            => call[k].cookie \notin honoured

SessionInv ==
    /\ SessionTypes /\ CallsPast /\ BootAlone /\ AnswersFit /\ CallsBelong /\ OverIsOver

(* What NoLiveLoginDropped says of a step.                                 *)
LoginKept ==
    page.since # 0 /\ page'.since = 0 /\ jar = page.since
        => page.since \notin honoured \/ call["logout"].stage # "idle"

(* A report that leaves the session as it is, and the end of a session.    *)
GoesOn(r) ==
    /\ r \in Pages /\ r.epoch = page.epoch /\ r.since = page.since
    /\ Booting(r) <=> Booting(page)
    /\ r.armed \/ r.init \/ r.launch => Booting(r)
    /\ r.launch => r.init /\ ~page.init
    /\ page.init => r.init

SignsOut(r) ==
    /\ r \in Pages /\ r.since = 0 /\ ~Booting(r) /\ ~r.armed /\ ~r.init /\ ~r.launch
    /\ r.epoch = IF page.since # 0 THEN page.epoch + 1 ELSE page.epoch

LEMMA ReachesGoesOn ==
    ASSUME SessionInv
    PROVE  GoesOn(page) /\ GoesOn(ReportReachable(page)) /\ GoesOn(ReportUnreachable(page))
<1>1. page \in Pages /\ ~page.launch BY DEF SessionInv, SessionTypes
<1>2. page.armed \/ page.init => Booting(page) BY DEF SessionInv, BootAlone
<1>3. GoesOn(page) BY <1>1, <1>2 DEF GoesOn
<1>4. GoesOn(ReportUnreachable(page))
  <2> DEFINE r == ReportUnreachable(page)
  <2>1. /\ r \in Pages /\ r.epoch = page.epoch /\ r.since = page.since /\ r.status = page.status
        /\ r.armed = page.armed /\ r.init = page.init /\ r.launch = page.launch
    BY <1>1 DEF ReportUnreachable, Pages
  <2> SUFFICES GoesOn(r) OBVIOUS
  <2> HIDE DEF r
  <2> QED BY <1>1, <1>2, <2>1 DEF GoesOn, Booting
<1>5. GoesOn(ReportReachable(page))
  <2> DEFINE q == [page EXCEPT !.reachable = TRUE]
  <2>1. /\ q \in Pages /\ q.epoch = page.epoch /\ q.since = page.since /\ q.status = page.status
        /\ q.armed = page.armed /\ q.init = page.init /\ q.launch = page.launch
    BY <1>1 DEF Pages
  <2>2. ReportReachable(page) \in {page, q}
        \/ (page.armed /\ ReportReachable(page) = StartInit(q))
    BY DEF ReportReachable
  <2> HIDE DEF q
  <2>3. GoesOn(q) BY <1>1, <1>2, <2>1 DEF GoesOn, Booting
  <2>4. ASSUME page.armed PROVE GoesOn(StartInit(q))
    <3>1. Booting(page) BY <1>2, <2>4
    <3>2. CASE q.init
      <4> DEFINE r == [q EXCEPT !.reprobe = TRUE]
      <4>1. /\ r \in Pages /\ r.epoch = q.epoch /\ r.since = q.since /\ r.status = q.status
            /\ r.armed = q.armed /\ r.init = q.init /\ r.launch = q.launch
        BY <2>1 DEF Pages
      <4>2. StartInit(q) = r BY <3>2 DEF StartInit
      <4> HIDE DEF r
      <4>3. GoesOn(r) BY <1>1, <1>2, <2>1, <4>1 DEF GoesOn, Booting
      <4> QED BY <4>2, <4>3
    <3>3. CASE ~q.init
      <4> DEFINE r == [q EXCEPT !.init = TRUE, !.reprobe = FALSE, !.launch = TRUE, !.status = "checking"]
      <4>1. /\ r \in Pages /\ r.epoch = q.epoch /\ r.since = q.since /\ r.status = "checking"
            /\ r.armed = q.armed /\ r.init = TRUE /\ r.launch = TRUE
        BY <2>1 DEF Pages
      <4>2. q.status # "authenticated" BY <2>1, <3>1 DEF Booting
      <4>3. StartInit(q) = r BY <3>3, <4>2 DEF StartInit
      <4> HIDE DEF r
      <4>4. GoesOn(r) BY <2>1, <3>1, <3>3, <4>1 DEF GoesOn, Booting
      <4> QED BY <4>3, <4>4
    <3> QED BY <3>2, <3>3
  <2> QED BY <1>3, <2>2, <2>3, <2>4
<1> QED BY <1>3, <1>4, <1>5

(* The local teardown.                                                     *)
LEMMA ClearSignsOut ==
    ASSUME SessionInv, NEW r, GoesOn(r) \/ SignsOut(r), ~Booting(page)
    PROVE  SignsOut(ClearLocalSession(r))
<1> DEFINE n == IF r.since # 0 THEN r.epoch + 1 ELSE r.epoch
           q == [r EXCEPT !.armed = FALSE, !.status = "signed-out", !.since = 0, !.epoch = n]
<1>1. r \in Pages /\ page \in Pages BY DEF GoesOn, SignsOut, SessionInv, SessionTypes
<1>2. n \in Nat BY <1>1 DEF Pages
<1>3. n = IF page.since # 0 THEN page.epoch + 1 ELSE page.epoch
  BY <1>1 DEF GoesOn, SignsOut, Pages
<1>4. ClearLocalSession(r) = q BY DEF ClearLocalSession
<1>5. ~r.init /\ ~r.launch BY DEF GoesOn, SignsOut
<1> HIDE DEF n
<1>6. /\ q \in Pages /\ q.armed = FALSE /\ q.status = "signed-out" /\ q.since = 0 /\ q.epoch = n
      /\ q.init = r.init /\ q.launch = r.launch
  BY <1>1, <1>2 DEF Pages
<1> HIDE DEF q
<1> QED BY <1>3, <1>4, <1>5, <1>6 DEF SignsOut, Booting

(* What request() reports of an answer.                                    *)
LEMMA ReportedEither ==
    ASSUME SessionInv, NEW c
    PROVE  LET r == Reported(page, c)
           IN  \/ GoesOn(r)
               \/ c.got = "unauthenticated" /\ c.epoch = page.epoch /\ (~Booting(page) => SignsOut(r))
<1> DEFINE q == CASE c.got = "refused" -> ReportUnreachable(page)
                  [] c.got = "timeout" -> page
                  [] OTHER -> ReportReachable(page)
<1>1. GoesOn(q)
  <2>1. CASE c.got = "refused"
    <3>1. q = ReportUnreachable(page) BY <2>1
    <3> QED BY <3>1, ReachesGoesOn
  <2>2. CASE c.got = "timeout"
    <3>1. q = page BY <2>2
    <3> QED BY <3>1, ReachesGoesOn
  <2>3. CASE c.got # "refused" /\ c.got # "timeout"
    <3>1. q = ReportReachable(page) BY <2>3
    <3> QED BY <3>1, ReachesGoesOn
  <2> QED BY <2>1, <2>2, <2>3
<1>2. Reported(page, c) = IF c.got = "unauthenticated" THEN HandleSessionLost(q, c.epoch) ELSE q
  BY DEF Reported
<1> HIDE DEF q
<1>3. q.epoch = page.epoch BY <1>1 DEF GoesOn
<1> QED BY <1>1, <1>2, <1>3, ClearSignsOut DEF HandleSessionLost

(* The cookie after an answer.                                             *)
LEMMA CookieGoesOrStays ==
    ASSUME NEW c
    PROVE  CookieAfter(c) \in {0, jar} \/ (c.got = "granted" /\ CookieAfter(c) = c.cookie)
<1>1. CASE c.got \in {"unauthenticated", "anonymous"} /\ c.cookie # 0
  <2>1. c.got # "removed" /\ c.got # "granted" BY <1>1
  <2>2. CookieAfter(c) = 0 BY <1>1, <2>1, Zenon DEF CookieAfter
  <2> QED BY <2>2
<1>2. CASE c.got = "removed"
  <2>1. ~(c.got \in {"unauthenticated", "anonymous"} /\ c.cookie # 0) /\ c.got # "granted" BY <1>2
  <2>2. CookieAfter(c) = 0 BY <1>2, <2>1, Zenon DEF CookieAfter
  <2> QED BY <2>2
<1>3. CASE c.got = "granted"
  <2>1. ~(c.got \in {"unauthenticated", "anonymous"} /\ c.cookie # 0) /\ c.got # "removed" BY <1>3
  <2>2. CookieAfter(c) = c.cookie BY <1>3, <2>1, Zenon DEF CookieAfter
  <2> QED BY <1>3, <2>2
<1>4. CASE ~(c.got \in {"unauthenticated", "anonymous"} /\ c.cookie # 0) /\ c.got # "removed"
           /\ c.got # "granted"
  <2>1. CookieAfter(c) = jar BY <1>4, Zenon DEF CookieAfter
  <2> QED BY <2>1
<1> QED BY <1>1, <1>2, <1>3, <1>4

(* A call has an answer, or is given up; the tab has not heard of it.      *)
LEMMA AnswerKeepsSession ==
    ASSUME SessionInv, NEW k \in Kinds, NEW c \in Calls, Running(k), c.stage # "idle",
           page' = page, jar' = jar, granted' \in Nat, granted <= granted',
           honoured' \subseteq 1 .. granted', \A n \in honoured' : n \in honoured \/ n > granted,
           call' = [call EXCEPT ![k] = c],
           c.epoch = call[k].epoch, c.cookie <= granted', k # "login" => c.cookie = call[k].cookie,
           c.got = "unauthenticated" => k \in {"data", "logout", "delete"},
           c.got = "granted" => k = "login" /\ c.cookie # 0,
           (c.got \in {"unauthenticated", "anonymous", "removed"} \/ c.stage = "revoked")
               /\ k \in {"data", "delete"} => c.cookie \notin honoured'
    PROVE  SessionInv'
<1>1. /\ granted \in Nat /\ jar \in 0 .. granted /\ page \in Pages /\ call \in [Kinds -> Calls]
      /\ \A x \in Kinds : call[x] \in Calls /\ call[x].cookie \in Nat
  BY DEF SessionInv, SessionTypes, Calls
<1>2. /\ call' \in [Kinds -> Calls] /\ call'[k] = c
      /\ \A x \in Kinds : x # k => call'[x] = call[x]
  BY <1>1
<1>3. SessionTypes'
  <2>1. jar' \in 0 .. granted' BY <1>1
  <2> QED BY <1>1, <1>2, <2>1 DEF SessionInv, SessionTypes
<1>4. \A x \in Nat : x <= granted => x <= granted' BY <1>1
<1>5. CallsPast' BY <1>1, <1>2, <1>4 DEF SessionInv, CallsPast
<1>6. \A x \in Kinds : Running(x)' <=> Running(x) BY <1>2 DEF Running
<1>7. BootAlone'
  <2>1. "data" \in Kinds /\ "login" \in Kinds /\ "logout" \in Kinds /\ "delete" \in Kinds /\ "probe" \in Kinds
    BY DEF Kinds
  <2> QED BY <1>6, <2>1 DEF SessionInv, BootAlone, Booting
<1>8. AnswersFit' BY <1>2 DEF SessionInv, AnswersFit
<1>9. CallsBelong'
  <2>1. \A x \in {"data", "delete"} : /\ x \in Kinds /\ (Running(x)' <=> Running(x))
                                      /\ call'[x].epoch = call[x].epoch /\ call'[x].cookie = call[x].cookie
    <3>1. \A x \in {"data", "delete"} : x \in Kinds /\ x # "login" BY DEF Kinds
    <3> QED BY <1>2, <1>6, <3>1
  <2> QED BY <2>1 DEF SessionInv, CallsBelong
<1>10. OverIsOver'
  <2>1. ASSUME NEW x \in {"data", "delete"}, Running(x)',
               call'[x].got \in {"unauthenticated", "anonymous", "removed"} \/ call'[x].stage = "revoked"
        PROVE  call'[x].cookie \notin honoured'
    <3>1. x \in Kinds BY DEF Kinds
    <3>2. CASE x = k BY <1>2, <2>1, <3>2
    <3>3. CASE x # k
      <4>1. call[x].cookie \notin honoured BY <1>2, <1>6, <2>1, <3>1, <3>3 DEF SessionInv, OverIsOver
      <4>2. call[x].cookie \in Nat /\ call[x].cookie <= granted
        BY <1>1, <3>1 DEF SessionInv, CallsPast
      <4>3. ~(call[x].cookie > granted) BY <1>1, <4>2
      <4> QED BY <1>2, <3>1, <3>3, <4>1, <4>3
    <3> QED BY <3>2, <3>3
  <2> QED BY <2>1 DEF OverIsOver
<1> QED BY <1>3, <1>5, <1>7, <1>8, <1>9, <1>10 DEF SessionInv

(* An answer, field by field.                                              *)
LEMMA Answered ==
    ASSUME call \in [Kinds -> Calls], NEW k \in Kinds,
           NEW got \in {"ok", "authenticated", "anonymous", "unauthenticated", "granted",
                        "invalid_credentials", "removed", "error", "refused", "timeout"},
           Answer(k, got)
    PROVE  \E c \in Calls : /\ call' = [call EXCEPT ![k] = c]
                            /\ c.stage = "answered" /\ c.got = got
                            /\ c.epoch = call[k].epoch /\ c.cookie = call[k].cookie
<1> DEFINE c == [call[k] EXCEPT !.stage = "answered", !.got = got]
<1>1. call[k] \in Calls OBVIOUS
<1>2. call' = [call EXCEPT ![k] = c] BY DEF Answer
<1>3. c \in Calls /\ c.stage = "answered" /\ c.got = got /\ c.epoch = call[k].epoch /\ c.cookie = call[k].cookie
  BY <1>1 DEF Calls
<1> HIDE DEF c
<1> QED BY <1>2, <1>3

(* An answer that ends nothing.                                            *)
LEMMA PlainAnswerKeepsSession ==
    ASSUME SessionInv, NEW k \in Kinds, Running(k), NEW got, Answer(k, got),
           got \in {"ok", "authenticated", "invalid_credentials", "error", "refused", "timeout"}
             \/ (k \in {"probe", "logout"} /\ got \in {"anonymous", "removed"}),
           page' = page, jar' = jar, granted' = granted, honoured' \subseteq honoured
    PROVE  SessionInv'
<1>1. call \in [Kinds -> Calls] /\ granted \in Nat /\ honoured \subseteq 1 .. granted
  BY DEF SessionInv, SessionTypes
<1>2. got \in {"ok", "authenticated", "anonymous", "unauthenticated", "granted",
               "invalid_credentials", "removed", "error", "refused", "timeout"}
  OBVIOUS
<1>3. PICK c \in Calls : /\ call' = [call EXCEPT ![k] = c]
                         /\ c.stage = "answered" /\ c.got = got
                         /\ c.epoch = call[k].epoch /\ c.cookie = call[k].cookie
  BY <1>1, <1>2, Answered
<1>4. c.cookie <= granted BY <1>3 DEF SessionInv, CallsPast
<1>5. /\ c.stage # "idle" /\ c.stage # "revoked" /\ c.got # "unauthenticated" /\ c.got # "granted"
      /\ k \in {"data", "delete"} => c.got \notin {"anonymous", "removed"}
  BY <1>3
<1>6. granted' \in Nat /\ granted <= granted' /\ honoured' \subseteq 1 .. granted' /\ c.cookie <= granted'
  BY <1>1, <1>4
<1>7. \A n \in honoured' : n \in honoured \/ n > granted OBVIOUS
<1> QED BY <1>3, <1>5, <1>6, <1>7, AnswerKeepsSession

(* An answer that says that a session is over.                             *)
LEMMA EndAnswerKeepsSession ==
    ASSUME SessionInv, NEW k \in {"data", "delete"}, Running(k), NEW got, Answer(k, got),
           got \in {"unauthenticated", "anonymous", "removed"}, call[k].cookie \notin honoured,
           page' = page, jar' = jar, granted' = granted, honoured' = honoured
    PROVE  SessionInv'
<1>1. call \in [Kinds -> Calls] /\ granted \in Nat /\ honoured \subseteq 1 .. granted /\ k \in Kinds
  BY DEF SessionInv, SessionTypes, Kinds
<1>2. got \in {"ok", "authenticated", "anonymous", "unauthenticated", "granted",
               "invalid_credentials", "removed", "error", "refused", "timeout"}
  OBVIOUS
<1>3. PICK c \in Calls : /\ call' = [call EXCEPT ![k] = c]
                         /\ c.stage = "answered" /\ c.got = got
                         /\ c.epoch = call[k].epoch /\ c.cookie = call[k].cookie
  BY <1>1, <1>2, Answered
<1>4. c.cookie <= granted BY <1>1, <1>3 DEF SessionInv, CallsPast
<1>5. c.stage # "idle" /\ c.got # "granted" /\ c.cookie \notin honoured' BY <1>3
<1>6. granted' \in Nat /\ granted <= granted' /\ honoured' \subseteq 1 .. granted' /\ c.cookie <= granted'
  BY <1>1, <1>4
<1>7. \A n \in honoured' : n \in honoured \/ n > granted OBVIOUS
<1> QED BY <1>1, <1>3, <1>5, <1>6, <1>7, AnswerKeepsSession

(* The server answers.                                                     *)
LEMMA ServingKeepsSession ==
    ASSUME SessionInv, NEW k \in Kinds, Serve(k)
    PROVE  SessionInv'
<1>1. /\ call \in [Kinds -> Calls] /\ granted \in Nat /\ honoured \subseteq 1 .. granted
      /\ page' = page /\ jar' = jar
      /\ \A x \in Kinds : call[x] \in Calls /\ call[x].cookie <= granted
  BY DEF SessionInv, SessionTypes, CallsPast, Serve
<1>2. ASSUME k = "probe" PROVE SessionInv'
  <2>1. ServeProbe
    <3>1. k # "data" /\ k # "login" /\ k # "logout" /\ k # "delete" /\ k # "health" BY <1>2
    <3> QED BY <1>2, <3>1, Zenon DEF Serve
  <2>2. PICK got : got \in {"authenticated", "anonymous"} /\ Answer(k, got) BY <1>2, <2>1 DEF ServeProbe
  <2>3. Running(k) /\ honoured' = honoured /\ granted' = granted BY <1>2, <2>1 DEF ServeProbe, Running
  <2> QED BY <1>1, <1>2, <2>2, <2>3, PlainAnswerKeepsSession
<1>3. ASSUME k = "data" PROVE SessionInv'
  <2>1. ServeData
    <3>1. k # "probe" /\ k # "login" /\ k # "logout" /\ k # "delete" /\ k # "health" BY <1>3
    <3> QED BY <1>3, <3>1, Zenon DEF Serve
  <2>2. Running(k) /\ honoured' = honoured /\ granted' = granted BY <1>3, <2>1 DEF ServeData, Running
  <2>3. CASE Answer(k, "ok") BY <1>1, <1>3, <2>2, <2>3, PlainAnswerKeepsSession
  <2>4. CASE Answer(k, "unauthenticated") /\ call[k].cookie \notin honoured
    BY <1>1, <1>3, <2>2, <2>4, EndAnswerKeepsSession
  <2> QED BY <1>3, <2>1, <2>3, <2>4 DEF ServeData
<1>4. ASSUME k = "login" PROVE SessionInv'
  <2>1. ServeLogin
    <3>1. k # "probe" /\ k # "data" /\ k # "logout" /\ k # "delete" /\ k # "health" BY <1>4
    <3> QED BY <1>4, <3>1, Zenon DEF Serve
  <2>2. Running(k) BY <1>4, <2>1 DEF ServeLogin, Running
  <2>3. CASE Answer(k, "invalid_credentials") /\ honoured' = honoured /\ granted' = granted
    BY <1>1, <1>4, <2>2, <2>3, PlainAnswerKeepsSession
  <2>4. CASE /\ granted' = granted + 1 /\ honoured' = honoured \cup {granted + 1}
             /\ call' = [call EXCEPT !["login"] = [call["login"] EXCEPT !.stage = "answered", !.got = "granted",
                                                         !.cookie = granted + 1]]
    <3> DEFINE c == [call["login"] EXCEPT !.stage = "answered", !.got = "granted", !.cookie = granted + 1]
    <3>1. call' = [call EXCEPT ![k] = c] BY <1>4, <2>4
    <3>2. granted + 1 \in Nat /\ granted + 1 # 0 /\ granted + 1 > granted BY <1>1
    <3>3. c \in Calls /\ c.stage = "answered" /\ c.got = "granted" /\ c.cookie = granted + 1 /\ c.epoch = call[k].epoch
      BY <1>1, <1>4, <3>2 DEF Calls
    <3> HIDE DEF c
    <3>4. /\ granted' \in Nat /\ granted <= granted' /\ honoured' \subseteq 1 .. granted'
          /\ c.cookie <= granted' /\ \A n \in honoured' : n \in honoured \/ n > granted
      BY <1>1, <2>4, <3>2, <3>3
    <3>5. /\ c.stage # "idle" /\ c.got # "unauthenticated" /\ c.cookie # 0
          /\ k \notin {"data", "delete"}
      BY <1>4, <3>2, <3>3
    <3> QED BY <1>1, <1>4, <2>2, <3>1, <3>3, <3>4, <3>5, AnswerKeepsSession
  <2> QED BY <1>4, <2>1, <2>3, <2>4 DEF ServeLogin
<1>5. ASSUME k = "logout" PROVE SessionInv'
  <2>1. ServeLogout
    <3>1. k # "probe" /\ k # "login" /\ k # "data" /\ k # "delete" /\ k # "health" BY <1>5
    <3> QED BY <1>5, <3>1, Zenon DEF Serve
  <2>2. Running(k) /\ Answer(k, "removed") /\ honoured' \subseteq honoured /\ granted' = granted
    BY <1>5, <2>1 DEF ServeLogout, Running
  <2> QED BY <1>1, <1>5, <2>2, PlainAnswerKeepsSession
<1>6. ASSUME k = "delete" PROVE SessionInv'
  <2>1. RevokeForDelete \/ FinishDelete
    <3>1. k # "probe" /\ k # "login" /\ k # "logout" /\ k # "data" /\ k # "health" BY <1>6
    <3> QED BY <1>6, <3>1, Zenon DEF Serve
  <2>2. Running(k) /\ granted' = granted BY <1>6, <2>1 DEF RevokeForDelete, FinishDelete, Running
  <2>3. CASE RevokeForDelete
    <3>1. CASE Answer(k, "invalid_credentials") /\ honoured' = honoured
      BY <1>1, <1>6, <2>2, <3>1, PlainAnswerKeepsSession
    <3>2. CASE Answer(k, "unauthenticated") /\ call[k].cookie \notin honoured /\ honoured' = honoured
      BY <1>1, <1>6, <2>2, <3>2, EndAnswerKeepsSession
    <3>3. CASE /\ honoured' = {n \in honoured : Name[n] # NameOf(call[k].cookie)}
               /\ call' = [call EXCEPT ![k].stage = "revoked"]
      <4> DEFINE c == [call[k] EXCEPT !.stage = "revoked"]
      <4>1. call' = [call EXCEPT ![k] = c] BY <3>3
      <4>2. /\ c \in Calls /\ c.stage = "revoked" /\ c.got = call[k].got /\ c.cookie = call[k].cookie
            /\ c.epoch = call[k].epoch
        BY <1>1 DEF Calls
      <4> HIDE DEF c
      <4>3. c.cookie \notin honoured'
        <5>1. ~(0 \in honoured) BY <1>1
        <5>2. \A n \in honoured : NameOf(n) = Name[n] BY <5>1 DEF NameOf
        <5> QED BY <3>3, <4>2, <5>2
      <4>4. /\ granted' \in Nat /\ granted <= granted' /\ honoured' \subseteq 1 .. granted'
            /\ c.cookie <= granted' /\ \A n \in honoured' : n \in honoured \/ n > granted
        BY <1>1, <2>2, <3>3, <4>2
      <4>5. /\ c.got = "unauthenticated" => k \in {"data", "logout", "delete"}
            /\ c.got = "granted" => k = "login" /\ c.cookie # 0
        BY <4>2 DEF SessionInv, AnswersFit
      <4> QED BY <1>1, <2>2, <4>1, <4>2, <4>3, <4>4, <4>5, AnswerKeepsSession
    <3> QED BY <1>6, <2>3, <3>1, <3>2, <3>3 DEF RevokeForDelete
  <2>4. CASE FinishDelete
    <3>1. honoured' = honoured /\ call[k].stage = "revoked" BY <1>6, <2>4 DEF FinishDelete
    <3>2. PICK got \in {"removed", "error"} : Answer(k, got) BY <1>6, <2>4 DEF FinishDelete
    <3>3. CASE got = "error" BY <1>1, <1>6, <2>2, <3>1, <3>2, <3>3, PlainAnswerKeepsSession
    <3>4. CASE got = "removed"
      <4>1. call[k].cookie \notin honoured BY <1>6, <2>2, <3>1 DEF SessionInv, OverIsOver
      <4> QED BY <1>1, <1>6, <2>2, <3>1, <3>2, <3>4, <4>1, EndAnswerKeepsSession
    <3> QED BY <3>2, <3>3, <3>4
  <2> QED BY <2>1, <2>3, <2>4
<1>7. ASSUME k = "health" PROVE SessionInv'
  <2>1. ServeHealth
    <3>1. k # "probe" /\ k # "login" /\ k # "logout" /\ k # "delete" /\ k # "data" BY <1>7
    <3> QED BY <1>7, <3>1, Zenon DEF Serve
  <2>2. Running(k) /\ Answer(k, "ok") /\ honoured' = honoured /\ granted' = granted
    BY <1>7, <2>1 DEF ServeHealth, Running
  <2> QED BY <1>1, <2>2, PlainAnswerKeepsSession
<1> QED BY <1>2, <1>3, <1>4, <1>5, <1>6, <1>7 DEF Kinds

(* Nothing comes back, or the server's handler does nothing.               *)
LEMMA FailingKeepsSession ==
    ASSUME SessionInv, NEW k \in Kinds, Fail(k)
    PROVE  SessionInv'
<1>1. /\ page' = page /\ jar' = jar /\ granted' = granted /\ honoured' = honoured /\ Running(k)
      /\ Answer(k, "refused") \/ Answer(k, "timeout") \/ Answer(k, "error")
  BY DEF Fail, Running
<1> QED BY <1>1, PlainAnswerKeepsSession

(* The server's answer to what a failed deletion asks.                     *)
LEMMA RecheckedKeepsSession ==
    ASSUME SessionInv, ServeRecheck
    PROVE  SessionInv'
<1> DEFINE got == IF ~up THEN "refused"
                  ELSE IF call["delete"].cookie \in honoured THEN "authenticated" ELSE "anonymous"
           c == [call["delete"] EXCEPT !.stage = "rechecked", !.got = got]
<1>1. /\ call \in [Kinds -> Calls] /\ granted \in Nat /\ honoured \subseteq 1 .. granted
      /\ page' = page /\ jar' = jar /\ granted' = granted /\ honoured' = honoured
      /\ "delete" \in Kinds /\ call["delete"] \in Calls /\ call["delete"].cookie <= granted
  BY DEF SessionInv, SessionTypes, CallsPast, ServeRecheck, Kinds
<1>2. Running("delete") BY DEF ServeRecheck, Running
<1>3. call' = [call EXCEPT !["delete"].stage = "rechecked", !["delete"].got = got] BY DEF ServeRecheck
<1>4. got \in {"refused", "authenticated"} \/ (got = "anonymous" /\ call["delete"].cookie \notin honoured)
  OBVIOUS
<1> HIDE DEF got
<1>5. call' = [call EXCEPT !["delete"] = c] BY <1>1, <1>3
<1>6. /\ c \in Calls /\ c.stage = "rechecked" /\ c.got = got /\ c.cookie = call["delete"].cookie
      /\ c.epoch = call["delete"].epoch
  BY <1>1, <1>4 DEF Calls
<1> HIDE DEF c
<1>7. /\ c.stage # "idle" /\ c.stage # "revoked" /\ c.got # "unauthenticated" /\ c.got # "granted" /\ c.got # "removed"
      /\ c.got = "anonymous" => c.cookie \notin honoured'
  BY <1>1, <1>4, <1>6
<1>8. /\ granted' \in Nat /\ granted <= granted' /\ honoured' \subseteq 1 .. granted'
      /\ c.cookie <= granted' /\ \A n \in honoured' : n \in honoured \/ n > granted
  BY <1>1, <1>6
<1> QED BY <1>1, <1>2, <1>5, <1>6, <1>7, <1>8, AnswerKeepsSession

(* The server stops, starts or drops a session.                            *)
LEMMA ServerKeepsSession ==
    ASSUME SessionInv, ServerToggles \/ \E n \in 1 .. MaxLogins : ServerForgets(n)
    PROVE  SessionInv'
<1>1. /\ page' = page /\ jar' = jar /\ granted' = granted /\ call' = call
      /\ honoured' \subseteq honoured
  BY DEF ServerToggles, ServerForgets
<1>2. SessionTypes' BY <1>1 DEF SessionInv, SessionTypes
<1> QED BY <1>1, <1>2 DEF SessionInv, CallsPast, BootAlone, AnswersFit, CallsBelong, OverIsOver, Running, Booting

(* The tab sends.                                                          *)
LEMMA SendingKeepsSession ==
    ASSUME SessionInv, NEW k \in Kinds \ {"probe"}, Send(k),
           k = "health" \/ ~Booting(page),
           UNCHANGED <<up, honoured, granted, jar, page, flaky>>
    PROVE  SessionInv'
<1> DEFINE c == Sent(page, jar)
<1>1. /\ call \in [Kinds -> Calls] /\ granted \in Nat /\ honoured \subseteq 1 .. granted
      /\ page \in Pages /\ jar \in 0 .. granted /\ page.epoch \in Nat /\ jar \in Nat
  BY DEF SessionInv, SessionTypes, Pages
<1>2. /\ call' = [call EXCEPT ![k] = c] /\ page' = page /\ jar' = jar /\ granted' = granted
      /\ honoured' = honoured
  BY DEF Send
<1>3. /\ c \in Calls /\ c.stage = "sent" /\ c.got = "none" /\ c.epoch = page.epoch /\ c.cookie = jar
  BY <1>1 DEF Sent, Calls
<1> HIDE DEF c
<1>4. call' \in [Kinds -> Calls] /\ call'[k] = c /\ \A x \in Kinds : x # k => call'[x] = call[x]
  BY <1>1, <1>2, <1>3
<1>5. SessionTypes' BY <1>2, <1>4 DEF SessionInv, SessionTypes
<1>6. CallsPast' BY <1>1, <1>2, <1>3, <1>4 DEF SessionInv, CallsPast
<1>7. BootAlone'
  <2>1. "data" \in Kinds /\ "login" \in Kinds /\ "logout" \in Kinds /\ "delete" \in Kinds /\ "probe" \in Kinds
    BY DEF Kinds
  <2>2. Booting(page)' <=> Booting(page) BY <1>2 DEF Booting
  <2>3. CASE Booting(page)
    <3>1. k # "data" /\ k # "login" /\ k # "logout" /\ k # "delete" /\ k # "probe" BY <2>3
    <3> QED BY <1>2, <1>4, <2>1, <2>2, <2>3, <3>1 DEF SessionInv, BootAlone, Running
  <2>4. CASE ~Booting(page)
    BY <1>2, <1>4, <2>1, <2>2, <2>4 DEF SessionInv, BootAlone, Running
  <2> QED BY <2>3, <2>4
<1>8. AnswersFit' BY <1>3, <1>4 DEF SessionInv, AnswersFit
<1>9. \A x \in {"data", "delete"} : x \in Kinds BY DEF Kinds
<1>10. CallsBelong' BY <1>2, <1>3, <1>4, <1>9 DEF SessionInv, CallsBelong, Running
<1>11. OverIsOver'
  <2>1. c.got \notin {"unauthenticated", "anonymous", "removed"} /\ c.stage # "revoked" BY <1>3
  <2> QED BY <1>2, <1>4, <1>9, <2>1 DEF SessionInv, OverIsOver, Running
<1> QED BY <1>5, <1>6, <1>7, <1>8, <1>10, <1>11 DEF SessionInv

(* The tab has heard: the page's new state p, and what is sent or idle     *)
(* again.                                                                  *)
LEMMA TurnKeepsSession ==
    ASSUME SessionInv, NEW p \in Pages, NEW calls \in [Kinds -> Calls], Turn(p, calls),
           honoured' = honoured, granted' = granted, jar' \in 0 .. granted,
           page.epoch <= p.epoch,
           p.epoch = page.epoch => (p.since = page.since /\ jar' \in {0, jar}) \/ Booting(page),
           Booting(p) => Booting(page) /\ p.since = 0,
           p.armed \/ p.init \/ p.launch => Booting(p), p.launch => p.init,
           calls["probe"].stage # "idle" => p.init,
           \A k \in Kinds :
              \/ calls[k] = call[k]
              \/ calls[k] = Idle
              \/ /\ k = "delete" /\ Running(k) /\ calls[k].got = "none" /\ calls[k].stage = "recheck"
                 /\ calls[k].epoch = call[k].epoch /\ calls[k].cookie = jar'
    PROVE  SessionInv'
<1> DEFINE r == [p EXCEPT !.launch = FALSE]
           probe == Sent(p, jar')
<1>1. /\ granted \in Nat /\ honoured \subseteq 1 .. granted /\ page \in Pages /\ call \in [Kinds -> Calls]
      /\ jar \in Nat /\ jar' \in Nat /\ jar' <= granted /\ page.epoch \in Nat /\ p.epoch \in Nat
      /\ \A k \in Kinds : call[k].epoch \in Nat /\ call[k].epoch <= page.epoch /\ call[k].cookie <= granted
  BY DEF SessionInv, SessionTypes, CallsPast, Pages, Calls
<1>2. page' = r /\ call' = IF p.launch THEN [calls EXCEPT !["probe"] = probe] ELSE calls BY DEF Turn
<1>3. /\ r \in Pages /\ ~r.launch /\ r.epoch = p.epoch /\ r.since = p.since /\ r.status = p.status
      /\ r.init = p.init /\ r.armed = p.armed
  BY DEF Pages
<1>4. /\ probe \in Calls /\ probe.epoch = p.epoch /\ probe.cookie = jar' /\ probe.got = "none"
  BY <1>1 DEF Sent, Calls
<1> HIDE DEF r, probe
<1>5. call' \in [Kinds -> Calls] BY <1>2, <1>4
<1>6. /\ "data" \in Kinds /\ "login" \in Kinds /\ "logout" \in Kinds /\ "delete" \in Kinds /\ "probe" \in Kinds
      /\ \A k \in {"data", "login", "logout", "delete"} : k \in Kinds /\ k # "probe"
  BY DEF Kinds
<1>7. /\ \A k \in Kinds \ {"probe"} : call'[k] = calls[k]
      /\ call'["probe"] = IF p.launch THEN probe ELSE calls["probe"]
  BY <1>2, <1>6
<1>8. Idle.stage = "idle" /\ Idle.epoch = 0 /\ Idle.cookie = 0 /\ Idle.got = "none" BY DEF Idle
<1>9. SessionTypes' BY <1>1, <1>2, <1>3, <1>5 DEF SessionInv, SessionTypes
<1>10. CallsPast'
  <2>1. \A e \in Nat : e <= page.epoch => e <= p.epoch BY <1>1
  <2>2. \A k \in Kinds : calls[k].epoch <= p.epoch /\ calls[k].cookie <= granted
    <3>1. 0 <= p.epoch /\ 0 <= granted BY <1>1
    <3> QED BY <1>1, <1>8, <2>1, <3>1
  <2>3. \A k \in Kinds : call'[k].epoch <= p.epoch /\ call'[k].cookie <= granted
    <3>1. p.epoch <= p.epoch BY <1>1
    <3> QED BY <1>1, <1>4, <1>7, <2>2, <3>1
  <2> QED BY <1>2, <1>3, <2>3 DEF CallsPast
<1>11. \A k \in {"data", "login", "logout", "delete"} : call'[k].stage # "idle" => Running(k)
  BY <1>6, <1>7, <1>8 DEF Running
<1>12. BootAlone'
  <2>1. Booting(page)' <=> Booting(p) BY <1>2, <1>3 DEF Booting
  <2>2. Booting(p) => /\ page'.since = 0
                      /\ \A k \in {"data", "login", "logout", "delete"} : call'[k].stage = "idle"
    BY <1>2, <1>3, <1>11 DEF SessionInv, BootAlone
  <2>3. page'.armed \/ page'.init => Booting(p) BY <1>2, <1>3
  <2>4. call'["probe"].stage # "idle" => page'.init BY <1>2, <1>3, <1>7
  <2> QED BY <2>1, <2>2, <2>3, <2>4 DEF BootAlone, Running
<1>13. AnswersFit'
  <2>1. ASSUME NEW k \in Kinds
        PROVE  /\ call'[k].got = "unauthenticated" => k \in {"data", "logout", "delete"}
               /\ call'[k].got = "granted" => k = "login" /\ call'[k].cookie # 0
    <3>1. call'[k] = call[k] \/ call'[k].got = "none" BY <1>4, <1>7, <1>8
    <3> QED BY <3>1 DEF SessionInv, AnswersFit
  <2> QED BY <2>1 DEF AnswersFit
<1>14. CallsBelong'
  <2>1. ASSUME NEW k \in {"data", "delete"}, call'[k].stage # "idle", call'[k].epoch = p.epoch,
               p.since # 0, jar' = p.since
        PROVE  call'[k].cookie = jar'
    <3>1. CASE call'[k] = call[k]
      <4>1. k \in Kinds /\ Running(k) BY <1>6, <1>11, <2>1
      <4>2. p.epoch = page.epoch
        <5>1. p.epoch <= page.epoch BY <1>1, <2>1, <3>1, <4>1
        <5> QED BY <1>1, <5>1
      <4>3. ~Booting(page) BY <4>1 DEF SessionInv, BootAlone
      <4>4. p.since = page.since /\ jar' = jar BY <2>1, <4>2, <4>3
      <4> QED BY <2>1, <3>1, <4>1, <4>2, <4>4 DEF SessionInv, CallsBelong
    <3> QED BY <1>6, <1>7, <1>8, <2>1, <3>1
  <2> QED BY <1>2, <1>3, <2>1 DEF CallsBelong, Running
<1>15. OverIsOver'
  <2>1. ASSUME NEW k \in {"data", "delete"}, call'[k].stage # "idle",
               call'[k].got \in {"unauthenticated", "anonymous", "removed"} \/ call'[k].stage = "revoked"
        PROVE  call'[k].cookie \notin honoured
    <3>1. call'[k] = call[k] BY <1>6, <1>7, <1>8, <2>1
    <3> QED BY <1>11, <2>1, <3>1 DEF SessionInv, OverIsOver
  <2> QED BY <2>1 DEF OverIsOver, Running
<1> QED BY <1>9, <1>10, <1>12, <1>13, <1>14, <1>15 DEF SessionInv

LEMMA TryAgainKeepsSession ==
    ASSUME SessionInv, TryAgain
    PROVE  SessionInv' /\ LoginKept
<1>1. /\ granted \in Nat /\ page \in Pages /\ call \in [Kinds -> Calls] /\ jar \in 0 .. granted /\ page.epoch \in Nat
      /\ ~page.launch
  BY DEF SessionInv, SessionTypes, Pages
<1>2. /\ page.status = "unavailable" /\ jar' = jar /\ honoured' = honoured /\ granted' = granted
      /\ Turn(StartInit(page), call)
  BY DEF TryAgain
<1>3. /\ Booting(page) /\ page.since = 0
      /\ Running("probe") => page.init
  BY <1>2 DEF SessionInv, BootAlone, Booting
<1>4. PICK p : p = StartInit(page) OBVIOUS
<1>5. /\ p \in Pages /\ p.epoch = page.epoch /\ p.since = page.since /\ p.init /\ Booting(p)
  <2>1. CASE page.init
    <3> DEFINE r == [page EXCEPT !.reprobe = TRUE]
    <3>1. p = r BY <1>4, <2>1 DEF StartInit
    <3>2. r \in Pages /\ r.epoch = page.epoch /\ r.since = page.since /\ r.init = page.init /\ r.status = page.status
      BY <1>1 DEF Pages
    <3> HIDE DEF r
    <3> QED BY <1>3, <2>1, <3>1, <3>2 DEF Booting
  <2>2. CASE ~page.init
    <3> DEFINE r == [page EXCEPT !.init = TRUE, !.reprobe = FALSE, !.launch = TRUE, !.status = "checking"]
    <3>1. p = r BY <1>2, <1>4, <2>2 DEF StartInit
    <3>2. r \in Pages /\ r.epoch = page.epoch /\ r.since = page.since /\ r.init /\ r.status = "checking"
      BY <1>1 DEF Pages
    <3> HIDE DEF r
    <3> QED BY <3>1, <3>2 DEF Booting
  <2> QED BY <2>1, <2>2
<1>6. Turn(p, call) BY <1>2, <1>4
<1>7. page.epoch <= p.epoch BY <1>1, <1>5
<1>8. SessionInv' BY <1>1, <1>2, <1>3, <1>5, <1>6, <1>7, TurnKeepsSession
<1>9. LoginKept BY <1>3 DEF LoginKept
<1> QED BY <1>8, <1>9

(* The page's new state once a call's answer has been dealt with.          *)
LEMMA HeardKeepsSession ==
    ASSUME SessionInv, NEW k \in Kinds \ {"probe"}, Running(k), NEW p, GoesOn(p) \/ SignsOut(p),
           SignsOut(p) => ~Booting(page),
           NEW calls, Turn(p, calls), honoured' = honoured, granted' = granted,
           jar' = CookieAfter(call[k]), call[k].got # "granted",
           \/ calls = [call EXCEPT ![k] = Idle]
           \/ k = "delete" /\ calls = [call EXCEPT ![k] = [Sent(p, jar') EXCEPT
                                                  !.epoch = call[k].epoch, !.stage = "recheck"]]
    PROVE  SessionInv'
<1> DEFINE again == [Sent(p, jar') EXCEPT !.epoch = call[k].epoch, !.stage = "recheck"]
<1>1. /\ granted \in Nat /\ page \in Pages /\ call \in [Kinds -> Calls] /\ jar \in 0 .. granted
      /\ page.epoch \in Nat /\ page.since \in Nat /\ call[k].epoch \in Nat
  BY DEF SessionInv, SessionTypes, Pages, Calls
<1>2. jar' \in {0, jar} BY CookieGoesOrStays
<1>3. jar' \in 0 .. granted /\ jar' \in Nat BY <1>1, <1>2
<1>4. /\ p \in Pages /\ p.epoch \in Nat /\ page.epoch <= p.epoch
      /\ p.epoch = page.epoch => p.since = page.since
      /\ Booting(p) => Booting(page) /\ p.since = 0
      /\ p.armed \/ p.init \/ p.launch => Booting(p)
      /\ p.launch => p.init
  <2>1. CASE GoesOn(p)
    BY <1>1, <2>1 DEF GoesOn, SessionInv, BootAlone
  <2>2. CASE SignsOut(p) BY <1>1, <2>2 DEF SignsOut
  <2> QED BY <2>1, <2>2
<1>5. Idle \in Calls BY DEF Idle, Calls
<1>6. /\ again \in Calls /\ again.got = "none" /\ again.stage = "recheck" /\ again.epoch = call[k].epoch
      /\ again.cookie = jar'
  BY <1>1, <1>3, <1>4 DEF Sent, Calls
<1> HIDE DEF again
<1>7. /\ calls \in [Kinds -> Calls]
      /\ \A x \in Kinds : \/ calls[x] = call[x]
                          \/ calls[x] = Idle
                          \/ /\ x = "delete" /\ Running(x) /\ calls[x].got = "none" /\ calls[x].stage = "recheck"
                             /\ calls[x].epoch = call[x].epoch /\ calls[x].cookie = jar'
  <2>1. CASE calls = [call EXCEPT ![k] = Idle] BY <1>1, <1>5, <2>1
  <2>2. CASE k = "delete" /\ calls = [call EXCEPT ![k] = again] BY <1>1, <1>6, <2>2
  <2> QED BY <2>1, <2>2 DEF again
<1>8. calls["probe"].stage # "idle" => p.init
  <2>1. "probe" \in Kinds /\ calls["probe"] = call["probe"]
    BY <1>1 DEF Kinds
  <2>2. ASSUME Running("probe") PROVE p.init
    <3>1. page.init /\ Booting(page) BY <2>2 DEF SessionInv, BootAlone
    <3> QED BY <3>1 DEF GoesOn
  <2> QED BY <2>1, <2>2 DEF Running
<1> QED BY <1>2, <1>3, <1>4, <1>7, <1>8, TurnKeepsSession

(* What is sent to a tab that is signed in or out, and answered.           *)
LEMMA HeardBooted ==
    ASSUME SessionInv, NEW k \in {"data", "login", "logout", "delete"}, Running(k)
    PROVE  ~Booting(page) /\ k \in Kinds \ {"probe"}
BY DEF SessionInv, BootAlone, Kinds

(* An answer of this session that ends it comes when it is over.           *)
LEMMA EndComesAfter ==
    ASSUME SessionInv, NEW k \in {"data", "delete"}, Running(k), call[k].epoch = page.epoch,
           call[k].got \in {"unauthenticated", "anonymous", "removed"}
    PROVE  LoginKept
BY DEF SessionInv, CallsBelong, OverIsOver, LoginKept

LEMMA TurnedSince ==
    ASSUME NEW p, GoesOn(p) \/ SignsOut(p), NEW calls, Turn(p, calls)
    PROVE  page'.since = p.since
BY DEF GoesOn, SignsOut, Turn, Pages

LEMMA DataKeepsSession ==
    ASSUME SessionInv, ReceiveData
    PROVE  SessionInv' /\ LoginKept
<1> DEFINE c == call["data"]
           p == Reported(page, c)
<1>1. /\ Running("data") /\ jar' = CookieAfter(c) /\ Turn(p, [call EXCEPT !["data"] = Idle])
      /\ honoured' = honoured /\ granted' = granted
  BY DEF ReceiveData, Arrived, Running, Done
<1>2. ~Booting(page) /\ "data" \in Kinds \ {"probe"} BY <1>1, HeardBooted
<1>3. GoesOn(p) \/ (SignsOut(p) /\ c.got = "unauthenticated" /\ c.epoch = page.epoch)
  BY <1>2, ReportedEither
<1>4. c.got # "granted" BY <1>2 DEF SessionInv, AnswersFit
<1> HIDE DEF p
<1>5. SessionInv' BY <1>1, <1>2, <1>3, <1>4, HeardKeepsSession
<1>6. LoginKept
  <2>1. CASE GoesOn(p)
    <3>1. page'.since = page.since BY <1>1, <2>1, TurnedSince DEF GoesOn
    <3> QED BY <3>1 DEF LoginKept
  <2>2. CASE c.got = "unauthenticated" /\ c.epoch = page.epoch BY <1>1, <2>2, EndComesAfter
  <2> QED BY <1>3, <2>1, <2>2
<1> QED BY <1>5, <1>6

LEMMA HealthKeepsSession ==
    ASSUME SessionInv, ReceiveHealth
    PROVE  SessionInv' /\ LoginKept
<1> DEFINE c == call["health"]
           p == Reported(page, c)
<1>1. /\ Running("health") /\ jar' = jar /\ Turn(p, [call EXCEPT !["health"] = Idle])
      /\ honoured' = honoured /\ granted' = granted
  BY DEF ReceiveHealth, Arrived, Running, Done
<1>2. /\ granted \in Nat /\ page \in Pages /\ call \in [Kinds -> Calls] /\ jar \in 0 .. granted /\ page.epoch \in Nat
      /\ "health" \in Kinds /\ "probe" \in Kinds
  BY DEF SessionInv, SessionTypes, Pages, Kinds
<1>3. GoesOn(p)
  <2>1. c.got # "unauthenticated" BY <1>2 DEF SessionInv, AnswersFit
  <2> QED BY <2>1, ReportedEither
<1> HIDE DEF p
<1>4. /\ p \in Pages /\ p.epoch = page.epoch /\ p.since = page.since
      /\ Booting(p) => Booting(page) /\ p.since = 0
      /\ p.armed \/ p.init \/ p.launch => Booting(p)
      /\ p.launch => p.init
    BY <1>3 DEF GoesOn, SessionInv, BootAlone
<1>5. Idle \in Calls BY DEF Idle, Calls
<1> DEFINE calls == [call EXCEPT !["health"] = Idle]
<1>6. calls \in [Kinds -> Calls] /\ \A x \in Kinds : calls[x] \in {call[x], Idle} BY <1>2, <1>5
<1>7. calls["probe"].stage # "idle" => p.init
  <2>1. calls["probe"] = call["probe"] BY <1>2
  <2>2. ASSUME Running("probe") PROVE p.init
    <3>1. page.init /\ Booting(page) BY <2>2 DEF SessionInv, BootAlone
    <3> QED BY <1>3, <3>1 DEF GoesOn
  <2> QED BY <2>1, <2>2 DEF Running
<1> HIDE DEF calls
<1>8. Turn(p, calls) BY <1>1 DEF calls
<1>9. page.epoch <= p.epoch BY <1>2, <1>4
<1>10. SessionInv' BY <1>1, <1>2, <1>4, <1>6, <1>7, <1>8, <1>9, TurnKeepsSession
<1>11. LoginKept
  <2>1. page'.since = page.since BY <1>3, <1>4, <1>8, TurnedSince
  <2> QED BY <2>1 DEF LoginKept
<1> QED BY <1>10, <1>11

LEMMA LogoutKeepsSession ==
    ASSUME SessionInv, ReceiveLogout
    PROVE  SessionInv' /\ LoginKept
<1> DEFINE c == call["logout"]
           q == Reported(page, c)
           p == ClearLocalSession(q)
<1>1. /\ Running("logout") /\ jar' = CookieAfter(c) /\ Turn(p, [call EXCEPT !["logout"] = Idle])
      /\ honoured' = honoured /\ granted' = granted
  BY DEF ReceiveLogout, Arrived, Running, Done
<1>2. ~Booting(page) /\ "logout" \in Kinds \ {"probe"} BY <1>1, HeardBooted
<1>3. GoesOn(q) \/ SignsOut(q) BY <1>2, ReportedEither
<1> HIDE DEF q
<1>4. SignsOut(p) BY <1>2, <1>3, ClearSignsOut
<1>5. c.got # "granted" BY <1>2 DEF SessionInv, AnswersFit
<1> HIDE DEF p
<1>6. SessionInv' BY <1>1, <1>2, <1>4, <1>5, HeardKeepsSession
<1>7. LoginKept BY <1>1 DEF LoginKept, Running
<1> QED BY <1>6, <1>7

LEMMA LoginKeepsSession ==
    ASSUME SessionInv, ReceiveLogin
    PROVE  SessionInv' /\ LoginKept
<1> DEFINE c == call["login"]
           q == Reported(page, c)
           p == IF c.got = "granted" THEN LoggedIn(q, c.cookie) ELSE q
           calls == [call EXCEPT !["login"] = Idle]
<1>1. /\ Running("login") /\ jar' = CookieAfter(c) /\ Turn(p, calls)
      /\ honoured' = honoured /\ granted' = granted
  BY DEF ReceiveLogin, Arrived, Running, Done
<1>2. ~Booting(page) /\ "login" \in Kinds \ {"probe"} BY <1>1, HeardBooted
<1>3. GoesOn(q)
  <2>1. c.got # "unauthenticated" BY <1>2 DEF SessionInv, AnswersFit
  <2> QED BY <2>1, ReportedEither
<1>4. CASE c.got # "granted"
  <2>1. p = q BY <1>4
  <2> HIDE DEF p, q
  <2>2. SessionInv' BY <1>1, <1>2, <1>3, <1>4, <2>1, HeardKeepsSession
  <2>3. page'.since = page.since BY <1>1, <1>3, <2>1, TurnedSince DEF GoesOn
  <2> QED BY <2>2, <2>3 DEF LoginKept
<1>5. CASE c.got = "granted"
  <2>1. /\ granted \in Nat /\ page \in Pages /\ call \in [Kinds -> Calls] /\ jar \in 0 .. granted /\ page.epoch \in Nat
        /\ c \in Calls /\ c.cookie \in Nat /\ c.cookie <= granted /\ c.cookie # 0 /\ "probe" \in Kinds
    BY <1>2, <1>5 DEF SessionInv, SessionTypes, CallsPast, AnswersFit, Pages, Calls, Kinds
  <2> DEFINE r == [q EXCEPT !.armed = FALSE, !.epoch = q.epoch + 1, !.since = c.cookie, !.status = "authenticated"]
  <2>2. p = r BY <1>5 DEF LoggedIn
  <2>3. jar' = c.cookie
    <3>1. ~(c.got \in {"unauthenticated", "anonymous"} /\ c.cookie # 0) /\ c.got # "removed" BY <1>5
    <3>2. CookieAfter(c) = c.cookie BY <1>5, <3>1, Zenon DEF CookieAfter
    <3> QED BY <1>1, <3>2
  <2>4. q \in Pages /\ q.epoch = page.epoch /\ ~q.init /\ ~q.launch BY <1>2, <1>3 DEF GoesOn
  <2> HIDE DEF q
  <2>5. /\ r \in Pages /\ ~r.armed /\ r.epoch = page.epoch + 1 /\ r.since = c.cookie
        /\ r.status = "authenticated" /\ ~r.init /\ ~r.launch
    <3>1. q.epoch + 1 \in Nat BY <2>4 DEF Pages
    <3>2. r \in Pages BY <2>1, <2>4, <3>1 DEF Pages
    <3> QED BY <2>1, <2>4, <3>1, <3>2 DEF Pages
  <2> HIDE DEF r, p
  <2>6. page.epoch <= r.epoch /\ r.epoch # page.epoch /\ ~Booting(r) BY <2>1, <2>5 DEF Booting
  <2>7. Idle \in Calls BY DEF Idle, Calls
  <2>8. calls \in [Kinds -> Calls] /\ \A x \in Kinds : calls[x] \in {call[x], Idle} BY <2>1, <2>7
  <2>9. calls["probe"].stage = "idle"
    <3>1. calls["probe"] = call["probe"] BY <2>1
    <3>2. ~Running("probe") BY <1>2 DEF SessionInv, BootAlone
    <3> QED BY <3>1, <3>2 DEF Running
  <2> HIDE DEF calls
  <2>10. jar' \in 0 .. granted BY <2>1, <2>3
  <2>11. Turn(r, calls) BY <1>1, <2>2
  <2>12. SessionInv' BY <1>1, <2>5, <2>6, <2>8, <2>9, <2>10, <2>11, TurnKeepsSession
  <2>13. page'.since = c.cookie BY <2>5, <2>11 DEF Turn, Pages
  <2> QED BY <2>1, <2>12, <2>13 DEF LoginKept
<1> QED BY <1>4, <1>5

LEMMA DeleteEndedEither ==
    ASSUME SessionInv, ~Booting(page), NEW p, GoesOn(p) \/ SignsOut(p), NEW e
    PROVE  LET r == DeleteEnded(p, e)
           IN  r = p \/ (SignsOut(r) /\ e = p.epoch)
BY ClearSignsOut DEF DeleteEnded

LEMMA DeleteKeepsSession ==
    ASSUME SessionInv, ReceiveDelete \/ ReceiveRecheck
    PROVE  SessionInv' /\ LoginKept
<1> DEFINE c == call["delete"]
           q == Reported(page, c)
           ended == DeleteEnded(q, c.epoch)
           idle == [call EXCEPT !["delete"] = Idle]
           again == [call EXCEPT !["delete"] = [Sent(q, jar') EXCEPT !.epoch = c.epoch, !.stage = "recheck"]]
<1>1. /\ Running("delete") /\ jar' = CookieAfter(c) /\ honoured' = honoured /\ granted' = granted
      /\ \/ Turn(ended, idle) /\ c.got \in {"removed", "anonymous"}
         \/ Turn(q, idle)
         \/ Turn(q, again)
  BY DEF ReceiveDelete, ReceiveRecheck, Arrived, Running, Done
<1>2. ~Booting(page) /\ "delete" \in Kinds \ {"probe"} BY <1>1, HeardBooted
<1>3. GoesOn(q) \/ (SignsOut(q) /\ c.got = "unauthenticated" /\ c.epoch = page.epoch)
  BY <1>2, ReportedEither
<1>4. c.got # "granted" BY <1>2 DEF SessionInv, AnswersFit
<1>5. ended = q \/ (SignsOut(ended) /\ c.epoch = q.epoch) BY <1>2, <1>3, DeleteEndedEither
<1> HIDE DEF q, ended
<1>6. ASSUME NEW calls \in {idle, again}, Turn(q, calls) PROVE SessionInv' /\ LoginKept
  <2>1. SessionInv' BY <1>1, <1>2, <1>3, <1>4, <1>6, HeardKeepsSession
  <2>2. CASE GoesOn(q)
    <3>1. page'.since = page.since BY <1>6, <2>2, TurnedSince DEF GoesOn
    <3> QED BY <2>1, <3>1 DEF LoginKept
  <2>3. CASE c.got = "unauthenticated" /\ c.epoch = page.epoch
    <3>1. LoginKept BY <1>1, <2>3, EndComesAfter
    <3> QED BY <2>1, <3>1
  <2> QED BY <1>3, <2>2, <2>3
<1>7. CASE Turn(ended, idle) /\ c.got \in {"removed", "anonymous"} /\ SignsOut(ended) /\ c.epoch = q.epoch
  <2>1. c.epoch = page.epoch BY <1>3, <1>7 DEF GoesOn
  <2>2. SessionInv' BY <1>1, <1>2, <1>4, <1>7, HeardKeepsSession
  <2>3. LoginKept BY <1>1, <1>7, <2>1, EndComesAfter
  <2> QED BY <2>2, <2>3
<1> QED BY <1>1, <1>5, <1>6, <1>7

(* The page once init()'s probe has ended.                                 *)
LEMMA ProbedEither ==
    ASSUME SessionInv, NEW c \in Calls, Booting(page), NEW r, GoesOn(r), page.init
    PROVE  LET p == Probed(r, c)
           IN  /\ p \in Pages /\ page.epoch <= p.epoch
               /\ Booting(p) => p.since = 0
               /\ p.armed \/ p.init \/ p.launch => Booting(p)
               /\ p.launch => p.init
<1>1. /\ r \in Pages /\ r.epoch = page.epoch /\ r.since = 0 /\ ~r.launch /\ r.epoch \in Nat /\ page.epoch \in Nat
      /\ c.cookie \in Nat
  BY DEF GoesOn, SessionInv, BootAlone, Pages, Calls
<1> DEFINE p == Probed(r, c)
<1>2. ASSUME NEW q \in Pages, page.epoch <= q.epoch, ~q.armed, ~q.launch, ~Booting(q), p = AfterProbe(q)
      PROVE  /\ p \in Pages /\ page.epoch <= p.epoch /\ ~Booting(p) /\ ~p.armed /\ ~p.init /\ ~p.launch
  <2> DEFINE s == [q EXCEPT !.init = FALSE]
  <2>1. q.status # "unavailable" BY <1>2 DEF Booting
  <2>2. p = s BY <1>2, <2>1 DEF AfterProbe
  <2>3. /\ s \in Pages /\ s.epoch = q.epoch /\ s.status = q.status /\ ~s.armed /\ ~s.init /\ ~s.launch
    BY <1>2 DEF Pages
  <2> HIDE DEF s, p
  <2> QED BY <1>2, <2>2, <2>3 DEF Booting
<1>3. CASE c.got = "authenticated"
  <2> DEFINE same == NameOf(c.cookie) = NameOf(r.since)
             n == IF same THEN r.epoch ELSE r.epoch + 1
             q == [r EXCEPT !.armed = FALSE, !.status = "authenticated", !.since = c.cookie, !.epoch = n]
  <2>1. p = AfterProbe(q)
    <3>1. c.got # "anonymous" BY <1>3
    <3> QED BY <1>3, <3>1, Zenon DEF Probed
  <2>2. n \in Nat /\ page.epoch <= n BY <1>1
  <2> HIDE DEF n
  <2>3. q \in Pages /\ q.epoch = n /\ ~q.armed /\ ~q.launch /\ q.status = "authenticated"
    <3>1. q \in Pages BY <1>1, <2>2 DEF Pages
    <3> QED BY <1>1, <2>2, <3>1 DEF Pages
  <2> HIDE DEF q, p
  <2>4. ~Booting(q) BY <2>3 DEF Booting
  <2> SUFFICES /\ p \in Pages /\ page.epoch <= p.epoch
               /\ ~Booting(p) /\ ~p.armed /\ ~p.init /\ ~p.launch
    BY DEF p
  <2> QED BY <1>2, <2>1, <2>2, <2>3, <2>4
<1>4. CASE c.got = "anonymous"
  <2> DEFINE q == [r EXCEPT !.armed = FALSE, !.status = "signed-out", !.since = 0, !.epoch = r.epoch]
  <2>1. p = AfterProbe(q)
    <3>1. c.got # "authenticated" BY <1>4
    <3>2. p = AfterProbe(ClearLocalSession(r)) BY <1>4, <3>1, Zenon DEF Probed
    <3>3. ClearLocalSession(r) = q BY <1>1 DEF ClearLocalSession
    <3> QED BY <3>2, <3>3
  <2>2. q \in Pages /\ q.epoch = r.epoch /\ ~q.armed /\ ~q.launch /\ q.status = "signed-out"
    BY <1>1 DEF Pages
  <2> HIDE DEF q, p
  <2>3. ~Booting(q) BY <2>2 DEF Booting
  <2>4. page.epoch <= q.epoch BY <1>1, <2>2
  <2> SUFFICES /\ p \in Pages /\ page.epoch <= p.epoch
               /\ ~Booting(p) /\ ~p.armed /\ ~p.init /\ ~p.launch
    BY DEF p
  <2> QED BY <1>2, <2>1, <2>2, <2>3, <2>4
<1>5. CASE c.got # "authenticated" /\ c.got # "anonymous"
  <2> DEFINE q == [r EXCEPT !.status = "unavailable", !.armed = TRUE]
             again == [q EXCEPT !.reprobe = FALSE, !.launch = TRUE, !.status = "checking"]
             rest == [q EXCEPT !.init = FALSE]
  <2>1. p = AfterProbe(q) BY <1>5, Zenon DEF Probed
  <2>2. /\ q \in Pages /\ q.epoch = r.epoch /\ q.since = 0 /\ q.status = "unavailable" /\ ~q.launch
        /\ q.init
    BY <1>1 DEF Pages, GoesOn
  <2>3. AfterProbe(q) \in {again, rest} BY DEF AfterProbe
  <2> HIDE DEF q
  <2>4. /\ again \in Pages /\ again.epoch = q.epoch /\ again.since = q.since /\ again.status = "checking"
        /\ again.init
    BY <2>2 DEF Pages
  <2>5. /\ rest \in Pages /\ rest.epoch = q.epoch /\ rest.since = q.since /\ rest.status = "unavailable"
        /\ ~rest.launch
    BY <2>2 DEF Pages
  <2> HIDE DEF again, rest, p
  <2>6. page.epoch <= page.epoch BY <1>1
  <2>7. CASE p = again
    <3>1. Booting(p) BY <2>4, <2>7 DEF Booting
    <3> QED BY <1>1, <2>2, <2>4, <2>6, <2>7, <3>1 DEF p
  <2>8. CASE p = rest
    <3>1. Booting(p) BY <2>5, <2>8 DEF Booting
    <3> QED BY <1>1, <2>2, <2>5, <2>6, <2>8, <3>1 DEF p
  <2> QED BY <2>1, <2>3, <2>7, <2>8
<1> QED BY <1>3, <1>4, <1>5

LEMMA ProbeKeepsSession ==
    ASSUME SessionInv, ReceiveProbe
    PROVE  SessionInv' /\ LoginKept
<1> DEFINE c == call["probe"]
           r == Reported(page, c)
           p == Probed(r, c)
           calls == [call EXCEPT !["probe"] = Idle]
<1>1. /\ Running("probe") /\ jar' = CookieAfter(c) /\ Turn(p, calls)
      /\ honoured' = honoured /\ granted' = granted
  BY DEF ReceiveProbe, Arrived, Running, Done
<1>2. /\ granted \in Nat /\ page \in Pages /\ call \in [Kinds -> Calls] /\ jar \in 0 .. granted
      /\ c \in Calls /\ "probe" \in Kinds
  BY DEF SessionInv, SessionTypes, Kinds
<1>3. Booting(page) /\ page.init /\ page.since = 0 BY <1>1 DEF SessionInv, BootAlone
<1>4. c.got # "unauthenticated" /\ c.got # "granted" BY <1>2 DEF SessionInv, AnswersFit
<1>5. GoesOn(r) BY <1>4, ReportedEither
<1> HIDE DEF r
<1>6. /\ p \in Pages /\ page.epoch <= p.epoch
      /\ Booting(p) => p.since = 0
      /\ p.armed \/ p.init \/ p.launch => Booting(p)
      /\ p.launch => p.init
  BY <1>2, <1>3, <1>5, ProbedEither
<1> HIDE DEF p
<1>7. Idle \in Calls /\ Idle.stage = "idle" BY DEF Idle, Calls
<1>8. calls \in [Kinds -> Calls] /\ \A x \in Kinds : calls[x] \in {call[x], Idle} BY <1>2, <1>7
<1>9. calls["probe"].stage = "idle" BY <1>2, <1>7
<1> HIDE DEF calls
<1>10. jar' \in 0 .. granted
  <2>1. 0 \in 0 .. granted BY <1>2
  <2> QED BY <1>1, <1>2, <1>4, <2>1, CookieGoesOrStays
<1>11. SessionInv' BY <1>1, <1>3, <1>6, <1>8, <1>9, <1>10, TurnKeepsSession
<1>12. LoginKept BY <1>3 DEF LoginKept
<1> QED BY <1>11, <1>12

LEMMA HearingKeepsSession ==
    ASSUME SessionInv, NEW k \in Kinds, Receive(k)
    PROVE  SessionInv' /\ LoginKept
<1>1. ASSUME k = "probe" PROVE ReceiveProbe
  <2>1. k # "data" /\ k # "login" /\ k # "logout" /\ k # "delete" /\ k # "health" BY <1>1
  <2> QED BY <1>1, <2>1, Zenon DEF Receive
<1>2. ASSUME k = "data" PROVE ReceiveData
  <2>1. k # "probe" /\ k # "login" /\ k # "logout" /\ k # "delete" /\ k # "health" BY <1>2
  <2> QED BY <1>2, <2>1, Zenon DEF Receive
<1>3. ASSUME k = "login" PROVE ReceiveLogin
  <2>1. k # "probe" /\ k # "data" /\ k # "logout" /\ k # "delete" /\ k # "health" BY <1>3
  <2> QED BY <1>3, <2>1, Zenon DEF Receive
<1>4. ASSUME k = "logout" PROVE ReceiveLogout
  <2>1. k # "probe" /\ k # "data" /\ k # "login" /\ k # "delete" /\ k # "health" BY <1>4
  <2> QED BY <1>4, <2>1, Zenon DEF Receive
<1>5. ASSUME k = "delete" PROVE ReceiveDelete \/ ReceiveRecheck
  <2>1. k # "probe" /\ k # "data" /\ k # "login" /\ k # "logout" /\ k # "health" BY <1>5
  <2> QED BY <1>5, <2>1, Zenon DEF Receive
<1>6. ASSUME k = "health" PROVE ReceiveHealth
  <2>1. k # "probe" /\ k # "data" /\ k # "login" /\ k # "logout" /\ k # "delete" BY <1>6
  <2> QED BY <1>6, <2>1, Zenon DEF Receive
<1> QED
  BY <1>1, <1>2, <1>3, <1>4, <1>5, <1>6, ProbeKeepsSession, DataKeepsSession, LoginKeepsSession,
     LogoutKeepsSession, DeleteKeepsSession, HealthKeepsSession DEF Kinds

LEMMA SessionStarts == SessionInit => SessionInv
<1> SUFFICES ASSUME SessionInit PROVE SessionInv OBVIOUS
<1>1. /\ granted \in {0, 1} /\ jar = granted /\ honoured \subseteq 1 .. granted /\ page = FreshPage
      /\ call = [k \in Kinds |-> IF k = "probe" THEN Sent(FreshPage, jar) ELSE Idle]
  BY DEF SessionInit
<1> DEFINE c == Sent(FreshPage, jar)
<1>2. FreshPage \in Pages /\ ~FreshPage.launch /\ ~FreshPage.armed /\ FreshPage.init /\ FreshPage.since = 0
      /\ FreshPage.epoch = 0 /\ FreshPage.status = "checking"
  BY DEF FreshPage, Pages
<1>3. jar \in Nat /\ jar \in 0 .. granted /\ jar <= granted /\ 0 <= granted /\ granted \in Nat BY <1>1
<1>4. c \in Calls /\ c.epoch = 0 /\ c.cookie = jar /\ c.got = "none" /\ c.stage = "sent"
  BY <1>2, <1>3 DEF Sent, Calls
<1>5. Idle \in Calls /\ Idle.epoch = 0 /\ Idle.cookie = 0 /\ Idle.got = "none" /\ Idle.stage = "idle"
  BY DEF Idle, Calls
<1> HIDE DEF c
<1>6. /\ call \in [Kinds -> Calls]
      /\ \A k \in Kinds : call[k] = IF k = "probe" THEN c ELSE Idle
  BY <1>1, <1>4, <1>5 DEF c
<1>7. SessionTypes BY <1>1, <1>2, <1>3, <1>6 DEF SessionTypes
<1>8. CallsPast BY <1>1, <1>2, <1>3, <1>4, <1>5, <1>6 DEF CallsPast
<1>9. \A k \in {"data", "login", "logout", "delete"} : k \in Kinds /\ ~Running(k)
  BY <1>5, <1>6 DEF Kinds, Running
<1>10. BootAlone BY <1>1, <1>2, <1>9 DEF BootAlone, Booting
<1>11. AnswersFit BY <1>4, <1>5, <1>6 DEF AnswersFit
<1>12. CallsBelong /\ OverIsOver BY <1>9 DEF CallsBelong, OverIsOver
<1> QED BY <1>7, <1>8, <1>10, <1>11, <1>12 DEF SessionInv

LEMMA SessionStep == SessionInv /\ [SessionNext]_sessionVars => SessionInv' /\ [LoginKept]_sessionVars
<1> SUFFICES ASSUME SessionInv, [SessionNext]_sessionVars PROVE SessionInv' /\ [LoginKept]_sessionVars
  OBVIOUS
<1>1. ASSUME page' = page PROVE LoginKept BY <1>1 DEF LoginKept
<1>2. ASSUME NEW k \in Kinds \ {"probe", "health"}, Request(k) PROVE SessionInv' /\ LoginKept
  <2>1. page.status \in {"signed-out", "authenticated"} /\ Send(k) /\ page' = page
        /\ UNCHANGED <<up, honoured, granted, jar, page, flaky>>
    BY <1>2 DEF Request
  <2>2. ~Booting(page) BY <2>1 DEF Booting
  <2> QED BY <1>1, <2>1, <2>2, SendingKeepsSession
<1>3. CASE Heartbeat
  <2>1. "health" \in Kinds \ {"probe"} /\ page' = page /\ Send("health")
        /\ UNCHANGED <<up, honoured, granted, jar, page, flaky>>
    BY <1>3 DEF Heartbeat, Kinds
  <2> QED BY <1>1, <2>1, SendingKeepsSession
<1>4. CASE TryAgain BY <1>4, TryAgainKeepsSession
<1>5. ASSUME NEW k \in Kinds, Serve(k) PROVE SessionInv' /\ LoginKept
  BY <1>1, <1>5, ServingKeepsSession DEF Serve
<1>6. ASSUME NEW k \in Kinds, Fail(k) PROVE SessionInv' /\ LoginKept
  BY <1>1, <1>6, FailingKeepsSession DEF Fail
<1>7. ASSUME NEW k \in Kinds, Receive(k) PROVE SessionInv' /\ LoginKept
  BY <1>7, HearingKeepsSession
<1>8. CASE ServerToggles \/ \E n \in 1 .. MaxLogins : ServerForgets(n)
  <2>1. page' = page BY <1>8 DEF ServerToggles, ServerForgets
  <2> QED BY <1>1, <1>8, <2>1, ServerKeepsSession
<1>9. CASE ServeRecheck
  <2>1. page' = page BY <1>9 DEF ServeRecheck
  <2> QED BY <1>1, <1>9, <2>1, RecheckedKeepsSession
<1>10. CASE UNCHANGED sessionVars
  BY <1>10 DEF sessionVars, SessionInv, SessionTypes, CallsPast, BootAlone, AnswersFit, CallsBelong,
               OverIsOver, Running, Booting
<1> QED BY <1>2, <1>3, <1>4, <1>5, <1>6, <1>7, <1>8, <1>9, <1>10 DEF SessionNext

(* The tab's session (lib/session.ts, lib/sessionGate.ts, api/client.ts):  *)
(* a request of this session carries its cookie, and no answer says that a *)
(* session is over before it is.                                           *)
THEOREM SessionStays == SessionSpec => []SessionInv
BY SessionStarts, SessionStep, PTL DEF SessionSpec

(* A login that the server honours, and whose cookie the browser holds, is *)
(* given up only by signing out, for any logins and any calls in flight.   *)
THEOREM LiveLoginIsKept == SessionSpec => NoLiveLoginDropped
<1>1. [LoginKept]_sessionVars =>
        [page.since # 0 /\ page'.since = 0 /\ jar = page.since
            => page.since \notin honoured \/ call["logout"].stage # "idle"]_sessionVars
  BY DEF LoginKept
<1> QED BY <1>1, SessionStays, SessionStep, PTL DEF SessionSpec, NoLiveLoginDropped
=============================================================================
