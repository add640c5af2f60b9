--------------------------- MODULE ProfileAccess ---------------------------
(***************************************************************************)
(* What ProfileManager promises its callers: a profile is either borrowed  *)
(* by requests or held by one exclusive operation, never both; once the    *)
(* manager is sealed nothing new is borrowed, and it has ended only when   *)
(* nobody is left.                                                         *)
(***************************************************************************)
CONSTANTS Names, Threads

VARIABLES
    users,   \* the requests that have borrowed each profile
    holders, \* the operations that hold each profile exclusively
    sealed,  \* CloseAll was called
    ended    \* CloseAll has returned

avars == <<users, holders, sealed, ended>>

Init ==
    /\ users = [n \in Names |-> {}]
    /\ holders = [n \in Names |-> {}]
    /\ sealed = FALSE
    /\ ended = FALSE

Borrow(t, n) ==
    /\ ~sealed /\ holders[n] = {}
    /\ users' = [users EXCEPT ![n] = @ \cup {t}]
    /\ UNCHANGED <<holders, sealed, ended>>

Return(t, n) ==
    /\ t \in users[n]
    /\ users' = [users EXCEPT ![n] = @ \ {t}]
    /\ UNCHANGED <<holders, sealed, ended>>

(* Several names are taken together or not at all.                         *)
Lock(t, held) ==
    /\ ~ended
    /\ \A n \in held : users[n] = {} /\ holders[n] = {}
    /\ holders' = [n \in Names |-> IF n \in held THEN {t} ELSE holders[n]]
    /\ UNCHANGED <<users, sealed, ended>>

Unlock(t) ==
    /\ holders' = [n \in Names |-> holders[n] \ {t}]
    /\ UNCHANGED <<users, sealed, ended>>

Seal ==
    /\ sealed' = TRUE
    /\ UNCHANGED <<users, holders, ended>>

End ==
    /\ sealed
    /\ \A n \in Names : users[n] = {} /\ holders[n] = {}
    /\ ended' = TRUE
    /\ UNCHANGED <<users, holders, sealed>>

Next == \/ \E t \in Threads : \/ \E n \in Names : Borrow(t, n) \/ Return(t, n)
                              \/ \E held \in SUBSET Names : Lock(t, held)
                              \/ Unlock(t)
        \/ Seal \/ End

Spec == Init /\ [][Next]_avars
=============================================================================
