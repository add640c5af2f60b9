-------------------------- MODULE ProgressRegister --------------------------
(***************************************************************************)
(* What the progress store of one profile promises its clients: a register *)
(* per book with a durable copy that lags behind.                          *)
(*                                                                         *)
(* A position is the number of the write that produced it; 0 is no         *)
(* position.  latest[b] is what a read returns, durable[b] what survives a *)
(* crash.  Positions accepted before a book was (re)imported, those up to  *)
(* born[b], belong to an earlier book with the same ID: no promise is made *)
(* about them.                                                             *)
(***************************************************************************)
EXTENDS Naturals

CONSTANT Books

VARIABLES present, latest, durable, issued, born,
          faults \* how often something went wrong; every crash is counted

rvars == <<present, latest, durable, issued, born>>

Init ==
    /\ present = [b \in Books |-> TRUE]
    /\ latest = [b \in Books |-> 0]
    /\ durable = [b \in Books |-> 0]
    /\ issued = 0
    /\ born = [b \in Books |-> 0]

(* A write is what the next read returns.                                  *)
Write(b) ==
    /\ issued' = issued + 1
    /\ latest' = [latest EXCEPT ![b] = issued']
    /\ UNCHANGED <<present, durable, born>>

(* The durable copy only moves forward, to a position that was current,    *)
(* and what a read returns never moves back with it.                       *)
Persist(b) ==
    /\ present[b]
    /\ \E n \in 1..issued :
          /\ n > durable[b]
          /\ n <= latest[b] \/ n <= born[b]
          /\ durable' = [durable EXCEPT ![b] = n]
          /\ latest' = [latest EXCEPT ![b] = IF n > @ THEN n ELSE @]
    /\ UNCHANGED <<present, issued, born>>

Remove(b) ==
    /\ present' = [present EXCEPT ![b] = FALSE]
    /\ durable' = [durable EXCEPT ![b] = 0]
    /\ \E n \in {latest[b], 0} : latest' = [latest EXCEPT ![b] = n]
    /\ UNCHANGED <<issued, born>>

Import(b) ==
    /\ ~present[b]
    /\ present' = [present EXCEPT ![b] = TRUE]
    /\ born' = [born EXCEPT ![b] = issued]
    /\ UNCHANGED <<latest, durable, issued>>

(* A position may be forgotten only if no stored book owns it.             *)
Forget(b) ==
    /\ ~present[b] \/ latest[b] <= born[b]
    /\ latest' = [latest EXCEPT ![b] = durable[b]]
    /\ UNCHANGED <<present, durable, issued, born>>

(* A crash loses what is not durable and nothing else, and it is a fault:  *)
(* no step of a healthy run may pass for one.                              *)
Crash ==
    /\ faults' = faults + 1
    /\ latest' = durable
    /\ UNCHANGED <<present, durable, issued, born>>

Next == \/ \E b \in Books : \/ Write(b) \/ Persist(b) \/ Remove(b)
                            \/ Import(b) \/ Forget(b)
        \/ Crash

Spec == Init /\ [][Next]_rvars
=============================================================================
