------------------------------ MODULE BookSearch ------------------------------
(* The search panel (components/reader/SearchPanel.tsx): typing, the       *)
(* debounce, requests that overtake one another, and paging.               *)
(*                                                                         *)
(* A field is [says, pad]: what it trims to, and whether it has spaces     *)
(* around that.  The server answers a query page by page; what it answered *)
(* is [query, page, rows], rows being those the panel can show.            *)
EXTENDS Integers, Sequences, FiniteSets

CONSTANTS
    Words,     \* what may be searched for
    Pages,     \* how many pages a query has
    MaxInputs, \* bound: changes of the field
    MaxFlights \* bound: requests sent

ASSUME SearchAssumption ==
    "blank" \notin Words /\ Pages \in Nat \ {0} /\ MaxInputs \in Nat /\ MaxFlights \in Nat

VARIABLES
    box,     \* the field, the timer and the plain variables of the panel
    list,    \* what it shows
    flying,  \* requests not yet answered
    searched \* bounded steps taken

searchVars == <<box, list, flying, searched>>

NoText == "blank"   \* the empty text
Fields == [says : Words \cup {NoText}, pad : BOOLEAN]
NoList == [pages |-> <<>>, more |-> FALSE, cursor |-> 0, at |-> 0, moreError |-> FALSE, adding |-> FALSE]

SearchInit ==
    /\ box = [field |-> [says |-> NoText, pad |-> FALSE], status |-> "idle", debounce |-> NoText,
              token |-> 0, last |-> NoText, composing |-> FALSE]
    /\ list = NoList /\ flying = {} /\ searched = [inputs |-> 0, flights |-> 0]

(***************************************************************************)
(* Typing                                                                  *)
(***************************************************************************)

(* onInput: whatever is in flight is out of date from this moment, not     *)
(* from when the debounce ends; text that trims to the query shown is not  *)
(* a change.  While an input method composes, nothing is searched for.     *)
OnInput(b, field, deferSearch) ==
    LET q == field.says
        typed == [b EXCEPT !.field = field, !.debounce = NoText]
        same == ~deferSearch /\ q # NoText /\ q = box.last /\ box.status = "done"
    IN  /\ box' = IF same THEN typed
                  ELSE [typed EXCEPT !.token = @ + 1,
                                     !.status = IF q = NoText \/ deferSearch THEN "idle" ELSE "loading",
                                     !.debounce = IF deferSearch THEN NoText ELSE q]
        /\ list' = IF same THEN list ELSE NoList

Typing == searched.inputs < MaxInputs /\ searched' = [searched EXCEPT !.inputs = @ + 1]

Type(field) ==
    /\ Typing /\ ~box.composing /\ field # box.field
    /\ OnInput(box, field, FALSE) /\ UNCHANGED flying

ComposeStart ==
    /\ Typing /\ ~box.composing
    /\ OnInput([box EXCEPT !.composing = TRUE], box.field, TRUE) /\ UNCHANGED flying

(* The composed text arrives deferred and then, at the end, for real.      *)
ComposeEnd(field) ==
    /\ box.composing
    /\ OnInput([box EXCEPT !.composing = FALSE], field, FALSE) /\ UNCHANGED <<flying, searched>>

(***************************************************************************)
(* Requests                                                                *)
(***************************************************************************)

Sending == searched.flights < MaxFlights /\ searched' = [searched EXCEPT !.flights = @ + 1]

(* run(): a new token, so that only this answer counts.                    *)
Run(b, q) ==
    /\ box' = [b EXCEPT !.token = @ + 1, !.last = q, !.status = "loading"]
    /\ list' = [list EXCEPT !.at = 0, !.adding = FALSE, !.moreError = FALSE]
    /\ flying' = flying \cup {[token |-> b.token + 1, kind |-> "run", q |-> q, page |-> 1]}

DebounceEnds ==
    /\ box.debounce # NoText /\ Sending
    /\ Run([box EXCEPT !.debounce = NoText], box.debounce)

RetrySearch ==
    /\ box.status = "error" /\ Sending
    /\ Run(box, box.last)

LoadMore ==
    /\ list.more /\ ~list.adding /\ box.field.says # NoText /\ Sending
    /\ box' = [box EXCEPT !.token = @ + 1]
    /\ list' = [list EXCEPT !.adding = TRUE, !.moreError = FALSE]
    /\ flying' = flying \cup {[token |-> box.token + 1, kind |-> "more", q |-> box.field.says, page |-> list.cursor]}

(* Faulty IsCurrent: every answer counts.                                  *)
IsCurrentAlways(r) == TRUE

IsCurrent(r) == r.token = box.token

(* Rows the validator drops do not end the paging; a cursor that does not  *)
(* move does.                                                              *)
Page(r, rows) == [query |-> r.q, page |-> r.page, rows |-> rows]

AppliedAsFirst(r, rows, more) ==
    /\ list' = [list EXCEPT !.pages = <<Page(r, rows)>>, !.more = more, !.cursor = IF more THEN 2 ELSE 0]
    /\ box' = [box EXCEPT !.status = "done"]

AppliedAsMore(r, rows, more) ==
    /\ list' = [list EXCEPT !.pages = Append(@, Page(r, rows)), !.more = more, !.adding = FALSE,
                            !.cursor = IF more THEN r.page + 1 ELSE 0]
    /\ UNCHANGED box

Answered(r) ==
    /\ flying' = flying \ {r} /\ UNCHANGED searched
    /\ \E rows \in 0 .. 1, more \in {r.page < Pages, FALSE} :
         IF ~IsCurrent(r) THEN UNCHANGED <<box, list>>
         ELSE IF r.kind = "run" THEN AppliedAsFirst(r, rows, more) ELSE AppliedAsMore(r, rows, more)

(* A superseded request fails, aborted, without touching anything.         *)
Failed(r) ==
    /\ flying' = flying \ {r} /\ UNCHANGED searched
    /\ IF ~IsCurrent(r) THEN UNCHANGED <<box, list>>
       ELSE IF r.kind = "run"
            THEN box' = [box EXCEPT !.status = "error"] /\ UNCHANGED list
            ELSE list' = [list EXCEPT !.adding = FALSE, !.moreError = TRUE] /\ UNCHANGED box

(***************************************************************************)
(* Walking the results                                                     *)
(***************************************************************************)

Total == Cardinality({k \in DOMAIN list.pages : list.pages[k].rows = 1})

Step(by) ==
    /\ Total > 0 /\ ~box.composing
    /\ list' = [list EXCEPT !.at = (@ + by + Total) % Total]
    /\ UNCHANGED <<box, flying, searched>>

SearchNext ==
    \/ \E f \in Fields : Type(f) \/ ComposeEnd(f)
    \/ ComposeStart \/ DebounceEnds \/ RetrySearch \/ LoadMore
    \/ \E r \in flying : Answered(r) \/ Failed(r)
    \/ Step(1) \/ Step(-1)

SearchSpec == SearchInit /\ [][SearchNext]_searchVars

(***************************************************************************)
(* Properties                                                              *)
(***************************************************************************)

(* Rows on the screen are the pages of what the field says, from the first *)
(* on, none twice and none missing, and the row the keys are on is one of  *)
(* them: whatever was typed, retried or paged while answers were out.      *)
ListIsTheFields ==
    /\ \A k \in DOMAIN list.pages :
         list.pages[k].query = box.field.says /\ list.pages[k].page = k
    /\ list.more => list.cursor = Len(list.pages) + 1
    /\ list.at = 0 \/ list.at < Total

(* The panel never says "Searching..." or "Loading..." over nothing: a     *)
(* timer or a request that still counts is behind it.                      *)
NeverWaitsForNothing ==
    /\ box.status = "loading" => box.debounce # NoText \/ \E r \in flying : IsCurrent(r) /\ r.kind = "run"
    /\ list.adding => \E r \in flying : IsCurrent(r) /\ r.kind = "more"

(* The panel tells the truth about the field and about what it waits for.  *)
SearchIsHonest == ListIsTheFields /\ NeverWaitsForNothing
=============================================================================
