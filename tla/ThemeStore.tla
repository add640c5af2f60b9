---------------------------- MODULE ThemeStore ----------------------------
(* The tab's list of custom themes (lib/customThemes.ts) against the       *)
(* server's, for the profile that is signed in, and App.tsx's resolver,    *)
(* which replaces a chosen theme that no longer exists.  A theme is        *)
(* <<id, edition>>; id 0 is the built-in default.                          *)
EXTENDS Naturals, FiniteSets, Sequences

CONSTANTS
    Owners,         \* profiles
    MaxThemes,      \* bound: themes ever created
    MaxEdition,     \* bound: editions of a theme
    MaxWrites,      \* bound: writes by the user
    MaxActivations, \* bound: profile changes
    LoadAttempts    \* STALE_LOAD_ATTEMPTS

ASSUME ThemeAssumption ==
    /\ "none" \notin Owners
    /\ {MaxThemes, MaxEdition, MaxWrites, MaxActivations, LoadAttempts} \subseteq Nat

VARIABLES
    saved,   \* the themes of each profile on the server
    chosen,  \* the theme id in each profile's settings
    themes,  \* the CustomThemes object
    fetches, \* load()s in flight
    edits,   \* create(), update() and remove() in flight
    made     \* themes created, writes begun, activations, themes published away

themeVars == <<saved, chosen, themes, fetches, edits, made>>

NoThemes == [profile |-> "none", generation |-> 0, mutations |-> 0,
             list |-> <<>>, loaded |-> FALSE, loading |-> FALSE]

IsCurrentTheme(s, by, generation) == s.profile = by /\ s.generation = generation

Ids(list) == {list[i][1] : i \in DOMAIN list}

ThemeInit ==
    /\ saved = [p \in Owners |-> {<<1, 1>>}]
    /\ chosen \in [Owners -> {0, 1}]
    /\ themes = NoThemes
    /\ fetches = {} /\ edits = {}
    /\ made = [themes |-> 1, writes |-> 0, activations |-> 0]

Fetch(s, attempt) == [by |-> s.profile, generation |-> s.generation,
                      mutations |-> s.mutations, attempt |-> attempt,
                      served |-> FALSE, got |-> {}]

ActivateThemes(p) ==
    /\ made.activations < MaxActivations
    /\ p # themes.profile
    /\ LET s == [themes EXCEPT !.profile = p, !.generation = @ + 1, !.loaded = FALSE,
                               !.list = <<>>, !.loading = (p # "none")]
       IN  /\ themes' = s
           /\ fetches' = IF p = "none" THEN fetches ELSE fetches \cup {Fetch(s, 1)}
    /\ made' = [made EXCEPT !.activations = @ + 1]
    /\ UNCHANGED <<saved, chosen, edits>>

(* load() from the palette, the panel and the dropdown.                    *)
LoadThemes ==
    /\ themes.profile # "none" /\ ~themes.loaded /\ ~themes.loading
    /\ themes' = [themes EXCEPT !.loading = TRUE]
    /\ fetches' = fetches \cup {Fetch(themes, 1)}
    /\ UNCHANGED <<saved, chosen, edits, made>>

ServeThemes(q) ==
    /\ ~q.served
    /\ fetches' = (fetches \ {q}) \cup {[q EXCEPT !.served = TRUE, !.got = saved[q.by]]}
    /\ UNCHANGED <<saved, chosen, themes, edits, made>>

(* The n-th smallest of a set of numbers.                                  *)
Nth(numbers, n) == CHOOSE i \in numbers : Cardinality({j \in numbers : j <= i}) = n

(* The server lists themes in creation order.                              *)
InOrder(set) ==
    LET ids == {t[1] : t \in set}
    IN  [n \in 1 .. Cardinality(ids) |-> CHOOSE t \in set : t[1] = Nth(ids, n)]

(* Faulty FreshThemes: any answer counts.                                  *)
AnyThemes(s, q) == TRUE

(* An answer that a local write has overtaken is fetched again.            *)
FreshThemes(s, q) == s.mutations = q.mutations

ThemesArrive(q) ==
    /\ q.served
    /\ LET rest == fetches \ {q}
       IN  \/ /\ ~IsCurrentTheme(themes, q.by, q.generation)
              /\ fetches' = rest /\ UNCHANGED themes
           \/ /\ IsCurrentTheme(themes, q.by, q.generation)
              /\ FreshThemes(themes, q)
              /\ themes' = [themes EXCEPT !.list = InOrder(q.got), !.loaded = TRUE, !.loading = FALSE]
              /\ fetches' = rest
           \/ /\ IsCurrentTheme(themes, q.by, q.generation)
              /\ ~FreshThemes(themes, q)
              /\ IF q.attempt < LoadAttempts
                 THEN fetches' = rest \cup {Fetch(themes, q.attempt + 1)} /\ UNCHANGED themes
                 ELSE fetches' = rest /\ themes' = [themes EXCEPT !.loading = FALSE]
    /\ UNCHANGED <<saved, chosen, edits, made>>

ThemesFail(q) ==
    /\ ~q.served
    /\ fetches' = fetches \ {q}
    /\ themes' = IF IsCurrentTheme(themes, q.by, q.generation)
                 THEN [themes EXCEPT !.loading = FALSE] ELSE themes
    /\ UNCHANGED <<saved, chosen, edits, made>>

(* One dialog, one request at a time; sign-out leaves it running.          *)
BeginWrite(op, theme) ==
    /\ themes.profile # "none"
    /\ made.writes < MaxWrites
    /\ \A e \in edits : e.generation # themes.generation
    /\ op = "create" => made.themes < MaxThemes
    /\ op # "create" => theme[1] \in Ids(themes.list)
    /\ edits' = edits \cup {[op |-> op, theme |-> theme, by |-> themes.profile,
                             generation |-> themes.generation, stage |-> "sent"]}
    /\ made' = [made EXCEPT !.writes = @ + 1, !.themes = IF op = "create" THEN @ + 1 ELSE @]
    /\ UNCHANGED <<saved, chosen, themes, fetches>>

Without(set, id) == {t \in set : t[1] # id}

ServeWrite(e) ==
    /\ e.stage = "sent"
    /\ \/ /\ e.op = "create" \/ \E t \in saved[e.by] : t[1] = e.theme[1]
          /\ saved' = [saved EXCEPT ![e.by] = Without(@, e.theme[1]) \cup
                          (IF e.op = "remove" THEN {} ELSE {e.theme})]
          /\ edits' = (edits \ {e}) \cup {[e EXCEPT !.stage = "done"]}
       \/ saved' = saved /\ edits' = edits \ {e}        \* refused: a toast and no more
    /\ UNCHANGED <<chosen, themes, fetches, made>>

WithoutTheme(list, id) ==
    LET kept == {i \in DOMAIN list : list[i][1] # id}
    IN  [n \in 1 .. Cardinality(kept) |-> list[Nth(kept, n)]]

AppliedTo(list, e) ==
    CASE e.op = "create" -> Append(list, e.theme)
      [] e.op = "update" -> [i \in DOMAIN list |-> IF list[i][1] = e.theme[1] THEN e.theme ELSE list[i]]
      [] e.op = "remove" -> WithoutTheme(list, e.theme[1])

(* #applyWrite, and the dialog choosing what it has just created.          *)
WriteArrives(e) ==
    /\ e.stage = "done"
    /\ edits' = edits \ {e}
    /\ IF IsCurrentTheme(themes, e.by, e.generation)
       THEN /\ themes' = [themes EXCEPT !.list = AppliedTo(@, e), !.mutations = @ + 1]
            /\ chosen' = IF e.op = "create" THEN [chosen EXCEPT ![e.by] = e.theme[1]] ELSE chosen
       ELSE UNCHANGED <<themes, chosen>>
    /\ UNCHANGED <<saved, fetches, made>>

(* Another device deletes a theme of a profile that is signed out here.    *)
DeletedElsewhere(p, t) ==
    /\ t \in saved[p]
    /\ themes.profile # p
    /\ saved' = [saved EXCEPT ![p] = @ \ {t}]
    /\ UNCHANGED <<chosen, themes, fetches, edits, made>>

(* The resolver's repair of a dead id, once a load can prove its absence.  *)
RepairTheme ==
    /\ themes.profile # "none" /\ themes.loaded
    /\ chosen[themes.profile] \notin {0} \cup Ids(themes.list)
    /\ chosen' = [chosen EXCEPT ![themes.profile] = 0]
    /\ UNCHANGED <<saved, themes, fetches, edits, made>>

ThemeNext ==
    \/ \E p \in Owners \cup {"none"} : ActivateThemes(p)
    \/ LoadThemes \/ RepairTheme
    \/ \E q \in fetches : ServeThemes(q) \/ ThemesArrive(q) \/ ThemesFail(q)
    \/ \E v \in 1..MaxEdition :
         \/ BeginWrite("create", <<made.themes + 1, v>>)
         \/ \E id \in 1..made.themes : BeginWrite("update", <<id, v>>) \/ BeginWrite("remove", <<id, v>>)
    \/ \E e \in edits : ServeWrite(e) \/ WriteArrives(e)
    \/ \E p \in Owners : \E t \in saved[p] : DeletedElsewhere(p, t)

ThemeSpec == ThemeInit /\ [][ThemeNext]_themeVars

(***************************************************************************)
(* Properties                                                              *)
(***************************************************************************)

(* The resolver gives up the user's theme only when the server no longer   *)
(* has it, or is being asked to delete it: never because a list fetched    *)
(* before the theme was created arrived after it.                          *)
LiveThemeKept ==
    [][\A p \in Owners :
         chosen[p] # 0 /\ chosen'[p] = 0 => \A t \in saved[p] : t[1] # chosen[p]]_themeVars
=============================================================================
