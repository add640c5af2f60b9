----------------------------- MODULE ShellPaint -----------------------------
(***************************************************************************)
(* Which palette the app's chrome wears: the cache in the browser's        *)
(* storage that is painted before anything has loaded (index.html,         *)
(* lib/theme.ts), the one resolver that paints afterwards (App.tsx), and   *)
(* the draft an open theme dialog publishes (lib/themePreview.ts).         *)
(* A palette is <<id, look>>; what the server holds is ThemeStore's        *)
(* matter, and here whatever arrives.                                      *)
(***************************************************************************)
EXTENDS Naturals, FiniteSets

CONSTANTS
    Customs,    \* ids of custom themes
    MaxLook,    \* bound: palettes of a custom theme or a draft
    MaxRepaints \* bound: events that may change the palette

ASSUME PaintAssumption ==
    /\ Customs \cap {"light", "dark", "draft", "none"} = {}
    /\ {MaxLook, MaxRepaints} \subseteq Nat

VARIABLES
    shell,   \* the page: session, settings, registry, draft, and what is painted
    cache,   \* localStorage: the palette to paint first
    real,    \* history: palettes that are built in or were once saved
    repaints \* bounded steps taken

paintVars == <<shell, cache, real, repaints>>

-----------------------------------------------------------------------------
NoPalette == <<"none", 0>>
Fallback == <<"light", 0>>
Default  == <<"dark", 0>>
BuiltIns == {Fallback[1], Default[1]}
Looks    == 1 .. MaxLook
Drafts   == {"draft"} \X Looks
Defs     == Customs \X Looks

(* One definition per id.                                                  *)
Registries == {r \in SUBSET Defs : \A d, e \in r : d[1] = e[1] => d = e}

Known(registry, id) == id \in BuiltIns \/ \E d \in registry : d[1] = id

GetTheme(registry, id) ==
    IF id \in BuiltIns THEN <<id, 0>>
    ELSE IF Known(registry, id) THEN CHOOSE d \in registry : d[1] = id
    ELSE Fallback

NoShell == [up |-> FALSE, booted |-> FALSE, ready |-> FALSE, theme |-> Default[1],
            registry |-> {}, loaded |-> FALSE, draft |-> NoPalette,
            paintedDraft |-> FALSE, key |-> <<>>, chrome |-> Default]

PaintInit ==
    /\ shell = NoShell /\ cache = NoPalette
    /\ real = {Fallback, Default} /\ repaints = 0

-----------------------------------------------------------------------------
(* Painting.  A paint is what the chrome and the cache become.             *)

(* applyTheme: a fallback is not painted under another theme's id while    *)
(* the cache still has that theme.                                         *)
ApplyTheme(id, theme) ==
    IF theme[1] # id /\ cache[1] = id
    THEN [chrome |-> cache, cache |-> cache]
    ELSE [chrome |-> theme, cache |-> theme]

CachedThemeId == IF cache = NoPalette THEN Default[1] ELSE cache[1]

Paints(s, paint) == shell' = [s EXCEPT !.chrome = paint.chrome] /\ cache' = paint.cache

(* Faulty StandsDown: the draft stays where it was painted.                *)
StandsDownOnly(s, registry) ==
    /\ shell' = [s EXCEPT !.paintedDraft = FALSE, !.key = <<>>]
    /\ UNCHANGED cache

(* The resolver without a profile or its settings.                         *)
StandsDown(s, registry) ==
    LET off == [s EXCEPT !.paintedDraft = FALSE, !.key = <<>>]
    IN  IF s.paintedDraft
        THEN Paints(off, ApplyTheme(CachedThemeId, GetTheme(registry, CachedThemeId)))
        ELSE shell' = off /\ UNCHANGED cache

(* A chosen theme that the loaded registry does not have is replaced.      *)
Repaired(s) == IF s.loaded /\ ~Known(s.registry, s.theme) THEN [s EXCEPT !.theme = Fallback[1]] ELSE s

(* The key remembers what was painted last: equal, nothing is painted.     *)
PaintsSaved(s) ==
    LET theme == GetTheme(s.registry, s.theme)
        key == <<"saved", s.theme, theme>>
    IN  IF key = s.key THEN shell' = s /\ UNCHANGED cache
        ELSE Paints([s EXCEPT !.key = key, !.paintedDraft = FALSE], ApplyTheme(s.theme, theme))

PaintsDraft(s) ==
    /\ shell' = [s EXCEPT !.key = <<"draft", s.draft>>, !.paintedDraft = TRUE, !.chrome = s.draft]
    /\ UNCHANGED cache

(* The resolver's effect, after anything it reads has changed.             *)
Resolves(s) ==
    \/ ~s.ready /\ StandsDown(s, s.registry)
    \/ s.ready /\ s.draft # NoPalette /\ PaintsDraft(s)
    \/ s.ready /\ s.draft = NoPalette /\ PaintsSaved(Repaired(s))

Counted == repaints < MaxRepaints /\ repaints' = repaints + 1

-----------------------------------------------------------------------------
(* The page                                                                *)

(* index.html paints the cache; the app applies it again once it settles.  *)
LoadShell ==
    /\ ~shell.up /\ Counted
    /\ shell' = [NoShell EXCEPT !.up = TRUE, !.chrome = IF cache = NoPalette THEN Default ELSE cache]
    /\ UNCHANGED <<cache, real>>

AppSettles ==
    /\ shell.up /\ ~shell.booted
    /\ Paints([shell EXCEPT !.booted = TRUE],
              ApplyTheme(CachedThemeId, GetTheme(shell.registry, CachedThemeId)))
    /\ UNCHANGED <<real, repaints>>

CloseShell ==
    /\ shell.up
    /\ shell' = NoShell
    /\ UNCHANGED <<cache, real, repaints>>

(* The profile's settings and its themes arrive, in either order.          *)
SettingsReady ==
    /\ shell.booted /\ ~shell.ready /\ shell.draft = NoPalette /\ Counted
    /\ \E id \in BuiltIns \cup Customs : Resolves([shell EXCEPT !.ready = TRUE, !.theme = id])
    /\ UNCHANGED real

RegistryArrives ==
    /\ shell.booted /\ ~shell.loaded /\ Counted
    /\ \E r \in Registries :
          /\ Resolves([shell EXCEPT !.loaded = TRUE, !.registry = r])
          /\ real' = real \cup r

PickTheme ==
    /\ shell.ready /\ shell.draft = NoPalette /\ Counted
    /\ \E id \in BuiltIns \cup {d[1] : d \in shell.registry} :
          Resolves([shell EXCEPT !.theme = id])
    /\ UNCHANGED real

(* The dialog publishes each color picked in it.                           *)
SetThemePreview ==
    /\ shell.ready /\ Counted
    /\ \E draft \in Drafts : Resolves([shell EXCEPT !.draft = draft])
    /\ UNCHANGED real

(* Its save arrives in the registry; a new theme is chosen at once.        *)
SaveArrives ==
    /\ shell.ready /\ shell.draft # NoPalette /\ Counted
    /\ \E def \in Defs :
          LET known == Known(shell.registry, def[1])
              rest == {d \in shell.registry : d[1] # def[1]}
          IN  /\ Resolves([shell EXCEPT !.registry = rest \cup {def},
                                        !.theme = IF known THEN @ ELSE def[1]])
              /\ real' = real \cup {def}

(* So does its deletion, with a built-in theme in the active one's place.  *)
RemovalArrives ==
    /\ shell.ready /\ shell.draft # NoPalette /\ Counted
    /\ \E d \in shell.registry, other \in BuiltIns :
          Resolves([shell EXCEPT !.registry = @ \ {d}, !.draft = NoPalette,
                                 !.theme = IF @ = d[1] THEN other ELSE @])
    /\ UNCHANGED real

CloseEditor ==
    /\ shell.draft # NoPalette
    /\ Resolves([shell EXCEPT !.draft = NoPalette])
    /\ UNCHANGED <<real, repaints>>

(* The stores are emptied before the resolver runs, or as it runs; the     *)
(* dialog goes with the route, after it.                                   *)
SignsOut ==
    /\ shell.booted /\ Counted
    /\ LET s == [shell EXCEPT !.ready = FALSE, !.loaded = FALSE, !.registry = {}]
       IN  \E registry \in {{}, shell.registry} : StandsDown(s, registry)
    /\ UNCHANGED real

(* Another tab of the browser paints its theme.                            *)
OtherTabPaints ==
    /\ Counted
    /\ cache' \in real
    /\ UNCHANGED <<shell, real>>

PaintNext ==
    \/ LoadShell \/ AppSettles \/ CloseShell \/ SettingsReady \/ RegistryArrives \/ PickTheme
    \/ SetThemePreview \/ SaveArrives \/ RemovalArrives \/ CloseEditor \/ SignsOut \/ OtherTabPaints

PaintSpec == PaintInit /\ [][PaintNext]_paintVars

(***************************************************************************)
(* Properties                                                              *)
(***************************************************************************)

(* The chrome wears a draft only while its dialog is open in a session     *)
(* (App.tsx, paintedDraft); otherwise it wears a palette that was saved,   *)
(* and so does every page that loads from the cache.                       *)
NoStrandedDraft ==
    /\ shell.chrome \in real \/ (shell.ready /\ shell.chrome = shell.draft)
    /\ cache \in real \cup {NoPalette}

(* With settings and themes loaded and no dialog open, the chrome is the   *)
(* chosen theme as it was last saved, whatever the order of arrivals,      *)
(* edits, previews and sessions: no repaint is lost to the key.            *)
ChromeIsChosen ==
    shell.ready /\ shell.loaded /\ shell.draft = NoPalette =>
        Known(shell.registry, shell.theme) /\ shell.chrome = GetTheme(shell.registry, shell.theme)

(* A step to the light fallback: its theme is chosen, or the cache has not *)
(* the chosen one, which may not have arrived yet (applyTheme).            *)
NoFlash ==
    shell'.ready /\ shell'.chrome = Fallback /\ shell.chrome # Fallback
        => shell'.theme = Fallback[1] \/ cache[1] # shell'.theme

(* Whatever arrives, is chosen, edited or closed, the chrome comes to wear *)
(* what was chosen or is being edited, and nothing else on the way         *)
(* (App.tsx, the one resolver).                                            *)
ChromeFollows == [][NoStrandedDraft' /\ ChromeIsChosen' /\ NoFlash]_paintVars
=============================================================================
