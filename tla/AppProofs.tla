----------------------------- MODULE AppProofs -----------------------------
(* Proofs about the page around the books: that its chrome wears what was  *)
(* chosen or is being edited, for any themes and looks and any number of   *)
(* repaints; that a device keeps its alarm and its card size over tabs,    *)
(* reloads and restarts; that the login screen signs in as it shows; that  *)
(* dialogs share the page and give it back; that the fonts are those of    *)
(* the running server, sized as measured; that the shelf comes right; and  *)
(* that the reader leaves a book from its page only.                       *)
EXTENDS ShellPaint, DevicePrefs, LoginScreen, FocusTraps, FontFaces, LibraryView, Overlays, Integers,
        FiniteSetTheorems, SequenceTheorems, TLAPS

-----------------------------------------------------------------------------
(* The palette of the chrome (ShellPaint)                                  *)

Ids      == BuiltIns \cup Customs
Palettes == {NoPalette, Fallback, Default} \cup Drafts \cup Defs
PaintKeys == {<<>>} \cup ({"draft"} \X Drafts) \cup ({"saved"} \X Ids \X Palettes)
Shells   == [up : BOOLEAN, booted : BOOLEAN, ready : BOOLEAN, theme : Ids,
             registry : Registries, loaded : BOOLEAN, draft : {NoPalette} \cup Drafts,
             paintedDraft : BOOLEAN, key : PaintKeys, chrome : Palettes]

(* The key tells what the chrome wears: a draft, or a theme under its own  *)
(* id; and nothing but a painted draft is worn that was not once saved.    *)
KeyTells(s) ==
    \/ s.key = <<>> /\ ~s.paintedDraft
    \/ s.key # <<>> /\ s.key[1] = "draft" /\ s.paintedDraft
    \/ /\ s.key # <<>> /\ s.key[1] = "saved" /\ ~s.paintedDraft
       /\ s.key[3][1] = s.key[2] => s.chrome = s.key[3]

Honest(s, saved) == /\ s \in Shells /\ KeyTells(s)
                    /\ ~s.paintedDraft => s.chrome \in saved
                    /\ s.registry \subseteq saved

(* What holds once the resolver has run.                                   *)
Resolved(s) ==
    /\ s.ready \/ s.draft # NoPalette => s.booted
    /\ ~s.ready => s.key = <<>>
    /\ s.ready /\ s.draft # NoPalette => s.chrome = s.draft
    /\ s.ready /\ s.draft = NoPalette =>
          /\ ~s.paintedDraft
          /\ s.loaded => /\ Known(s.registry, s.theme)
                         /\ s.chrome = GetTheme(s.registry, s.theme)

SavedTyped == /\ {Fallback, Default} \subseteq real
              /\ real \subseteq {Fallback, Default} \cup Defs
              /\ cache \in real \cup {NoPalette}

PaintInv == Honest(shell, real) /\ Resolved(shell) /\ SavedTyped


-----------------------------------------------------------------------------
(* getTheme finds a theme of the registry under its own id, or falls back. *)
LEMMA ThemeFound ==
  ASSUME NEW r \in Registries, NEW id \in Ids
  PROVE  /\ GetTheme(r, id) \in {Fallback, Default} \cup r
         /\ Known(r, id) <=> GetTheme(r, id)[1] = id
<1>1. CASE id \in BuiltIns
  BY <1>1 DEF GetTheme, Known, BuiltIns, Fallback, Default
<1>2. CASE id \notin BuiltIns /\ Known(r, id)
  <2>1. PICK d \in r : d[1] = id
    BY <1>2 DEF Known
  <2>2. GetTheme(r, id) = CHOOSE e \in r : e[1] = id
    BY <1>2 DEF GetTheme
  <2>3. GetTheme(r, id) \in r /\ GetTheme(r, id)[1] = id
    BY <2>1, <2>2
  <2> QED BY <1>2, <2>3
<1>3. CASE id \notin BuiltIns /\ ~Known(r, id)
  BY <1>3 DEF GetTheme, BuiltIns, Fallback
<1> QED BY <1>1, <1>2, <1>3

(* The palettes that are no theme have no theme's name.                    *)
LEMMA PaletteNames ==
  /\ NoPalette[1] \notin Ids /\ \A d \in Drafts : d # Fallback /\ d # Default /\ d # NoPalette
  /\ Fallback[1] \in Ids /\ Default[1] \in Ids /\ NoPalette # Fallback /\ NoPalette # Default
  /\ \A r \in Registries : r \subseteq Defs
<1>1. \A d \in Drafts : d[1] = "draft"
  BY DEF Drafts
<1> QED BY <1>1, PaintAssumption DEF NoPalette, Ids, BuiltIns, Fallback, Default, Registries

(* What a paint puts on the chrome is the theme, or the cached palette of  *)
(* the same id; never the light fallback under the id of a theme that the  *)
(* cache has.                                                              *)
LEMMA ApplyPaints ==
  ASSUME NEW saved, cache \in saved \cup {NoPalette}, NEW id \in Ids, NEW theme \in saved
  PROVE  /\ ApplyTheme(id, theme).chrome \in saved /\ ApplyTheme(id, theme).cache \in saved
         /\ theme[1] = id => ApplyTheme(id, theme).chrome = theme
         /\ ApplyTheme(id, theme).chrome = Fallback => id = Fallback[1] \/ cache[1] # id
<1>1. cache[1] = id => cache \in saved
  BY PaletteNames
<1>2. CASE theme[1] # id /\ cache[1] = id
  BY <1>1, <1>2 DEF ApplyTheme
<1>3. CASE ~(theme[1] # id /\ cache[1] = id)
  BY <1>3 DEF ApplyTheme
<1> QED BY <1>2, <1>3

(* The cache names a theme, or the page starts dark.                       *)
LEMMA CachedTheme ==
  ASSUME NEW saved, saved \subseteq {Fallback, Default} \cup Defs, cache \in saved \cup {NoPalette}
  PROVE  CachedThemeId \in Ids
<1>1. \A p \in saved : p[1] \in Ids
  BY DEF Ids, BuiltIns, Fallback, Default, Defs
<1> QED BY <1>1 DEF CachedThemeId, Ids, BuiltIns

(* Without a session a painted draft gives way to a saved palette.         *)
LEMMA StandsDownKeeps ==
  ASSUME NEW saved, {Fallback, Default} \subseteq saved, saved \subseteq {Fallback, Default} \cup Defs,
         cache \in saved \cup {NoPalette}, NEW s, Honest(s, saved), ~s.ready, s.booted,
         NEW palettes \in Registries, palettes \subseteq saved, StandsDown(s, palettes)
  PROVE  Honest(shell', saved) /\ Resolved(shell') /\ cache' \in saved \cup {NoPalette}
         /\ ~shell'.ready
<1> DEFINE off == [s EXCEPT !.paintedDraft = FALSE, !.key = <<>>]
<1>1. s \in Shells /\ s.registry \subseteq saved /\ (~s.paintedDraft => s.chrome \in saved)
  BY DEF Honest
<1>2. /\ off \in Shells /\ off.key = <<>> /\ ~off.paintedDraft /\ off.chrome = s.chrome
      /\ ~off.ready /\ off.booted /\ off.registry = s.registry
  BY <1>1 DEF Shells, PaintKeys
<1>3. CASE s.paintedDraft
  <2> DEFINE paint == ApplyTheme(CachedThemeId, GetTheme(palettes, CachedThemeId))
  <2>1. shell' = [off EXCEPT !.chrome = paint.chrome] /\ cache' = paint.cache
    BY <1>3 DEF StandsDown, Paints
  <2>2. CachedThemeId \in Ids
    BY CachedTheme
  <2>3. GetTheme(palettes, CachedThemeId) \in saved
    BY <2>2, ThemeFound
  <2>4. paint.chrome \in saved /\ paint.cache \in saved
    BY <2>2, <2>3, ApplyPaints
  <2> HIDE DEF paint, off
  <2>5. paint.chrome \in Palettes
    BY <2>4 DEF Palettes
  <2>6. /\ shell' \in Shells /\ shell'.key = <<>> /\ ~shell'.paintedDraft
        /\ shell'.chrome = paint.chrome /\ ~shell'.ready /\ shell'.registry = s.registry
        /\ shell'.booted
    BY <1>2, <2>1, <2>5 DEF Shells
  <2> QED BY <1>1, <2>1, <2>4, <2>6 DEF Honest, KeyTells, Resolved
<1>4. CASE ~s.paintedDraft
  <2>1. shell' = off /\ cache' = cache
    BY <1>4 DEF StandsDown
  <2> HIDE DEF off
  <2> QED BY <1>1, <1>2, <1>4, <2>1 DEF Honest, KeyTells, Resolved
<1> QED BY <1>3, <1>4

(* The resolver in a session: with a dialog open, and without.  A chrome   *)
(* that was not the light fallback becomes it only as NoFlash allows.      *)
NoFlashFrom(chrome) ==
    shell'.ready /\ shell'.chrome = Fallback /\ chrome # Fallback
        => shell'.theme = Fallback[1] \/ cache[1] # shell'.theme

LEMMA PaintsDraftKeeps ==
  ASSUME NEW saved, cache \in saved \cup {NoPalette}, NEW s, Honest(s, saved), s.ready, s.booted,
         s.draft # NoPalette, PaintsDraft(s)
  PROVE  Honest(shell', saved) /\ Resolved(shell') /\ cache' \in saved \cup {NoPalette}
         /\ NoFlashFrom(s.chrome)
<1>1. s \in Shells /\ s.draft \in Drafts /\ s.registry \subseteq saved
  BY DEF Honest, Shells
<1>2. s.draft \in Palettes /\ <<"draft", s.draft>> \in PaintKeys /\ <<"draft", s.draft>> # <<>>
  BY <1>1 DEF Palettes, PaintKeys
<1>3. /\ shell' \in Shells /\ shell'.key = <<"draft", s.draft>> /\ shell'.paintedDraft
      /\ shell'.chrome = s.draft /\ shell'.draft = s.draft /\ shell'.ready /\ shell'.booted
      /\ shell'.registry = s.registry
  BY <1>1, <1>2 DEF PaintsDraft, Shells
<1>4. Honest(shell', saved)
  BY <1>1, <1>2, <1>3 DEF Honest, KeyTells
<1>5. Resolved(shell')
  BY <1>1, <1>3 DEF Resolved
<1>6. NoFlashFrom(s.chrome)
  BY <1>1, <1>3, PaletteNames DEF NoFlashFrom
<1> QED BY <1>4, <1>5, <1>6 DEF PaintsDraft

(* The repair of a choice that is gone touches the choice alone.           *)
LEMMA RepairedShell ==
  ASSUME NEW saved, NEW s, Honest(s, saved)
  PROVE  LET r == Repaired(s) IN
         /\ Honest(r, saved) /\ r.ready = s.ready /\ r.booted = s.booted /\ r.draft = s.draft
         /\ r.chrome = s.chrome /\ (r.loaded => Known(r.registry, r.theme))
<1>1. s \in Shells
  BY DEF Honest
<1>2. CASE s.loaded /\ ~Known(s.registry, s.theme)
  <2> DEFINE r == [s EXCEPT !.theme = Fallback[1]]
  <2>1. /\ r \in Shells /\ r.registry = s.registry /\ r.chrome = s.chrome /\ r.key = s.key
        /\ r.paintedDraft = s.paintedDraft /\ r.theme = Fallback[1]
        /\ r.ready = s.ready /\ r.booted = s.booted /\ r.draft = s.draft
    BY <1>1, PaletteNames DEF Shells
  <2>2. Repaired(s) = r
    BY <1>2 DEF Repaired
  <2>3. Known(r.registry, r.theme)
    BY <2>1 DEF Known, BuiltIns
  <2> HIDE DEF r
  <2> QED BY <2>1, <2>2, <2>3 DEF Honest, KeyTells
<1>3. CASE ~(s.loaded /\ ~Known(s.registry, s.theme))
  BY <1>3 DEF Repaired
<1> QED BY <1>2, <1>3

(* An equal key means an equal chrome, so skipping the paint loses nothing;*)
(* the fallback under another id leaves a key of another id behind.        *)
LEMMA PaintsSavedKeeps ==
  ASSUME NEW saved, {Fallback, Default} \subseteq saved, saved \subseteq {Fallback, Default} \cup Defs,
         cache \in saved \cup {NoPalette}, NEW s, Honest(s, saved), s.ready, s.booted,
         s.draft = NoPalette, s.loaded => Known(s.registry, s.theme), PaintsSaved(s)
  PROVE  Honest(shell', saved) /\ Resolved(shell') /\ cache' \in saved \cup {NoPalette}
         /\ NoFlashFrom(s.chrome)
<1> DEFINE theme == GetTheme(s.registry, s.theme)
           k == <<"saved", s.theme, theme>>
<1>1. /\ s \in Shells /\ s.registry \subseteq saved /\ KeyTells(s)
      /\ s.registry \in Registries /\ s.theme \in Ids
  BY DEF Honest, Shells
<1>2. theme \in saved /\ (Known(s.registry, s.theme) <=> theme[1] = s.theme)
  BY <1>1, ThemeFound
<1>3. CASE k = s.key
  <2>1. shell' = s /\ cache' = cache
    BY <1>3 DEF PaintsSaved
  <2>2. s.key[1] = "saved" /\ s.key[2] = s.theme /\ s.key[3] = theme /\ s.key # <<>>
    <3>1. k[1] = "saved" /\ k[2] = s.theme /\ k[3] = theme /\ k # <<>>
      OBVIOUS
    <3> HIDE DEF k, theme
    <3> QED BY <1>3, <3>1
  <2> HIDE DEF theme, k
  <2>3. ~s.paintedDraft /\ (theme[1] = s.theme => s.chrome = theme)
    BY <1>1, <2>2 DEF KeyTells
  <2>4. Resolved(s)
    BY <1>2, <2>3 DEF Resolved, theme
  <2> QED BY <2>1, <2>4 DEF NoFlashFrom
<1>4. CASE k # s.key
  <2> DEFINE paint == ApplyTheme(s.theme, theme)
             mid == [s EXCEPT !.key = k, !.paintedDraft = FALSE]
  <2>1. shell' = [mid EXCEPT !.chrome = paint.chrome] /\ cache' = paint.cache
    BY <1>4 DEF PaintsSaved, Paints
  <2>2. /\ paint.chrome \in saved /\ paint.cache \in saved
        /\ theme[1] = s.theme => paint.chrome = theme
        /\ paint.chrome = Fallback => s.theme = Fallback[1] \/ cache[1] # s.theme
    BY <1>1, <1>2, ApplyPaints
  <2>3. theme \in Palettes /\ paint.chrome \in Palettes
    BY <1>2, <2>2 DEF Palettes
  <2>4. k \in PaintKeys /\ k # <<>> /\ k[1] = "saved" /\ k[2] = s.theme /\ k[3] = theme
    BY <1>1, <2>3 DEF PaintKeys
  <2> HIDE DEF paint, k, theme
  <2>5. /\ mid \in Shells /\ mid.key = k /\ ~mid.paintedDraft /\ mid.ready /\ mid.booted
        /\ mid.registry = s.registry /\ mid.draft = s.draft /\ mid.theme = s.theme
        /\ mid.loaded = s.loaded
    BY <1>1, <2>4 DEF Shells
  <2> HIDE DEF mid
  <2>6. /\ shell' \in Shells /\ shell'.key = k /\ ~shell'.paintedDraft /\ shell'.ready
        /\ shell'.booted /\ shell'.registry = s.registry /\ shell'.draft = s.draft
        /\ shell'.theme = s.theme /\ shell'.loaded = s.loaded /\ shell'.chrome = paint.chrome
    BY <2>1, <2>3, <2>5 DEF Shells
  <2>7. Honest(shell', saved)
    BY <1>1, <2>2, <2>4, <2>6 DEF Honest, KeyTells
  <2>8. Resolved(shell')
    BY <1>2, <2>2, <2>6 DEF Resolved, theme
  <2>9. NoFlashFrom(s.chrome)
    BY <2>2, <2>6 DEF NoFlashFrom
  <2> QED BY <2>1, <2>2, <2>7, <2>8, <2>9
<1> QED BY <1>3, <1>4

(* The resolver settles whatever it is given.                              *)
LEMMA ResolvesKeeps ==
  ASSUME NEW saved, {Fallback, Default} \subseteq saved, saved \subseteq {Fallback, Default} \cup Defs,
         cache \in saved \cup {NoPalette}, NEW s, Honest(s, saved), s.booted, Resolves(s)
  PROVE  Honest(shell', saved) /\ Resolved(shell') /\ cache' \in saved \cup {NoPalette}
         /\ NoFlashFrom(s.chrome)
<1>1. CASE ~s.ready /\ StandsDown(s, s.registry)
  <2>1. s.registry \in Registries /\ s.registry \subseteq saved
    BY DEF Honest, Shells
  <2> QED BY <1>1, <2>1, StandsDownKeeps DEF NoFlashFrom
<1>2. CASE s.ready /\ s.draft # NoPalette /\ PaintsDraft(s)
  BY <1>2, PaintsDraftKeeps
<1>3. CASE s.ready /\ s.draft = NoPalette /\ PaintsSaved(Repaired(s))
  <2> DEFINE r == Repaired(s)
  <2>1. /\ Honest(r, saved) /\ r.ready = s.ready /\ r.booted = s.booted /\ r.draft = s.draft
        /\ r.chrome = s.chrome /\ (r.loaded => Known(r.registry, r.theme))
    BY RepairedShell
  <2>2. PaintsSaved(r)
    BY <1>3
  <2> HIDE DEF r
  <2> QED BY <1>3, <2>1, <2>2, PaintsSavedKeeps DEF NoFlashFrom
<1> QED BY <1>1, <1>2, <1>3 DEF Resolves

(* A step that changes what the resolver reads, and runs it.               *)
LEMMA StepKeeps ==
  ASSUME PaintInv, real \subseteq real', real' \subseteq {Fallback, Default} \cup Defs,
         NEW s, Honest(s, real'), s.booted, s.chrome = shell.chrome, Resolves(s)
  PROVE  PaintInv' /\ NoFlash
<1>1. {Fallback, Default} \subseteq real' /\ cache \in real' \cup {NoPalette}
  BY DEF PaintInv, SavedTyped
<1>2. Honest(shell', real') /\ Resolved(shell') /\ cache' \in real' \cup {NoPalette}
      /\ NoFlashFrom(shell.chrome)
  BY <1>1, ResolvesKeeps
<1> QED BY <1>1, <1>2 DEF PaintInv, SavedTyped, NoFlash, NoFlashFrom

(* Looking at the shell otherwise changes nothing it shows.                *)
LEMMA StillHonest ==
  ASSUME NEW s, NEW saved, Honest(s, saved), NEW more, saved \subseteq more,
         NEW r \in Shells, r.registry \subseteq more, r.chrome = s.chrome, r.key = s.key,
         r.paintedDraft = s.paintedDraft
  PROVE  Honest(r, more)
BY DEF Honest, KeyTells

(* One lemma per action.                                                   *)
LEMMA SettingsReadyKeeps == ASSUME PaintInv, SettingsReady PROVE PaintInv' /\ NoFlash
<1>1. PICK id \in BuiltIns \cup Customs : Resolves([shell EXCEPT !.ready = TRUE, !.theme = id])
  BY DEF SettingsReady
<1> DEFINE s == [shell EXCEPT !.ready = TRUE, !.theme = id]
<1>2. shell \in Shells /\ shell.booted /\ real' = real
  BY DEF PaintInv, Honest, SettingsReady
<1>3. /\ s \in Shells /\ s.registry = shell.registry /\ s.chrome = shell.chrome
      /\ s.key = shell.key /\ s.paintedDraft = shell.paintedDraft /\ s.booted
  BY <1>2 DEF Shells, Ids
<1>4. Resolves(s)
  BY <1>1
<1> HIDE DEF s
<1>5. Honest(s, real')
  BY <1>2, <1>3, StillHonest DEF PaintInv, Honest
<1> QED BY <1>2, <1>3, <1>4, <1>5, StepKeeps DEF PaintInv, SavedTyped

LEMMA RegistryArrivesKeeps == ASSUME PaintInv, RegistryArrives PROVE PaintInv' /\ NoFlash
<1>1. PICK r \in Registries :
         Resolves([shell EXCEPT !.loaded = TRUE, !.registry = r]) /\ real' = real \cup r
  BY DEF RegistryArrives
<1> DEFINE s == [shell EXCEPT !.loaded = TRUE, !.registry = r]
<1>2. shell \in Shells /\ shell.booted
  BY DEF PaintInv, Honest, RegistryArrives
<1>3. /\ s \in Shells /\ s.registry = r /\ s.chrome = shell.chrome
      /\ s.key = shell.key /\ s.paintedDraft = shell.paintedDraft /\ s.booted
  BY <1>2 DEF Shells
<1>4. Resolves(s)
  BY <1>1
<1> HIDE DEF s
<1>5. Honest(s, real')
  BY <1>1, <1>2, <1>3, StillHonest DEF PaintInv, Honest
<1>6. real \subseteq real' /\ real' \subseteq {Fallback, Default} \cup Defs
  BY <1>1, PaletteNames DEF PaintInv, SavedTyped
<1> QED BY <1>3, <1>4, <1>5, <1>6, StepKeeps

LEMMA PickThemeKeeps == ASSUME PaintInv, PickTheme PROVE PaintInv' /\ NoFlash
<1>1. PICK id \in BuiltIns \cup {d[1] : d \in shell.registry} :
         Resolves([shell EXCEPT !.theme = id])
  BY DEF PickTheme
<1> DEFINE s == [shell EXCEPT !.theme = id]
<1>2. shell \in Shells /\ shell.ready /\ shell.booted /\ real' = real
  BY DEF PaintInv, Honest, Resolved, PickTheme
<1>3. id \in Ids
  BY <1>2, PaletteNames DEF Shells, Ids, Defs
<1>4. /\ s \in Shells /\ s.registry = shell.registry /\ s.chrome = shell.chrome
      /\ s.key = shell.key /\ s.paintedDraft = shell.paintedDraft /\ s.booted
  BY <1>2, <1>3 DEF Shells
<1>5. Resolves(s)
  BY <1>1
<1> HIDE DEF s
<1>6. Honest(s, real')
  BY <1>2, <1>4, StillHonest DEF PaintInv, Honest
<1> QED BY <1>2, <1>4, <1>5, <1>6, StepKeeps DEF PaintInv, SavedTyped

LEMMA SetThemePreviewKeeps == ASSUME PaintInv, SetThemePreview PROVE PaintInv' /\ NoFlash
<1>1. PICK draft \in Drafts : Resolves([shell EXCEPT !.draft = draft])
  BY DEF SetThemePreview
<1> DEFINE s == [shell EXCEPT !.draft = draft]
<1>2. shell \in Shells /\ shell.ready /\ shell.booted /\ real' = real
  BY DEF PaintInv, Honest, Resolved, SetThemePreview
<1>3. /\ s \in Shells /\ s.registry = shell.registry /\ s.chrome = shell.chrome
      /\ s.key = shell.key /\ s.paintedDraft = shell.paintedDraft /\ s.booted
  BY <1>2 DEF Shells
<1>4. Resolves(s)
  BY <1>1
<1> HIDE DEF s
<1>5. Honest(s, real')
  BY <1>2, <1>3, StillHonest DEF PaintInv, Honest
<1> QED BY <1>2, <1>3, <1>4, <1>5, StepKeeps DEF PaintInv, SavedTyped

LEMMA SaveArrivesKeeps == ASSUME PaintInv, SaveArrives PROVE PaintInv' /\ NoFlash
<1>1. PICK def \in Defs :
         /\ Resolves([shell EXCEPT !.registry = {d \in shell.registry : d[1] # def[1]} \cup {def},
                                   !.theme = IF Known(shell.registry, def[1]) THEN @ ELSE def[1]])
         /\ real' = real \cup {def}
  BY DEF SaveArrives
<1> DEFINE r == {d \in shell.registry : d[1] # def[1]} \cup {def}
           id == IF Known(shell.registry, def[1]) THEN shell.theme ELSE def[1]
           s == [shell EXCEPT !.registry = r, !.theme = id]
<1>2. shell \in Shells /\ shell.ready /\ shell.booted /\ shell.registry \subseteq real
  BY DEF PaintInv, Honest, Resolved, SaveArrives
<1>3. r \in Registries /\ id \in Ids /\ r \subseteq real'
  BY <1>1, <1>2 DEF Shells, Registries, Ids, Defs
<1>4. Resolves(s)
  BY <1>1
<1> HIDE DEF r, id
<1>5. /\ s \in Shells /\ s.registry = r /\ s.chrome = shell.chrome
      /\ s.key = shell.key /\ s.paintedDraft = shell.paintedDraft /\ s.booted
  BY <1>2, <1>3 DEF Shells
<1> HIDE DEF s
<1>6. Honest(s, real')
  BY <1>1, <1>2, <1>3, <1>5, StillHonest DEF PaintInv, Honest
<1>7. real \subseteq real' /\ real' \subseteq {Fallback, Default} \cup Defs
  BY <1>1 DEF PaintInv, SavedTyped
<1> QED BY <1>4, <1>5, <1>6, <1>7, StepKeeps

LEMMA RemovalArrivesKeeps == ASSUME PaintInv, RemovalArrives PROVE PaintInv' /\ NoFlash
<1>1. PICK d \in shell.registry, other \in BuiltIns :
         Resolves([shell EXCEPT !.registry = @ \ {d}, !.draft = NoPalette,
                                !.theme = IF @ = d[1] THEN other ELSE @])
  BY DEF RemovalArrives
<1> DEFINE r == shell.registry \ {d}
           id == IF shell.theme = d[1] THEN other ELSE shell.theme
           s == [shell EXCEPT !.registry = r, !.draft = NoPalette, !.theme = id]
<1>2. /\ shell \in Shells /\ shell.ready /\ shell.booted /\ shell.registry \subseteq real
      /\ real' = real
  BY DEF PaintInv, Honest, Resolved, RemovalArrives
<1>3. r \in Registries /\ id \in Ids /\ r \subseteq real'
  BY <1>2 DEF Shells, Registries, Ids
<1>4. Resolves(s)
  BY <1>1
<1> HIDE DEF r, id
<1>5. /\ s \in Shells /\ s.registry = r /\ s.chrome = shell.chrome
      /\ s.key = shell.key /\ s.paintedDraft = shell.paintedDraft /\ s.booted
  BY <1>2, <1>3 DEF Shells
<1> HIDE DEF s
<1>6. Honest(s, real')
  BY <1>2, <1>3, <1>5, StillHonest DEF PaintInv, Honest
<1> QED BY <1>2, <1>4, <1>5, <1>6, StepKeeps DEF PaintInv, SavedTyped

(* A dialog may outlive its session: the page is past its start all the    *)
(* same.                                                                   *)
LEMMA CloseEditorKeeps == ASSUME PaintInv, CloseEditor PROVE PaintInv' /\ NoFlash
<1> DEFINE s == [shell EXCEPT !.draft = NoPalette]
<1>1. Resolves(s) /\ real' = real /\ shell.draft # NoPalette
  BY DEF CloseEditor
<1>2. shell \in Shells /\ shell.booted
  BY <1>1 DEF PaintInv, Honest, Resolved
<1>3. /\ s \in Shells /\ s.registry = shell.registry /\ s.chrome = shell.chrome
      /\ s.key = shell.key /\ s.paintedDraft = shell.paintedDraft /\ s.booted
  BY <1>2 DEF Shells
<1> HIDE DEF s
<1>4. Honest(s, real')
  BY <1>1, <1>2, <1>3, StillHonest DEF PaintInv, Honest
<1> QED BY <1>1, <1>3, <1>4, StepKeeps DEF PaintInv, SavedTyped

LEMMA SignsOutKeeps == ASSUME PaintInv, SignsOut PROVE PaintInv' /\ NoFlash
<1> DEFINE s == [shell EXCEPT !.ready = FALSE, !.loaded = FALSE, !.registry = {}]
<1>1. PICK palettes \in {{}, shell.registry} : StandsDown(s, palettes)
  BY DEF SignsOut
<1>2. shell \in Shells /\ shell.booted /\ real' = real /\ shell.registry \subseteq real
  BY DEF PaintInv, Honest, SignsOut
<1>3. {} \in Registries
  BY DEF Registries
<1>4. /\ s \in Shells /\ s.registry = {} /\ s.chrome = shell.chrome
      /\ s.key = shell.key /\ s.paintedDraft = shell.paintedDraft /\ ~s.ready /\ s.booted
  BY <1>2, <1>3 DEF Shells
<1> HIDE DEF s
<1>5. Honest(s, real)
  BY <1>2, <1>4, StillHonest DEF PaintInv, Honest
<1>6. palettes \in Registries /\ palettes \subseteq real
  BY <1>2, <1>3 DEF Shells
<1>7. Honest(shell', real) /\ Resolved(shell') /\ cache' \in real \cup {NoPalette} /\ ~shell'.ready
  BY <1>1, <1>4, <1>5, <1>6, StandsDownKeeps DEF PaintInv, SavedTyped
<1> QED BY <1>2, <1>7 DEF PaintInv, SavedTyped, NoFlash

(* A page before its app: bare, or painted from the cache.                 *)
LEMMA FreshShell ==
  ASSUME NEW chrome \in Palettes, NEW saved, chrome \in saved, NEW s,
         \/ s = NoShell /\ chrome = Default
         \/ s = [NoShell EXCEPT !.up = TRUE, !.chrome = chrome]
  PROVE  Honest(s, saved) /\ Resolved(s) /\ ~s.ready
<1>1. {} \in Registries
  BY DEF Registries
<1> DEFINE Fresh == s \in Shells /\ s.key = <<>> /\ ~s.paintedDraft /\ s.chrome = chrome /\ ~s.ready
                    /\ s.registry = {} /\ s.draft = NoPalette
<1>2. CASE s = NoShell /\ chrome = Default
  <2>1. Fresh
    BY <1>1, <1>2, PaletteNames DEF NoShell, Shells, PaintKeys, Palettes
  <2> QED BY <2>1 DEF Honest, KeyTells, Resolved
<1>3. CASE s = [NoShell EXCEPT !.up = TRUE, !.chrome = chrome]
  <2>1. Fresh
    BY <1>1, <1>3, PaletteNames DEF NoShell, Shells, PaintKeys, Palettes
  <2> QED BY <2>1 DEF Honest, KeyTells, Resolved
<1> QED BY <1>2, <1>3

(* The steps outside a session: the key is empty, and nothing is worn but  *)
(* what was saved.                                                         *)
LEMMA LoadShellKeeps == ASSUME PaintInv, LoadShell PROVE PaintInv' /\ NoFlash
<1> DEFINE chrome == IF cache = NoPalette THEN Default ELSE cache
<1>1. /\ shell' = [NoShell EXCEPT !.up = TRUE, !.chrome = chrome]
      /\ cache' = cache /\ real' = real
  BY DEF LoadShell
<1>2. chrome \in real /\ chrome \in Palettes
  BY DEF PaintInv, SavedTyped, Palettes
<1> HIDE DEF chrome
<1>3. Honest(shell', real) /\ Resolved(shell') /\ ~shell'.ready
  BY <1>1, <1>2, FreshShell
<1> QED BY <1>1, <1>3 DEF PaintInv, SavedTyped, NoFlash

LEMMA CloseShellKeeps == ASSUME PaintInv, CloseShell PROVE PaintInv' /\ NoFlash
<1>1. shell' = NoShell /\ cache' = cache /\ real' = real
  BY DEF CloseShell
<1>2. Default \in real /\ Default \in Palettes
  BY DEF PaintInv, SavedTyped, Palettes
<1>3. Honest(shell', real) /\ Resolved(shell') /\ ~shell'.ready
  BY <1>1, <1>2, FreshShell
<1> QED BY <1>1, <1>3 DEF PaintInv, SavedTyped, NoFlash

LEMMA AppSettlesKeeps == ASSUME PaintInv, AppSettles PROVE PaintInv' /\ NoFlash
<1> DEFINE mid   == [shell EXCEPT !.booted = TRUE]
           paint == ApplyTheme(CachedThemeId, GetTheme(shell.registry, CachedThemeId))
<1>1. /\ shell' = [mid EXCEPT !.chrome = paint.chrome] /\ cache' = paint.cache
      /\ real' = real /\ ~shell.booted
  BY DEF AppSettles, Paints
<1>2. /\ shell \in Shells /\ shell.registry \in Registries /\ shell.registry \subseteq real
      /\ ~shell.ready /\ shell.key = <<>> /\ ~shell.paintedDraft
  BY <1>1 DEF PaintInv, Honest, Resolved, KeyTells, Shells
<1>3. CachedThemeId \in Ids
  BY CachedTheme DEF PaintInv, SavedTyped
<1>4. GetTheme(shell.registry, CachedThemeId) \in real
  BY <1>2, <1>3, ThemeFound DEF PaintInv, SavedTyped
<1>5. paint.chrome \in real /\ paint.cache \in real
  BY <1>3, <1>4, ApplyPaints DEF PaintInv, SavedTyped
<1> HIDE DEF paint
<1>6. paint.chrome \in Palettes
  BY <1>5 DEF PaintInv, SavedTyped, Palettes
<1>7. /\ mid \in Shells /\ mid.booted /\ mid.registry = shell.registry /\ ~mid.ready
      /\ mid.key = <<>> /\ ~mid.paintedDraft
  BY <1>2 DEF Shells
<1> HIDE DEF mid
<1>8. /\ shell' \in Shells /\ shell'.booted /\ shell'.registry = shell.registry
      /\ ~shell'.ready /\ shell'.key = <<>> /\ ~shell'.paintedDraft
      /\ shell'.chrome = paint.chrome
  BY <1>1, <1>6, <1>7 DEF Shells
<1>9. Honest(shell', real) /\ Resolved(shell')
  BY <1>2, <1>5, <1>8 DEF Honest, KeyTells, Resolved
<1> QED BY <1>1, <1>5, <1>8, <1>9 DEF PaintInv, SavedTyped, NoFlash

LEMMA OtherTabPaintsKeeps == ASSUME PaintInv, OtherTabPaints PROVE PaintInv' /\ NoFlash
BY DEF PaintInv, SavedTyped, OtherTabPaints, NoFlash

LEMMA PaintInitInv == PaintInit => PaintInv
<1> SUFFICES ASSUME PaintInit PROVE PaintInv
  OBVIOUS
<1>1. Default \in Palettes /\ Default \in {Fallback, Default}
  BY DEF Palettes
<1>2. Honest(NoShell, {Fallback, Default}) /\ Resolved(NoShell)
  BY <1>1, FreshShell
<1> QED BY <1>2 DEF PaintInit, PaintInv, SavedTyped

(* PaintInv is inductive, and each step flashes only as NoFlash allows.    *)
LEMMA PaintStepInv == PaintInv /\ [PaintNext]_paintVars => PaintInv' /\ NoFlash
<1> SUFFICES ASSUME PaintInv, [PaintNext]_paintVars PROVE PaintInv' /\ NoFlash
  OBVIOUS
<1>1. CASE PaintNext
  BY <1>1, LoadShellKeeps, AppSettlesKeeps, CloseShellKeeps, SettingsReadyKeeps,
     RegistryArrivesKeeps, PickThemeKeeps, SetThemePreviewKeeps, SaveArrivesKeeps,
     RemovalArrivesKeeps, CloseEditorKeeps, SignsOutKeeps, OtherTabPaintsKeeps DEF PaintNext
<1>2. CASE UNCHANGED paintVars
  BY <1>2 DEF paintVars, PaintInv, SavedTyped, NoFlash
<1> QED BY <1>1, <1>2

(* A painted draft left its key, so a session is there to edit it.         *)
LEMMA PaintInvShows == PaintInv => NoStrandedDraft /\ ChromeIsChosen
<1> SUFFICES ASSUME PaintInv PROVE NoStrandedDraft /\ ChromeIsChosen
  OBVIOUS
<1>1. /\ KeyTells(shell) /\ Resolved(shell) /\ (~shell.paintedDraft => shell.chrome \in real)
      /\ cache \in real \cup {NoPalette}
  BY DEF PaintInv, Honest, SavedTyped
<1>2. shell.paintedDraft => shell.ready /\ shell.chrome = shell.draft
  BY <1>1 DEF KeyTells, Resolved
<1> QED BY <1>1, <1>2 DEF NoStrandedDraft, ChromeIsChosen, Resolved

(* Whatever arrives, is chosen, edited or closed, in any order, the chrome *)
(* comes to wear what was chosen or is being edited, and nothing else on   *)
(* the way (App.tsx, the one resolver; lib/theme.ts, applyTheme).          *)
THEOREM ChromeIsTheChosen == PaintSpec => ChromeFollows
<1>1. PaintInv /\ [PaintNext]_paintVars =>
         [NoStrandedDraft' /\ ChromeIsChosen' /\ NoFlash]_paintVars
  <2>1. PaintInv' => NoStrandedDraft' /\ ChromeIsChosen'
    BY PaintInvShows, PTL
  <2> QED BY <2>1, PaintStepInv
<1> QED BY <1>1, PaintInitInv, PaintStepInv, PTL DEF PaintSpec, ChromeFollows

-----------------------------------------------------------------------------
(* The device's alarm and card size (DevicePrefs)                          *)

Alarms == [at : Nat, name : AlarmNames \cup {Unnamed}, n : Nat]
Clocks == [show : BOOLEAN, alarm : Alarms]
TabPages == [open : BOOLEAN, born : Nat, clock : Clocks, inReader : BOOLEAN, ringing : Alarms,
             rung : SUBSET Nat, size : CardSizes \cup {0}, pendingPx : CardSizes \cup {0}]

(* An alarm that is set was armed, after the page loaded if it is a page's.*)
Real(a)        == a.at # 0 => a \in armed
After(a, born) == a.at # 0 => a \in armed /\ a.at > born

(* A page has rung only for alarms numbered before the next, and not for   *)
(* the one it has set.                                                     *)
PageOK(p) ==
    /\ p \in TabPages /\ p.born <= hour
    /\ After(p.clock.alarm, p.born) /\ After(p.ringing, p.born)
    /\ p.clock.alarm.at # 0 => p.clock.alarm.n \notin p.rung
    /\ p.ringing.at <= hour
    /\ \A n \in p.rung : n < Cardinality(armed)

ArmedOK ==
    /\ armed \subseteq Alarms /\ IsFiniteSet(armed)
    /\ \A a \in armed : a.n < Cardinality(armed)
    /\ stored.clock \in Clocks /\ Real(stored.clock.alarm)

(* A tab owes the storage exactly what waits for its timer.                *)
SizeOK(t) ==
    /\ t \in sizing.owing <=> pages[t].pendingPx # 0
    /\ ~pages[t].open => pages[t].pendingPx = 0
    /\ pages[t].pendingPx # 0 => pages[t].size = pages[t].pendingPx
    /\ t \in sizing.by /\ pages[t].pendingPx = 0 => stored.size = pages[t].size

PrefsTypeOK ==
    /\ hour \in Nat
    /\ DOMAIN pages = Tabs /\ pages = [t \in Tabs |-> pages[t]]
    /\ stored \in [clock : Clocks, size : CardSizes \cup {0}]
    /\ sizing \in [by : SUBSET Tabs, owing : SUBSET Tabs]

PrefsInv == /\ PrefsTypeOK /\ ArmedOK /\ ~late
            /\ \A t \in Tabs : PageOK(pages[t]) /\ SizeOK(t)

-----------------------------------------------------------------------------
LEMMA NextInstant ==
  ASSUME NEW from \in Nat, NEW h \in 0 .. Day - 1
  PROVE  AlarmTargetFrom(from, h) \in Nat /\ AlarmTargetFrom(from, h) > from
<1>1. Day \in Nat /\ Day > 0 /\ h \in Nat
  BY PrefsAssumption
<1>2. from % Day \in Nat /\ from % Day < Day
  BY <1>1
<1> DEFINE r == from % Day
<1>3. r \in Nat /\ r < Day /\ r <= from
  BY <1>1, <1>2
<1> HIDE DEF r
<1>4. AlarmTargetFrom(from, h) = IF (from - r) + h <= from THEN (from - r) + h + Day ELSE (from - r) + h
  BY DEF AlarmTargetFrom, r
<1> QED BY <1>1, <1>3, <1>4

LEMMA OneMoreArmed ==
  ASSUME ArmedOK, NEW at \in Nat, NEW name \in AlarmNames \cup {Unnamed}, NEW a,
         a = [at |-> at, name |-> name, n |-> Cardinality(armed)],
         armed' = armed \cup {a}
  PROVE  /\ a \in Alarms /\ armed' \subseteq Alarms /\ IsFiniteSet(armed') /\ a \in armed'
         /\ Cardinality(armed) \in Nat /\ Cardinality(armed') = Cardinality(armed) + 1
         /\ \A b \in armed' : b.n < Cardinality(armed')
<1>1. Cardinality(armed) \in Nat
  BY FS_CardinalityType DEF ArmedOK
<1>2. a \in Alarms /\ a.n = Cardinality(armed)
  BY <1>1 DEF Alarms
<1>3. a \notin armed
  BY <1>1, <1>2 DEF ArmedOK
<1>4. IsFiniteSet(armed') /\ Cardinality(armed') = Cardinality(armed) + 1
  BY <1>3, FS_AddElement DEF ArmedOK
<1>5. \A b \in armed' : b \in Alarms /\ b.n < Cardinality(armed')
  <2> SUFFICES ASSUME NEW b \in armed'  PROVE b \in Alarms /\ b.n < Cardinality(armed')
    OBVIOUS
  <2>1. CASE b = a
    BY <1>1, <1>2, <1>4, <2>1
  <2>2. CASE b \in armed
    <3>1. b \in Alarms /\ b.n \in Nat /\ b.n < Cardinality(armed)
      BY <2>2 DEF ArmedOK, Alarms
    <3> QED BY <1>1, <1>4, <3>1
  <2> QED BY <2>1, <2>2
<1> QED BY <1>1, <1>2, <1>4, <1>5

(* The frame: time goes on, and alarms are only added.                     *)
LEMMA PageStays ==
  ASSUME NEW p, PageOK(p), hour \in Nat, hour' \in Nat, hour' >= hour, armed \subseteq armed',
         Cardinality(armed) \in Nat, Cardinality(armed') \in Nat,
         Cardinality(armed') >= Cardinality(armed)
  PROVE  PageOK(p)'
<1>1. p.born \in Nat /\ p.ringing.at \in Nat /\ \A n \in p.rung : n \in Nat
  BY DEF PageOK, TabPages, Alarms
<1>2. p.born <= hour' /\ p.ringing.at <= hour' /\ \A n \in p.rung : n < Cardinality(armed')
  BY <1>1 DEF PageOK
<1> QED BY <1>2 DEF PageOK, After

LEMMA ArmedStays ==
  ASSUME ArmedOK, armed' = armed, stored' = stored
  PROVE  ArmedOK'
  BY DEF ArmedOK, Real

LEMMA ArmedCount == ArmedOK => Cardinality(armed) \in Nat
  BY FS_CardinalityType DEF ArmedOK

LEMMA PageHas ==
  ASSUME PrefsInv, NEW t \in Tabs, NEW p, p = pages[t]
  PROVE  /\ PageOK(p) /\ p \in TabPages /\ p.clock \in Clocks /\ p.clock.alarm \in Alarms
         /\ p.ringing \in Alarms /\ p.born \in Nat /\ p.rung \in SUBSET Nat
         /\ p.size \in CardSizes \cup {0} /\ p.pendingPx \in CardSizes \cup {0}
         /\ p.born <= hour /\ hour \in Nat /\ ArmedOK
         /\ DOMAIN pages = Tabs
         /\ stored \in [clock : Clocks, size : CardSizes \cup {0}]
         /\ armed \subseteq Alarms /\ Cardinality(armed) \in Nat /\ SizeOK(t)
BY ArmedCount DEF PrefsInv, PrefsTypeOK, PageOK, TabPages, Clocks, ArmedOK

LEMMA NoneSet == /\ NoAlarm \in Alarms /\ NoAlarm.at = 0 /\ ClockDefaults \in Clocks
                 /\ ClockDefaults.alarm = NoAlarm
                 /\ NoPage \in TabPages /\ NoPage.born = 0 /\ NoPage.clock = ClockDefaults
                 /\ NoPage.ringing = NoAlarm /\ NoPage.rung = {} /\ NoPage.pendingPx = 0
                 /\ NoPage.size = 0 /\ NoPage.open = FALSE
BY DEF NoAlarm, ClockDefaults, NoPage, Alarms, Clocks, TabPages

(* The frame of a step that changes one page and perhaps arms an alarm.    *)
LEMMA OnePage ==
  ASSUME PrefsInv, NEW t \in Tabs, NEW p, pages' = [pages EXCEPT ![t] = p],
         hour' = hour, late' = late,
         stored' \in [clock : Clocks, size : CardSizes \cup {0}],
         sizing' \in [by : SUBSET Tabs, owing : SUBSET Tabs],
         ArmedOK', armed \subseteq armed', Cardinality(armed') >= Cardinality(armed),
         PageOK(p)',
         \A u \in Tabs : SizeOK(u)'
  PROVE  PrefsInv'
<1>1. /\ pages'[t] = p /\ \A u \in Tabs : u # t => pages'[u] = pages[u]
      /\ DOMAIN pages' = Tabs /\ pages' = [u \in Tabs |-> pages'[u]]
  BY DEF PrefsInv, PrefsTypeOK
<1>2. hour \in Nat /\ Cardinality(armed) \in Nat /\ Cardinality(armed') \in Nat
  BY ArmedCount, FS_CardinalityType DEF PrefsInv, PrefsTypeOK, ArmedOK
<1>3. PrefsTypeOK'
  BY <1>1 DEF PrefsInv, PrefsTypeOK
<1>4. ASSUME NEW u \in Tabs  PROVE PageOK(pages[u])'
  <2>1. CASE u = t
    BY <1>1, <2>1 DEF PageOK, After
  <2>2. CASE u # t
    <3>1. PICK x : x = pages[u]
      OBVIOUS
    <3>2. pages'[u] = x /\ PageOK(x)
      BY <1>1, <2>2, <3>1 DEF PrefsInv
    <3>3. PageOK(x)'
      BY <1>2, <3>2, PageStays
    <3> QED BY <3>2, <3>3 DEF PageOK, After
  <2> QED BY <2>1, <2>2
<1> QED BY <1>3, <1>4 DEF PrefsInv

(* A page whose size stays.                                                *)
LEMMA SizesStay ==
  ASSUME PrefsInv, NEW t \in Tabs, NEW p, pages' = [pages EXCEPT ![t] = p],
         p.size = pages[t].size, p.pendingPx = pages[t].pendingPx, p.open = pages[t].open,
         sizing' = sizing, stored'.size = stored.size
  PROVE  (\A u \in Tabs : SizeOK(u)') /\ sizing' \in [by : SUBSET Tabs, owing : SUBSET Tabs]
<1>1. \A u \in Tabs : /\ pages'[u].size = pages[u].size /\ pages'[u].pendingPx = pages[u].pendingPx
                      /\ pages'[u].open = pages[u].open
  BY DEF PrefsInv, PrefsTypeOK
<1> QED BY <1>1 DEF PrefsInv, PrefsTypeOK, SizeOK

LEMMA LoadPageStep ==
  ASSUME PrefsInv, NEW t \in Tabs, LoadPage(t)
  PROVE  PrefsInv'
<1>1. PICK c : c = ReadClock(stored.clock)
  OBVIOUS
<1>2. PICK p : p = [NoPage EXCEPT !.open = TRUE, !.born = hour, !.clock = c, !.size = stored.size]
  OBVIOUS
<1>3. /\ ~pages[t].open /\ pages' = [pages EXCEPT ![t] = p]
      /\ hour' = hour /\ stored' = stored /\ armed' = armed /\ sizing' = sizing /\ late' = late
  BY <1>1, <1>2 DEF LoadPage
<1>4. /\ c \in Clocks /\ After(c.alarm, hour)
  <2>1. stored.clock \in Clocks /\ Real(stored.clock.alarm) /\ hour \in Nat
    BY DEF PrefsInv, PrefsTypeOK, ArmedOK
  <2>2. CASE stored.clock.alarm.at > hour
    BY <1>1, <2>1, <2>2 DEF ReadClock, Real, After, Clocks, Alarms
  <2>3. CASE ~(stored.clock.alarm.at > hour)
    <3>1. c = [stored.clock EXCEPT !.alarm = [NoAlarm EXCEPT !.name = stored.clock.alarm.name]]
      BY <1>1, <2>3 DEF ReadClock
    <3>2. [NoAlarm EXCEPT !.name = stored.clock.alarm.name] \in Alarms
          /\ [NoAlarm EXCEPT !.name = stored.clock.alarm.name].at = 0
      BY <2>1, NoneSet DEF Clocks, Alarms
    <3> QED BY <2>1, <3>1, <3>2 DEF After, Clocks
  <2> QED BY <2>2, <2>3
<1>5. /\ p \in TabPages /\ p.born = hour /\ p.rung = {} /\ p.ringing = NoAlarm /\ p.clock = c
      /\ p.size = stored.size /\ p.pendingPx = 0 /\ p.open
  BY <1>2, <1>4, NoneSet DEF TabPages, PrefsInv, PrefsTypeOK
<1>6. PageOK(p)'
  BY <1>3, <1>4, <1>5, NoneSet DEF PageOK, After, PrefsInv, PrefsTypeOK
<1>7. \A u \in Tabs : SizeOK(u)'
  <2> SUFFICES ASSUME NEW u \in Tabs  PROVE SizeOK(u)'
    OBVIOUS
  <2>1. SizeOK(u) /\ SizeOK(t) /\ DOMAIN pages = Tabs
    BY DEF PrefsInv, PrefsTypeOK
  <2>2. CASE u = t
    BY <1>3, <1>5, <2>1, <2>2 DEF SizeOK
  <2>3. CASE u # t
    BY <1>3, <2>1, <2>3 DEF SizeOK
  <2> QED BY <2>2, <2>3
<1>8. ArmedOK' /\ Cardinality(armed) \in Nat
  BY <1>3, ArmedStays, ArmedCount DEF PrefsInv
<1> QED BY <1>3, <1>6, <1>7, <1>8, OnePage DEF PrefsInv, PrefsTypeOK

(* The steps that leave the storage, the alarms and the sizes alone.       *)
LEMMA PageOnly ==
  ASSUME PrefsInv, NEW t \in Tabs, NEW p, pages' = [pages EXCEPT ![t] = p],
         p.size = pages[t].size, p.pendingPx = pages[t].pendingPx, p.open = pages[t].open,
         UNCHANGED <<hour, stored, armed, sizing, late>>, PageOK(p)
  PROVE  PrefsInv'
<1>1. ArmedOK' /\ Cardinality(armed) \in Nat
  BY ArmedStays, ArmedCount DEF PrefsInv
<1>2. (\A u \in Tabs : SizeOK(u)') /\ sizing' \in [by : SUBSET Tabs, owing : SUBSET Tabs]
  BY SizesStay
<1>3. PageOK(p)'
  BY DEF PageOK, After
<1> QED BY <1>1, <1>2, <1>3, OnePage DEF PrefsInv, PrefsTypeOK

LEMMA ReaderSteps ==
  ASSUME PrefsInv, NEW t \in Tabs, EnterReader(t) \/ LeaveReader(t) \/ Dismiss(t)
  PROVE  PrefsInv'
<1>1. PICK q : q = pages[t]
  OBVIOUS
<1>2. /\ PageOK(q) /\ q \in TabPages /\ hour \in Nat
  BY <1>1, PageHas
<1>3. UNCHANGED <<hour, stored, armed, sizing, late>>
  BY DEF EnterReader, LeaveReader, Dismiss
<1>4. PICK p : /\ pages' = [pages EXCEPT ![t] = p]
               /\ \/ p = [q EXCEPT !.inReader = TRUE]
                  \/ p = [q EXCEPT !.inReader = FALSE, !.ringing = NoAlarm]
                  \/ p = [q EXCEPT !.ringing = NoAlarm]
  <2> DOMAIN pages = Tabs
    BY DEF PrefsInv, PrefsTypeOK
  <2>1. CASE EnterReader(t)
    BY <1>1, <2>1 DEF EnterReader
  <2>2. CASE LeaveReader(t)
    <3>1. pages' = [pages EXCEPT ![t].inReader = FALSE, ![t].ringing = NoAlarm]
      BY <2>2 DEF LeaveReader
    <3>2. pages' = [pages EXCEPT ![t] = [q EXCEPT !.inReader = FALSE, !.ringing = NoAlarm]]
      BY <1>1, <1>2, <3>1 DEF TabPages
    <3> QED BY <3>2
  <2>3. CASE Dismiss(t)
    BY <1>1, <2>3 DEF Dismiss
  <2> QED BY <2>1, <2>2, <2>3
<1>5. /\ p \in TabPages /\ p.born = q.born /\ p.clock = q.clock /\ p.rung = q.rung
      /\ p.ringing \in {q.ringing, NoAlarm} /\ p.size = q.size /\ p.pendingPx = q.pendingPx
      /\ p.open = q.open
  BY <1>2, <1>4, NoneSet DEF TabPages
<1>6. PageOK(p)
  BY <1>2, <1>5, NoneSet DEF PageOK, After
<1> QED BY <1>1, <1>3, <1>4, <1>5, <1>6, PageOnly

(* The steps that write the clock, and may arm an alarm.                   *)
LEMMA Patches ==
  ASSUME PrefsInv, NEW t \in Tabs, NEW p, NEW c \in Clocks, pages' = [pages EXCEPT ![t] = p],
         stored' = [stored EXCEPT !.clock = c],
         p.size = pages[t].size, p.pendingPx = pages[t].pendingPx, p.open = pages[t].open,
         UNCHANGED <<hour, sizing, late>>,
         armed \subseteq armed', armed' \subseteq Alarms, IsFiniteSet(armed'),
         Cardinality(armed') >= Cardinality(armed), \A a \in armed' : a.n < Cardinality(armed'),
         c.alarm.at # 0 => c.alarm \in armed', PageOK(p)'
  PROVE  PrefsInv'
<1>1. /\ stored' \in [clock : Clocks, size : CardSizes \cup {0}] /\ stored'.clock = c
      /\ stored'.size = stored.size
  BY DEF PrefsInv, PrefsTypeOK
<1>2. ArmedOK'
  BY <1>1 DEF ArmedOK, Real
<1>3. (\A u \in Tabs : SizeOK(u)') /\ sizing' \in [by : SUBSET Tabs, owing : SUBSET Tabs]
  BY <1>1, SizesStay
<1> QED BY <1>1, <1>2, <1>3, OnePage

LEMMA SetShowStep ==
  ASSUME PrefsInv, NEW t \in Tabs, SetShow(t) \/ Clear(t) \/ RingDue(t)
  PROVE  PrefsInv'
<1>1. PICK q : q = pages[t]
  OBVIOUS
<1>2. /\ PageOK(q) /\ q \in TabPages /\ hour \in Nat /\ ArmedOK /\ Cardinality(armed) \in Nat
      /\ q.clock \in Clocks /\ q.clock.alarm \in Alarms /\ q.rung \in SUBSET Nat
  BY <1>1, PageHas
<1>3. UNCHANGED <<hour, armed, sizing, late>>
  BY DEF SetShow, Clear, RingDue
<1>4. \/ /\ stored' = [stored EXCEPT !.clock = [q.clock EXCEPT !.show = ~@]]
         /\ pages' = [pages EXCEPT ![t].clock = [q.clock EXCEPT !.show = ~@]]
      \/ /\ stored' = [stored EXCEPT !.clock = [q.clock EXCEPT !.alarm = NoAlarm]]
         /\ pages' = [pages EXCEPT ![t].clock = [q.clock EXCEPT !.alarm = NoAlarm]]
      \/ /\ stored' = [stored EXCEPT !.clock = [q.clock EXCEPT !.alarm = NoAlarm]]
         /\ pages' = [pages EXCEPT ![t].clock = [q.clock EXCEPT !.alarm = NoAlarm],
                                   ![t].ringing = q.clock.alarm,
                                   ![t].rung = @ \cup {q.clock.alarm.n}]
         /\ q.clock.alarm.at # 0 /\ q.clock.alarm.at <= hour
  <2>1. CASE SetShow(t)
    BY <1>1, <2>1 DEF SetShow, Patch
  <2>2. CASE Clear(t)
    BY <1>1, <2>2 DEF Clear, Patch
  <2>3. CASE RingDue(t)
    BY <1>1, <2>3 DEF RingDue, Due
  <2> QED BY <2>1, <2>2, <2>3
<1>5. PICK c, p : /\ stored' = [stored EXCEPT !.clock = c] /\ pages' = [pages EXCEPT ![t] = p]
                  /\ \/ c = [q.clock EXCEPT !.show = ~@] /\ p = [q EXCEPT !.clock = c]
                     \/ c = [q.clock EXCEPT !.alarm = NoAlarm] /\ p = [q EXCEPT !.clock = c]
                     \/ /\ c = [q.clock EXCEPT !.alarm = NoAlarm]
                        /\ p = [q EXCEPT !.clock = c, !.ringing = q.clock.alarm,
                                         !.rung = @ \cup {q.clock.alarm.n}]
                        /\ q.clock.alarm.at # 0 /\ q.clock.alarm.at <= hour
  <2>1. DOMAIN pages = Tabs
    BY DEF PrefsInv, PrefsTypeOK
  <2>2. CASE /\ stored' = [stored EXCEPT !.clock = [q.clock EXCEPT !.alarm = NoAlarm]]
             /\ pages' = [pages EXCEPT ![t].clock = [q.clock EXCEPT !.alarm = NoAlarm],
                                   ![t].ringing = q.clock.alarm,
                                   ![t].rung = @ \cup {q.clock.alarm.n}]
             /\ q.clock.alarm.at # 0 /\ q.clock.alarm.at <= hour
    <3>1. PICK c : c = [q.clock EXCEPT !.alarm = NoAlarm]
      OBVIOUS
    <3>2. pages' = [pages EXCEPT ![t] = [q EXCEPT !.clock = c, !.ringing = q.clock.alarm,
                                                  !.rung = @ \cup {q.clock.alarm.n}]]
      BY <1>1, <1>2, <2>1, <2>2, <3>1 DEF TabPages
    <3> QED BY <2>2, <3>1, <3>2
  <2>3. CASE /\ stored' = [stored EXCEPT !.clock = [q.clock EXCEPT !.alarm = NoAlarm]]
             /\ pages' = [pages EXCEPT ![t].clock = [q.clock EXCEPT !.alarm = NoAlarm]]
    <3>1. pages' = [pages EXCEPT ![t] = [q EXCEPT !.clock = [q.clock EXCEPT !.alarm = NoAlarm]]]
      BY <1>1, <2>3
    <3> QED BY <2>3, <3>1
  <2>4. CASE /\ stored' = [stored EXCEPT !.clock = [q.clock EXCEPT !.show = ~@]]
             /\ pages' = [pages EXCEPT ![t].clock = [q.clock EXCEPT !.show = ~@]]
    <3>1. pages' = [pages EXCEPT ![t] = [q EXCEPT !.clock = [q.clock EXCEPT !.show = ~@]]]
      BY <1>1, <2>4
    <3> QED BY <2>4, <3>1
  <2> QED BY <1>4, <2>2, <2>3, <2>4
<1>6. /\ c \in Clocks /\ c.alarm \in {q.clock.alarm, NoAlarm}
  BY <1>2, <1>5, NoneSet DEF Clocks
<1>7. q.rung \cup {q.clock.alarm.n} \in SUBSET Nat
  BY <1>2 DEF Alarms
<1>8. /\ p \in TabPages /\ p.born = q.born /\ p.clock = c /\ p.size = q.size
      /\ p.pendingPx = q.pendingPx /\ p.open = q.open
      /\ \/ p.ringing = q.ringing /\ p.rung = q.rung
         \/ /\ p.ringing = q.clock.alarm /\ p.rung = q.rung \cup {q.clock.alarm.n}
            /\ c.alarm = NoAlarm /\ q.clock.alarm.at # 0 /\ q.clock.alarm.at <= hour
  <2>1. CASE p = [q EXCEPT !.clock = c]
    BY <1>2, <1>6, <2>1 DEF TabPages
  <2>2. CASE /\ c = [q.clock EXCEPT !.alarm = NoAlarm]
             /\ p = [q EXCEPT !.clock = c, !.ringing = q.clock.alarm, !.rung = @ \cup {q.clock.alarm.n}]
             /\ q.clock.alarm.at # 0 /\ q.clock.alarm.at <= hour
    <3>1. c.alarm = NoAlarm
      BY <1>2, <2>2 DEF Clocks
    <3> QED BY <1>2, <1>6, <1>7, <2>2, <3>1 DEF TabPages
  <2> QED BY <1>5, <2>1, <2>2
<1>9. PageOK(p)
  <2>1. /\ p.born <= hour /\ After(p.clock.alarm, p.born) /\ After(p.ringing, p.born)
    BY <1>2, <1>6, <1>8, NoneSet DEF PageOK, After
  <2>2. p.clock.alarm.at # 0 => p.clock.alarm.n \notin p.rung
    BY <1>2, <1>6, <1>8, NoneSet DEF PageOK
  <2>3. \A n \in p.rung : n < Cardinality(armed)
    <3>1. q.clock.alarm.at # 0 => q.clock.alarm.n < Cardinality(armed)
      BY <1>2 DEF PageOK, After, ArmedOK
    <3> QED BY <1>2, <1>8, <3>1 DEF PageOK
  <2>4. p.ringing.at <= hour
    BY <1>2, <1>8 DEF PageOK
  <2> QED BY <1>8, <2>1, <2>2, <2>3, <2>4 DEF PageOK
<1>10. PageOK(p)'
  BY <1>3, <1>9 DEF PageOK, After
<1>11. c.alarm.at # 0 => c.alarm \in armed'
  BY <1>2, <1>3, <1>6, NoneSet DEF PageOK, After
<1>12. armed' = armed /\ armed' \subseteq Alarms /\ IsFiniteSet(armed')
       /\ \A a \in armed' : a.n < Cardinality(armed')
  BY <1>2, <1>3 DEF ArmedOK
<1>13. /\ p.size = pages[t].size /\ p.pendingPx = pages[t].pendingPx /\ p.open = pages[t].open
       /\ armed \subseteq armed' /\ Cardinality(armed') >= Cardinality(armed)
  BY <1>1, <1>2, <1>8, <1>12
<1> QED BY <1>3, <1>5, <1>6, <1>10, <1>11, <1>12, <1>13, Patches

(* Submit and Snooze arm an alarm.                                         *)
LEMMA ArmsStep ==
  ASSUME PrefsInv, NEW t \in Tabs, Submit(t) \/ Snooze(t)
  PROVE  PrefsInv'
<1>1. PICK q : q = pages[t]
  OBVIOUS
<1>2. /\ PageOK(q) /\ q \in TabPages /\ hour \in Nat /\ ArmedOK /\ Cardinality(armed) \in Nat
      /\ q.clock \in Clocks /\ q.clock.alarm \in Alarms /\ q.rung \in SUBSET Nat /\ q.born <= hour
      /\ q.born \in Nat /\ q.ringing \in Alarms
  BY <1>1, PageHas
<1>3. UNCHANGED <<hour, sizing, late>>
  BY DEF Submit, Snooze, SetAlarm
<1>4. PICK at \in Nat, name \in AlarmNames \cup {Unnamed} :
         LET a == [at |-> at, name |-> name, n |-> Cardinality(armed)] IN
         /\ at > hour /\ armed' = armed \cup {a}
         /\ stored' = [stored EXCEPT !.clock = [q.clock EXCEPT !.alarm = a]]
         /\ \/ pages' = [pages EXCEPT ![t].clock = [q.clock EXCEPT !.alarm = a]]
            \/ pages' = [pages EXCEPT ![t].clock = [q.clock EXCEPT !.alarm = a], ![t].ringing = NoAlarm]
  <2>1. CASE Submit(t)
    <3>1. PICK h \in 0 .. Day - 1, name \in AlarmNames : SetAlarm(t, AlarmTargetFrom(hour, h), name)
      BY <2>1 DEF Submit
    <3>2. PICK at : at = AlarmTargetFrom(hour, h)
      OBVIOUS
    <3>3. at \in Nat /\ at > hour
      BY <1>2, <3>2, NextInstant
    <3> QED BY <1>1, <3>1, <3>2, <3>3 DEF SetAlarm, Patch
  <2>2. CASE Snooze(t)
    <3>1. hour + 1 \in Nat /\ hour + 1 > hour /\ q.ringing.name \in AlarmNames \cup {Unnamed}
      BY <1>2 DEF Alarms
    <3> QED BY <1>1, <2>2, <3>1 DEF Snooze
  <2> QED BY <2>1, <2>2
<1>5. PICK a, c : /\ a = [at |-> at, name |-> name, n |-> Cardinality(armed)]
                  /\ c = [q.clock EXCEPT !.alarm = a]
                  /\ at > hour /\ armed' = armed \cup {a} /\ stored' = [stored EXCEPT !.clock = c]
                  /\ \/ pages' = [pages EXCEPT ![t].clock = c]
                     \/ pages' = [pages EXCEPT ![t].clock = c, ![t].ringing = NoAlarm]
  BY <1>4
<1>6. /\ a \in Alarms /\ armed' \subseteq Alarms /\ IsFiniteSet(armed') /\ a \in armed'
      /\ Cardinality(armed') = Cardinality(armed) + 1
      /\ \A b \in armed' : b.n < Cardinality(armed')
  BY <1>2, <1>5, OneMoreArmed
<1>7. c \in Clocks /\ c.alarm = a /\ a.at = at /\ a.n = Cardinality(armed)
  BY <1>2, <1>5, <1>6 DEF Clocks
<1>8. PICK p : /\ pages' = [pages EXCEPT ![t] = p]
               /\ \/ p = [q EXCEPT !.clock = c]
                  \/ p = [q EXCEPT !.clock = c, !.ringing = NoAlarm]
  <2> DOMAIN pages = Tabs
    BY DEF PrefsInv, PrefsTypeOK
  <2>1. CASE pages' = [pages EXCEPT ![t].clock = c]
    BY <1>1, <2>1
  <2>2. CASE pages' = [pages EXCEPT ![t].clock = c, ![t].ringing = NoAlarm]
    <3>1. pages' = [pages EXCEPT ![t] = [q EXCEPT !.clock = c, !.ringing = NoAlarm]]
      BY <1>1, <1>2, <2>2 DEF TabPages
    <3> QED BY <3>1
  <2> QED BY <1>5, <2>1, <2>2
<1>9. /\ p \in TabPages /\ p.born = q.born /\ p.clock = c /\ p.size = q.size /\ p.rung = q.rung
      /\ p.pendingPx = q.pendingPx /\ p.open = q.open /\ p.ringing \in {q.ringing, NoAlarm}
  BY <1>2, <1>7, <1>8, NoneSet DEF TabPages
<1>10. PageOK(p)'
  <2>1. armed \subseteq armed' /\ hour' = hour /\ at > q.born
    BY <1>2, <1>3, <1>5
  <2>2. After(p.clock.alarm, p.born)' /\ After(p.ringing, p.born)'
    BY <1>2, <1>6, <1>7, <1>9, <2>1, NoneSet DEF PageOK, After
  <2>3. \A n \in p.rung : n < Cardinality(armed) /\ n < Cardinality(armed')
    <3>1. \A n \in q.rung : n \in Nat /\ n < Cardinality(armed)
      BY <1>2 DEF PageOK
    <3> QED BY <1>2, <1>6, <1>9, <3>1
  <2>4. p.clock.alarm.n \notin p.rung
    <3>1. ~(Cardinality(armed) < Cardinality(armed))
      BY <1>2
    <3> QED BY <1>7, <1>9, <2>3, <3>1
  <2>5. p.born <= hour' /\ p.ringing.at <= hour'
    BY <1>2, <1>9, <2>1, NoneSet DEF PageOK
  <2> QED BY <1>9, <2>2, <2>3, <2>4, <2>5 DEF PageOK
<1>11. Cardinality(armed') >= Cardinality(armed)
  BY <1>2, <1>6
<1>12. /\ p.size = pages[t].size /\ p.pendingPx = pages[t].pendingPx /\ p.open = pages[t].open
       /\ armed \subseteq armed' /\ (c.alarm.at # 0 => c.alarm \in armed')
  BY <1>1, <1>5, <1>6, <1>7, <1>9
<1> QED BY <1>3, <1>5, <1>6, <1>7, <1>8, <1>10, <1>11, <1>12, Patches

LEMMA TimeStep == PrefsInv /\ TimePasses => PrefsInv'
<1> SUFFICES ASSUME PrefsInv, TimePasses  PROVE PrefsInv'
  OBVIOUS
<1>1. /\ \A t \in Tabs : Ticking(pages[t]) => ~Due(pages[t])
      /\ hour' \in hour + 1 .. MaxHours
      /\ late' = (late \/ \E t \in Tabs : pages[t].inReader /\ Due(pages[t]))
      /\ UNCHANGED <<stored, pages, armed, sizing>>
  BY DEF TimePasses
<1>2. hour \in Nat /\ MaxHours \in Nat /\ hour' \in Nat /\ hour' >= hour
  BY <1>1, PrefsAssumption DEF PrefsInv, PrefsTypeOK
<1>3. PrefsTypeOK'
  BY <1>1, <1>2 DEF PrefsInv, PrefsTypeOK
<1>4. ArmedOK' /\ Cardinality(armed) \in Nat
  BY <1>1, ArmedStays, ArmedCount DEF PrefsInv
<1>5. ~late'
  BY <1>1 DEF PrefsInv, Due, Ticking
<1>6. ASSUME NEW t \in Tabs  PROVE PageOK(pages[t])' /\ SizeOK(t)'
  <2>1. PICK p : p = pages[t] /\ p = pages'[t]
    BY <1>1
  <2>2. PageOK(p)'
    BY <1>1, <1>2, <1>4, <2>1, PageStays DEF PrefsInv
  <2> QED BY <1>1, <2>1, <2>2 DEF PrefsInv, SizeOK, PageOK, After
<1> QED BY <1>3, <1>4, <1>5, <1>6 DEF PrefsInv

(* The steps that choose or write a size, or end a page.                   *)
LEMMA SizeSteps ==
  ASSUME PrefsInv, NEW t \in Tabs, NEW p, pages' = [pages EXCEPT ![t] = p],
         UNCHANGED <<hour, armed, late>>, stored'.clock = stored.clock,
         stored' \in [clock : Clocks, size : CardSizes \cup {0}],
         sizing' \in [by : SUBSET Tabs, owing : SUBSET Tabs],
         PageOK(p), \A u \in Tabs : SizeOK(u)'
  PROVE  PrefsInv'
<1>1. ArmedOK'
  BY DEF PrefsInv, ArmedOK, Real
<1>2. PageOK(p)'
  BY DEF PageOK, After
<1>3. armed' = armed /\ armed \subseteq armed' /\ Cardinality(armed') >= Cardinality(armed)
  BY ArmedCount DEF PrefsInv
<1> QED BY <1>1, <1>2, <1>3, OnePage

LEMMA SetSizeStep ==
  ASSUME PrefsInv, NEW t \in Tabs, NEW px \in CardSizes, SetSize(t, px)
  PROVE  PrefsInv'
<1>1. PICK q : q = pages[t]
  OBVIOUS
<1>2. PageOK(q) /\ q \in TabPages
  BY <1>1, PageHas
<1>3. PICK p : p = [q EXCEPT !.size = px, !.pendingPx = px]
  OBVIOUS
<1>4. /\ pages' = [pages EXCEPT ![t] = p] /\ q.open
      /\ sizing' = [sizing EXCEPT !.owing = @ \cup {t}] /\ UNCHANGED <<hour, stored, armed, late>>
  <2>1. /\ pages' = [pages EXCEPT ![t].size = px, ![t].pendingPx = px] /\ q.open
        /\ sizing' = [sizing EXCEPT !.owing = @ \cup {t}] /\ UNCHANGED <<hour, stored, armed, late>>
    BY <1>1 DEF SetSize
  <2> QED BY <1>1, <1>2, <1>3, <2>1 DEF TabPages, PrefsInv, PrefsTypeOK
<1>5. /\ p \in TabPages /\ p.born = q.born /\ p.clock = q.clock /\ p.rung = q.rung
      /\ p.ringing = q.ringing /\ p.size = px /\ p.pendingPx = px /\ p.open = q.open
  BY <1>2, <1>3 DEF TabPages
<1>6. PageOK(p)
  BY <1>2, <1>5 DEF PageOK
<1>7. \A u \in Tabs : SizeOK(u)'
  <2> SUFFICES ASSUME NEW u \in Tabs  PROVE SizeOK(u)'
    OBVIOUS
  <2>1. /\ SizeOK(u) /\ px # 0 /\ DOMAIN pages = Tabs
        /\ sizing'.owing = sizing.owing \cup {t} /\ sizing'.by = sizing.by
    BY <1>4, PrefsAssumption DEF PrefsInv, PrefsTypeOK
  <2>2. CASE u = t
    BY <1>1, <1>4, <1>5, <2>1, <2>2 DEF SizeOK
  <2>3. CASE u # t
    <3>1. pages'[u] = pages[u] /\ stored' = stored
      BY <1>4, <2>1, <2>3
    <3> QED BY <2>1, <2>3, <3>1 DEF SizeOK
  <2> QED BY <2>2, <2>3
<1>8. sizing' \in [by : SUBSET Tabs, owing : SUBSET Tabs]
  BY <1>4 DEF PrefsInv, PrefsTypeOK
<1> QED BY <1>4, <1>6, <1>7, <1>8, SizeSteps DEF PrefsInv, PrefsTypeOK

(* Whoever writes a size shows it and owes nothing.                        *)
LEMMA WritesSize ==
  ASSUME PrefsInv, NEW t \in Tabs, NEW p, pages' = [pages EXCEPT ![t] = p],
         UNCHANGED <<hour, armed, late>>, NEW px \in CardSizes \cup {0}, Written(t, px),
         p.size = px, p.pendingPx = 0, PageOK(p)
  PROVE  PrefsInv'
<1>1. /\ stored' = [stored EXCEPT !.size = px]
      /\ sizing' = [by |-> {t}, owing |-> sizing.owing \ {t}]
  BY DEF Written
<1>2. /\ stored' \in [clock : Clocks, size : CardSizes \cup {0}] /\ stored'.size = px
      /\ sizing' \in [by : SUBSET Tabs, owing : SUBSET Tabs] /\ stored'.clock = stored.clock
  BY <1>1 DEF PrefsInv, PrefsTypeOK
<1>3. \A u \in Tabs : SizeOK(u)'
  BY <1>1, <1>2 DEF PrefsInv, PrefsTypeOK, SizeOK
<1> QED BY <1>2, <1>3, SizeSteps

(* A page shows the size it owes until it is written.                      *)
LEMMA PersistStep ==
  ASSUME PrefsInv, NEW t \in Tabs, PersistTimer(t) \/ ResetSize(t)
  PROVE  PrefsInv'
<1>1. PICK q : q = pages[t]
  OBVIOUS
<1>2. PageOK(q) /\ q \in TabPages /\ q.size \in CardSizes \cup {0} /\ q.pendingPx \in CardSizes \cup {0}
      /\ DOMAIN pages = Tabs
  BY <1>1, PageHas
<1>3. UNCHANGED <<hour, armed, late>>
  BY DEF PersistTimer, ResetSize
<1>4. CASE PersistTimer(t)
  <2>1. PICK p : p = [q EXCEPT !.pendingPx = 0]
    OBVIOUS
  <2>2. /\ pages' = [pages EXCEPT ![t] = p] /\ q.pendingPx # 0 /\ Written(t, q.pendingPx)
    BY <1>1, <1>4, <2>1 DEF PersistTimer
  <2>3. q.size = q.pendingPx
    BY <1>1, <2>2 DEF PrefsInv, SizeOK
  <2>4. /\ p \in TabPages /\ p.born = q.born /\ p.clock = q.clock /\ p.rung = q.rung
        /\ p.ringing = q.ringing /\ p.size = q.size /\ p.pendingPx = 0
    BY <1>2, <2>1 DEF TabPages
  <2>5. PageOK(p)
    BY <1>2, <2>4 DEF PageOK
  <2> QED BY <1>2, <1>3, <2>2, <2>3, <2>4, <2>5, WritesSize
<1>5. CASE ResetSize(t)
  <2>1. PICK p : p = [q EXCEPT !.size = 0, !.pendingPx = 0]
    OBVIOUS
  <2>2. pages' = [pages EXCEPT ![t] = p] /\ Written(t, 0)
    <3>1. pages' = [pages EXCEPT ![t].size = 0, ![t].pendingPx = 0] /\ Written(t, 0)
      BY <1>5 DEF ResetSize
    <3> QED BY <1>1, <1>2, <2>1, <3>1 DEF TabPages
  <2>3. /\ p \in TabPages /\ p.born = q.born /\ p.clock = q.clock /\ p.rung = q.rung
        /\ p.ringing = q.ringing /\ p.size = 0 /\ p.pendingPx = 0
    BY <1>2, <2>1 DEF TabPages
  <2>4. PageOK(p)
    BY <1>2, <2>3 DEF PageOK
  <2> QED BY <1>3, <2>2, <2>3, <2>4, WritesSize
<1> QED BY <1>4, <1>5

LEMMA LeavesStep ==
  ASSUME PrefsInv, NEW t \in Tabs, PageHides(t) \/ PageDies(t)
  PROVE  PrefsInv'
<1>1. PICK q : q = pages[t]
  OBVIOUS
<1>2. PageOK(q) /\ q \in TabPages /\ q.size \in CardSizes \cup {0} /\ q.pendingPx \in CardSizes \cup {0}
      /\ DOMAIN pages = Tabs /\ hour \in Nat
  BY <1>1, PageHas
<1>3. UNCHANGED <<hour, armed, late>>
  BY DEF PageHides, PageDies
<1>4. CASE PageHides(t)
  <2>1. PICK p : /\ \/ p = [q EXCEPT !.size = q.size, !.pendingPx = 0]
                    \/ p = [NoPage EXCEPT !.size = q.size, !.pendingPx = 0]
                 /\ pages' = [pages EXCEPT ![t] = p]
    BY <1>1, <1>2, <1>4 DEF PageHides
  <2>2. p \in TabPages /\ p.size = q.size /\ p.pendingPx = 0
    BY <1>2, <2>1, NoneSet DEF TabPages
  <2>3. PageOK(p)
    <3>1. CASE p = [q EXCEPT !.size = q.size, !.pendingPx = 0]
      <4>1. p.born = q.born /\ p.clock = q.clock /\ p.rung = q.rung /\ p.ringing = q.ringing
        BY <1>2, <3>1 DEF TabPages
      <4> QED BY <1>2, <2>2, <4>1 DEF PageOK
    <3>2. CASE p = [NoPage EXCEPT !.size = q.size, !.pendingPx = 0]
      <4>1. p.born = 0 /\ p.clock = ClockDefaults /\ p.rung = {} /\ p.ringing = NoAlarm
        BY <3>2, NoneSet DEF TabPages
      <4> QED BY <1>2, <2>2, <4>1, NoneSet DEF PageOK, After
    <3> QED BY <2>1, <3>1, <3>2
  <2>4. CASE q.pendingPx = 0
    <3>1. UNCHANGED <<stored, sizing>>
      BY <1>1, <1>4, <2>4 DEF PageHides, FlushPendingWrite
    <3>2. \A u \in Tabs : SizeOK(u)'
      BY <1>1, <1>2, <2>1, <2>2, <2>4, <3>1 DEF PrefsInv, PrefsTypeOK, SizeOK
    <3> QED BY <1>3, <2>1, <2>3, <3>1, <3>2, SizeSteps DEF PrefsInv, PrefsTypeOK
  <2>5. CASE q.pendingPx # 0
    <3>1. Written(t, q.pendingPx)
      BY <1>1, <1>4, <2>5 DEF PageHides, FlushPendingWrite
    <3>2. q.size = q.pendingPx
      BY <1>1, <2>5 DEF PrefsInv, SizeOK
    <3> QED BY <1>2, <1>3, <2>1, <2>2, <2>3, <3>1, <3>2, WritesSize
  <2> QED BY <2>4, <2>5
<1>5. CASE PageDies(t)
  <2>1. PICK p : p = NoPage
    OBVIOUS
  <2>2. /\ pages' = [pages EXCEPT ![t] = p] /\ stored' = stored
        /\ sizing' = [by |-> sizing.by \ {t}, owing |-> sizing.owing \ {t}]
    BY <1>5, <2>1 DEF PageDies
  <2>3. PageOK(p)
    BY <1>2, <2>1, NoneSet DEF PageOK, After
  <2>4. \A u \in Tabs : SizeOK(u)'
    BY <1>2, <2>1, <2>2, NoneSet DEF PrefsInv, PrefsTypeOK, SizeOK
  <2>5. sizing' \in [by : SUBSET Tabs, owing : SUBSET Tabs]
    BY <2>2 DEF PrefsInv, PrefsTypeOK
  <2> QED BY <1>3, <2>2, <2>3, <2>4, <2>5, SizeSteps DEF PrefsInv, PrefsTypeOK
<1> QED BY <1>4, <1>5

LEMMA PrefsStart == PrefsInit => PrefsInv
<1> SUFFICES ASSUME PrefsInit  PROVE PrefsInv
  OBVIOUS
<1>1. /\ hour = 0 /\ late = FALSE /\ stored = [clock |-> ClockDefaults, size |-> 0]
      /\ pages = [t \in Tabs |-> NoPage] /\ armed = {NoAlarm} /\ sizing = [by |-> {}, owing |-> {}]
  BY DEF PrefsInit
<1>2. PrefsTypeOK
  BY <1>1, NoneSet DEF PrefsTypeOK
<1>3. ArmedOK
  <2>1. IsFiniteSet(armed) /\ Cardinality(armed) = 1
    BY <1>1, FS_Singleton
  <2>2. NoAlarm.n = 0
    BY DEF NoAlarm
  <2> QED BY <1>1, <2>1, <2>2, NoneSet DEF ArmedOK, Real
<1>4. ASSUME NEW t \in Tabs  PROVE PageOK(pages[t]) /\ SizeOK(t)
  BY <1>1, NoneSet DEF PageOK, After, SizeOK
<1> QED BY <1>1, <1>2, <1>3, <1>4 DEF PrefsInv

(* For any tabs, alarms and days: in the reader an alarm that is due rings *)
(* at the next tick, once in a page and never for an instant before the    *)
(* page; and with nothing left to write the storage holds the size of the  *)
(* tab that wrote last (lib/clock.ts, lib/cardSize.ts).                    *)
THEOREM DeviceKeeps == PrefsSpec => []DeviceRemembers
<1>1. PrefsInv /\ [PrefsNext]_prefsVars => PrefsInv'
  <2> SUFFICES ASSUME PrefsInv, [PrefsNext]_prefsVars  PROVE PrefsInv'
    OBVIOUS
  <2>1. CASE UNCHANGED prefsVars
    BY <2>1 DEF prefsVars, PrefsInv, PrefsTypeOK, ArmedOK, PageOK, SizeOK, Real, After
  <2>2. CASE PrefsNext
    BY <2>2, TimeStep, LoadPageStep, ReaderSteps, LeavesStep, SetShowStep, ArmsStep, PersistStep,
       SetSizeStep DEF PrefsNext
  <2> QED BY <2>1, <2>2
<1>2. PrefsInv => DeviceRemembers
  <2> SUFFICES ASSUME PrefsInv  PROVE AlarmsRing /\ SizeKept
    BY DEF DeviceRemembers
  <2>1. AlarmsRing
    BY DEF PrefsInv, PageOK, After, AlarmsRing
  <2>2. SizeKept
    BY DEF PrefsInv, PrefsTypeOK, SizeOK, SizeKept
  <2> QED BY <2>1, <2>2
<1> QED BY <1>1, <1>2, PrefsStart, PTL DEF PrefsSpec

-----------------------------------------------------------------------------
(* The screen before a sign-in (LoginScreen)                               *)

ListLoads == [gen : Nat, for : People \cup {NoName}, got : {"nothing", "list", "failed"},
              list : Seq(Profiles)]
Errands == [does : {"nothing", "login", "create", "login_new"}, as : Profiles \cup {NobodyPicked},
            right : BOOLEAN, keep : BOOLEAN,
            got : {"nothing", "granted", "refused", "failed", "created", "name_taken"}]
Screens == [up : BOOLEAN, list : Seq(Profiles), loading : BOOLEAN, failed : BOOLEAN,
            mode : {"pick", "create"}, selected : Profiles \cup {NobodyPicked},
            busy : BOOLEAN, inFlight : BOOLEAN, remember : BOOLEAN, loadGen : Nat,
            loads : SUBSET ListLoads, errand : Errands]

(* A list is under way exactly while the skeleton shows: one, the newest.  *)
OneLoad(s) == /\ \A l \in s.loads : l.gen = s.loadGen /\ s.loads = {l}
              /\ s.loading <=> s.loads # {}

(* An errand is under way or a creation's list, or the screen is free.     *)
Occupied(s) ==
    /\ s.errand # NoErrand => s.errand.does # "nothing" /\ s.inFlight /\ s.loads = {}
    /\ s.busy => s.errand # NoErrand
    /\ s.inFlight => s.errand # NoErrand \/ \E l \in s.loads : l.for # NoName

(* What the forms take for granted.                                        *)
Formed(s) ==
    /\ s.selected # NobodyPicked => s.mode = "pick" /\ ~s.failed /\ ~s.loading
    /\ s.errand.does = "create" => s.selected = NobodyPicked /\ s.errand.as \in Profiles
    /\ s.errand.got = "created" => s.errand.does = "create"

ScreenOK(s) == s \in Screens /\ (~s.up => s = NoScreen) /\ OneLoad(s) /\ Occupied(s) /\ Formed(s)

(* The box is ticked on the form that is shown, or before it.              *)
TickFits(s, tick) ==
    s.remember => \/ tick \in {"picker", "failed", "left_over"}
                  \/ s.mode = "create" /\ tick = "create"
                  \/ s.selected # NobodyPicked /\ tick = s.selected.name

NamesIn(list) == {p.name : p \in ToSet(list)}

(* Whoever this screen has created is on the server, and on any list that  *)
(* the screen shows or will show.                                          *)
Offered ==
    /\ created \subseteq {p.name : p \in roster}
    /\ \A l \in screen.loads : l.got = "list" => created \subseteq NamesIn(l.list)
    /\ created \subseteq NamesIn(screen.list)
                         \cup (IF screen.errand.got = "created" THEN {screen.errand.as.name} ELSE {})

LoginInv == /\ roster \subseteq Profiles /\ straggling \subseteq Profiles
            /\ ScreenOK(screen) /\ TickFits(screen, ticked) /\ TickIsTheForms /\ Offered

-----------------------------------------------------------------------------
LEMMA Nobody == /\ NobodyPicked \notin Profiles
                /\ NoErrand \in Errands /\ NoErrand.does = "nothing" /\ NoErrand.keep = FALSE
                /\ NoErrand.got = "nothing"
                /\ NoScreen \in Screens /\ NoScreen.up = FALSE /\ NoScreen.list = << >>
                /\ NoScreen.loading = FALSE /\ NoScreen.failed = FALSE /\ NoScreen.mode = "pick"
                /\ NoScreen.selected = NobodyPicked /\ NoScreen.busy = FALSE
                /\ NoScreen.inFlight = FALSE /\ NoScreen.remember = FALSE /\ NoScreen.loads = {}
                /\ NoScreen.errand = NoErrand
<1>1. NobodyPicked \notin Profiles
  BY LoginAssumption DEF NobodyPicked, Profiles
<1>2. NoErrand \in Errands /\ NoErrand.does = "nothing" /\ NoErrand.keep = FALSE
      /\ NoErrand.got = "nothing"
  BY DEF NoErrand, Errands
<1>3. << >> \in Seq(Profiles)
  OBVIOUS
<1> QED BY <1>1, <1>2, <1>3 DEF NoScreen, Screens

(* Every order of a finite set holds all of it.                            *)
LEMMA ListOfAll ==
  ASSUME NEW r, r \subseteq Profiles, NEW list \in SetToSeqs(r)
  PROVE  list \in Seq(Profiles) /\ ToSet(list) = r
<1>1. IsFiniteSet(r)
  <2>1. IsFiniteSet(BOOLEAN)
    <3>1. BOOLEAN = {TRUE} \cup {FALSE}
      OBVIOUS
    <3>2. IsFiniteSet({TRUE}) /\ IsFiniteSet({FALSE})
      BY FS_Singleton, Zenon
    <3>3. IsFiniteSet({TRUE} \cup {FALSE})
      BY <3>2, FS_Union, Zenon
    <3> QED BY <3>1, <3>3, Zenon
  <2>2. IsFiniteSet(People \X BOOLEAN)
    BY <2>1, FS_Product, LoginAssumption
  <2> DEFINE f == [x \in People \X BOOLEAN |-> [name |-> x[1], hasPin |-> x[2]]]
  <2>3. f \in Surjection(People \X BOOLEAN, Profiles)
    <3>1. f \in [People \X BOOLEAN -> Profiles]
      BY DEF Profiles
    <3>2. ASSUME NEW p \in Profiles  PROVE \E x \in People \X BOOLEAN : f[x] = p
      <4>1. <<p.name, p.hasPin>> \in People \X BOOLEAN
        BY DEF Profiles
      <4>2. f[<<p.name, p.hasPin>>] = p
        BY <4>1 DEF Profiles
      <4> QED BY <4>1, <4>2
    <3> QED BY <3>1, <3>2 DEF Surjection
  <2>4. IsFiniteSet(Profiles)
    BY <2>2, <2>3, FS_Surjection
  <2> QED BY <2>4, FS_Subset
<1>2. PICK n : n = Cardinality(r) /\ n \in Nat
  BY <1>1, FS_CardinalityType
<1>3. list \in [1..n -> r] /\ \A i, j \in 1..n : i # j => list[i] # list[j]
  BY <1>2 DEF SetToSeqs
<1>4. list \in Injection(1..n, r)
  BY <1>3 DEF Injection, IsInjective
<1>5. IsFiniteSet(1..n) /\ Cardinality(1..n) = n
  BY <1>2, FS_Interval
<1>6. list \in Surjection(1..n, r)
  BY <1>1, <1>2, <1>4, <1>5, FS_Injection
<1>7. DOMAIN list = 1..n /\ \A x \in r : \E i \in 1..n : list[i] = x
  BY <1>3, <1>6 DEF Surjection
<1>8. ToSet(list) = r
  BY <1>3, <1>7 DEF ToSet
<1>9. list \in Seq(Profiles)
  BY <1>2, <1>3
<1> QED BY <1>8, <1>9

LEMMA ScreenHas ==
  ASSUME NEW s \in Screens
  PROVE  /\ s.up \in BOOLEAN /\ s.list \in Seq(Profiles) /\ s.loading \in BOOLEAN
         /\ s.failed \in BOOLEAN /\ s.mode \in {"pick", "create"}
         /\ s.selected \in Profiles \cup {NobodyPicked} /\ s.busy \in BOOLEAN
         /\ s.inFlight \in BOOLEAN /\ s.remember \in BOOLEAN /\ s.loadGen \in Nat
         /\ s.loads \in SUBSET ListLoads /\ s.errand \in Errands
         /\ s.errand.does \in {"nothing", "login", "create", "login_new"}
         /\ s.errand.as \in Profiles \cup {NobodyPicked} /\ s.errand.keep \in BOOLEAN
         /\ s.errand.got \in {"nothing", "granted", "refused", "failed", "created", "name_taken"}
BY DEF Screens, Errands

LEMMA ShownMeans ==
  ASSUME ScreenOK(screen)
  PROVE  /\ Shown # "skeleton" => ~screen.loading
         /\ Shown = "picker" => screen.mode = "pick" /\ screen.selected = NobodyPicked
         /\ Shown = "failed" => screen.mode = "pick" /\ screen.selected = NobodyPicked
         /\ Shown = "pin" => screen.selected # NobodyPicked
         /\ Shown = "create" => screen.mode = "create" /\ screen.selected = NobodyPicked
         /\ Shown \in {"skeleton", "picker", "failed", "pin", "create"}
<1>1. /\ screen.loading \in BOOLEAN /\ screen.failed \in BOOLEAN /\ screen.mode \in {"pick", "create"}
      /\ screen.selected # NobodyPicked => screen.mode = "pick" /\ ~screen.failed /\ ~screen.loading
  BY ScreenHas DEF ScreenOK, Formed
<1>2. CASE screen.loading
  BY <1>1, <1>2 DEF Shown
<1>3. CASE ~screen.loading /\ screen.selected # NobodyPicked
  BY <1>1, <1>3 DEF Shown
<1>4. CASE ~screen.loading /\ screen.selected = NobodyPicked /\ screen.mode = "create"
  BY <1>1, <1>4 DEF Shown
<1>5. CASE ~screen.loading /\ screen.selected = NobodyPicked /\ screen.mode = "pick" /\ screen.failed
  BY <1>1, <1>5 DEF Shown
<1>6. CASE ~screen.loading /\ screen.selected = NobodyPicked /\ screen.mode = "pick" /\ ~screen.failed
  BY <1>1, <1>6 DEF Shown
<1> QED BY <1>1, <1>2, <1>3, <1>4, <1>5, <1>6

(* A screen that answers is free.                                          *)
LEMMA Free ==
  ASSUME NEW s, ScreenOK(s), ~s.inFlight
  PROVE  s.errand = NoErrand /\ (~s.loading => s.loads = {})
BY ScreenHas DEF ScreenOK, Occupied, OneLoad

(* An errand begins on a free screen.                                      *)
Sent(s, e) == [s EXCEPT !.inFlight = TRUE, !.busy = TRUE, !.errand = e]

LEMMA ErrandBegins ==
  ASSUME NEW s, ScreenOK(s), s.up, ~s.loading, ~s.inFlight, NEW e \in Errands,
         e.does \in {"login", "create"}, e.got = "nothing",
         e.does = "create" => s.selected = NobodyPicked /\ e.as \in Profiles,
         NEW n, n = Sent(s, e)
  PROVE  /\ ScreenOK(n) /\ n.list = s.list /\ n.loads = {} /\ n.errand = e /\ n.remember = s.remember
         /\ n.mode = s.mode /\ n.selected = s.selected /\ s.errand = NoErrand
<1>1. s \in Screens /\ s.loads = {} /\ s.errand = NoErrand
  BY Free DEF ScreenOK
<1>2. /\ n \in Screens /\ n.up = s.up /\ n.list = s.list /\ n.loads = s.loads /\ n.errand = e
      /\ n.remember = s.remember /\ n.mode = s.mode /\ n.selected = s.selected /\ n.failed = s.failed
      /\ n.loading = s.loading /\ n.busy = TRUE /\ n.inFlight = TRUE /\ n.loadGen = s.loadGen
  BY <1>1 DEF Screens, Sent
<1>3. e # NoErrand
  BY Nobody
<1>4. OneLoad(n) /\ Occupied(n)
  BY <1>1, <1>2, <1>3 DEF ScreenOK, OneLoad, Occupied
<1>5. Formed(n)
  BY <1>1, <1>2 DEF ScreenOK, Formed
<1> QED BY <1>1, <1>2, <1>4, <1>5 DEF ScreenOK

(* The screen asks for the list.                                           *)
LEMMA ListBegins ==
  ASSUME NEW s \in Screens, s.up, s.loads = {}, s.selected = NobodyPicked, s.errand = NoErrand,
         ~s.busy, NEW name \in People \cup {NoName}, s.inFlight => name # NoName,
         NEW n, n = LoadProfiles(s, name)
  PROVE  /\ ScreenOK(n) /\ n.list = s.list /\ n.errand = NoErrand /\ n.remember = s.remember
         /\ n.mode = s.mode /\ n.selected = s.selected
         /\ \A l \in n.loads : l.got = "nothing"
<1> DEFINE l == [gen |-> s.loadGen + 1, for |-> name, got |-> "nothing", list |-> <<>>]
<1>1. l \in ListLoads /\ s.loadGen + 1 \in Nat /\ s.loads \cup {l} = {l} /\ {l} \in SUBSET ListLoads
  BY DEF Screens, ListLoads
<1>2. /\ n \in Screens /\ n.up = s.up /\ n.list = s.list /\ n.loads = {l} /\ n.errand = s.errand
      /\ n.remember = s.remember /\ n.mode = s.mode /\ n.selected = s.selected /\ n.failed = FALSE
      /\ n.loading = TRUE /\ n.busy = s.busy /\ n.inFlight = s.inFlight /\ n.loadGen = s.loadGen + 1
  <2>1. n = [s EXCEPT !.loadGen = s.loadGen + 1, !.loading = TRUE, !.failed = FALSE, !.loads = {l}]
    BY <1>1 DEF LoadProfiles, Screens
  <2> HIDE DEF l
  <2> QED BY <1>1, <2>1 DEF Screens
<1>3. l.gen = s.loadGen + 1 /\ l.for = name /\ l.got = "nothing"
  OBVIOUS
<1> HIDE DEF l
<1>4. OneLoad(n)
  BY <1>2, <1>3 DEF OneLoad
<1>5. Occupied(n)
  BY <1>2, <1>3 DEF Occupied
<1>6. Formed(n)
  BY <1>2, Nobody DEF Formed
<1> QED BY <1>2, <1>3, <1>4, <1>5, <1>6 DEF ScreenOK

(* A step that changes nothing the screen waits for.                       *)
Turned(s, m, p, b) == [s EXCEPT !.mode = m, !.selected = p, !.remember = b]

LEMMA FormChanges ==
  ASSUME NEW s, ScreenOK(s), s.up, ~s.loading,
         NEW m \in {"pick", "create"}, NEW p \in Profiles \cup {NobodyPicked}, NEW b \in BOOLEAN,
         p # NobodyPicked => m = "pick" /\ ~s.failed,
         ~s.inFlight,
         NEW n, n = Turned(s, m, p, b)
  PROVE  /\ ScreenOK(n) /\ n.list = s.list /\ n.loads = s.loads /\ n.errand = NoErrand
         /\ n.remember = b /\ n.mode = m /\ n.selected = p /\ s.errand = NoErrand
<1>1. s \in Screens /\ s.loads = {} /\ s.errand = NoErrand
  BY Free DEF ScreenOK
<1>2. /\ n \in Screens /\ n.up = s.up /\ n.list = s.list /\ n.loads = s.loads /\ n.errand = s.errand
      /\ n.remember = b /\ n.mode = m /\ n.selected = p /\ n.failed = s.failed
      /\ n.loading = s.loading /\ n.busy = s.busy /\ n.inFlight = s.inFlight /\ n.loadGen = s.loadGen
  BY <1>1 DEF Screens, Turned
<1>3. OneLoad(n) /\ Occupied(n)
  BY <1>1, <1>2 DEF ScreenOK, OneLoad, Occupied
<1>4. Formed(n)
  BY <1>1, <1>2, Nobody DEF Formed
<1> QED BY <1>1, <1>2, <1>3, <1>4 DEF ScreenOK

(* What stays offered while no list arrives and nobody is created.         *)
LEMMA StillOffered ==
  ASSUME Offered, roster' = roster, created' = created, screen'.list = screen.list,
         \A l \in screen'.loads : l \in screen.loads \/ l.got = "nothing",
         screen'.errand.got = "created" <=> screen.errand.got = "created",
         screen.errand.got = "created" => screen'.errand.as = screen.errand.as
  PROVE  Offered'
<1>1. created' \subseteq {p.name : p \in roster'}
  BY DEF Offered
<1>2. \A l \in screen'.loads : l.got = "list" => created' \subseteq NamesIn(l.list)
  BY DEF Offered
<1>3. created' \subseteq NamesIn(screen'.list)
                         \cup (IF screen'.errand.got = "created" THEN {screen'.errand.as.name} ELSE {})
  BY DEF Offered
<1> QED BY <1>1, <1>2, <1>3 DEF Offered

LEMMA NewlyOffered ==
  ASSUME roster' \subseteq Profiles, created' = {}
  PROVE  Offered'
BY DEF Offered

LEMMA MountStep == LoginInv /\ MountLogin => LoginInv'
<1> SUFFICES ASSUME LoginInv, MountLogin  PROVE LoginInv'
  OBVIOUS
<1>1. PICK s : s = [NoScreen EXCEPT !.up = TRUE]
  OBVIOUS
<1>2. PICK n : n = LoadProfiles(s, NoName)
  OBVIOUS
<1>3. /\ screen' = n /\ created' = {} /\ roster' = roster /\ straggling' = straggling
  BY <1>1, <1>2 DEF MountLogin
<1>4. /\ s \in Screens /\ s.up /\ s.loads = {} /\ s.selected = NobodyPicked /\ s.errand = NoErrand
      /\ ~s.busy /\ ~s.inFlight /\ s.remember = FALSE
  BY <1>1, Nobody DEF Screens
<1>5. /\ ScreenOK(n) /\ n.errand = NoErrand /\ n.remember = FALSE
  BY <1>2, <1>4, ListBegins
<1>6. TickFits(screen, ticked)' /\ TickIsTheForms'
  BY <1>3, <1>5, Nobody DEF TickFits, TickIsTheForms
<1>7. Offered'
  BY <1>3, NewlyOffered DEF LoginInv
<1> QED BY <1>3, <1>5, <1>6, <1>7 DEF LoginInv

(* A sign-in, or a creation, is sent from a form.                          *)
LEMMA SendStep ==
  ASSUME LoginInv, NEW s, s = screen, s.up, ~s.loading, ~s.inFlight, NEW e \in Errands,
         e.does \in {"login", "create"}, e.got = "nothing", e.keep = s.remember,
         e.does = "create" => s.selected = NobodyPicked /\ e.as \in Profiles,
         e.does = "login" => s.mode = "pick" /\ (s.selected # NobodyPicked => e.as = s.selected),
         screen' = [s EXCEPT !.inFlight = TRUE, !.busy = TRUE, !.errand = e],
         UNCHANGED <<roster, straggling, created, ticked>>
  PROVE  LoginInv'
<1>1. PICK n : n = screen'
  OBVIOUS
<1>2. ScreenOK(s) /\ TickFits(s, ticked)
  BY DEF LoginInv
<1>3. /\ ScreenOK(n) /\ n.list = s.list /\ n.loads = {} /\ n.errand = e /\ n.remember = s.remember
      /\ n.mode = s.mode /\ n.selected = s.selected /\ s.errand = NoErrand
  <2>1. n = Sent(s, e)
    BY <1>1 DEF Sent
  <2>2. ScreenOK(s) /\ s.up /\ ~s.loading /\ ~s.inFlight
    BY <1>2
  <2>3. e \in Errands /\ e.does \in {"login", "create"} /\ e.got = "nothing"
    OBVIOUS
  <2>4. e.does = "create" => (s.selected = NobodyPicked /\ e.as \in Profiles)
    OBVIOUS
  <2> QED BY <2>1, <2>2, <2>3, <2>4, ErrandBegins
<1>4. TickFits(n, ticked)
  BY <1>2, <1>3 DEF TickFits
<1>5. TickIsTheForms'
  <2> SUFFICES ASSUME e.does \in {"login", "create"}, e.keep
               PROVE  \/ ticked \in {"picker", "failed", "left_over"}
                      \/ ticked = IF e.does = "create" THEN "create" ELSE e.as.name
    BY <1>1, <1>3 DEF TickIsTheForms
  <2> QED BY <1>2 DEF TickFits
<1>6. Offered'
  BY <1>1, <1>3, Nobody, StillOffered DEF LoginInv
<1> QED BY <1>1, <1>3, <1>4, <1>5, <1>6 DEF LoginInv

LEMMA PickStep == LoginInv /\ (Pick \/ SubmitPin \/ SubmitCreate) => LoginInv'
<1> SUFFICES ASSUME LoginInv, Pick \/ SubmitPin \/ SubmitCreate  PROVE LoginInv'
  OBVIOUS
<1>1. PICK s : s = screen
  OBVIOUS
<1>2. ScreenOK(s) /\ s \in Screens /\ TickFits(s, ticked)
  BY <1>1 DEF LoginInv, ScreenOK
<1>3. UNCHANGED <<roster, straggling, created, ticked>>
  BY DEF Pick, SubmitPin, SubmitCreate
<1>4. s.up /\ ~s.loading /\ ~s.inFlight
  BY <1>1, <1>2, ShownMeans DEF Pick, SubmitPin, SubmitCreate, Answers
<1>5. ASSUME NEW p \in Profiles, NEW right \in BOOLEAN, screen' = DoLogin(s, p, right), s.mode = "pick",
             s.selected # NobodyPicked => p = s.selected
      PROVE  LoginInv'
  <2>1. PICK e : e = [does |-> "login", as |-> p, right |-> right, keep |-> s.remember, got |-> "nothing"]
    OBVIOUS
  <2>2. e \in Errands /\ e.does = "login" /\ e.got = "nothing" /\ e.keep = s.remember /\ e.as = p
    BY <1>2, <2>1, ScreenHas DEF Errands
  <2>3. screen' = [s EXCEPT !.inFlight = TRUE, !.busy = TRUE, !.errand = e]
    BY <1>5, <2>1 DEF DoLogin
  <2> QED BY <1>1, <1>3, <1>4, <1>5, <2>2, <2>3, SendStep
<1>6. CASE Pick
  <2>1. s.mode = "pick" /\ s.selected = NobodyPicked
    BY <1>1, <1>2, <1>6, ShownMeans DEF Pick
  <2>2. PICK p \in ToSet(s.list) :
           screen' = IF p.hasPin THEN [s EXCEPT !.selected = p] ELSE DoLogin(s, p, FALSE)
    BY <1>1, <1>6 DEF Pick
  <2>3. p \in Profiles
    <3>1. s.list \in Seq(Profiles)
      BY <1>2, ScreenHas
    <3>2. PICK i \in DOMAIN s.list : s.list[i] = p
      BY <2>2 DEF ToSet
    <3>3. i \in 1..Len(s.list)
      BY <3>1, <3>2
    <3> QED BY <3>1, <3>2, <3>3
  <2>4. CASE p.hasPin
    <3>1. PICK n : n = Turned(s, "pick", p, s.remember)
      OBVIOUS
    <3>2. screen' = n
      BY <1>2, <2>1, <2>2, <2>4, <3>1 DEF Screens, Turned
    <3>3. ~s.failed
      BY <1>1, <1>6, <1>2, <1>4, <2>1, ScreenHas DEF Pick, Shown
    <3>4. /\ ScreenOK(n) /\ n.list = s.list /\ n.loads = s.loads /\ n.errand = NoErrand
          /\ n.remember = s.remember /\ n.mode = "pick" /\ n.selected = p /\ s.errand = NoErrand
      <4>1. p \in Profiles \cup {NobodyPicked} /\ s.remember \in BOOLEAN
        BY <1>2, <2>3, ScreenHas
      <4>2. p # NobodyPicked => ("pick" = "pick" /\ ~s.failed)
        BY <3>3
      <4>3. ScreenOK(s) /\ s.up /\ ~s.loading /\ ~s.inFlight
        BY <1>2, <1>4
      <4>4. "pick" \in {"pick", "create"}
        OBVIOUS
      <4> QED BY <4>1, <4>2, <4>3, <4>4, <3>1, FormChanges
    <3>5. TickFits(n, ticked)
      BY <1>2, <2>1, <3>4 DEF TickFits
    <3>6. TickIsTheForms'
      BY <3>2, <3>4, Nobody DEF TickIsTheForms
    <3>7. Offered'
      BY <1>1, <1>3, <3>2, <3>4, Nobody, StillOffered DEF LoginInv
    <3> QED BY <1>3, <3>2, <3>4, <3>5, <3>6, <3>7 DEF LoginInv
  <2>5. CASE ~p.hasPin
    BY <1>5, <2>1, <2>2, <2>3, <2>5
  <2> QED BY <2>4, <2>5
<1>7. CASE SubmitPin
  <2>1. s.selected # NobodyPicked /\ s.mode = "pick" /\ s.selected \in Profiles
    BY <1>1, <1>2, <1>7, ShownMeans, ScreenHas DEF SubmitPin, ScreenOK, Formed
  <2>2. PICK right \in BOOLEAN : screen' = DoLogin(s, s.selected, right)
    BY <1>1, <1>7 DEF SubmitPin
  <2> QED BY <1>5, <2>1, <2>2
<1>8. CASE SubmitCreate
  <2>1. s.selected = NobodyPicked
    BY <1>1, <1>2, <1>8, ShownMeans DEF SubmitCreate
  <2>2. PICK p \in Profiles :
           screen' = [s EXCEPT !.inFlight = TRUE, !.busy = TRUE,
                        !.errand = [does |-> "create", as |-> p, right |-> TRUE,
                                    keep |-> s.remember, got |-> "nothing"]]
    BY <1>1, <1>8 DEF SubmitCreate
  <2>3. PICK e : e = [does |-> "create", as |-> p, right |-> TRUE, keep |-> s.remember, got |-> "nothing"]
    OBVIOUS
  <2>4. e \in Errands /\ e.does = "create" /\ e.got = "nothing" /\ e.keep = s.remember /\ e.as = p
    BY <1>2, <2>3, ScreenHas DEF Errands
  <2>5. screen' = [s EXCEPT !.inFlight = TRUE, !.busy = TRUE, !.errand = e]
    BY <2>2, <2>3
  <2> QED BY <1>1, <1>3, <1>4, <2>1, <2>4, <2>5, SendStep
<1> QED BY <1>6, <1>7, <1>8

(* The forms change on a free screen.                                      *)
LEMMA FormStep ==
  ASSUME LoginInv, NEW s, s = screen, s.up, ~s.loading, ~s.inFlight,
         NEW m \in {"pick", "create"}, NEW p \in Profiles \cup {NobodyPicked}, NEW b, b \in BOOLEAN,
         p # NobodyPicked => m = "pick" /\ ~s.failed,
         screen' = Turned(s, m, p, b),
         UNCHANGED <<roster, straggling, created>>,
         b = TRUE => \/ ticked' \in {"picker", "failed", "left_over"}
                     \/ m = "create" /\ ticked' = "create"
                     \/ p # NobodyPicked /\ ticked' = p.name
  PROVE  LoginInv'
<1>1. PICK n : n = screen'
  OBVIOUS
<1>2. /\ ScreenOK(n) /\ n.list = s.list /\ n.loads = s.loads /\ n.errand = NoErrand
      /\ n.remember = b /\ n.mode = m /\ n.selected = p /\ s.errand = NoErrand
  <2>1. n = Turned(s, m, p, b)
    BY <1>1
  <2>2. ScreenOK(s) /\ s.up /\ ~s.loading /\ ~s.inFlight
    BY DEF LoginInv
  <2>3. m \in {"pick", "create"} /\ p \in Profiles \cup {NobodyPicked} /\ b \in BOOLEAN
    OBVIOUS
  <2>4. p # NobodyPicked => (m = "pick" /\ ~s.failed)
    OBVIOUS
  <2> QED BY <2>1, <2>2, <2>3, <2>4, FormChanges
<1>3. TickFits(screen, ticked)'
  BY <1>1, <1>2 DEF TickFits
<1>4. TickIsTheForms'
  BY <1>1, <1>2, Nobody DEF TickIsTheForms
<1>5. Offered'
  BY <1>1, <1>2, Nobody, StillOffered DEF LoginInv
<1> QED BY <1>1, <1>2, <1>3, <1>4, <1>5 DEF LoginInv

LEMMA TurnSteps == LoginInv /\ (BackToList \/ OpenCreate \/ LeaveCreate \/ TickRemember) => LoginInv'
<1> SUFFICES ASSUME LoginInv, BackToList \/ OpenCreate \/ LeaveCreate \/ TickRemember  PROVE LoginInv'
  OBVIOUS
<1>1. PICK s : s = screen
  OBVIOUS
<1>2. ScreenOK(s) /\ s \in Screens /\ TickFits(s, ticked)
  BY <1>1 DEF LoginInv, ScreenOK
<1>3. UNCHANGED <<roster, straggling, created>>
  BY DEF BackToList, OpenCreate, LeaveCreate, TickRemember
<1>4. s.up /\ ~s.loading /\ ~s.inFlight
  BY <1>1, <1>2, ShownMeans DEF BackToList, OpenCreate, LeaveCreate, TickRemember, Answers
<1>5. /\ s.mode \in {"pick", "create"} /\ s.selected \in Profiles \cup {NobodyPicked}
      /\ s.remember \in BOOLEAN
      /\ s.selected # NobodyPicked => (s.mode = "pick" /\ ~s.failed)
  BY <1>2, ScreenHas DEF ScreenOK, Formed
<1>6. CASE BackToList
  <2>1. screen' = Turned(s, s.mode, NobodyPicked, FALSE)
    BY <1>1, <1>2, <1>6 DEF BackToList, Screens, Turned
  <2> QED BY <1>1, <1>3, <1>4, <1>5, <2>1, FormStep
<1>7. CASE OpenCreate
  <2>1. s.mode = "pick" /\ s.selected = NobodyPicked /\ ticked' = ticked
    BY <1>1, <1>2, <1>7, ShownMeans DEF OpenCreate
  <2>2. screen' = Turned(s, "create", NobodyPicked, s.remember)
    BY <1>1, <1>2, <1>7, <2>1 DEF OpenCreate, Screens, Turned
  <2>3. s.remember => ticked' \in {"picker", "failed", "left_over"}
    BY <1>2, <2>1 DEF TickFits
  <2> QED BY <1>1, <1>3, <1>4, <1>5, <2>2, <2>3, FormStep
<1>8. CASE LeaveCreate
  <2>1. s.selected = NobodyPicked
    BY <1>1, <1>2, <1>8, ShownMeans DEF LeaveCreate
  <2>2. screen' = Turned(s, "pick", NobodyPicked, FALSE)
    BY <1>1, <1>2, <1>8, <2>1 DEF LeaveCreate, Screens, Turned
  <2> QED BY <1>1, <1>3, <1>4, <1>5, <2>2, FormStep
<1>9. CASE TickRemember
  <2>1. screen' = Turned(s, s.mode, s.selected, ~s.remember)
    BY <1>1, <1>2, <1>9 DEF TickRemember, Screens, Turned
  <2>2. /\ ticked' = IF Shown = "pin" THEN s.selected.name ELSE Shown
        /\ Shown # "skeleton"
    BY <1>1, <1>9 DEF TickRemember, FormShown
  <2>3. \/ ticked' \in {"picker", "failed", "left_over"}
        \/ s.mode = "create" /\ ticked' = "create"
        \/ s.selected # NobodyPicked /\ ticked' = s.selected.name
    BY <1>1, <1>2, <2>2, ShownMeans
  <2> QED BY <1>1, <1>3, <1>4, <1>5, <2>1, <2>3, FormStep
<1> QED BY <1>6, <1>7, <1>8, <1>9

(* The screen asks again, and after a creation that failed.                *)
LEMMA AskStep ==
  ASSUME LoginInv, NEW s, NEW name \in People \cup {NoName},
         s \in Screens, s.up, s.loads = {}, s.selected = NobodyPicked, s.errand = NoErrand,
         ~s.busy, s.inFlight => name # NoName,
         s.list = screen.list, s.remember = screen.remember, s.mode = screen.mode,
         screen.selected = NobodyPicked, screen.errand.got # "created",
         screen' = LoadProfiles(s, name), UNCHANGED <<roster, straggling, created, ticked>>
  PROVE  LoginInv'
<1>1. PICK n : n = LoadProfiles(s, name)
  OBVIOUS
<1>2. /\ ScreenOK(n) /\ n.list = s.list /\ n.errand = NoErrand /\ n.remember = s.remember
      /\ n.mode = s.mode /\ n.selected = s.selected
      /\ \A l \in n.loads : l.got = "nothing"
  BY <1>1, ListBegins
<1>3. TickFits(screen, ticked)'
  BY <1>1, <1>2 DEF LoginInv, TickFits
<1>4. TickIsTheForms'
  BY <1>1, <1>2, Nobody DEF TickIsTheForms
<1>5. Offered'
  BY <1>1, <1>2, Nobody, StillOffered DEF LoginInv
<1> QED BY <1>1, <1>2, <1>3, <1>4, <1>5 DEF LoginInv

(* Who has an errand out is up, waits for no list, and is no NoErrand.     *)
LEMMA Sender ==
  ASSUME NEW s, ScreenOK(s), s.errand.does # "nothing" \/ s.errand.got # "nothing"
  PROVE  /\ s \in Screens /\ s.up /\ s.errand # NoErrand /\ s.errand \in Errands /\ s.inFlight
         /\ s.loads = {} /\ ~s.loading /\ s.errand.does # "nothing"
<1>1. s \in Screens /\ s.errand \in Errands /\ s.errand # NoErrand
  BY Nobody, ScreenHas DEF ScreenOK
<1>2. s.up
  BY <1>1, Nobody DEF ScreenOK
<1> QED BY <1>1, <1>2, ScreenHas DEF ScreenOK, Occupied, OneLoad

LEMMA AskAgain == LoginInv /\ (TryListAgain \/ CreateFails) => LoginInv'
<1> SUFFICES ASSUME LoginInv, TryListAgain \/ CreateFails  PROVE LoginInv'
  OBVIOUS
<1>1. PICK s : s = screen
  OBVIOUS
<1>2. ScreenOK(s) /\ s \in Screens
  BY <1>1 DEF LoginInv, ScreenOK
<1>3. UNCHANGED <<roster, straggling, created, ticked>>
  BY DEF TryListAgain, CreateFails
<1>4. CASE TryListAgain
  <2>1. s.up /\ ~s.inFlight /\ ~s.busy /\ screen' = LoadProfiles(s, NoName)
    BY <1>1, <1>4 DEF TryListAgain, Answers
  <2>2. ~s.loading /\ s.selected = NobodyPicked
    BY <1>1, <1>2, <1>4, ShownMeans DEF TryListAgain
  <2>3. s.loads = {} /\ s.errand = NoErrand
    BY <1>2, <2>1, <2>2, Free
  <2> QED BY <1>1, <1>2, <1>3, <2>1, <2>2, <2>3, Nobody, AskStep
<1>5. CASE CreateFails
  <2>1. /\ s.errand.does = "create" /\ s.errand.got # "created"
        /\ screen' = LoadProfiles([s EXCEPT !.busy = FALSE, !.errand = NoErrand], s.errand.as.name)
    BY <1>1, <1>5 DEF CreateFails
  <2>2. s.selected = NobodyPicked /\ s.errand.as \in Profiles
    BY <1>2, <2>1 DEF ScreenOK, Formed
  <2>3. s.up /\ s.loads = {}
    BY <1>2, <2>1, Sender
  <2>4. PICK c : c = [s EXCEPT !.busy = FALSE, !.errand = NoErrand]
    OBVIOUS
  <2>5. /\ c \in Screens /\ c.up /\ c.loads = {} /\ c.selected = NobodyPicked /\ c.errand = NoErrand
        /\ ~c.busy /\ c.list = s.list /\ c.remember = s.remember /\ c.mode = s.mode
    BY <1>2, <2>2, <2>3, <2>4, Nobody DEF Screens
  <2>6. s.errand.as.name \in People \cup {NoName} /\ s.errand.as.name # NoName
    BY <2>2, LoginAssumption DEF Profiles
  <2>7. screen' = LoadProfiles(c, s.errand.as.name)
    BY <2>1, <2>4
  <2> QED BY <1>1, <1>3, <2>1, <2>2, <2>5, <2>6, <2>7, AskStep
<1> QED BY <1>4, <1>5

(* The errand is answered.                                                 *)
Answered(s, g) == [s EXCEPT !.errand.got = g]

LEMMA AnswerComes ==
  ASSUME NEW s, ScreenOK(s), s.errand.does # "nothing",
         NEW g \in {"granted", "refused", "failed", "created", "name_taken"},
         g = "created" => s.errand.does = "create",
         NEW n, n = Answered(s, g)
  PROVE  /\ ScreenOK(n) /\ n.list = s.list /\ n.loads = {} /\ n.errand.does = s.errand.does
         /\ n.errand.as = s.errand.as /\ n.errand.keep = s.errand.keep /\ n.errand.got = g
         /\ n.remember = s.remember /\ n.mode = s.mode /\ n.selected = s.selected
<1>1. s \in Screens /\ s.up /\ s.errand \in Errands /\ s.inFlight /\ s.loads = {} /\ ~s.loading
  BY Sender
<1>2. PICK e : e = [s.errand EXCEPT !.got = g]
  OBVIOUS
<1>3. /\ e \in Errands /\ e.does = s.errand.does /\ e.as = s.errand.as /\ e.keep = s.errand.keep
      /\ e.got = g
  BY <1>1, <1>2 DEF Errands
<1>4. n = [s EXCEPT !.errand = e]
  BY <1>1, <1>2 DEF Answered, Screens
<1>5. /\ n \in Screens /\ n.up = s.up /\ n.list = s.list /\ n.loads = s.loads /\ n.errand = e
      /\ n.remember = s.remember /\ n.mode = s.mode /\ n.selected = s.selected /\ n.failed = s.failed
      /\ n.loading = s.loading /\ n.busy = s.busy /\ n.inFlight = s.inFlight /\ n.loadGen = s.loadGen
  BY <1>1, <1>3, <1>4 DEF Screens
<1>6. e # NoErrand
  BY <1>3, Nobody
<1>7. OneLoad(n) /\ Occupied(n)
  BY <1>1, <1>3, <1>5, <1>6 DEF ScreenOK, OneLoad, Occupied
<1>8. Formed(n)
  BY <1>1, <1>3, <1>5 DEF ScreenOK, Formed
<1> QED BY <1>1, <1>3, <1>5, <1>7, <1>8 DEF ScreenOK

(* What an answer leaves of the invariant.                                 *)
LEMMA AnswerStep ==
  ASSUME LoginInv, NEW s, s = screen, s.errand.does # "nothing",
         NEW g \in {"granted", "refused", "failed", "created", "name_taken"},
         g = "created" => s.errand.does = "create",
         screen' = Answered(s, g), ticked' = ticked,
         roster' \subseteq Profiles, straggling' \subseteq Profiles, Offered'
  PROVE  LoginInv'
<1>1. PICK n : n = Answered(s, g)
  OBVIOUS
<1>2. ScreenOK(s) /\ TickFits(s, ticked) /\ TickIsTheForms
  BY DEF LoginInv
<1>3. /\ ScreenOK(n) /\ n.list = s.list /\ n.loads = {} /\ n.errand.does = s.errand.does
      /\ n.errand.as = s.errand.as /\ n.errand.keep = s.errand.keep /\ n.errand.got = g
      /\ n.remember = s.remember /\ n.mode = s.mode /\ n.selected = s.selected
  BY <1>1, <1>2, AnswerComes
<1>4. TickFits(screen, ticked)'
  BY <1>1, <1>2, <1>3 DEF TickFits
<1>5. TickIsTheForms'
  BY <1>1, <1>2, <1>3 DEF TickIsTheForms
<1> QED BY <1>1, <1>3, <1>4, <1>5 DEF LoginInv

LEMMA LoginServedStep == LoginInv /\ LoginServed => LoginInv'
<1> SUFFICES ASSUME LoginInv, LoginServed  PROVE LoginInv'
  OBVIOUS
<1>1. PICK s : s = screen
  OBVIOUS
<1>2. PICK g \in {"granted", "refused", "failed"} : screen' = Answered(s, g)
  BY <1>1 DEF LoginServed, Answered
<1>3. /\ s.errand.does # "nothing" /\ s.errand.got = "nothing"
      /\ UNCHANGED <<roster, straggling, created, ticked>>
  BY <1>1 DEF LoginServed
<1>4. PICK n : n = Answered(s, g)
  OBVIOUS
<1>5. n.list = s.list /\ n.loads = {} /\ n.errand.got = g
  <2>1. ScreenOK(s)
    BY <1>1 DEF LoginInv
  <2> QED BY <1>2, <1>3, <1>4, <2>1, AnswerComes
<1>6. Offered'
  BY <1>1, <1>2, <1>3, <1>4, <1>5, StillOffered DEF LoginInv
<1>7. roster' \subseteq Profiles /\ straggling' \subseteq Profiles /\ ticked' = ticked
  BY <1>3 DEF LoginInv
<1> QED BY <1>1, <1>2, <1>3, <1>6, <1>7, AnswerStep

LEMMA CreateServedStep == LoginInv /\ CreateServed => LoginInv'
<1> SUFFICES ASSUME LoginInv, CreateServed  PROVE LoginInv'
  OBVIOUS
<1>1. PICK s : s = screen
  OBVIOUS
<1>2. PICK p : p = s.errand.as
  OBVIOUS
<1>3. s.errand.does = "create" /\ s.errand.got = "nothing" /\ ticked' = ticked /\ ScreenOK(s)
  BY <1>1 DEF CreateServed, LoginInv
<1>4. p \in Profiles
  BY <1>2, <1>3 DEF ScreenOK, Formed
<1>5. /\ roster \subseteq Profiles /\ straggling \subseteq Profiles
      /\ created \subseteq {q.name : q \in roster} /\ created \subseteq NamesIn(s.list)
  BY <1>1, <1>3 DEF LoginInv, Offered
<1>6. ASSUME NEW g \in {"granted", "refused", "failed", "created", "name_taken"}, screen' = Answered(s, g),
             roster \subseteq roster', roster' \subseteq Profiles, straggling' \subseteq Profiles,
             \/ created' = created
             \/ g = "created" /\ created' = created \cup {p.name} /\ p \in roster'
      PROVE  LoginInv'
  <2>1. PICK n : n = Answered(s, g)
    OBVIOUS
  <2>2. n.list = s.list /\ n.loads = {} /\ n.errand.got = g /\ n.errand.as = p
    BY <1>2, <1>3, <2>1, AnswerComes
  <2>3. created' \subseteq {q.name : q \in roster'}
    BY <1>5, <1>6
  <2>4. created' \subseteq NamesIn(n.list) \cup (IF n.errand.got = "created" THEN {n.errand.as.name} ELSE {})
    BY <1>5, <1>6, <2>2
  <2>5. Offered'
    BY <1>6, <2>1, <2>2, <2>3, <2>4 DEF Offered
  <2> QED BY <1>1, <1>3, <1>6, <2>5, AnswerStep
<1>7. CASE /\ roster' = roster \cup {p} /\ straggling' = straggling
           /\ \E g \in {"created", "failed"} :
                 /\ screen' = Answered(s, g)
                 /\ created' = IF g = "created" THEN created \cup {p.name} ELSE created
  BY <1>4, <1>5, <1>6, <1>7
<1>8. CASE /\ \E g \in {"failed", "name_taken"} : screen' = Answered(s, g)
           /\ straggling' \in {straggling, straggling \cup {p}}
           /\ roster' = roster /\ created' = created
  BY <1>4, <1>5, <1>6, <1>8
<1> QED BY <1>1, <1>2, <1>7, <1>8 DEF CreateServed, Answered

LEMMA RosterStep == LoginInv /\ (StragglerCommits \/ OtherDevice) => LoginInv'
<1> SUFFICES ASSUME LoginInv, StragglerCommits \/ OtherDevice  PROVE LoginInv'
  OBVIOUS
<1>1. screen' = screen /\ ticked' = ticked
  BY DEF StragglerCommits, OtherDevice
<1>2. /\ roster \subseteq Profiles /\ straggling \subseteq Profiles
      /\ created \subseteq {q.name : q \in roster}
  BY DEF LoginInv, Offered
<1>3. /\ roster' \subseteq Profiles /\ straggling' \subseteq Profiles
      /\ created' \subseteq created /\ created' \subseteq {q.name : q \in roster'}
  <2>1. CASE StragglerCommits
    <3>1. PICK p \in straggling :
             /\ straggling' = straggling \ {p}
             /\ roster' = IF Called(roster, p.name) = {} THEN roster \cup {p} ELSE roster
      BY <2>1 DEF StragglerCommits
    <3>2. roster \subseteq roster' /\ roster' \subseteq roster \cup {p} /\ created' = created
      BY <2>1, <3>1 DEF StragglerCommits
    <3> QED BY <1>2, <3>1, <3>2
  <2>2. CASE OtherDevice
    <3>1. CASE \E p \in Profiles : roster' = roster \cup {p} /\ created' = created
      BY <1>2, <2>2, <3>1 DEF OtherDevice
    <3>2. CASE \E p \in roster : roster' = roster \ {p} /\ created' = created \ {p.name}
      BY <1>2, <2>2, <3>2 DEF OtherDevice
    <3> QED BY <2>2, <3>1, <3>2 DEF OtherDevice
  <2> QED BY <2>1, <2>2
<1>4. Offered'
  BY <1>1, <1>3 DEF LoginInv, Offered
<1>5. ScreenOK(screen)' /\ TickFits(screen, ticked)' /\ TickIsTheForms'
  BY <1>1 DEF LoginInv, TickIsTheForms
<1> QED BY <1>3, <1>4, <1>5 DEF LoginInv

(* The screen goes, with all it waits for.                                 *)
LEMMA GoneStep == LoginInv /\ (LoginGranted \/ DisposeLogin) => LoginInv'
<1> SUFFICES ASSUME LoginInv, LoginGranted \/ DisposeLogin  PROVE LoginInv'
  OBVIOUS
<1>1. screen' = NoScreen /\ created' = {} /\ roster' = roster
  BY DEF LoginGranted, DisposeLogin
<1>2. roster' \subseteq Profiles /\ straggling' \subseteq Profiles
  <2>1. screen.errand.does = "create" => screen.errand.as \in Profiles
    BY DEF LoginInv, ScreenOK, Formed
  <2>2. \/ straggling' = straggling
        \/ screen.errand.does = "create" /\ straggling' = straggling \cup {screen.errand.as}
    BY DEF LoginGranted, DisposeLogin
  <2> QED BY <1>1, <2>1, <2>2 DEF LoginInv
<1>3. ScreenOK(NoScreen)
  BY Nobody DEF ScreenOK, OneLoad, Occupied, Formed
<1>4. TickFits(screen, ticked)' /\ TickIsTheForms'
  BY <1>1, Nobody DEF TickFits, TickIsTheForms
<1>5. Offered'
  BY <1>1, <1>2, NewlyOffered
<1> QED BY <1>1, <1>2, <1>3, <1>4, <1>5 DEF LoginInv

(* An errand ends on the form it came from, or on the picker.              *)
Freed(s, m, p) ==
    [s EXCEPT !.mode = m, !.selected = p, !.busy = FALSE, !.inFlight = FALSE, !.errand = NoErrand]

LEMMA EndStep ==
  ASSUME LoginInv, NEW s, s = screen, s.errand.does # "nothing", s.errand.got # "created",
         NEW m \in {"pick", "create"}, NEW p,
         \/ p = NobodyPicked /\ ticked' = "left_over"
         \/ m = s.mode /\ p = s.selected /\ ticked' = ticked,
         screen' = Freed(s, m, p), UNCHANGED <<roster, straggling, created>>
  PROVE  LoginInv'
<1>1. PICK n : n = Freed(s, m, p)
  OBVIOUS
<1>2. ScreenOK(s) /\ TickFits(s, ticked)
  BY DEF LoginInv
<1>3. s \in Screens /\ s.up /\ s.loads = {} /\ ~s.loading
  BY <1>2, Sender
<1>4. p \in Profiles \cup {NobodyPicked} /\ (p # NobodyPicked => m = "pick" /\ ~s.failed)
  BY <1>2, <1>3, ScreenHas DEF ScreenOK, Formed
<1>5. /\ n \in Screens /\ n.up = s.up /\ n.list = s.list /\ n.loads = s.loads /\ n.errand = NoErrand
      /\ n.remember = s.remember /\ n.mode = m /\ n.selected = p /\ n.failed = s.failed
      /\ n.loading = s.loading /\ n.busy = FALSE /\ n.inFlight = FALSE /\ n.loadGen = s.loadGen
  BY <1>1, <1>3, <1>4, Nobody DEF Screens, Freed
<1>6. OneLoad(n) /\ Occupied(n)
  BY <1>2, <1>3, <1>5 DEF ScreenOK, OneLoad, Occupied
<1>7. Formed(n)
  BY <1>3, <1>4, <1>5, Nobody DEF Formed
<1>8. ScreenOK(n)
  BY <1>3, <1>5, <1>6, <1>7 DEF ScreenOK
<1>9. TickFits(n, ticked')
  BY <1>2, <1>5 DEF TickFits
<1>10. TickIsTheForms'
  BY <1>1, <1>5, Nobody DEF TickIsTheForms
<1>11. Offered'
  BY <1>1, <1>5, Nobody, StillOffered DEF LoginInv
<1> QED BY <1>1, <1>8, <1>9, <1>10, <1>11 DEF LoginInv

LEMMA SignInEnds == LoginInv /\ (LoginFails \/ CreatedNotSignedIn) => LoginInv'
<1> SUFFICES ASSUME LoginInv, LoginFails \/ CreatedNotSignedIn  PROVE LoginInv'
  OBVIOUS
<1>1. PICK s : s = screen
  OBVIOUS
<1>2. s \in Screens /\ s.mode \in {"pick", "create"}
  BY <1>1, ScreenHas DEF LoginInv, ScreenOK
<1>3. /\ s.errand.does # "nothing" /\ s.errand.got # "created"
      /\ UNCHANGED <<roster, straggling, created>>
  BY <1>1 DEF LoginFails, CreatedNotSignedIn
<1>4. CASE LoginFails
  <2>1. screen' = Freed(s, s.mode, s.selected) /\ ticked' = ticked
    BY <1>1, <1>2, <1>4 DEF LoginFails, Freed, Screens
  <2> QED BY <1>1, <1>2, <1>3, <2>1, EndStep
<1>5. CASE CreatedNotSignedIn
  <2>1. screen' = Freed(s, "pick", NobodyPicked) /\ ticked' = "left_over"
    BY <1>1, <1>2, <1>5 DEF CreatedNotSignedIn, Freed, Screens
  <2> QED BY <1>1, <1>2, <1>3, <2>1, EndStep
<1> QED BY <1>4, <1>5

(* The new profile goes to the picker, then its sign-in is sent.           *)
LEMMA CreatedStep == LoginInv /\ Created => LoginInv'
<1> SUFFICES ASSUME LoginInv, Created  PROVE LoginInv'
  OBVIOUS
<1>1. PICK s : s = screen
  OBVIOUS
<1>2. ScreenOK(s) /\ TickFits(s, ticked) /\ s.errand.got = "created"
  BY <1>1 DEF LoginInv, Created
<1>3. s \in Screens /\ s.up /\ s.errand \in Errands /\ s.inFlight /\ s.loads = {} /\ ~s.loading
  BY <1>2, Sender
<1>4. s.errand.does = "create" /\ s.errand.as \in Profiles /\ s.list \in Seq(Profiles)
  BY <1>2, <1>3, ScreenHas DEF ScreenOK, Formed
<1>5. PICK e : e = [s.errand EXCEPT !.does = "login_new", !.got = "nothing"]
  OBVIOUS
<1>6. e \in Errands /\ e.does = "login_new" /\ e.got = "nothing"
  BY <1>3, <1>5 DEF Errands
<1>7. PICK list : list = Append(s.list, s.errand.as)
  OBVIOUS
<1>8. list \in Seq(Profiles)
  BY <1>4, <1>7
<1>9. NamesIn(list) = NamesIn(s.list) \cup {s.errand.as.name}
  <2>1. ToSet(list) = ToSet(s.list) \cup {s.errand.as}
    <3>1. Len(list) = Len(s.list) + 1 /\ Len(s.list) \in Nat
      BY <1>4, <1>7
    <3>2. \A i \in 1..Len(s.list) : list[i] = s.list[i]
      BY <1>4, <1>7
    <3>3. list[Len(s.list) + 1] = s.errand.as
      BY <1>4, <1>7
    <3>4. DOMAIN list = 1..Len(list) /\ DOMAIN s.list = 1..Len(s.list)
      BY <1>4, <1>8
    <3>5. 1..Len(list) = 1..Len(s.list) \cup {Len(s.list) + 1}
      BY <3>1
    <3> QED BY <3>1, <3>2, <3>3, <3>4, <3>5 DEF ToSet
  <2> QED BY <2>1 DEF NamesIn
<1>10. PICK n : n = [s EXCEPT !.list = list, !.errand = e]
  OBVIOUS
<1>11. screen' = n /\ UNCHANGED <<roster, straggling, created, ticked>>
  BY <1>1, <1>3, <1>5, <1>7, <1>10 DEF Created, Screens
<1>12. /\ n \in Screens /\ n.up = s.up /\ n.list = list /\ n.loads = s.loads /\ n.errand = e
       /\ n.remember = s.remember /\ n.mode = s.mode /\ n.selected = s.selected /\ n.failed = s.failed
       /\ n.loading = s.loading /\ n.busy = s.busy /\ n.inFlight = s.inFlight /\ n.loadGen = s.loadGen
  BY <1>3, <1>6, <1>8, <1>10 DEF Screens
<1>13. e # NoErrand
  BY <1>6, Nobody
<1>14. OneLoad(n) /\ Occupied(n)
  BY <1>2, <1>3, <1>6, <1>12, <1>13 DEF ScreenOK, OneLoad, Occupied
<1>15. Formed(n)
  BY <1>2, <1>6, <1>12 DEF ScreenOK, Formed
<1>16. ScreenOK(n) /\ TickFits(n, ticked)
  BY <1>2, <1>3, <1>12, <1>14, <1>15 DEF ScreenOK, TickFits
<1>17. TickIsTheForms'
  BY <1>6, <1>11, <1>12 DEF TickIsTheForms
<1>18. Offered'
  <2>1. created \subseteq {p.name : p \in roster} /\ created \subseteq NamesIn(list)
    BY <1>1, <1>2, <1>9 DEF LoginInv, Offered
  <2> QED BY <1>3, <1>6, <1>11, <1>12, <2>1 DEF Offered
<1> QED BY <1>11, <1>16, <1>17, <1>18 DEF LoginInv

(* The server answers a load with all it has, whoever was created too.     *)
LEMMA ListServedStep == ASSUME LoginInv, NEW l \in screen.loads, ListServed(l)  PROVE LoginInv'
<1>1. PICK s : s = screen
  OBVIOUS
<1>2. ScreenOK(s) /\ s \in Screens /\ TickFits(s, ticked) /\ roster \subseteq Profiles
  BY <1>1 DEF LoginInv, ScreenOK
<1>3. PICK got \in {"list", "failed"}, list \in SetToSeqs(roster) :
         screen' = [screen EXCEPT !.loads = (@ \ {l}) \cup
                       {[l EXCEPT !.got = got, !.list = IF got = "list" THEN list ELSE <<>>]}]
  BY DEF ListServed
<1>4. list \in Seq(Profiles) /\ ToSet(list) = roster
  BY <1>2, ListOfAll
<1>5. s.loads = {l} /\ l.gen = s.loadGen /\ l \in ListLoads
  BY <1>1, <1>2, ScreenHas DEF ScreenOK, OneLoad
<1>6. PICK shown : shown = IF got = "list" THEN list ELSE <<>>
  OBVIOUS
<1>7. PICK k : k = [l EXCEPT !.got = got, !.list = shown]
  OBVIOUS
<1>8. k \in ListLoads /\ k.gen = l.gen /\ k.for = l.for /\ k.got = got /\ k.list = shown
  <2>1. shown \in Seq(Profiles)
    BY <1>4, <1>6
  <2> QED BY <1>5, <1>7, <2>1 DEF ListLoads
<1>9. PICK n : n = [s EXCEPT !.loads = {k}]
  OBVIOUS
<1>10. screen' = n
  BY <1>1, <1>2, <1>3, <1>5, <1>6, <1>7, <1>9 DEF Screens
<1>11. /\ n \in Screens /\ n.up = s.up /\ n.list = s.list /\ n.loads = {k} /\ n.errand = s.errand
       /\ n.remember = s.remember /\ n.mode = s.mode /\ n.selected = s.selected /\ n.failed = s.failed
       /\ n.loading = s.loading /\ n.busy = s.busy /\ n.inFlight = s.inFlight /\ n.loadGen = s.loadGen
  BY <1>2, <1>8, <1>9 DEF Screens
<1>12. s.errand = NoErrand /\ s.up
  BY <1>2, <1>5, Nobody DEF ScreenOK, Occupied
<1>13. OneLoad(n) /\ Occupied(n)
  BY <1>2, <1>5, <1>8, <1>11, <1>12 DEF ScreenOK, OneLoad, Occupied
<1>14. Formed(n)
  BY <1>2, <1>11 DEF ScreenOK, Formed
<1>15. ScreenOK(n) /\ TickFits(n, ticked)
  BY <1>2, <1>11, <1>12, <1>13, <1>14 DEF ScreenOK, TickFits
<1>16. UNCHANGED <<roster, straggling, created, ticked>>
  BY DEF ListServed
<1>17. TickIsTheForms'
  BY <1>10, <1>11, <1>12, Nobody DEF TickIsTheForms
<1>18. Offered'
  <2>1. created \subseteq {p.name : p \in roster} /\ created \subseteq NamesIn(s.list)
    BY <1>1, <1>12, Nobody DEF LoginInv, Offered
  <2>2. got = "list" => created \subseteq NamesIn(shown)
    BY <1>4, <1>6, <2>1 DEF NamesIn
  <2> QED BY <1>8, <1>10, <1>11, <1>16, <2>1, <2>2 DEF Offered
<1> QED BY <1>2, <1>10, <1>15, <1>16, <1>17, <1>18 DEF LoginInv

(* The one load arrives, and whoever waited for it goes on.                *)
LEMMA ListArrivesStep == ASSUME LoginInv, NEW l \in screen.loads, ListArrives(l)  PROVE LoginInv'
<1>1. PICK s : s = screen
  OBVIOUS
<1>2. ScreenOK(s) /\ s \in Screens /\ TickFits(s, ticked)
  BY <1>1 DEF LoginInv, ScreenOK
<1>3. s.loads = {l} /\ l.gen = s.loadGen /\ l \in ListLoads /\ s.loading
  BY <1>1, <1>2, ScreenHas DEF ScreenOK, OneLoad
<1>4. s.errand = NoErrand /\ s.up /\ ~s.busy /\ s.selected = NobodyPicked
  BY <1>2, <1>3, Nobody DEF ScreenOK, Occupied, Formed
<1>5. l.list \in Seq(Profiles) /\ l.got \in {"nothing", "list", "failed"}
  BY <1>3 DEF ListLoads
<1>6. PICK busy : busy = IF l.for # NoName THEN FALSE ELSE s.inFlight
  OBVIOUS
<1>7. busy = FALSE
  <2>1. s.inFlight \in BOOLEAN /\ (s.inFlight => l.for # NoName)
    BY <1>2, <1>3, <1>4, ScreenHas DEF ScreenOK, Occupied
  <2> QED BY <1>6, <2>1
<1>8. PICK taken : taken = [s EXCEPT !.loads = {}, !.inFlight = FALSE]
  OBVIOUS
<1>9. taken = [screen EXCEPT !.loads = @ \ {l}, !.inFlight = IF l.for # NoName THEN FALSE ELSE @]
  <2>1. s.loads \ {l} = {}
    BY <1>3
  <2> QED BY <1>1, <1>2, <1>6, <1>7, <1>8, <2>1 DEF Screens
<1> DEFINE found == l.for \in {p.name : p \in ToSet(l.list)}
<1>10. PICK m : m = IF l.list = <<>> THEN "create" ELSE IF found THEN "pick" ELSE s.mode
  OBVIOUS
<1>11. m \in {"pick", "create"} /\ (m = "create" \/ found \/ m = s.mode)
  BY <1>2, <1>10, ScreenHas
<1>12. taken.mode = s.mode
  BY <1>2, <1>8 DEF Screens
<1>13. /\ \/ l.got = "list" /\ screen' = [taken EXCEPT !.list = l.list, !.loading = FALSE, !.mode = m]
          \/ l.got = "failed" /\ screen' = [taken EXCEPT !.loading = FALSE, !.failed = TRUE]
       /\ ticked' = IF found THEN "left_over" ELSE ticked
       /\ UNCHANGED <<roster, straggling, created>>
  BY <1>1, <1>3, <1>5, <1>9, <1>10, <1>12 DEF ListArrives
<1>14. PICK n : n = screen'
  OBVIOUS
<1>15. /\ n \in Screens /\ n.up /\ n.loads = {} /\ n.errand = NoErrand /\ n.remember = s.remember
       /\ n.selected = NobodyPicked /\ ~n.loading /\ ~n.busy /\ ~n.inFlight
       /\ n.mode = "create" \/ found \/ n.mode = s.mode
       /\ \/ l.got = "list" /\ n.list = l.list
          \/ n.list = s.list
  <2>1. /\ taken \in Screens /\ taken.up = s.up /\ taken.loads = {} /\ taken.errand = s.errand
        /\ taken.remember = s.remember /\ taken.selected = s.selected /\ taken.busy = s.busy
        /\ taken.inFlight = FALSE /\ taken.list = s.list
    BY <1>2, <1>8 DEF Screens
  <2>2. CASE l.got = "list" /\ n = [taken EXCEPT !.list = l.list, !.loading = FALSE, !.mode = m]
    <3>1. /\ n \in Screens /\ n.up = taken.up /\ n.loads = taken.loads /\ n.errand = taken.errand
          /\ n.remember = taken.remember /\ n.selected = taken.selected /\ n.loading = FALSE
          /\ n.busy = taken.busy /\ n.inFlight = taken.inFlight /\ n.mode = m /\ n.list = l.list
      BY <1>5, <1>11, <2>1, <2>2 DEF Screens
    <3> QED BY <1>4, <1>11, <2>1, <2>2, <3>1
  <2>3. CASE n = [taken EXCEPT !.loading = FALSE, !.failed = TRUE]
    <3>1. /\ n \in Screens /\ n.up = taken.up /\ n.loads = taken.loads /\ n.errand = taken.errand
          /\ n.remember = taken.remember /\ n.selected = taken.selected /\ n.loading = FALSE
          /\ n.busy = taken.busy /\ n.inFlight = taken.inFlight /\ n.mode = taken.mode
          /\ n.list = taken.list
      BY <2>1, <2>3 DEF Screens
    <3> QED BY <1>4, <1>12, <2>1, <3>1
  <2> QED BY <1>13, <1>14, <2>2, <2>3
<1>16. OneLoad(n) /\ Occupied(n) /\ Formed(n)
  BY <1>15, Nobody DEF OneLoad, Occupied, Formed
<1>17. ScreenOK(n)
  BY <1>15, <1>16 DEF ScreenOK
<1>18. TickFits(n, ticked')
  <2>1. CASE found
    BY <1>13, <2>1 DEF TickFits
  <2>2. CASE ~found
    <3>1. ticked' = ticked /\ (n.mode = "create" \/ n.mode = s.mode)
      BY <1>13, <1>15, <2>2
    <3>2. s.remember => \/ ticked \in {"picker", "failed", "left_over"}
                        \/ s.mode = "create" /\ ticked = "create"
      BY <1>2, <1>4 DEF TickFits
    <3> QED BY <1>15, <3>1, <3>2 DEF TickFits
  <2> QED BY <2>1, <2>2
<1>19. TickIsTheForms'
  BY <1>14, <1>15, Nobody DEF TickIsTheForms
<1>20. Offered'
  <2>1. created \subseteq {p.name : p \in roster} /\ created \subseteq NamesIn(s.list)
    BY <1>1, <1>4, Nobody DEF LoginInv, Offered
  <2>2. l.got = "list" => created \subseteq NamesIn(l.list)
    BY DEF LoginInv, Offered
  <2>3. created \subseteq NamesIn(n.list)
    BY <1>15, <2>1, <2>2
  <2> QED BY <1>13, <1>14, <1>15, <2>1, <2>3 DEF Offered
<1> QED BY <1>13, <1>14, <1>17, <1>18, <1>19, <1>20 DEF LoginInv

LEMMA LoginStart == LoginInit => LoginInv
<1> SUFFICES ASSUME LoginInit  PROVE LoginInv
  OBVIOUS
<1>1. screen = NoScreen /\ created = {} /\ straggling = {} /\ roster \subseteq Profiles
  BY DEF LoginInit
<1>2. ScreenOK(screen)
  BY <1>1, Nobody DEF ScreenOK, OneLoad, Occupied, Formed
<1>3. TickFits(screen, ticked) /\ TickIsTheForms
  BY <1>1, Nobody DEF TickFits, TickIsTheForms
<1>4. Offered
  BY <1>1 DEF Offered
<1> QED BY <1>1, <1>2, <1>3, <1>4 DEF LoginInv

(* The login screen is busy, or shows the skeleton, only while the request *)
(* that ends it is under way; a profile it has created is on its picker;   *)
(* and a sign-in is kept for 30 days only if its form was ticked           *)
(* (routes/Login.tsx).                                                     *)
THEOREM ScreenSignsIn == LoginSpec => []SignsInAsShown
<1>1. LoginInit => LoginInv
  BY LoginStart
<1>2. LoginInv /\ [LoginNext]_loginVars => LoginInv'
  <2> SUFFICES ASSUME LoginInv, [LoginNext]_loginVars  PROVE LoginInv'
    OBVIOUS
  <2>1. CASE MountLogin
    BY <2>1, MountStep
  <2>2. CASE Pick \/ SubmitPin \/ SubmitCreate
    BY <2>2, PickStep
  <2>3. CASE BackToList \/ OpenCreate \/ LeaveCreate \/ TickRemember
    BY <2>3, TurnSteps
  <2>4. CASE TryListAgain \/ CreateFails
    BY <2>4, AskAgain
  <2>5. CASE LoginServed
    BY <2>5, LoginServedStep
  <2>6. CASE CreateServed
    BY <2>6, CreateServedStep
  <2>7. CASE StragglerCommits \/ OtherDevice
    BY <2>7, RosterStep
  <2>8. CASE LoginGranted \/ DisposeLogin
    BY <2>8, GoneStep
  <2>9. CASE LoginFails \/ CreatedNotSignedIn
    BY <2>9, SignInEnds
  <2>10. CASE Created
    BY <2>10, CreatedStep
  <2>11. CASE \E l \in screen.loads : ListServed(l) \/ ListArrives(l)
    BY <2>11, ListServedStep, ListArrivesStep
  <2>12. CASE UNCHANGED loginVars
    BY <2>12 DEF loginVars, LoginInv, TickIsTheForms, Offered
  <2> QED BY <2>1, <2>2, <2>3, <2>4, <2>5, <2>6, <2>7, <2>8, <2>9, <2>10, <2>11, <2>12 DEF LoginNext
<1>3. LoginInv => SignsInAsShown
  <2> SUFFICES ASSUME LoginInv  PROVE SignsInAsShown
    OBVIOUS
  <2>1. ControlsReturn
    BY DEF LoginInv, ScreenOK, OneLoad, Occupied, ControlsReturn
  <2>2. CreatedIsOffered
    BY DEF LoginInv, Offered, NamesIn, CreatedIsOffered
  <2> QED BY <2>1, <2>2 DEF LoginInv, SignsInAsShown
<1> QED BY <1>1, <1>2, <1>3, PTL DEF LoginSpec

-----------------------------------------------------------------------------
(* The dialogs over one page (FocusTraps)                                  *)

Opened == [stage : {"new", "live", "gone"}, list : Nat, lock : Nat, came : {"body", "page"} \cup Dialogs,
           settled : BOOLEAN, released : BOOLEAN]
LockStates == [owners : Int, scroll : Offsets]

TrapsTypeOK ==
    /\ dialog \in [Dialogs -> Opened]
    /\ lists \in Seq(Seq(Dialogs)) /\ trapRegistry \in Nat
    /\ locks \in Seq(LockStates) /\ locked \in Nat
    /\ ground \in [frozen : BOOLEAN, at : Offsets \cup {0}]
    /\ focus \in {"body", "page"} \cup Dialogs
    /\ left \in Offsets

NoTwice(q) == \A i, j \in DOMAIN q : q[i] = q[j] => i = j

(* Who is open holds the list and the lock of the document; who is closed  *)
(* has let go of the lock.                                                 *)
HoldsCurrent ==
    \A d \in Dialogs :
        /\ dialog[d].stage = "live" =>
              dialog[d].list = trapRegistry /\ dialog[d].lock = locked /\ ~dialog[d].released
        /\ dialog[d].stage = "gone" => dialog[d].list \in DOMAIN lists /\ dialog[d].released

(* The list of the document names the open dialogs, each once; every other *)
(* list has been left by all.                                              *)
ListsNameTheOpen ==
    \A l \in DOMAIN lists : IF l = trapRegistry THEN ToSet(lists[l]) = Live /\ NoTwice(lists[l])
                            ELSE lists[l] = <<>>

(* The registry and the lock exist exactly while a dialog is open.         *)
KeptWhileOpen ==
    IF Live = {} THEN trapRegistry = 0 /\ locked = 0
    ELSE trapRegistry \in DOMAIN lists /\ locked \in DOMAIN locks

OwnersCounted == locked # 0 => locks[locked].owners = Cardinality(Live) /\ locks[locked].scroll = left

TrapsInv == TrapsTypeOK /\ HoldsCurrent /\ ListsNameTheOpen /\ KeptWhileOpen /\ OwnersCounted /\ PageComesBack

(* Lists with one element less, and one more.                              *)
LEMMA RemovedAt ==
  ASSUME NEW S, NEW q \in Seq(S), NEW i \in DOMAIN q
  PROVE  /\ RemoveAt(q, i) \in Seq(S)
         /\ DOMAIN RemoveAt(q, i) = 1 .. Len(q) - 1 /\ Len(RemoveAt(q, i)) = Len(q) - 1
         /\ Len(q) \in Nat /\ DOMAIN q = 1 .. Len(q)
         /\ \A j \in 1 .. Len(q) - 1 : RemoveAt(q, i)[j] = IF j < i THEN q[j] ELSE q[j + 1]
<1>1. Len(q) \in Nat /\ i \in 1 .. Len(q) /\ DOMAIN q = 1 .. Len(q)
  BY LenProperties
<1> DEFINE front == SubSeq(q, 1, i - 1)
           rest == SubSeq(q, i + 1, Len(q))
<1>2. \A k \in 1 .. Len(q) : q[k] \in S
  BY <1>1, ElementOfSeq
<1>3. /\ front \in Seq(S)
      /\ Len(front) = i - 1
      /\ \A k \in 1 .. i - 1 : front[k] = q[k]
  <2>1. 1 \in Int /\ i - 1 \in Int /\ \A k \in 1 .. i - 1 : q[k] \in S
    BY <1>1, <1>2
  <2>2. /\ front \in Seq(S)
        /\ Len(front) = IF 1 <= i - 1 THEN (i - 1) - 1 + 1 ELSE 0
        /\ \A k \in 1 .. (i - 1) - 1 + 1 : front[k] = q[1 + k - 1]
    BY <2>1, SubSeqProperties
  <2> HIDE DEF front
  <2>3. (i - 1) - 1 + 1 = i - 1 /\ \A k \in 1 .. i - 1 : 1 + k - 1 = k
    BY <1>1
  <2> QED BY <1>1, <2>2, <2>3
<1>4. /\ rest \in Seq(S)
      /\ Len(rest) = Len(q) - i
      /\ \A k \in 1 .. Len(q) - i : rest[k] = q[i + k]
  <2>1. i + 1 \in Int /\ Len(q) \in Int /\ \A k \in i + 1 .. Len(q) : q[k] \in S
    BY <1>1, <1>2
  <2>2. /\ rest \in Seq(S)
        /\ Len(rest) = IF i + 1 <= Len(q) THEN Len(q) - (i + 1) + 1 ELSE 0
        /\ \A k \in 1 .. Len(q) - (i + 1) + 1 : rest[k] = q[(i + 1) + k - 1]
    BY <2>1, SubSeqProperties
  <2> HIDE DEF rest
  <2>3. Len(q) - (i + 1) + 1 = Len(q) - i /\ \A k \in 1 .. Len(q) - i : (i + 1) + k - 1 = i + k
    BY <1>1
  <2> QED BY <1>1, <2>2, <2>3
<1> HIDE DEF front, rest
<1>5. /\ front \o rest \in Seq(S)
      /\ Len(front \o rest) = Len(front) + Len(rest)
      /\ \A k \in 1 .. Len(front) + Len(rest) :
            (front \o rest)[k] = IF k <= Len(front) THEN front[k] ELSE rest[k - Len(front)]
  BY <1>3, <1>4, ConcatProperties
<1>6. RemoveAt(q, i) = front \o rest
  BY DEF RemoveAt, front, rest
<1>7. ASSUME NEW j \in 1 .. Len(q) - 1
      PROVE  RemoveAt(q, i)[j] = IF j < i THEN q[j] ELSE q[j + 1]
  <2>2. CASE j <= i - 1
    <3>1. RemoveAt(q, i)[j] = q[j]
      BY <1>1, <1>3, <1>4, <1>5, <1>6, <2>2
    <3> QED BY <1>1, <2>2, <3>1
  <2>3. CASE ~(j <= i - 1)
    <3>1. j - (i - 1) \in 1 .. Len(q) - i /\ i + (j - (i - 1)) = j + 1
      BY <1>1, <2>3
    <3>2. RemoveAt(q, i)[j] = rest[j - (i - 1)]
      BY <1>1, <1>3, <1>4, <1>5, <1>6, <2>3
    <3>3. RemoveAt(q, i)[j] = q[j + 1]
      BY <1>4, <3>1, <3>2
    <3> QED BY <1>1, <2>3, <3>3
  <2> QED BY <2>2, <2>3
<1>8. Len(RemoveAt(q, i)) = Len(q) - 1 /\ RemoveAt(q, i) \in Seq(S)
  <2>1. (i - 1) + (Len(q) - i) = Len(q) - 1
    BY <1>1
  <2>2. Len(front) + Len(rest) = Len(q) - 1
    BY <1>3, <1>4, <2>1
  <2> QED BY <1>5, <1>6, <2>2
<1>9. DOMAIN RemoveAt(q, i) = 1 .. Len(q) - 1
  BY <1>8, LenProperties
<1> QED BY <1>1, <1>7, <1>8, <1>9



LEMMA LeavesList ==
  ASSUME NEW q \in Seq(Dialogs), NEW d, NoTwice(q)
  PROVE  /\ WithoutLast(q, d) \in Seq(Dialogs)
         /\ ToSet(WithoutLast(q, d)) = ToSet(q) \ {d}
         /\ NoTwice(WithoutLast(q, d))
<1>1. DOMAIN q = 1 .. Len(q) /\ Len(q) \in Nat
  BY LenProperties
<1>2. CASE d \notin ToSet(q)
  BY <1>2 DEF WithoutLast
<1>3. CASE d \in ToSet(q)
  <2>1. PICK k \in DOMAIN q : q[k] = d
    BY <1>3 DEF ToSet
  <2>2. \A j \in k + 1 .. Len(q) : q[j] # d
    BY <1>1, <2>1 DEF NoTwice
  <2> DEFINE i == CHOOSE i \in DOMAIN q : q[i] = d /\ \A j \in i + 1 .. Len(q) : q[j] # d
  <2>3. i \in DOMAIN q /\ q[i] = d
    BY <2>1, <2>2
  <2>4. WithoutLast(q, d) = RemoveAt(q, i)
    BY <1>3 DEF WithoutLast
  <2> HIDE DEF i
  <2> DEFINE r == RemoveAt(q, i)
  <2>5. /\ r \in Seq(Dialogs) /\ DOMAIN r = 1 .. Len(q) - 1
        /\ \A j \in 1 .. Len(q) - 1 : r[j] = IF j < i THEN q[j] ELSE q[j + 1]
    BY <2>3, RemovedAt
  <2> HIDE DEF r
  <2>6. i \in 1 .. Len(q)
    BY <1>1, <2>3
  <2>7. NoTwice(r)
    <3> SUFFICES ASSUME NEW a \in 1 .. Len(q) - 1, NEW b \in 1 .. Len(q) - 1, r[a] = r[b]  PROVE a = b
      BY <2>5 DEF NoTwice
    <3> DEFINE A == IF a < i THEN a ELSE a + 1
               B == IF b < i THEN b ELSE b + 1
    <3>1. A \in DOMAIN q /\ B \in DOMAIN q
      BY <1>1, <2>6
    <3>2. q[A] = q[B]
      BY <2>5
    <3>3. A = B
      BY <3>1, <3>2 DEF NoTwice
    <3> QED BY <2>6, <3>3
  <2>8. ASSUME NEW e \in ToSet(r)  PROVE e \in ToSet(q) \ {d}
    <3>1. PICK a \in 1 .. Len(q) - 1 : r[a] = e
      BY <2>5, <2>8 DEF ToSet
    <3> DEFINE A == IF a < i THEN a ELSE a + 1
    <3>2. A \in DOMAIN q /\ q[A] = e /\ A # i
      BY <1>1, <2>5, <2>6, <3>1
    <3>3. e # d
      BY <2>3, <3>2 DEF NoTwice
    <3> QED BY <3>2, <3>3 DEF ToSet
  <2>9. ASSUME NEW e \in ToSet(q) \ {d}  PROVE e \in ToSet(r)
    <3>1. PICK A \in DOMAIN q : q[A] = e
      BY <2>9 DEF ToSet
    <3>2. A # i
      BY <2>3, <3>1
    <3> DEFINE a == IF A < i THEN A ELSE A - 1
    <3>3. a \in 1 .. Len(q) - 1 /\ A = IF a < i THEN a ELSE a + 1
      BY <1>1, <2>6, <3>1, <3>2
    <3>4. r[a] = e
      BY <2>5, <3>1, <3>3
    <3> QED BY <2>5, <3>3, <3>4 DEF ToSet
  <2> QED BY <2>4, <2>5, <2>7, <2>8, <2>9 DEF r
<1> QED BY <1>2, <1>3

LEMMA JoinsList ==
  ASSUME NEW q \in Seq(Dialogs), NEW d \in Dialogs, d \notin ToSet(q), NoTwice(q)
  PROVE  /\ Append(q, d) \in Seq(Dialogs)
         /\ ToSet(Append(q, d)) = ToSet(q) \cup {d}
         /\ NoTwice(Append(q, d))
<1> DEFINE r == Append(q, d)
<1>1. /\ Len(q) \in Nat /\ DOMAIN q = 1 .. Len(q) /\ r \in Seq(Dialogs)
      /\ DOMAIN r = 1 .. Len(q) + 1 /\ r[Len(q) + 1] = d
      /\ \A i \in 1 .. Len(q) : r[i] = q[i]
  BY LenProperties, AppendProperties
<1> HIDE DEF r
<1>2. \A i \in DOMAIN q : q[i] # d
  BY DEF ToSet
<1>3. NoTwice(r)
  BY <1>1, <1>2 DEF NoTwice
<1>4. ASSUME NEW e \in ToSet(r)  PROVE e \in ToSet(q) \cup {d}
  <2>1. PICK a \in 1 .. Len(q) + 1 : r[a] = e
    BY <1>1, <1>4 DEF ToSet
  <2>2. CASE a = Len(q) + 1
    BY <1>1, <2>1, <2>2
  <2>3. CASE a \in DOMAIN q
    BY <1>1, <2>1, <2>3 DEF ToSet
  <2> QED BY <1>1, <2>2, <2>3
<1>5. ASSUME NEW e \in ToSet(q)  PROVE e \in ToSet(r)
  <2>1. PICK a \in DOMAIN q : q[a] = e
    BY <1>5 DEF ToSet
  <2>2. a \in DOMAIN r /\ r[a] = e
    BY <1>1, <2>1
  <2> QED BY <2>2 DEF ToSet
<1>6. d \in ToSet(r)
  <2>1. Len(q) + 1 \in DOMAIN r
    BY <1>1
  <2> QED BY <1>1, <2>1 DEF ToSet
<1> QED BY <1>1, <1>3, <1>4, <1>5, <1>6 DEF r

-----------------------------------------------------------------------------
(* The lock: who opens freezes the page, the last to close puts it back.   *)

LEMMA LiveFinite == IsFiniteSet(Live) /\ Cardinality(Live) \in Nat /\ (Cardinality(Live) = 0 <=> Live = {})
<1>1. IsFiniteSet(Live)
  BY DialogsAssumption, FS_Subset DEF Live
<1> QED BY <1>1, FS_CardinalityType, FS_EmptySet

LEMMA LockGoesWithLive ==
  ASSUME TrapsInv
  PROVE  locked # 0 <=> Live # {}
<1>1. DOMAIN locks = 1 .. Len(locks)
  BY LenProperties DEF TrapsInv, TrapsTypeOK
<1> QED BY <1>1 DEF TrapsInv, KeptWhileOpen

LEMMA LockFreezes ==
  ASSUME TrapsInv, LockDocumentScroll
  PROVE  /\ locks' \in Seq(LockStates) /\ locked' \in DOMAIN locks' /\ locked' \in Nat /\ locked' # 0
         /\ locks'[locked'].owners = Cardinality(Live) + 1 /\ locks'[locked'].scroll = left
         /\ ground' \in [frozen : BOOLEAN, at : Offsets \cup {0}] /\ ground'.frozen
         /\ Live # {} => locked' = locked
<1>1. /\ Len(locks) \in Nat /\ DOMAIN locks = 1 .. Len(locks) /\ locks \in Seq(LockStates) /\ locked \in Nat
      /\ ground \in [frozen : BOOLEAN, at : Offsets \cup {0}] /\ left \in Offsets
  BY LenProperties DEF TrapsInv, TrapsTypeOK
<1>2. CASE Live # {}
  <2>1. locked # 0 /\ locked \in DOMAIN locks /\ ground.frozen
    BY <1>2, LockGoesWithLive DEF TrapsInv, KeptWhileOpen, PageComesBack
  <2>2. locks[locked] \in LockStates /\ locks[locked].owners = Cardinality(Live) /\ locks[locked].scroll = left
    BY <1>1, <2>1, ElementOfSeq DEF TrapsInv, OwnersCounted
  <2> DEFINE k == [locks[locked] EXCEPT !.owners = @ + 1]
  <2>3. k \in LockStates /\ k.owners = Cardinality(Live) + 1 /\ k.scroll = left
    BY <2>2 DEF LockStates
  <2>4. locks' = [locks EXCEPT ![locked] = k] /\ locked' = locked /\ ground' = ground
    BY <2>1 DEF LockDocumentScroll
  <2> HIDE DEF k
  <2>5. locks' \in Seq(LockStates) /\ DOMAIN locks' = DOMAIN locks /\ locks'[locked] = k
    BY <1>1, <2>1, <2>3, <2>4, ExceptSeq
  <2> QED BY <1>1, <2>1, <2>3, <2>4, <2>5
<1>3. CASE Live = {}
  <2>1. locked = 0 /\ ground.at = left /\ Cardinality(Live) = 0
    BY <1>3, LockGoesWithLive, LiveFinite DEF TrapsInv, PageComesBack
  <2> DEFINE k == [owners |-> 1, scroll |-> left]
  <2>2. locks' = Append(locks, k) /\ locked' = Len(locks) + 1 /\ ground' = [frozen |-> TRUE, at |-> 0]
    BY <2>1 DEF LockDocumentScroll
  <2>3. k \in LockStates /\ k.owners = 1 /\ k.scroll = left
    BY <1>1 DEF LockStates
  <2> HIDE DEF k
  <2>4. locks' \in Seq(LockStates) /\ DOMAIN locks' = 1 .. Len(locks) + 1 /\ locks'[Len(locks) + 1] = k
    BY <1>1, <2>2, <2>3, AppendProperties, LenProperties
  <2> QED BY <1>1, <1>3, <2>1, <2>2, <2>3, <2>4
<1> QED BY <1>2, <1>3

LEMMA ReleasePutsBack ==
  ASSUME TrapsInv, NEW d \in Live, ReleaseOwner(d)
  PROVE  /\ locks' \in Seq(LockStates) /\ DOMAIN locks' = DOMAIN locks
         /\ ground' \in [frozen : BOOLEAN, at : Offsets \cup {0}]
         /\ IF Live = {d} THEN locked' = 0 /\ ~ground'.frozen /\ ground'.at = left
            ELSE /\ locked' = locked /\ ground' = ground
                 /\ locks'[locked].owners = Cardinality(Live) - 1 /\ locks'[locked].scroll = left
<1>1. /\ Len(locks) \in Nat /\ DOMAIN locks = 1 .. Len(locks) /\ locks \in Seq(LockStates) /\ locked \in Nat
      /\ ground \in [frozen : BOOLEAN, at : Offsets \cup {0}] /\ left \in Offsets
  BY LenProperties DEF TrapsInv, TrapsTypeOK
<1>2. dialog[d].lock = locked /\ ~dialog[d].released
  BY DEF TrapsInv, HoldsCurrent, Live
<1>3. locked # 0 /\ locked \in DOMAIN locks
  BY LockGoesWithLive DEF TrapsInv, KeptWhileOpen
<1>4. locks[locked] \in LockStates /\ locks[locked].owners = Cardinality(Live) /\ locks[locked].scroll = left
  BY <1>1, <1>3, ElementOfSeq DEF TrapsInv, OwnersCounted
<1>5. Cardinality(Live) \in Nat /\ IsFiniteSet(Live)
  BY LiveFinite
<1> DEFINE k == [locks[locked] EXCEPT !.owners = @ - 1]
<1>6. k \in LockStates /\ k.owners = Cardinality(Live) - 1 /\ k.scroll = left
  BY <1>4, <1>5 DEF LockStates
<1>7. /\ locks' = [locks EXCEPT ![locked] = k]
      /\ IF locks[locked].owners > 1 THEN UNCHANGED <<locked, ground>>
         ELSE locked' = 0 /\ ground' = [frozen |-> FALSE, at |-> locks[locked].scroll]
  BY <1>2 DEF ReleaseOwner, StaleRelease
<1> HIDE DEF k
<1>8. locks' \in Seq(LockStates) /\ DOMAIN locks' = DOMAIN locks /\ locks'[locked] = k
  BY <1>1, <1>3, <1>6, <1>7, ExceptSeq
<1>9. Cardinality(Live) = 1 <=> Live = {d}
  BY <1>5, FS_Singleton
<1>10. Cardinality(Live) # 0
  BY LiveFinite
<1>11. CASE Live = {d}
  <2>1. ~(locks[locked].owners > 1)
    BY <1>4, <1>9, <1>11
  <2>2. locked' = 0 /\ ground' = [frozen |-> FALSE, at |-> left]
    BY <1>4, <1>7, <2>1
  <2> QED BY <1>1, <1>8, <1>11, <2>2
<1>12. CASE Live # {d}
  <2>1. Cardinality(Live) > 1
    BY <1>5, <1>9, <1>10, <1>12
  <2> QED BY <1>1, <1>4, <1>6, <1>7, <1>8, <1>12, <2>1
<1> QED BY <1>11, <1>12

-----------------------------------------------------------------------------
(* The steps of a dialog's life.                                           *)

LEMMA TopmostIsOpen ==
  ASSUME TrapsInv, Live # {}
  PROVE  /\ lists[trapRegistry] \in Seq(Dialogs) /\ lists[trapRegistry] # <<>>
         /\ Last(lists[trapRegistry]) \in Live
<1>1. trapRegistry \in DOMAIN lists
  BY DEF TrapsInv, KeptWhileOpen
<1>2. lists[trapRegistry] \in Seq(Dialogs)
  BY <1>1, ElementOfSeq, LenProperties DEF TrapsInv, TrapsTypeOK
<1>3. PICK q \in Seq(Dialogs) : q = lists[trapRegistry]
  BY <1>2
<1>4. ToSet(q) = Live
  BY <1>1, <1>3 DEF TrapsInv, ListsNameTheOpen
<1>5. q # <<>> /\ Len(q) \in Nat /\ DOMAIN q = 1 .. Len(q)
  BY <1>4, LenProperties DEF ToSet
<1>6. Len(q) \in DOMAIN q
  BY <1>5, EmptySeq
<1>7. q[Len(q)] \in ToSet(q)
  BY <1>6 DEF ToSet
<1> QED BY <1>3, <1>4, <1>5, <1>7 DEF Last

(* While dialogs are open exactly one answers Tab: the last of the list.   *)
LEMMA OneAnswersTab ==
  ASSUME TrapsInv
  PROVE  OneTrapActs
<1> SUFFICES ASSUME Live # {}
             PROVE  /\ Cardinality({d \in Live : Topmost(d)}) = 1
                    /\ \A d \in Dialogs \ Live : dialog[d].stage = "gone" => ~Topmost(d)
  BY DEF OneTrapActs
<1>1. lists[trapRegistry] # <<>> /\ Last(lists[trapRegistry]) \in Live
  BY TopmostIsOpen
<1>2. \A d \in Live : Topmost(d) <=> d = Last(lists[trapRegistry])
  BY <1>1 DEF Topmost, TrapsInv, HoldsCurrent, Live
<1>3. {d \in Live : Topmost(d)} = {Last(lists[trapRegistry])}
  BY <1>1, <1>2
<1>4. ASSUME NEW d \in Dialogs \ Live, dialog[d].stage = "gone"  PROVE ~Topmost(d)
  <2>1. dialog[d].list \in DOMAIN lists
    BY <1>4 DEF TrapsInv, HoldsCurrent
  <2>2. CASE dialog[d].list = trapRegistry
    BY <1>1, <2>2 DEF Topmost
  <2>3. CASE dialog[d].list # trapRegistry
    BY <2>1, <2>3 DEF Topmost, TrapsInv, ListsNameTheOpen
  <2> QED BY <2>2, <2>3
<1> QED BY <1>3, <1>4, FS_Singleton

LEMMA OpenTrapKeeps ==
  ASSUME TrapsInv, NEW d \in Dialogs, OpenTrap(d)
  PROVE  TrapsInv'
<1>1. /\ dialog[d].stage = "new" /\ LockDocumentScroll /\ UNCHANGED <<focus, left>>
      /\ d \notin Live /\ focus \in {"body", "page"} \cup Dialogs
  BY DEF OpenTrap, Live, TrapsInv, TrapsTypeOK
<1>2. PICK mine : mine = trapRegistry'
  OBVIOUS
<1>3. /\ mine = IF trapRegistry = 0 THEN Len(lists) + 1 ELSE trapRegistry
      /\ lists' = IF trapRegistry = 0 THEN Append(lists, <<d>>)
                  ELSE [lists EXCEPT ![trapRegistry] = Append(@, d)]
  BY <1>2 DEF OpenTrap
<1>4. PICK now : now = [stage |-> "live", list |-> mine, lock |-> locked', came |-> focus,
                        settled |-> FALSE, released |-> FALSE]
  OBVIOUS
<1>5. dialog' = [dialog EXCEPT ![d] = now]
  BY <1>2, <1>4 DEF OpenTrap
<1>6. /\ lists \in Seq(Seq(Dialogs)) /\ Len(lists) \in Nat /\ DOMAIN lists = 1 .. Len(lists)
      /\ trapRegistry \in Nat /\ dialog \in [Dialogs -> Opened]
  BY LenProperties DEF TrapsInv, TrapsTypeOK
<1>7. /\ locks' \in Seq(LockStates) /\ locked' \in DOMAIN locks' /\ locked' \in Nat /\ locked' # 0
      /\ locks'[locked'].owners = Cardinality(Live) + 1 /\ locks'[locked'].scroll = left
      /\ ground' \in [frozen : BOOLEAN, at : Offsets \cup {0}] /\ ground'.frozen
      /\ Live # {} => locked' = locked
  BY <1>1, LockFreezes
<1>8. /\ lists' \in Seq(Seq(Dialogs)) /\ mine \in DOMAIN lists' /\ mine \in Nat
      /\ DOMAIN lists \subseteq DOMAIN lists' /\ (Live # {} => mine = trapRegistry)
      /\ ToSet(lists'[mine]) = Live \cup {d} /\ NoTwice(lists'[mine])
      /\ \A l \in DOMAIN lists' : l # mine => lists'[l] = <<>>
  <2>1. CASE trapRegistry = 0
    <3>1. Live = {}
      BY <1>6, <2>1 DEF TrapsInv, KeptWhileOpen
    <3>2. <<d>> \in Seq(Dialogs) /\ ToSet(<<d>>) = {d} /\ NoTwice(<<d>>)
      BY DEF ToSet, NoTwice
    <3>3. PICK one \in Seq(Dialogs) : one = <<d>>
      BY <3>2
    <3>4. lists' = Append(lists, one) /\ mine = Len(lists) + 1
      BY <1>3, <2>1, <3>3
    <3>5. /\ lists' \in Seq(Seq(Dialogs)) /\ DOMAIN lists' = 1 .. Len(lists) + 1
          /\ lists'[Len(lists) + 1] = one /\ \A l \in 1 .. Len(lists) : lists'[l] = lists[l]
      BY <1>6, <3>3, <3>4, AppendProperties, LenProperties
    <3>6. \A l \in DOMAIN lists : lists[l] = <<>>
      BY <1>6, <2>1 DEF TrapsInv, ListsNameTheOpen
    <3> QED BY <1>6, <3>1, <3>2, <3>3, <3>4, <3>5, <3>6
  <2>2. CASE trapRegistry # 0
    <3>1. Live # {} /\ trapRegistry \in DOMAIN lists
      BY <2>2 DEF TrapsInv, KeptWhileOpen
    <3>2. PICK q \in Seq(Dialogs) : q = lists[trapRegistry]
      BY <1>6, <3>1, ElementOfSeq
    <3>3. ToSet(q) = Live /\ NoTwice(q)
      BY <3>1, <3>2 DEF TrapsInv, ListsNameTheOpen
    <3>4. PICK more : more = Append(q, d)
      OBVIOUS
    <3>5. more \in Seq(Dialogs) /\ ToSet(more) = Live \cup {d} /\ NoTwice(more)
      BY <1>1, <3>3, <3>4, JoinsList
    <3>6. lists' = [lists EXCEPT ![trapRegistry] = more] /\ mine = trapRegistry
      BY <1>3, <2>2, <3>2, <3>4
    <3>7. lists' \in Seq(Seq(Dialogs)) /\ DOMAIN lists' = DOMAIN lists
      BY <1>6, <3>1, <3>5, <3>6, ExceptSeq
    <3>8. lists'[mine] = more /\ \A l \in DOMAIN lists : l # mine => lists'[l] = lists[l]
      BY <1>6, <3>1, <3>6
    <3>9. \A l \in DOMAIN lists : l # trapRegistry => lists[l] = <<>>
      BY DEF TrapsInv, ListsNameTheOpen
    <3> QED BY <1>6, <3>1, <3>5, <3>6, <3>7, <3>8, <3>9
  <2> QED BY <2>1, <2>2
<1>9. now \in Opened
  BY <1>1, <1>4, <1>7, <1>8 DEF Opened
<1>10. dialog' \in [Dialogs -> Opened] /\ dialog'[d] = now /\ \A e \in Dialogs : e # d => dialog'[e] = dialog[e]
  BY <1>5, <1>6, <1>9
<1>11. now.stage = "live" /\ now.list = mine /\ now.lock = locked' /\ ~now.released
  BY <1>4
<1>12. Live' = Live \cup {d} /\ Live' # {}
  BY <1>10, <1>11 DEF Live
<1>13. TrapsTypeOK'
  BY <1>1, <1>2, <1>7, <1>8, <1>10 DEF TrapsTypeOK, TrapsInv
<1>14. HoldsCurrent'
  <2> SUFFICES ASSUME NEW e \in Dialogs
               PROVE  /\ dialog'[e].stage = "live" =>
                            dialog'[e].list = trapRegistry' /\ dialog'[e].lock = locked' /\ ~dialog'[e].released
                      /\ dialog'[e].stage = "gone" => dialog'[e].list \in DOMAIN lists' /\ dialog'[e].released
    BY DEF HoldsCurrent
  <2>1. CASE e = d
    BY <1>2, <1>10, <1>11, <2>1
  <2>2. CASE e # d
    <3>1. dialog'[e] = dialog[e]
      BY <1>10, <2>2
    <3>2. dialog[e].stage = "live" => trapRegistry' = trapRegistry /\ locked' = locked
      BY <1>2, <1>7, <1>8 DEF Live
    <3> QED BY <1>8, <3>1, <3>2 DEF TrapsInv, HoldsCurrent
  <2> QED BY <2>1, <2>2
<1>15. ListsNameTheOpen'
  BY <1>2, <1>8, <1>12 DEF ListsNameTheOpen
<1>16. KeptWhileOpen'
  BY <1>2, <1>7, <1>8, <1>12 DEF KeptWhileOpen
<1>17. Cardinality(Live') = Cardinality(Live) + 1
  BY <1>1, <1>12, LiveFinite, FS_AddElement
<1>18. OwnersCounted'
  BY <1>1, <1>7, <1>17 DEF OwnersCounted
<1>19. PageComesBack'
  BY <1>7, <1>12 DEF PageComesBack
<1> QED BY <1>13, <1>14, <1>15, <1>16, <1>18, <1>19 DEF TrapsInv

LEMMA MoveFocusInKeeps ==
  ASSUME TrapsInv, NEW d \in Dialogs, MoveFocusIn(d)
  PROVE  TrapsInv'
<1>1. /\ dialog' = [dialog EXCEPT ![d].settled = TRUE] /\ focus' \in {d, focus}
      /\ UNCHANGED <<lists, trapRegistry, locks, locked, ground, left>>
  BY DEF MoveFocusIn
<1>2. dialog[d] \in Opened /\ dialog \in [Dialogs -> Opened]
  BY DEF TrapsInv, TrapsTypeOK
<1>3. PICK now : now = [dialog[d] EXCEPT !.settled = TRUE]
  OBVIOUS
<1>4. now \in Opened /\ now.stage = dialog[d].stage /\ now.list = dialog[d].list
      /\ now.lock = dialog[d].lock /\ now.released = dialog[d].released
  BY <1>2, <1>3 DEF Opened
<1>5. dialog' = [dialog EXCEPT ![d] = now]
  BY <1>1, <1>2, <1>3
<1>6. dialog' \in [Dialogs -> Opened] /\ \A e \in Dialogs :
         /\ dialog'[e].stage = dialog[e].stage /\ dialog'[e].list = dialog[e].list
         /\ dialog'[e].lock = dialog[e].lock /\ dialog'[e].released = dialog[e].released
  BY <1>2, <1>4, <1>5
<1>7. Live' = Live
  BY <1>6 DEF Live
<1>8. TrapsTypeOK'
  BY <1>1, <1>6 DEF TrapsInv, TrapsTypeOK
<1>9. HoldsCurrent'
  BY <1>1, <1>6 DEF TrapsInv, HoldsCurrent
<1>10. ListsNameTheOpen' /\ KeptWhileOpen' /\ OwnersCounted' /\ PageComesBack'
  BY <1>1, <1>7 DEF TrapsInv, ListsNameTheOpen, KeptWhileOpen, OwnersCounted, PageComesBack
<1> QED BY <1>8, <1>9, <1>10 DEF TrapsInv

(* What is left of the lists when a dialog that is open, or was, leaves.   *)
LEMMA TeardownLists ==
  ASSUME TrapsInv, NEW d \in Dialogs, Teardown(d)
  PROVE  /\ lists' \in Seq(Seq(Dialogs)) /\ DOMAIN lists' = DOMAIN lists
         /\ \A l \in DOMAIN lists : IF l = trapRegistry THEN ToSet(lists'[l]) = Live \ {d} /\ NoTwice(lists'[l])
                                    ELSE lists'[l] = <<>>
         /\ trapRegistry' = IF Live \subseteq {d} THEN 0 ELSE trapRegistry
<1>1. /\ lists \in Seq(Seq(Dialogs)) /\ Len(lists) \in Nat /\ DOMAIN lists = 1 .. Len(lists)
      /\ trapRegistry \in Nat
  BY LenProperties DEF TrapsInv, TrapsTypeOK
<1>2. PICK l : l = dialog[d].list
  OBVIOUS
<1>3. PICK rest : rest = WithoutLast(lists[l], d)
  OBVIOUS
<1>4. /\ lists' = [lists EXCEPT ![l] = rest]
      /\ trapRegistry' = IF DropsRegistry(l, rest) THEN 0 ELSE trapRegistry
      /\ dialog[d].stage \in {"live", "gone"}
  BY <1>2, <1>3 DEF Teardown
<1>5. l \in DOMAIN lists
  BY <1>2, <1>4 DEF TrapsInv, HoldsCurrent, KeptWhileOpen, Live
<1>6. PICK q \in Seq(Dialogs) : q = lists[l]
  BY <1>1, <1>5, ElementOfSeq
<1>7. IF l = trapRegistry THEN ToSet(q) = Live /\ NoTwice(q) ELSE q = <<>>
  BY <1>5, <1>6 DEF TrapsInv, ListsNameTheOpen
<1>8. NoTwice(q) /\ (q = <<>> => ToSet(q) = {})
  BY <1>7 DEF NoTwice, ToSet
<1>9. rest \in Seq(Dialogs) /\ ToSet(rest) = ToSet(q) \ {d} /\ NoTwice(rest)
  BY <1>3, <1>6, <1>8, LeavesList
<1>10. rest = <<>> <=> ToSet(rest) = {}
  <2>1. Len(rest) \in Nat /\ DOMAIN rest = 1 .. Len(rest)
    BY <1>9, LenProperties
  <2>2. ToSet(rest) = {} => DOMAIN rest = {}
    BY DEF ToSet
  <2>3. ToSet(rest) = {} => Len(rest) = 0
    <3>1. Len(rest) # 0 => 1 \in DOMAIN rest
      BY <2>1
    <3> QED BY <2>2, <3>1
  <2>4. rest = <<>> => ToSet(rest) = {}
    BY DEF ToSet
  <2> QED BY <1>9, <2>3, <2>4, EmptySeq
<1>11. lists' \in Seq(Seq(Dialogs)) /\ DOMAIN lists' = DOMAIN lists
  BY <1>1, <1>4, <1>5, <1>9, ExceptSeq
<1>12. lists'[l] = rest /\ \A k \in DOMAIN lists : k # l => lists'[k] = lists[k]
  BY <1>1, <1>4, <1>5
<1>13. ASSUME NEW k \in DOMAIN lists
       PROVE  IF k = trapRegistry THEN ToSet(lists'[k]) = Live \ {d} /\ NoTwice(lists'[k]) ELSE lists'[k] = <<>>
  <2>1. CASE k # l
    <3>1. lists'[k] = lists[k]
      BY <1>12, <2>1
    <3>2. k = trapRegistry => dialog[d].stage # "live"
      BY <1>2, <2>1 DEF TrapsInv, HoldsCurrent
    <3>3. k = trapRegistry => d \notin Live
      BY <3>2 DEF Live
    <3> QED BY <3>1, <3>3 DEF TrapsInv, ListsNameTheOpen
  <2>2. CASE k = l /\ k = trapRegistry
    BY <1>7, <1>9, <1>12, <2>2
  <2>3. CASE k = l /\ k # trapRegistry
    BY <1>7, <1>8, <1>9, <1>10, <1>12, <2>3
  <2> QED BY <2>1, <2>2, <2>3
<1>14. trapRegistry' = IF Live \subseteq {d} THEN 0 ELSE trapRegistry
  <2>1. DropsRegistry(l, rest) <=> trapRegistry = l /\ Live \subseteq {d}
    BY <1>7, <1>9, <1>10 DEF DropsRegistry
  <2>2. CASE trapRegistry = l
    BY <1>4, <2>1, <2>2
  <2>3. CASE trapRegistry # l
    <3>1. d \notin Live
      BY <1>2, <2>3 DEF TrapsInv, HoldsCurrent, Live
    <3>2. Live \subseteq {d} => trapRegistry = 0
      BY <3>1 DEF TrapsInv, KeptWhileOpen
    <3> QED BY <1>4, <2>1, <2>3, <3>2
  <2> QED BY <2>2, <2>3
<1> QED BY <1>11, <1>13, <1>14

(* The release of a lock that is let go of again does nothing.             *)
LEMMA TeardownLock ==
  ASSUME TrapsInv, NEW d \in Dialogs, Teardown(d)
  PROVE  /\ locks' \in Seq(LockStates) /\ DOMAIN locks' = DOMAIN locks /\ locked' \in Nat
         /\ ground' \in [frozen : BOOLEAN, at : Offsets \cup {0}]
         /\ IF Live \subseteq {d} THEN locked' = 0 /\ ~ground'.frozen /\ ground'.at = left
            ELSE /\ locked' = locked /\ ground'.frozen
                 /\ locks'[locked].owners = Cardinality(Live \ {d}) /\ locks'[locked].scroll = left
<1>1. locked \in Nat /\ Cardinality(Live) \in Nat /\ IsFiniteSet(Live)
  BY LiveFinite DEF TrapsInv, TrapsTypeOK
<1>2. CASE d \in Live
  <2>1. ReleaseOwner(d)
    BY DEF Teardown
  <2>2. Live \subseteq {d} <=> Live = {d}
    BY <1>2
  <2>3. Cardinality(Live \ {d}) = Cardinality(Live) - 1
    BY <1>1, <1>2, FS_RemoveElement
  <2>4. ground.frozen
    BY <1>2 DEF TrapsInv, PageComesBack
  <2> QED BY <1>1, <1>2, <2>1, <2>2, <2>3, <2>4, ReleasePutsBack
<1>3. CASE d \notin Live
  <2>1. dialog[d].released
    BY <1>3 DEF Teardown, TrapsInv, HoldsCurrent, Live
  <2>2. UNCHANGED <<locks, locked, ground>>
    BY <2>1 DEF Teardown, ReleaseOwner, StaleRelease
  <2>3. Live \ {d} = Live /\ (Live \subseteq {d} <=> Live = {})
    BY <1>3
  <2>4. locked # 0 <=> Live # {}
    BY LockGoesWithLive
  <2>5. CASE Live = {}
    BY <1>1, <2>2, <2>3, <2>4, <2>5 DEF TrapsInv, TrapsTypeOK, PageComesBack
  <2>6. CASE Live # {}
    BY <1>1, <2>2, <2>3, <2>4, <2>6 DEF TrapsInv, TrapsTypeOK, PageComesBack, OwnersCounted
  <2> QED BY <2>5, <2>6
<1> QED BY <1>2, <1>3

LEMMA TeardownKeeps ==
  ASSUME TrapsInv, NEW d \in Dialogs, Teardown(d)
  PROVE  TrapsInv'
<1>1. /\ dialog' = [dialog EXCEPT ![d].stage = "gone", ![d].released = TRUE] /\ left' = left
      /\ dialog[d].stage \in {"live", "gone"} /\ dialog \in [Dialogs -> Opened]
      /\ trapRegistry \in Nat /\ locked \in Nat
  BY DEF Teardown, TrapsInv, TrapsTypeOK
<1>2. PICK now : now = [dialog[d] EXCEPT !.stage = "gone", !.released = TRUE]
  OBVIOUS
<1>3. now \in Opened /\ now.stage = "gone" /\ now.released /\ now.list = dialog[d].list
  <2>1. dialog[d] \in Opened
    BY <1>1
  <2>2. now.stage = "gone" /\ now.released /\ now.list = dialog[d].list
    BY <1>2, <2>1 DEF Opened
  <2>3. now \in Opened
    BY <1>2, <2>1 DEF Opened
  <2> QED BY <2>2, <2>3
<1>4. dialog' = [dialog EXCEPT ![d] = now]
  BY <1>1, <1>2 DEF Opened
<1>5. dialog' \in [Dialogs -> Opened] /\ dialog'[d] = now /\ \A e \in Dialogs : e # d => dialog'[e] = dialog[e]
  BY <1>1, <1>3, <1>4
<1>6. Live' = Live \ {d}
  BY <1>3, <1>5 DEF Live
<1>7. focus' \in {"body", "page"} \cup Dialogs
  <2>1. focus \in {"body", "page"} \cup Dialogs /\ dialog[d].came \in {"body", "page"} \cup Dialogs
    BY <1>1 DEF TrapsInv, TrapsTypeOK, Opened
  <2>2. focus' \in {dialog[d].came, "body", focus}
    BY DEF Teardown
  <2> QED BY <2>1, <2>2
<1>8. /\ lists' \in Seq(Seq(Dialogs)) /\ DOMAIN lists' = DOMAIN lists
      /\ \A l \in DOMAIN lists : IF l = trapRegistry THEN ToSet(lists'[l]) = Live \ {d} /\ NoTwice(lists'[l])
                                 ELSE lists'[l] = <<>>
      /\ trapRegistry' = IF Live \subseteq {d} THEN 0 ELSE trapRegistry
  BY TeardownLists
<1>9. /\ locks' \in Seq(LockStates) /\ DOMAIN locks' = DOMAIN locks /\ locked' \in Nat
      /\ ground' \in [frozen : BOOLEAN, at : Offsets \cup {0}]
      /\ IF Live \subseteq {d} THEN locked' = 0 /\ ~ground'.frozen /\ ground'.at = left
         ELSE /\ locked' = locked /\ ground'.frozen
              /\ locks'[locked].owners = Cardinality(Live \ {d}) /\ locks'[locked].scroll = left
  BY TeardownLock
<1>10. Live' = {} <=> Live \subseteq {d}
  BY <1>6
<1>11. left \in Offsets
  BY DEF TrapsInv, TrapsTypeOK
<1>12. TrapsTypeOK'
  BY <1>1, <1>5, <1>7, <1>8, <1>9, <1>11 DEF TrapsTypeOK
<1>13. HoldsCurrent'
  <2> SUFFICES ASSUME NEW e \in Dialogs
               PROVE  /\ dialog'[e].stage = "live" =>
                            dialog'[e].list = trapRegistry' /\ dialog'[e].lock = locked' /\ ~dialog'[e].released
                      /\ dialog'[e].stage = "gone" => dialog'[e].list \in DOMAIN lists' /\ dialog'[e].released
    BY DEF HoldsCurrent
  <2>1. CASE e = d
    <3>1. dialog[d].list \in DOMAIN lists
      BY <1>1 DEF TrapsInv, HoldsCurrent, KeptWhileOpen, Live
    <3> QED BY <1>3, <1>5, <1>8, <2>1, <3>1
  <2>2. CASE e # d
    <3>1. dialog'[e] = dialog[e]
      BY <1>5, <2>2
    <3>2. dialog[e].stage = "live" => trapRegistry' = trapRegistry /\ locked' = locked
      BY <1>8, <1>9, <2>2 DEF Live
    <3> QED BY <1>8, <3>1, <3>2 DEF TrapsInv, HoldsCurrent
  <2> QED BY <2>1, <2>2
<1>14. ListsNameTheOpen'
  <2> SUFFICES ASSUME NEW l \in DOMAIN lists
               PROVE  IF l = trapRegistry' THEN ToSet(lists'[l]) = Live' /\ NoTwice(lists'[l])
                      ELSE lists'[l] = <<>>
    BY <1>8 DEF ListsNameTheOpen
  <2>1. l # 0
    BY LenProperties DEF TrapsInv, TrapsTypeOK
  <2>2. CASE trapRegistry' = trapRegistry
    BY <1>6, <1>8, <2>2
  <2>3. CASE trapRegistry' = 0 /\ Live \subseteq {d}
    <3>1. l # trapRegistry'
      BY <2>1, <2>3
    <3>2. l = trapRegistry => lists'[l] = <<>>
      <4>1. l = trapRegistry => ToSet(lists'[l]) = {}
        BY <1>8, <2>3
      <4>2. PICK q \in Seq(Dialogs) : q = lists'[l]
        BY <1>8, ElementOfSeq, LenProperties
      <4>3. Len(q) \in Nat /\ DOMAIN q = 1 .. Len(q)
        BY LenProperties
      <4>4. ToSet(q) = {} => DOMAIN q = {}
        BY DEF ToSet
      <4>5. Len(q) # 0 => 1 \in DOMAIN q
        BY <4>3
      <4>6. ToSet(q) = {} => q = <<>>
        BY <4>4, <4>5, EmptySeq
      <4> QED BY <4>1, <4>2, <4>6
    <3> QED BY <1>8, <3>1, <3>2
  <2> QED BY <1>8, <2>2, <2>3
<1>15. KeptWhileOpen'
  BY <1>8, <1>9, <1>10 DEF TrapsInv, KeptWhileOpen
<1>16. OwnersCounted'
  BY <1>1, <1>6, <1>9 DEF OwnersCounted
<1>17. PageComesBack'
  BY <1>1, <1>9, <1>10 DEF PageComesBack
<1> QED BY <1>12, <1>13, <1>14, <1>15, <1>16, <1>17 DEF TrapsInv

-----------------------------------------------------------------------------
LEMMA TrapsNextInv ==
  ASSUME TrapsInv, [FocusTrapsNext]_trapVars
  PROVE  TrapsInv'
<1>1. CASE UNCHANGED trapVars
  BY <1>1 DEF trapVars, TrapsInv, TrapsTypeOK, HoldsCurrent, ListsNameTheOpen, KeptWhileOpen, OwnersCounted,
              PageComesBack, Live
<1>2. ASSUME NEW d \in Dialogs, OpenTrap(d) \/ MoveFocusIn(d) \/ Teardown(d)  PROVE TrapsInv'
  BY <1>2, OpenTrapKeeps, MoveFocusInKeeps, TeardownKeeps
<1>3. CASE Tab \/ Click
  <2>1. UNCHANGED <<dialog, lists, trapRegistry, locks, locked, ground, left>>
    BY <1>3 DEF Tab, Click
  <2>2. focus' \in {"body", "page"} \cup Dialogs
    BY <1>3 DEF Tab, Click, Live
  <2> QED BY <2>1, <2>2 DEF TrapsInv, TrapsTypeOK, HoldsCurrent, ListsNameTheOpen, KeptWhileOpen, OwnersCounted,
                            PageComesBack, Live
<1>4. CASE Scroll
  <2>1. PICK at \in Offsets : ground' = [ground EXCEPT !.at = at] /\ left' = at
    BY <1>4 DEF Scroll
  <2>2. ~ground.frozen /\ UNCHANGED <<dialog, lists, trapRegistry, locks, locked, focus>>
    BY <1>4 DEF Scroll
  <2>3. /\ ground' \in [frozen : BOOLEAN, at : Offsets \cup {0}] /\ ground'.frozen = ground.frozen
        /\ ground'.at = left'
    BY <2>1 DEF TrapsInv, TrapsTypeOK
  <2>4. Live' = Live /\ Live = {} /\ locked = 0
    BY <2>2, LockGoesWithLive DEF Live, TrapsInv, PageComesBack
  <2> QED BY <2>1, <2>2, <2>3, <2>4
          DEF TrapsInv, TrapsTypeOK, HoldsCurrent, ListsNameTheOpen, KeptWhileOpen, OwnersCounted, PageComesBack
<1> QED BY <1>1, <1>2, <1>3, <1>4 DEF FocusTrapsNext

(* Dialogs that open and close in any order, also twice, share Tab and the *)
(* page's scroll and give both back: one of them answers Tab, and the page *)
(* is frozen while any is open and then stands where the reader left it    *)
(* (lib/focusTrap.ts, lib/scrollLock.ts).                                  *)
THEOREM DialogsGiveBack == FocusTrapsSpec => []DialogsOwnThePage
<1>1. FocusTrapsInit => TrapsInv
  <2> SUFFICES ASSUME FocusTrapsInit  PROVE TrapsInv
    OBVIOUS
  <2>1. Unopened \in Opened /\ Unopened.stage = "new"
    BY DEF Unopened, Opened
  <2>2. dialog \in [Dialogs -> Opened] /\ Live = {} /\ \A d \in Dialogs : dialog[d].stage = "new"
    BY <2>1 DEF FocusTrapsInit, Live
  <2>3. lists = <<>> /\ trapRegistry = 0 /\ locks = <<>> /\ locked = 0 /\ DOMAIN lists = {}
    BY DEF FocusTrapsInit
  <2>4. /\ ground \in [frozen : BOOLEAN, at : Offsets \cup {0}] /\ ~ground.frozen /\ ground.at = left
        /\ left \in Offsets /\ focus \in {"body", "page"}
    BY DEF FocusTrapsInit
  <2>5. TrapsTypeOK
    BY <2>2, <2>3, <2>4 DEF TrapsTypeOK
  <2> QED BY <2>2, <2>3, <2>4, <2>5
          DEF TrapsInv, HoldsCurrent, ListsNameTheOpen, KeptWhileOpen, OwnersCounted, PageComesBack
<1>2. TrapsInv /\ [FocusTrapsNext]_trapVars => TrapsInv'
  BY TrapsNextInv
<1>3. TrapsInv => DialogsOwnThePage
  BY OneAnswersTab DEF TrapsInv, DialogsOwnThePage
<1> QED BY <1>1, <1>2, <1>3, PTL DEF FocusTrapsSpec

-----------------------------------------------------------------------------
(* The user fonts of a tab (FontFaces)                                     *)

FontOps == {"load", "rescan", "reload"}
FontRegistries == [token : Nat, list : Nat, loaded : BOOLEAN, loading : BOOLEAN, rescanning : BOOLEAN,
                   queue : Seq(FontOps)]
FontRequests == [op : FontOps, got : {"none", "ok", "refused", "error"}, token : Nat, list : Nat]
FontProbes == [current : BOOLEAN, file : Files, live : BOOLEAN]

FontsTypeOK ==
    /\ fontServer \in [up : BOOLEAN, token : Nat, list : Nat] /\ disk \in Nat
    /\ registry \in FontRegistries
    /\ flights \in SUBSET FontRequests
    /\ reachable \in BOOLEAN /\ unseen \in BOOLEAN
    /\ active \in Files
    /\ probes \in SUBSET FontProbes

(* A measurement that may still be kept is of the face in use.             *)
ProbesOfActive == \A p \in probes : p.live => p.current /\ p.file = active

(* The operations of the registry run one at a time.                       *)
OneFlight == \A a, b \in flights : a = b

StaleAnswer(a) == a.got = "ok" /\ a.token # fontServer.token
ToBeFresh(a) == a.got \in {"none", "refused"} \/ (a.got = "ok" /\ a.token = fontServer.token)
Rereads(queue) == \E i \in DOMAIN queue : queue[i] \in {"reload", "rescan"}

(* Unless something passed without an edge, a tab that holds a list of an  *)
(* earlier process, or is about to, will read again.                       *)
ReadsAgain ==
    reachable /\ fontServer.up /\ ~unseen =>
        IF registry.loaded
        THEN registry.token # fontServer.token \/ (\E a \in flights : StaleAnswer(a))
                => Rereads(registry.queue) \/ \E a \in flights : ToBeFresh(a)
        ELSE ~\E a \in flights : StaleAnswer(a)

FontsInv == FontsTypeOK /\ ProbesOfActive /\ OneFlight /\ ReadsAgain /\ StaysSized

(* What the registry does to its queue: nothing that waits is taken back.  *)
SameFonts(r, t) ==
    t \in FontRegistries /\ t.token = r.token /\ t.loaded = r.loaded /\ (Rereads(r.queue) => Rereads(t.queue))

LEMMA EnqueueAdds ==
  ASSUME NEW r \in FontRegistries, NEW op \in FontOps
  PROVE  SameFonts(r, EnqueueList(r, op)) /\ (op # "load" => Rereads(EnqueueList(r, op).queue))
<1>1. PICK q \in Seq(FontOps) : q = r.queue
  BY DEF FontRegistries
<1>2. PICK more : more = Append(q, op)
  OBVIOUS
<1>3. /\ more \in Seq(FontOps) /\ Len(q) \in Nat /\ DOMAIN q = 1 .. Len(q)
      /\ DOMAIN more = 1 .. Len(q) + 1 /\ more[Len(q) + 1] = op /\ \A i \in 1 .. Len(q) : more[i] = q[i]
  BY <1>2, LenProperties, AppendProperties
<1>4. PICK t : t = [r EXCEPT !.queue = more]
  OBVIOUS
<1>5. t = EnqueueList(r, op)
  BY <1>1, <1>2, <1>4 DEF EnqueueList
<1>6. t \in FontRegistries /\ t.token = r.token /\ t.loaded = r.loaded /\ t.queue = more
  BY <1>3, <1>4 DEF FontRegistries
<1>7. Rereads(q) => Rereads(more)
  BY <1>3 DEF Rereads
<1>8. op # "load" => Rereads(more)
  <2>1. Len(q) + 1 \in DOMAIN more
    BY <1>3
  <2> QED BY <1>3, <2>1 DEF Rereads, FontOps
<1> QED BY <1>1, <1>5, <1>6, <1>7, <1>8 DEF SameFonts

LEMMA LoadWaits ==
  ASSUME NEW r \in FontRegistries
  PROVE  SameFonts(r, Load(r))
<1>1. PICK t : t = [r EXCEPT !.loading = TRUE]
  OBVIOUS
<1>2. t \in FontRegistries /\ t.token = r.token /\ t.loaded = r.loaded /\ t.queue = r.queue
  BY <1>1 DEF FontRegistries
<1>3. SameFonts(t, EnqueueList(t, "load"))
  BY <1>2, EnqueueAdds DEF FontOps
<1>4. Load(r) \in {r, EnqueueList(t, "load")}
  BY <1>1 DEF Load
<1> QED BY <1>2, <1>3, <1>4 DEF SameFonts

LEMMA RecoveryReads ==
  ASSUME NEW r \in FontRegistries
  PROVE  /\ SameFonts(r, WatchReachability(r))
         /\ r.loaded => Rereads(WatchReachability(r).queue)
<1>1. "reload" \in FontOps /\ "reload" # "load"
  BY DEF FontOps
<1>2. CASE r.loaded
  BY <1>1, <1>2, EnqueueAdds DEF WatchReachability, Reload
<1>3. CASE ~r.loaded
  BY <1>3, LoadWaits DEF WatchReachability
<1> QED BY <1>2, <1>3

LEMMA EndedSame ==
  ASSUME NEW r \in FontRegistries, NEW op \in FontOps
  PROVE  SameFonts(r, Ended(r, op)) /\ Ended(r, op).queue = r.queue
<1>1. PICK t : t = [r EXCEPT !.loading = FALSE]
  OBVIOUS
<1>2. PICK u : u = [r EXCEPT !.rescanning = FALSE]
  OBVIOUS
<1>3. t \in FontRegistries /\ t.token = r.token /\ t.loaded = r.loaded /\ t.queue = r.queue
  BY <1>1 DEF FontRegistries
<1>4. u \in FontRegistries /\ u.token = r.token /\ u.loaded = r.loaded /\ u.queue = r.queue
  BY <1>2 DEF FontRegistries
<1>5. Ended(r, op) \in {t, u, r}
  BY <1>1, <1>2 DEF Ended, FontOps
<1> QED BY <1>3, <1>4, <1>5 DEF SameFonts

LEMMA PublishHas ==
  ASSUME NEW r \in FontRegistries, NEW a \in FontRequests
  PROVE  /\ Publish(r, a) \in FontRegistries /\ Publish(r, a).token = a.token /\ Publish(r, a).loaded
         /\ Publish(r, a).queue = r.queue
<1>1. a.token \in Nat /\ a.list \in Nat
  BY DEF FontRequests
<1>2. PICK t : t = [r EXCEPT !.token = a.token, !.list = a.list, !.loaded = TRUE]
  OBVIOUS
<1>3. t \in FontRegistries
  BY <1>1, <1>2 DEF FontRegistries
<1>4. t.token = a.token /\ t.loaded /\ t.queue = r.queue
  BY <1>2 DEF FontRegistries
<1> QED BY <1>2, <1>3, <1>4 DEF Publish

(* A step that only adds to the queue, and one that no process sees.       *)
LEMMA QueueOnly ==
  ASSUME FontsInv, SameFonts(registry, registry'),
         UNCHANGED <<fontServer, disk, flights, reachable, active, probes, calibration, sized, unseen>>
  PROVE  FontsInv'
<1>1. FontsTypeOK'
  BY DEF FontsInv, FontsTypeOK, SameFonts
<1>2. ProbesOfActive' /\ OneFlight' /\ StaysSized'
  BY DEF FontsInv, ProbesOfActive, OneFlight, StaysSized, RatioInUse
<1>3. ReadsAgain'
  BY DEF FontsInv, ReadsAgain, StaleAnswer, ToBeFresh, SameFonts
<1> QED BY <1>1, <1>2, <1>3 DEF FontsInv

LEMMA StartNextKeeps ==
  ASSUME FontsInv, StartNext
  PROVE  FontsInv'
<1>1. /\ registry.queue # <<>> /\ flights = {} /\ registry \in FontRegistries
      /\ UNCHANGED <<fontServer, disk, reachable, active, probes, calibration, sized, unseen>>
  BY DEF StartNext, Serialized, FontsInv, FontsTypeOK
<1>2. PICK q \in Seq(FontOps) : q = registry.queue
  BY <1>1 DEF FontRegistries
<1>3. PICK op : op = Head(q)
  OBVIOUS
<1>4. PICK rest : rest = Tail(q)
  OBVIOUS
<1>5. /\ op \in FontOps /\ rest \in Seq(FontOps) /\ q # <<>> /\ q[1] = op
      /\ Len(q) \in Nat /\ DOMAIN q = 1 .. Len(q) /\ DOMAIN rest = 1 .. Len(q) - 1
      /\ \A i \in 1 .. Len(q) - 1 : rest[i] = q[i + 1]
  <2>1. q # <<>>
    BY <1>1, <1>2
  <2>2. op \in FontOps /\ rest \in Seq(FontOps) /\ q[1] = op
    BY <1>3, <1>4, <2>1, HeadTailProperties
  <2>3. Len(rest) = Len(q) - 1 /\ \A i \in 1 .. Len(rest) : rest[i] = q[i + 1]
    BY <1>4, <2>1, HeadTailProperties
  <2>4. Len(q) \in Nat /\ DOMAIN q = 1 .. Len(q) /\ DOMAIN rest = 1 .. Len(rest)
    BY <2>2, LenProperties
  <2> QED BY <2>1, <2>2, <2>3, <2>4
<1>6. op = "load" => (Rereads(q) => Rereads(rest))
  <2> SUFFICES ASSUME op = "load", NEW i \in DOMAIN q, q[i] \in {"reload", "rescan"}
               PROVE  \E j \in DOMAIN rest : rest[j] \in {"reload", "rescan"}
    BY DEF Rereads
  <2>1. i # 1
    BY <1>5
  <2>2. i - 1 \in DOMAIN rest /\ rest[i - 1] = q[i]
    BY <1>5, <2>1
  <2> QED BY <2>2
<1>7. PICK r : r = [registry EXCEPT !.queue = rest]
  OBVIOUS
<1>8. r \in FontRegistries /\ r.token = registry.token /\ r.loaded = registry.loaded /\ r.queue = rest
  BY <1>1, <1>5, <1>7 DEF FontRegistries
<1>9. IF op = "load" /\ registry.loaded
      THEN registry' = [r EXCEPT !.loading = FALSE] /\ UNCHANGED flights
      ELSE registry' = r /\ flights' = flights \cup {FontRequest(op)}
  BY <1>2, <1>3, <1>4, <1>7 DEF StartNext
<1>10. CASE op = "load" /\ registry.loaded
  <2>1. registry' = Ended(r, "load") /\ flights' = flights
    BY <1>9, <1>10 DEF Ended
  <2>2. SameFonts(r, registry')
    BY <1>8, <2>1, EndedSame DEF FontOps
  <2>3. SameFonts(registry, registry')
    BY <1>2, <1>6, <1>8, <1>10, <2>2 DEF SameFonts
  <2> QED BY <1>1, <2>1, <2>3, QueueOnly
<1>11. CASE ~(op = "load" /\ registry.loaded)
  <2>1. PICK a : a = FontRequest(op)
    OBVIOUS
  <2>2. a \in FontRequests /\ a.got = "none"
    BY <1>5, <2>1 DEF FontRequest, FontRequests
  <2>3. registry' = r /\ flights' = {a}
    BY <1>1, <1>9, <1>11, <2>1
  <2>4. FontsTypeOK'
    BY <1>1, <1>8, <2>2, <2>3 DEF FontsInv, FontsTypeOK
  <2>5. ProbesOfActive' /\ OneFlight' /\ StaysSized'
    BY <1>1, <2>3 DEF FontsInv, ProbesOfActive, OneFlight, StaysSized, RatioInUse
  <2>6. ReadsAgain'
    BY <2>2, <2>3 DEF ReadsAgain, StaleAnswer, ToBeFresh
  <2> QED BY <2>4, <2>5, <2>6 DEF FontsInv
<1> QED BY <1>10, <1>11

LEMMA ServeFontsKeeps ==
  ASSUME FontsInv, ServeFonts
  PROVE  FontsInv'
<1>1. PICK a \in flights :
        /\ a.got = "none"
        /\ IF fontServer.up
           THEN \E list \in {disk, fontServer.list} :
                   /\ fontServer' = [fontServer EXCEPT !.list = list]
                   /\ flights' = (flights \ {a})
                              \cup {[a EXCEPT !.got = "ok", !.token = fontServer.token, !.list = list]}
           ELSE flights' = (flights \ {a}) \cup {[a EXCEPT !.got = "refused"]} /\ UNCHANGED fontServer
        /\ UNCHANGED <<disk, registry, reachable, active, probes, calibration, sized, unseen>>
  BY DEF ServeFonts
<1>2. /\ a \in FontRequests /\ flights = {a} /\ disk \in Nat
      /\ fontServer \in [up : BOOLEAN, token : Nat, list : Nat]
  BY DEF FontsInv, FontsTypeOK, OneFlight
<1>3. \E b \in FontRequests :
         /\ flights' = {b} /\ ToBeFresh(b) /\ ~StaleAnswer(b)
         /\ fontServer' \in [up : BOOLEAN, token : Nat, list : Nat]
         /\ fontServer'.up = fontServer.up /\ fontServer'.token = fontServer.token
  <2>1. CASE fontServer.up
    <3>1. PICK list \in {disk, fontServer.list} :
              /\ fontServer' = [fontServer EXCEPT !.list = list]
              /\ flights' = (flights \ {a})
                         \cup {[a EXCEPT !.got = "ok", !.token = fontServer.token, !.list = list]}
      BY <1>1, <2>1
    <3>2. PICK b : b = [a EXCEPT !.got = "ok", !.token = fontServer.token, !.list = list]
      OBVIOUS
    <3>3. list \in Nat /\ fontServer.token \in Nat
      BY <1>2
    <3>4. b \in FontRequests /\ b.got = "ok" /\ b.token = fontServer.token
      BY <1>2, <3>2, <3>3 DEF FontRequests
    <3>5. /\ fontServer' \in [up : BOOLEAN, token : Nat, list : Nat]
          /\ fontServer'.up = fontServer.up /\ fontServer'.token = fontServer.token
      BY <1>2, <3>1, <3>3
    <3>6. flights' = {b}
      BY <1>2, <3>1, <3>2
    <3> QED BY <3>4, <3>5, <3>6 DEF ToBeFresh, StaleAnswer
  <2>2. CASE ~fontServer.up
    <3>1. PICK b : b = [a EXCEPT !.got = "refused"]
      OBVIOUS
    <3>2. b \in FontRequests /\ b.got = "refused"
      BY <1>2, <3>1 DEF FontRequests
    <3>3. flights' = {b} /\ fontServer' = fontServer
      BY <1>1, <1>2, <2>2, <3>1
    <3> QED BY <1>2, <3>2, <3>3 DEF ToBeFresh, StaleAnswer
  <2> QED BY <2>1, <2>2
<1>4. PICK b \in FontRequests :
         /\ flights' = {b} /\ ToBeFresh(b) /\ ~StaleAnswer(b)
         /\ fontServer' \in [up : BOOLEAN, token : Nat, list : Nat]
         /\ fontServer'.up = fontServer.up /\ fontServer'.token = fontServer.token
  BY <1>3
<1>5. FontsTypeOK'
  BY <1>1, <1>4 DEF FontsInv, FontsTypeOK
<1>6. ProbesOfActive' /\ OneFlight' /\ StaysSized'
  BY <1>1, <1>4 DEF FontsInv, ProbesOfActive, OneFlight, StaysSized, RatioInUse
<1>7. ReadsAgain'
  BY <1>1, <1>4 DEF ReadsAgain, StaleAnswer, ToBeFresh
<1> QED BY <1>5, <1>6, <1>7 DEF FontsInv

LEMMA ErrKeeps ==
  ASSUME FontsInv, Err
  PROVE  FontsInv'
<1>1. PICK a \in flights : flights' = (flights \ {a}) \cup {[a EXCEPT !.got = "error"]}
  BY DEF Err
<1>2. /\ unseen' = TRUE
      /\ UNCHANGED <<fontServer, disk, registry, reachable, active, probes, calibration, sized>>
  BY DEF Err
<1>3. PICK b : b = [a EXCEPT !.got = "error"]
  OBVIOUS
<1>4. a \in FontRequests /\ flights = {a}
  BY DEF FontsInv, FontsTypeOK, OneFlight
<1>5. b \in FontRequests /\ flights' = {b}
  BY <1>1, <1>3, <1>4 DEF FontRequests
<1>6. FontsTypeOK'
  BY <1>2, <1>5 DEF FontsInv, FontsTypeOK
<1>7. ProbesOfActive' /\ OneFlight' /\ StaysSized' /\ ReadsAgain'
  BY <1>2, <1>5 DEF FontsInv, ProbesOfActive, OneFlight, StaysSized, RatioInUse, ReadsAgain
<1> QED BY <1>6, <1>7 DEF FontsInv

LEMMA ServerKeeps ==
  ASSUME FontsInv, Quit \/ BootTab \/ Install
  PROVE  FontsInv'
<1>1. /\ UNCHANGED <<registry, flights, reachable, active, probes, calibration, sized>>
      /\ fontServer \in [up : BOOLEAN, token : Nat, list : Nat] /\ disk \in Nat
      /\ unseen \in BOOLEAN /\ reachable \in BOOLEAN
  BY DEF Quit, BootTab, Install, FontsInv, FontsTypeOK
<1>2. /\ fontServer' \in [up : BOOLEAN, token : Nat, list : Nat] /\ disk' \in Nat /\ unseen' \in BOOLEAN
      /\ \/ ~fontServer'.up
         \/ fontServer' = fontServer /\ unseen' = unseen
         \/ ~reachable
         \/ unseen'
  <2>1. CASE Quit
    BY <1>1, <2>1 DEF Quit
  <2>2. CASE BootTab
    <3>1. fontServer.token + 1 \in Nat
      BY <1>1
    <3> QED BY <1>1, <2>2, <3>1 DEF BootTab
  <2>3. CASE Install
    BY <1>1, <2>3 DEF Install
  <2> QED BY <2>1, <2>2, <2>3
<1>3. FontsTypeOK'
  BY <1>1, <1>2 DEF FontsInv, FontsTypeOK
<1>4. ProbesOfActive' /\ OneFlight' /\ StaysSized'
  BY <1>1 DEF FontsInv, ProbesOfActive, OneFlight, StaysSized, RatioInUse
<1>5. ReadsAgain'
  BY <1>1, <1>2 DEF FontsInv, ReadsAgain, StaleAnswer, ToBeFresh
<1> QED BY <1>3, <1>4, <1>5 DEF FontsInv

LEMMA FacesKeep ==
  ASSUME FontsInv, PickFile \/ MeasureFails \/ Measured
  PROVE  FontsInv'
<1>1. UNCHANGED <<fontServer, disk, registry, flights, reachable, unseen>>
  BY DEF PickFile, MeasureFails, Measured
<1>2. OneFlight' /\ ReadsAgain'
  BY <1>1 DEF FontsInv, OneFlight, ReadsAgain, StaleAnswer, ToBeFresh
<1>3. active' \in Files /\ probes' \in SUBSET FontProbes /\ ProbesOfActive' /\ StaysSized'
  <2>1. active \in Files /\ probes \in SUBSET FontProbes
    BY DEF FontsInv, FontsTypeOK
  <2>2. CASE PickFile
    <3>1. PICK f \in Files : active' = f /\ Remeasure(probes, registry.loaded, f)
      BY <2>2 DEF PickFile
    <3>2. PICK new : new = [current |-> TRUE, file |-> f, live |-> TRUE]
      OBVIOUS
    <3>3. \A p \in probes' : p = new \/ \E o \in probes : p = [o EXCEPT !.live = FALSE]
      BY <3>1, <3>2 DEF Remeasure
    <3>4. new \in FontProbes /\ new.current /\ new.file = f
      BY <3>2 DEF FontProbes
    <3>5. ASSUME NEW p \in probes', p # new  PROVE p \in FontProbes /\ ~p.live
      <4>1. PICK o \in probes : p = [o EXCEPT !.live = FALSE]
        BY <3>3, <3>5
      <4>2. o \in FontProbes
        BY <2>1
      <4> QED BY <4>1, <4>2 DEF FontProbes
    <3>6. ~sized'
      BY <3>1 DEF Remeasure
    <3> QED BY <3>1, <3>4, <3>5, <3>6 DEF ProbesOfActive, StaysSized
  <2>3. CASE MeasureFails
    BY <2>1, <2>3 DEF MeasureFails, FontsInv, ProbesOfActive, StaysSized, RatioInUse
  <2>4. CASE Measured
    <3>1. PICK p \in probes : /\ IsKept(p) /\ probes' = probes \ {p}
                              /\ calibration' = [current |-> p.current, file |-> p.file]
      BY <2>4 DEF Measured
    <3>2. active' = active
      BY <2>4 DEF Measured
    <3>3. p.current /\ p.file = active
      BY <3>1 DEF FontsInv, ProbesOfActive, IsKept
    <3>4. StaysSized'
      BY <3>1, <3>2, <3>3 DEF StaysSized, RatioInUse
    <3> QED BY <2>1, <3>1, <3>2, <3>4 DEF FontsInv, ProbesOfActive
  <2> QED BY <2>2, <2>3, <2>4
<1>4. FontsTypeOK'
  BY <1>1, <1>3 DEF FontsInv, FontsTypeOK
<1> QED BY <1>2, <1>3, <1>4 DEF FontsInv

(* A report of any outcome: the edge back reads again whatever is held.    *)
LEMMA ReportHelps ==
  ASSUME FontsInv, NEW back \in BOOLEAN, NEW r \in FontRegistries, Reports(back, r)
  PROVE  /\ reachable' = back /\ unseen' \in BOOLEAN /\ SameFonts(r, registry')
         /\ IF back /\ ~reachable
            THEN unseen' = Overtaken /\ (r.loaded => Rereads(registry'.queue))
            ELSE unseen' = unseen /\ registry' = r
<1>1. reachable \in BOOLEAN /\ unseen \in BOOLEAN
  BY DEF FontsInv, FontsTypeOK
<1>2. CASE back /\ ~reachable
  <2>1. Overtaken \in BOOLEAN
    BY DEF Overtaken
  <2> QED BY <1>2, <2>1, RecoveryReads DEF Reports
<1>3. CASE ~(back /\ ~reachable)
  BY <1>1, <1>3 DEF Reports, SameFonts
<1> QED BY <1>2, <1>3

LEMMA OtherRequestKeeps ==
  ASSUME FontsInv, OtherRequest
  PROVE  FontsInv'
<1>1. /\ reachable # fontServer.up /\ Reports(fontServer.up, registry)
      /\ UNCHANGED <<fontServer, disk, flights, active, probes, calibration, sized>>
      /\ fontServer.up \in BOOLEAN /\ reachable \in BOOLEAN /\ registry \in FontRegistries
  BY DEF OtherRequest, FontsInv, FontsTypeOK
<1>2. /\ reachable' = fontServer.up /\ unseen' \in BOOLEAN /\ SameFonts(registry, registry')
      /\ IF fontServer.up /\ ~reachable
         THEN unseen' = Overtaken /\ (registry.loaded => Rereads(registry'.queue))
         ELSE unseen' = unseen /\ registry' = registry
  BY <1>1, ReportHelps
<1>3. FontsTypeOK'
  BY <1>1, <1>2 DEF FontsInv, FontsTypeOK, SameFonts
<1>4. ProbesOfActive' /\ OneFlight' /\ StaysSized'
  BY <1>1 DEF FontsInv, ProbesOfActive, OneFlight, StaysSized, RatioInUse
<1>5. ReadsAgain'
  <2>1. CASE ~fontServer.up
    BY <1>1, <2>1 DEF ReadsAgain
  <2>2. CASE fontServer.up /\ registry.loaded
    BY <1>1, <1>2, <2>2 DEF ReadsAgain, SameFonts
  <2>3. CASE fontServer.up /\ ~registry.loaded
    <3>1. ~unseen' => ~\E a \in flights : StaleAnswer(a)
      BY <1>1, <1>2, <2>3 DEF Overtaken, StaleAnswer
    <3> QED BY <1>1, <1>2, <2>3, <3>1 DEF ReadsAgain, SameFonts, StaleAnswer
  <2> QED BY <1>1, <2>1, <2>2, <2>3
<1> QED BY <1>3, <1>4, <1>5 DEF FontsInv

LEMMA SettleFailedKeeps ==
  ASSUME FontsInv, SettleFailed
  PROVE  FontsInv'
<1>1. PICK a \in flights :
        /\ a.got \in {"refused", "error"} /\ flights' = flights \ {a}
        /\ IF a.got = "refused" THEN Reports(FALSE, Ended(registry, a.op))
           ELSE registry' = Ended(registry, a.op) /\ UNCHANGED <<reachable, unseen>>
        /\ UNCHANGED <<fontServer, disk, active, probes, calibration, sized>>
  BY DEF SettleFailed
<1>2. a \in FontRequests /\ a.op \in FontOps /\ flights = {a} /\ registry \in FontRegistries
  BY DEF FontsInv, FontsTypeOK, OneFlight, FontRequests
<1>3. PICK r : r = Ended(registry, a.op)
  OBVIOUS
<1>4. SameFonts(registry, r) /\ r \in FontRegistries
  BY <1>2, <1>3, EndedSame DEF SameFonts
<1>5. flights' = {}
  BY <1>1, <1>2
<1>6. /\ SameFonts(registry, registry') /\ unseen' = unseen
      /\ reachable' = FALSE \/ (reachable' = reachable /\ a.got = "error")
  <2>1. CASE a.got = "refused"
    BY <1>1, <1>3, <1>4, <2>1, ReportHelps
  <2>2. CASE a.got # "refused"
    BY <1>1, <1>3, <1>4, <2>2
  <2> QED BY <2>1, <2>2
<1>7. FontsTypeOK'
  BY <1>1, <1>5, <1>6 DEF FontsInv, FontsTypeOK, SameFonts
<1>8. ProbesOfActive' /\ OneFlight' /\ StaysSized'
  BY <1>1, <1>5 DEF FontsInv, ProbesOfActive, OneFlight, StaysSized, RatioInUse
<1>9. ReadsAgain'
  <2>1. CASE reachable' = FALSE
    BY <2>1 DEF ReadsAgain
  <2>2. CASE reachable' = reachable /\ a.got = "error"
    <3>1. ~ToBeFresh(a)
      BY <2>2 DEF ToBeFresh
    <3> QED BY <1>1, <1>2, <1>5, <1>6, <2>2, <3>1 DEF FontsInv, ReadsAgain, SameFonts
  <2> QED BY <1>6, <2>1, <2>2
<1> QED BY <1>7, <1>8, <1>9 DEF FontsInv

LEMMA SettleOkKeeps ==
  ASSUME FontsInv, SettleOk
  PROVE  FontsInv'
<1>1. PICK a \in flights :
        /\ a.got = "ok" /\ flights' = flights \ {a}
        /\ Reports(TRUE, Ended(Publish(registry, a), a.op))
        /\ Remeasure({Outdated(p) : p \in probes}, TRUE, active)
        /\ calibration' = Outdated(calibration)
        /\ UNCHANGED <<fontServer, disk, active>>
  BY DEF SettleOk
<1>2. a \in FontRequests /\ a.op \in FontOps /\ flights = {a} /\ registry \in FontRegistries
  BY DEF FontsInv, FontsTypeOK, OneFlight, FontRequests
<1>3. PICK p : p = Publish(registry, a)
  OBVIOUS
<1>4. p \in FontRegistries /\ p.token = a.token /\ p.loaded /\ p.queue = registry.queue
  BY <1>2, <1>3, PublishHas
<1>5. PICK r : r = Ended(p, a.op)
  OBVIOUS
<1>6. r \in FontRegistries /\ r.token = a.token /\ r.loaded /\ r.queue = registry.queue
  BY <1>2, <1>4, <1>5, EndedSame DEF SameFonts
<1>7. /\ reachable' = TRUE /\ unseen' \in BOOLEAN /\ SameFonts(r, registry')
      /\ IF ~reachable THEN Rereads(registry'.queue) ELSE unseen' = unseen /\ registry' = r
  BY <1>1, <1>3, <1>5, <1>6, ReportHelps
<1>8. flights' = {}
  BY <1>1, <1>2
<1>9. probes' \in SUBSET FontProbes /\ ProbesOfActive' /\ ~sized'
  <2>1. PICK new : new = [current |-> TRUE, file |-> active, live |-> TRUE]
    OBVIOUS
  <2>2. \A o \in probes' : o = new \/ \E q \in probes : o = [Outdated(q) EXCEPT !.live = FALSE]
    BY <1>1, <2>1 DEF Remeasure
  <2>3. active \in Files /\ probes \in SUBSET FontProbes
    BY DEF FontsInv, FontsTypeOK
  <2>4. new \in FontProbes /\ new.current /\ new.file = active
    BY <2>1, <2>3 DEF FontProbes
  <2>5. ASSUME NEW o \in probes', o # new  PROVE o \in FontProbes /\ ~o.live
    <3>1. PICK q \in probes : o = [Outdated(q) EXCEPT !.live = FALSE]
      BY <2>2, <2>5
    <3>2. q \in FontProbes
      BY <2>3
    <3>3. PICK older : older = Outdated(q)
      OBVIOUS
    <3>4. older \in FontProbes
      BY <3>2, <3>3 DEF Outdated, FontProbes
    <3> QED BY <3>1, <3>3, <3>4 DEF FontProbes
  <2>6. ~sized' /\ active' = active
    BY <1>1 DEF Remeasure
  <2> QED BY <2>4, <2>5, <2>6 DEF ProbesOfActive
<1>10. FontsTypeOK'
  BY <1>1, <1>7, <1>8, <1>9 DEF FontsInv, FontsTypeOK, SameFonts
<1>11. OneFlight' /\ StaysSized'
  BY <1>8, <1>9 DEF OneFlight, StaysSized
<1>12. ReadsAgain'
  <2> SUFFICES ASSUME fontServer.up, ~unseen', a.token # fontServer.token  PROVE Rereads(registry'.queue)
    BY <1>1, <1>6, <1>7, <1>8 DEF ReadsAgain, SameFonts
  <2>1. CASE ~reachable
    BY <1>7, <2>1
  <2>2. CASE reachable
    <3>1. StaleAnswer(a) /\ ~ToBeFresh(a) /\ ~unseen
      BY <1>1, <1>7, <2>2 DEF StaleAnswer, ToBeFresh
    <3>2. Rereads(registry.queue)
      BY <1>2, <2>2, <3>1 DEF FontsInv, ReadsAgain
    <3> QED BY <1>6, <1>7, <2>2, <3>2
  <2> QED BY <2>1, <2>2 DEF FontsInv, FontsTypeOK
<1> QED BY <1>9, <1>10, <1>11, <1>12 DEF FontsInv

LEMMA FontsNextInv ==
  ASSUME FontsInv, [FontsNext]_fontVars
  PROVE  FontsInv'
<1>1. registry \in FontRegistries
  BY DEF FontsInv, FontsTypeOK
<1>2. CASE UNCHANGED fontVars
  <2>1. SameFonts(registry, registry')
    BY <1>1, <1>2 DEF fontVars, SameFonts
  <2> QED BY <1>2, <2>1, QueueOnly DEF fontVars
<1>3. CASE Mount
  <2>1. SameFonts(registry, registry')
    BY <1>1, <1>3, LoadWaits DEF Mount
  <2> QED BY <1>3, <2>1, QueueOnly DEF Mount
<1>4. CASE RescanFonts
  <2>1. PICK r : r = [registry EXCEPT !.rescanning = TRUE]
    OBVIOUS
  <2>2. /\ r \in FontRegistries /\ r.queue = registry.queue
        /\ r.token = registry.token /\ r.loaded = registry.loaded
    BY <1>1, <2>1 DEF FontRegistries
  <2>3. SameFonts(r, registry')
    BY <1>4, <2>1, <2>2, EnqueueAdds DEF RescanFonts, FontOps
  <2>4. SameFonts(registry, registry')
    BY <2>2, <2>3 DEF SameFonts
  <2> QED BY <1>4, <2>4, QueueOnly DEF RescanFonts
<1> QED BY <1>2, <1>3, <1>4, StartNextKeeps, ServeFontsKeeps, ErrKeeps, ServerKeeps, SettleOkKeeps,
           SettleFailedKeeps, OtherRequestKeeps, FacesKeep DEF FontsNext

(* A tab that has seen its server come back ends with font URLs of the     *)
(* running process (lib/fontRegistry.ts), unless something passed without  *)
(* an edge; and the face in use stays sized by its own measurement, never  *)
(* by one of a face or a list before it (Read.tsx, lib/fontMeasure.ts).    *)
THEOREM FontsFollowTheServer == FontsSpec => []FontsInOrder
<1>1. FontsInit => FontsInv
  <2> SUFFICES ASSUME FontsInit  PROVE FontsInv
    OBVIOUS
  <2>1. /\ fontServer \in [up : BOOLEAN, token : Nat, list : Nat] /\ disk \in Nat
        /\ reachable = TRUE /\ unseen = FALSE /\ sized = FALSE
        /\ flights = {} /\ probes = {} /\ active \in Files
    BY DEF FontsInit
  <2>2. registry \in FontRegistries /\ ~registry.loaded
    BY DEF FontsInit, FontRegistries
  <2> QED BY <2>1, <2>2 DEF FontsInv, FontsTypeOK, ProbesOfActive, OneFlight, ReadsAgain, StaysSized
<1>2. FontsInv /\ [FontsNext]_fontVars => FontsInv'
  BY FontsNextInv
<1>3. FontsInv => FontsInOrder
  BY DEF FontsInv, FontsInOrder, FontsHeal, ReadsAgain, Rereads
<1> QED BY <1>1, <1>2, <1>3, PTL DEF FontsSpec

-----------------------------------------------------------------------------
(* The shelf of a tab (LibraryView)                                        *)

Records  == {Gone} \cup [title : Nat \ {0}, flair : Flairs \cup {"gone"}]
Contents == [Volumes -> Records]
Awaiters == {"nobody", "upload", "rescan"}
Edits    == {"details", "file"}
Imports  == {"upload", "remove", "rescan"}
Lists    == [by : Readers, generation : Nat, for : Awaiters, served : BOOLEAN,
             got : Contents, late : SUBSET Volumes]
Requests == {c \in [op : {"flair"} \cup Edits \cup Imports, volume : Volumes, to : Records,
                    by : Readers, generation : Nat, before : Records, stamp : Nat, id : Nat,
                    stage : {"sent", "ok", "rejected", "failed"}, reply : Records,
                    old : BOOLEAN] : /\ c.op \in Edits => c.to # Gone
                                     /\ c.op = "remove" => c.reply = Gone}

Libs == [profile : Readers \cup {"nobody"}, generation : Nat, loaded : BOOLEAN,
         books : Contents, stamps : [Volumes -> Nat], uploading : BOOLEAN, rescanning : BOOLEAN]

ShelfTypes ==
    /\ shelves \in [Readers -> Contents]
    /\ lib \in Libs
    /\ gets \subseteq Lists
    /\ changes \subseteq Requests
    /\ waiting \in Seq(Awaiters)
    /\ editing \in {NoDialog} \cup [volume : Volumes, todo : SUBSET Edits, busy : BOOLEAN]
    /\ began \in [changes : Nat, switches : Nat]
    /\ blurred \subseteq Volumes

Own(c) == c \in changes /\ c.generation = lib.generation

(* Requests know their tab's activation, nobody reads a shelf that is     *)
(* shown, and there is one reader at a time.                               *)
RequestsKnow == \A c \in changes : /\ c.generation <= lib.generation
                                   /\ Own(c) => c.by = lib.profile
ListsKnow    == \A g \in gets : /\ g.generation <= lib.generation
                                /\ g.generation = lib.generation => g.by = lib.profile /\ ~lib.loaded
OneList      == \A g, h \in gets : g.generation = lib.generation /\ h.generation = lib.generation => g = h
SomebodysTab == /\ lib.loaded => lib.profile \in Readers
                /\ lib.profile = "nobody" => waiting = <<>>
Whose        == RequestsKnow /\ ListsKnow /\ OneList /\ SomebodysTab

(* The dialog saves one stage at a time, and stays open for it.            *)
DialogOwns == \A c \in changes : Own(c) /\ c.op \in Edits =>
                 editing.busy /\ editing.volume = c.volume /\ c.op = NextStage
OneStage   == \A c, d \in changes : Own(c) /\ Own(d) /\ c.op \in Edits /\ d.op \in Edits => c = d
OneDialog  == DialogOwns /\ OneStage

Same(v) == lib.books[v].title = shelves[lib.profile][v].title

(* What will end with the shelf put right about a book: an answer that     *)
(* refreshes or replaces, or the rollback of an edit that is shown.        *)
Mends(c, v) ==
    /\ Own(c) /\ c.volume = v
    /\ \/ c.op \in Imports
       \/ c.op \in Edits /\ c.stage = "failed"
       \/ c.op \in Edits /\ c.stage = "ok" /\ lib.books[v] # Gone
       \/ c.op = "details" /\ c.stage \in {"sent", "rejected"} /\ ~c.old /\ lib.books[v] # Gone

Agreed(v) == Same(v) \/ \E c \in changes : Mends(c, v)

(* What an edit would be rolled back to is what the server has.            *)
MayRollBack(v) ==
    \A c \in changes :
       Own(c) /\ c.volume = v /\ c.op = "details" /\ c.stage \in {"sent", "rejected"} /\ ~c.old
         => \/ lib.books[v] = Gone
            \/ c.before.title = shelves[lib.profile][v].title
            \/ \E d \in changes : Own(d) /\ d.volume = v /\ d.op \in Imports

(* A list that nothing follows is still right about the books it is not    *)
(* known to be late for, or an answer on its way asks for another list.    *)
ListsFit ==
    waiting = <<>> =>
      \A g \in Mine(gets) : g.served =>
        \A v \in Volumes \ g.late :
           \/ g.got[v].title = shelves[lib.profile][v].title
           \/ \E d \in changes : Own(d) /\ d.volume = v /\ d.stage # "sent" /\ RefreshFollows(d)

ShelfSettled ==
    lib.loaded /\ waiting = <<>> => \A v \in Volumes \ blurred : Agreed(v) /\ MayRollBack(v)

ShelfInv == ShelfTypes /\ Whose /\ OneDialog /\ ListsFit /\ ShelfSettled

(* A new request is of the tab's present activation and profile.           *)
LEMMA ChangeFits ==
    ASSUME ShelfTypes, lib.profile # "nobody", NEW op \in {"flair"} \cup Edits \cup Imports,
           NEW v \in Volumes, NEW to \in Records, op \in Edits => to # Gone,
           NEW n, n = Change(op, v, to)
    PROVE  /\ n \in Requests
           /\ n.op = op /\ n.volume = v /\ n.by = lib.profile /\ n.generation = lib.generation
           /\ n.before = lib.books[v] /\ n.stage = "sent" /\ ~n.old
           /\ lib.profile \in Readers
<1>1. lib.profile \in Readers /\ lib.generation \in Nat /\ lib.books[v] \in Records
      /\ lib.stamps[v] \in Nat /\ began.changes \in Nat
  BY DEF ShelfTypes, Contents, Libs
<1>2. Gone \in Records
  BY DEF Records
<1>3. QED
  BY <1>1, <1>2 DEF Change, Requests

(* What the server keeps is a record, and a flair leaves its title alone.  *)
LEMMA AppliedFits ==
    ASSUME NEW rec \in Records, NEW c \in Requests
    PROVE  /\ Applied(rec, c) \in Records
           /\ c.op = "flair" => Applied(rec, c).title = rec.title
           /\ c.op = "remove" => Applied(rec, c) = Gone
<1>1. c.to \in Records /\ c.op \in {"flair"} \cup Edits \cup Imports /\ (c.op \in Edits => c.to # Gone)
  BY DEF Requests
<1>2. CASE c.op = "flair"
  <2>1. rec # Gone => Applied(rec, c) = [rec EXCEPT !.flair = c.to.flair]
    BY <1>2, Zenon DEF Applied
  <2>2. rec = Gone => Applied(rec, c) = rec
    BY <1>2, Zenon DEF Applied
  <2>3. QED
    BY <1>1, <1>2, <2>1, <2>2 DEF Records, Gone
<1>3. CASE c.op \in Edits
  <2>1. rec # Gone => Applied(rec, c) = [rec EXCEPT !.title = c.to.title]
    BY <1>3, Zenon DEF Applied, Edits
  <2>2. rec = Gone => Applied(rec, c) = rec
    BY <1>3, Zenon DEF Applied, Edits
  <2>3. QED
    BY <1>1, <1>3, <2>1, <2>2 DEF Records, Gone, Edits
<1>4. CASE c.op \in Imports
  <2>1. c.op = "remove" => Applied(rec, c) = Gone
    BY <1>4, Zenon DEF Applied
  <2>2. c.op # "remove" /\ rec = Gone => Applied(rec, c) = c.to
    BY <1>4, Zenon DEF Applied, Imports
  <2>3. c.op # "remove" /\ rec # Gone => Applied(rec, c) = rec
    BY <1>4, Zenon DEF Applied, Imports
  <2>4. QED
    BY <1>1, <1>4, <2>1, <2>2, <2>3 DEF Records, Gone, Edits, Imports
<1>5. QED
  BY <1>1, <1>2, <1>3, <1>4

LEMMA AwaitedKeeps ==
    ASSUME NEW s \in Libs, NEW for
    PROVE  /\ Awaited(s, for) \in Libs
           /\ Awaited(s, for).profile = s.profile
           /\ Awaited(s, for).generation = s.generation
           /\ Awaited(s, for).loaded = s.loaded
           /\ Awaited(s, for).books = s.books
<1>1. CASE for = "rescan"
  <2>1. Awaited(s, for) = [s EXCEPT !.rescanning = FALSE]
    BY <1>1, Zenon DEF Awaited
  <2>2. QED
    BY <2>1 DEF Libs
<1>2. CASE for = "upload"
  <2>1. Awaited(s, for) = [s EXCEPT !.uploading = FALSE]
    BY <1>2, Zenon DEF Awaited
  <2>2. QED
    BY <2>1 DEF Libs
<1>3. CASE for # "rescan" /\ for # "upload"
  <2>1. Awaited(s, for) = s
    BY <1>3, Zenon DEF Awaited
  <2>2. QED
    BY <2>1 DEF Libs
<1>4. QED
  BY <1>1, <1>2, <1>3

LEMMA InitSettled == ASSUME LibraryInit PROVE ShelfInv
<1>1. EmptyLib \in Libs /\ EmptyLib.loaded = FALSE /\ EmptyLib.profile = "nobody"
  BY DEF EmptyLib, Libs, Contents, Records
<1>2. \A on \in SUBSET Volumes :
         [v \in Volumes |-> IF v \in on THEN [title |-> 1, flair |-> "plain"] ELSE Gone] \in Contents
  BY LibraryAssumption DEF Contents, Records
<1>3. shelves \in [Readers -> Contents]
  <2> DEFINE Initial == {[v \in Volumes |-> IF v \in on THEN [title |-> 1, flair |-> "plain"]
                                            ELSE Gone] : on \in SUBSET Volumes}
  <2>1. shelves \in [Readers -> Initial]
    BY DEF LibraryInit
  <2>2. \A x \in Initial : x \in Contents
    BY <1>2
  <2> HIDE DEF Initial
  <2>3. QED
    BY <2>1, <2>2
<1>4. waiting \in Seq(Awaiters)
  BY DEF LibraryInit
<1>5. began \in [changes : Nat, switches : Nat]
  BY DEF LibraryInit
<1>6. ShelfTypes
  BY <1>1, <1>3, <1>4, <1>5 DEF ShelfTypes, LibraryInit
<1>7. Whose /\ OneDialog /\ ListsFit /\ ShelfSettled
  BY <1>1 DEF LibraryInit, Whose, RequestsKnow, ListsKnow, OneList, SomebodysTab, OneDialog, DialogOwns, OneStage,
             ListsFit, ShelfSettled, Mine, Own
<1>8. QED
  BY <1>6, <1>7 DEF ShelfInv

LEMMA SwitchKeeps ==
    ASSUME ShelfInv, NEW p \in Readers \cup {"nobody"}, SwitchProfile(p)
    PROVE  ShelfInv'
<1> USE DEF ShelfInv
<1>1. /\ lib' \in Libs /\ lib'.generation = lib.generation + 1 /\ lib'.loaded = FALSE
      /\ lib.generation \in Nat
  <2>1. lib.generation \in Nat
    BY DEF ShelfTypes, Libs
  <2>2. lib' = [profile |-> p, generation |-> lib.generation + 1, loaded |-> FALSE,
                books |-> [v \in Volumes |-> Gone], stamps |-> [v \in Volumes |-> 0],
                uploading |-> FALSE, rescanning |-> FALSE]
    BY DEF SwitchProfile, EmptyLib
  <2>3. QED
    BY <2>1, <2>2 DEF Libs, Contents, Records
<1>2. began' \in [changes : Nat, switches : Nat]
  BY DEF SwitchProfile, ShelfTypes
<1>3. waiting' \in Seq(Awaiters)
  BY DEF SwitchProfile
<1>4. ShelfTypes'
  BY <1>1, <1>2, <1>3 DEF SwitchProfile, ShelfTypes
<1>5. \A c \in changes' : c.generation <= lib.generation /\ c.generation \in Nat
  BY DEF Whose, RequestsKnow, ShelfTypes, Requests, SwitchProfile
<1>6. \A g \in gets' : g.generation <= lib.generation /\ g.generation \in Nat
  BY DEF Whose, ListsKnow, ShelfTypes, Lists, SwitchProfile
<1>7. \A x \in changes' \cup gets' : x.generation # lib'.generation /\ x.generation <= lib'.generation
  BY <1>1, <1>5, <1>6
<1>8. waiting' = <<>>
  BY DEF SwitchProfile
<1>9. (Whose /\ OneDialog /\ ListsFit /\ ShelfSettled)'
  BY <1>1, <1>7, <1>8 DEF Whose, RequestsKnow, ListsKnow, OneList, SomebodysTab, OneDialog, DialogOwns, OneStage,
             ListsFit, ShelfSettled, Mine, Own
<1>10. QED
  BY <1>4, <1>9

LEMMA LoadKeeps == ASSUME ShelfInv, LoadLibrary PROVE ShelfInv'
<1> USE DEF ShelfInv
<1>1. PICK n : n = NewGet(lib.profile, lib.generation, "nobody")
  OBVIOUS
<1>2. lib.profile \in Readers /\ lib.generation \in Nat
  BY DEF LoadLibrary, ShelfTypes, Libs
<1>3. n \in Lists /\ n.generation = lib.generation /\ n.by = lib.profile /\ ~n.served
  BY <1>1, <1>2 DEF NewGet, Lists, Contents, Records, Awaiters
<1>4. gets' = gets \cup {n} /\ ~lib.loaded /\ Mine(gets) = {}
      /\ UNCHANGED <<shelves, lib, changes, waiting, editing, began, blurred>>
  BY <1>1 DEF LoadLibrary, ReadingShelf
<1>5. ShelfTypes'
  BY <1>3, <1>4 DEF ShelfTypes
<1>6. \A g \in gets : g.generation # lib.generation
  BY <1>4 DEF Mine
<1>7. Mine(gets)' = {n}
  BY <1>3, <1>4, <1>6 DEF Mine
<1>8. Whose'
  <2>1. RequestsKnow'
    BY <1>2, <1>3, <1>4, <1>6 DEF Whose, RequestsKnow, Own
  <2>2. ListsKnow'
    BY <1>2, <1>3, <1>4, <1>7 DEF Whose, ListsKnow
  <2>3. OneList'
    BY <1>4, <1>6 DEF OneList
  <2>4. SomebodysTab'
    BY <1>2, <1>3, <1>4, <1>7 DEF Whose, SomebodysTab
  <2>5. QED
    BY <2>1, <2>2, <2>3, <2>4 DEF Whose
<1>9. OneDialog'
  BY <1>4 DEF OneDialog, DialogOwns, OneStage, Own, NextStage
<1>10. (ListsFit /\ ShelfSettled)'
  BY <1>3, <1>4, <1>7 DEF ListsFit, ShelfSettled
<1>11. QED
  BY <1>5, <1>8, <1>9, <1>10

LEMMA StartKeeps == ASSUME ShelfInv, StartRefresh PROVE ShelfInv'
<1> USE DEF ShelfInv
<1>1. PICK n : n = NewGet(lib.profile, lib.generation, Head(waiting))
  OBVIOUS
<1>2. lib.profile \in Readers /\ lib.generation \in Nat /\ lib \in Libs
  BY DEF StartRefresh, ShelfTypes, Libs, Whose, SomebodysTab
<1>3. Head(waiting) \in Awaiters /\ Tail(waiting) \in Seq(Awaiters)
  BY DEF StartRefresh, ShelfTypes
<1>4. n \in Lists /\ n.generation = lib.generation /\ n.by = lib.profile /\ ~n.served
  BY <1>1, <1>2, <1>3 DEF NewGet, Lists, Contents, Records
<1>5. /\ gets' = gets \cup {n} /\ Mine(gets) = {} /\ waiting' \in Seq(Awaiters)
      /\ UNCHANGED <<shelves, changes, editing, began, blurred>>
  BY <1>1, <1>3 DEF StartRefresh, ReadingShelf
<1>6. /\ lib' \in Libs /\ lib'.profile = lib.profile /\ lib'.generation = lib.generation
      /\ lib'.loaded = FALSE
  BY <1>2 DEF StartRefresh, Libs
<1>7. ShelfTypes'
  BY <1>4, <1>5, <1>6 DEF ShelfTypes
<1>8. \A g \in gets : g.generation # lib.generation
  BY <1>5 DEF Mine
<1>9. Mine(gets)' = {n}
  BY <1>4, <1>5, <1>6, <1>8 DEF Mine
<1>10. lib.profile # "nobody"
  BY <1>2, LibraryAssumption
<1>11. Whose'
  <2>1. RequestsKnow'
    BY <1>2, <1>4, <1>5, <1>6, <1>10 DEF Whose, RequestsKnow, Own
  <2>2. ListsKnow'
    BY <1>2, <1>4, <1>5, <1>6, <1>9, <1>10 DEF Whose, ListsKnow
  <2>3. OneList'
    BY <1>5, <1>6, <1>8 DEF OneList
  <2>4. SomebodysTab'
    BY <1>2, <1>4, <1>5, <1>6, <1>9, <1>10 DEF Whose, SomebodysTab
  <2>5. QED
    BY <2>1, <2>2, <2>3, <2>4 DEF Whose
<1>12. OneDialog'
  BY <1>5, <1>6 DEF OneDialog, DialogOwns, OneStage, Own, NextStage
<1>13. (ListsFit /\ ShelfSettled)'
  BY <1>4, <1>6, <1>9 DEF ListsFit, ShelfSettled
<1>14. QED
  BY <1>7, <1>11, <1>12, <1>13

LEMMA ServeGetKeeps == ASSUME ShelfInv, NEW g \in gets, ServeGet(g) PROVE ShelfInv'
<1> USE DEF ShelfInv
<1>1. PICK n : n = [g EXCEPT !.served = TRUE, !.got = shelves[g.by]]
  OBVIOUS
<1>2. g \in Lists /\ g.by \in Readers /\ shelves[g.by] \in Contents
  BY DEF ShelfTypes, Lists
<1>3. /\ n \in Lists /\ n.generation = g.generation /\ n.by = g.by /\ n.got = shelves[g.by]
  BY <1>1, <1>2 DEF Lists
<1>4. gets' = (gets \ {g}) \cup {n}
      /\ UNCHANGED <<shelves, lib, changes, waiting, editing, began, blurred>>
  BY <1>1 DEF ServeGet
<1>5. ShelfTypes'
  BY <1>3, <1>4 DEF ShelfTypes
<1>6. Whose'
  <2>1. OneList'
    BY <1>3, <1>4 DEF Whose, OneList
  <2>2. RequestsKnow' /\ ListsKnow' /\ SomebodysTab'
    BY <1>3, <1>4 DEF Whose, RequestsKnow, ListsKnow, SomebodysTab, Own
  <2>3. QED
    BY <2>1, <2>2 DEF Whose
<1>7. OneDialog' /\ ShelfSettled'
  BY <1>4 DEF OneDialog, DialogOwns, OneStage, ShelfSettled, Own, NextStage, Agreed, MayRollBack, Mends, Same
<1>8. n.generation = lib.generation => n.by = lib.profile
  BY <1>3 DEF Whose, ListsKnow
<1>9. ListsFit'
  <2>1. SUFFICES ASSUME waiting' = <<>>, NEW x \in Mine(gets)', x.served, NEW v \in Volumes \ x.late
                 PROVE  \/ x.got[v].title = shelves'[lib'.profile][v].title
                        \/ \E d \in changes' : (Own(d))' /\ d.volume = v /\ d.stage # "sent"
                                               /\ RefreshFollows(d)
    BY DEF ListsFit, Mine, RefreshFollows, Reconciles
  <2>2. CASE x = n
    BY <2>2, <1>3, <1>4, <1>8 DEF Mine
  <2>3. CASE x # n
    BY <2>1, <2>3, <1>4 DEF Mine, ListsFit, Own
  <2>4. QED
    BY <2>2, <2>3
<1>10. QED
  BY <1>5, <1>6, <1>7, <1>9
(* What a list changes in the requests under way is history.               *)
LEMMA AgedFits ==
    ASSUME NEW c \in Requests, NEW d, d = [c EXCEPT !.old = TRUE]
    PROVE  /\ d \in Requests /\ d.op = c.op /\ d.volume = c.volume /\ d.by = c.by
           /\ d.generation = c.generation /\ d.stage = c.stage /\ d.old
BY DEF Requests

LEMMA ArrivesKeeps == ASSUME ShelfInv, NEW g \in gets, GetArrives(g) PROVE ShelfInv'
<1> USE DEF ShelfInv
<1>1. gets' = gets \ {g} /\ UNCHANGED <<shelves, waiting, editing, began>>
  BY DEF GetArrives
<1>2. g \in Lists /\ lib \in Libs /\ shelves \in [Readers -> Contents] /\ changes \subseteq Requests
  BY DEF ShelfTypes
<1>3. Whose
  OBVIOUS
<1>4. CASE UNCHANGED <<lib, changes, blurred>>
  <2>1. ShelfTypes'
    BY <1>1, <1>4 DEF ShelfTypes
  <2>2. Whose'
    BY <1>1, <1>3, <1>4 DEF Whose, RequestsKnow, ListsKnow, OneList, SomebodysTab, Own
  <2>3. OneDialog' /\ ShelfSettled'
    BY <1>1, <1>4 DEF OneDialog, DialogOwns, OneStage, ShelfSettled, Own, NextStage, Agreed, MayRollBack, Mends, Same
  <2>4. ListsFit'
    BY <1>1, <1>4 DEF ListsFit, Mine, Own, RefreshFollows, Reconciles
  <2>5. QED
    BY <2>1, <2>2, <2>3, <2>4
<1>5. CASE IsCurrentLib(g.by, g.generation)
  <2>1. g.generation = lib.generation /\ g.by = lib.profile /\ g.by \in Readers /\ ~lib.loaded
    BY <1>2, <1>3, <1>5 DEF IsCurrentLib, Whose, ListsKnow, Lists
  <2>2. \A h \in gets' : h.generation # lib.generation
    BY <1>1, <1>3, <2>1 DEF Whose, OneList
  <2>3. CASE lib' = Awaited(lib, g.for) /\ UNCHANGED <<changes, blurred>>
    <3>1. /\ lib' \in Libs /\ lib'.profile = lib.profile /\ lib'.generation = lib.generation
          /\ ~lib'.loaded
      BY <1>2, <2>1, <2>3, AwaitedKeeps
    <3>2. ShelfTypes'
      BY <1>1, <2>3, <3>1 DEF ShelfTypes
    <3>3. Whose'
      BY <1>1, <1>3, <2>2, <2>3, <3>1 DEF Whose, RequestsKnow, ListsKnow, OneList, SomebodysTab, Own
    <3>4. OneDialog'
      BY <1>1, <2>3, <3>1 DEF OneDialog, DialogOwns, OneStage, Own, NextStage
    <3>5. ListsFit' /\ ShelfSettled'
      BY <2>2, <3>1 DEF ListsFit, Mine, ShelfSettled
    <3>6. QED
      BY <3>2, <3>3, <3>4, <3>5
  <2>4. CASE /\ g.served
             /\ lib' = Awaited([lib EXCEPT !.books = g.got, !.loaded = TRUE,
                                           !.stamps = [v \in Volumes |-> 0]], g.for)
             /\ changes' = {[c EXCEPT !.old = TRUE] : c \in changes}
             /\ blurred' = g.late
    <3>1. PICK s : s = [lib EXCEPT !.books = g.got, !.loaded = TRUE, !.stamps = [v \in Volumes |-> 0]]
      OBVIOUS
    <3>2. /\ s \in Libs /\ s.profile = lib.profile /\ s.generation = lib.generation
          /\ s.books = g.got /\ s.loaded
      BY <1>2, <3>1 DEF Libs, Lists
    <3>3. /\ lib' \in Libs /\ lib'.profile = lib.profile /\ lib'.generation = lib.generation
          /\ lib'.books = g.got /\ lib'.loaded
      BY <2>4, <3>1, <3>2, AwaitedKeeps
    <3>4. \A d \in changes' : \E c \in changes :
             /\ d \in Requests /\ d.op = c.op /\ d.volume = c.volume /\ d.by = c.by
             /\ d.generation = c.generation /\ d.stage = c.stage /\ d.old
             /\ d = [c EXCEPT !.old = TRUE]
      BY <1>2, <2>4, AgedFits
    <3>5. \A c \in changes : \E d \in changes' :
             /\ d.op = c.op /\ d.volume = c.volume
             /\ d.generation = c.generation /\ d.stage = c.stage
      <4>1. TAKE c \in changes
      <4>2. PICK d : d = [c EXCEPT !.old = TRUE]
        OBVIOUS
      <4>3. d \in changes'
        BY <2>4, <4>2
      <4>4. QED
        BY <1>2, <4>2, <4>3, AgedFits
    <3>6. ShelfTypes'
      <4>1. changes' \subseteq Requests /\ g.late \subseteq Volumes
        BY <1>2, <3>4 DEF Lists
      <4>2. QED
        BY <1>1, <2>4, <3>3, <4>1 DEF ShelfTypes
    <3>7. Whose'
      <4>1. RequestsKnow'
        BY <1>3, <3>3, <3>4 DEF Whose, RequestsKnow, Own
      <4>2. ListsKnow' /\ OneList'
        BY <1>1, <1>3, <2>2, <3>3 DEF Whose, ListsKnow, OneList
      <4>3. SomebodysTab'
        BY <1>1, <1>3, <2>1, <3>3 DEF Whose, SomebodysTab
      <4>4. QED
        BY <4>1, <4>2, <4>3 DEF Whose
    <3>8. OneDialog'
      <4>1. DialogOwns'
        BY <1>1, <3>3, <3>4 DEF OneDialog, DialogOwns, Own, NextStage
      <4>2. ASSUME NEW d \in changes', NEW e \in changes', Own(d)', Own(e)', d.op \in Edits, e.op \in Edits
            PROVE  d = e
        <5>1. PICK c \in changes : d.op = c.op /\ d.generation = c.generation /\ d = [c EXCEPT !.old = TRUE]
          BY <3>4
        <5>2. PICK b \in changes : e.op = b.op /\ e.generation = b.generation /\ e = [b EXCEPT !.old = TRUE]
          BY <3>4
        <5>3. Own(c) /\ Own(b)
          BY <3>3, <4>2, <5>1, <5>2 DEF Own
        <5>4. c = b
          BY <4>2, <5>1, <5>2, <5>3 DEF OneDialog, OneStage
        <5>5. QED
          BY <5>1, <5>2, <5>4
      <4>3. QED
        BY <4>1, <4>2 DEF OneDialog, OneStage
    <3>9. ListsFit'
      BY <2>2, <3>3 DEF ListsFit, Mine
    <3>10. ASSUME waiting' = <<>>, NEW v \in Volumes \ blurred' PROVE Agreed(v)' /\ MayRollBack(v)'
      <4>1. MayRollBack(v)'
        BY <3>4 DEF MayRollBack
      <4>2. \/ g.got[v].title = shelves[lib.profile][v].title
            \/ \E d \in changes : Own(d) /\ d.volume = v /\ d.stage # "sent" /\ RefreshFollows(d)
        BY <1>1, <2>1, <2>4, <3>10 DEF ListsFit, Mine
      <4>3. CASE g.got[v].title = shelves[lib.profile][v].title
        <5>1. Same(v)'
          BY <1>1, <3>3, <4>3 DEF Same
        <5>2. QED
          BY <4>1, <5>1 DEF Agreed
      <4>4. ASSUME NEW c \in changes, Own(c), c.volume = v, c.stage # "sent", RefreshFollows(c)
            PROVE  Agreed(v)'
        <5>1. c.op \in Imports \/ (c.op \in Edits /\ c.stage = "failed")
          BY <4>4 DEF RefreshFollows, Reconciles, Imports, Edits
        <5>2. PICK d \in changes' : /\ d.op = c.op /\ d.volume = c.volume
                                    /\ d.generation = c.generation /\ d.stage = c.stage
          BY <3>5
        <5>3. Mends(d, v)'
          BY <3>3, <4>4, <5>1, <5>2 DEF Mends, Own
        <5>4. QED
          BY <5>2, <5>3 DEF Agreed
      <4>5. QED
        BY <4>1, <4>2, <4>3, <4>4
    <3>11. QED
      BY <3>6, <3>7, <3>8, <3>9, <3>10 DEF ShelfSettled
  <2>5. QED
    BY <1>5, <2>3, <2>4 DEF GetArrives
<1>6. QED
  BY <1>4, <1>5 DEF GetArrives

KeepsTitles == \A v \in Volumes :
                  /\ lib'.books[v].title = lib.books[v].title
                  /\ (lib'.books[v] = Gone) <=> (lib.books[v] = Gone)

(* A request that is no edit: what it leaves alone stays settled.          *)
LEMMA AskKeeps ==
    ASSUME ShelfInv, NEW n \in Requests, n.op \notin Edits,
           n.generation = lib.generation, n.by = lib.profile,
           changes' = changes \cup {n}, lib' \in Libs, lib'.profile = lib.profile,
           lib'.generation = lib.generation, lib'.loaded = lib.loaded, KeepsTitles,
           began' \in [changes : Nat, switches : Nat],
           UNCHANGED <<shelves, gets, waiting, editing, blurred>>
    PROVE  ShelfInv'
<1> USE DEF ShelfInv
<1>1. ShelfTypes'
  BY DEF ShelfTypes
<1>2. lib.generation \in Nat
  BY DEF ShelfTypes, Libs
<1>3. Whose'
  <2>1. RequestsKnow'
    BY <1>2 DEF Whose, RequestsKnow, Own
  <2>2. ListsKnow' /\ OneList' /\ SomebodysTab'
    BY DEF Whose, ListsKnow, OneList, SomebodysTab
  <2>3. QED
    BY <2>1, <2>2 DEF Whose
<1>4. OneDialog'
  BY DEF OneDialog, DialogOwns, OneStage, Own, NextStage
<1>5. ListsFit'
  BY DEF ListsFit, Mine, Own, RefreshFollows, Reconciles
<1>6. ASSUME NEW v \in Volumes, Agreed(v) PROVE Agreed(v)'
  BY <1>6 DEF KeepsTitles, Agreed, Same, Mends, Own
<1>7. ASSUME NEW v \in Volumes, MayRollBack(v) PROVE MayRollBack(v)'
  BY <1>7 DEF KeepsTitles, MayRollBack, Own, Edits
<1>8. QED
  BY <1>1, <1>3, <1>4, <1>5, <1>6, <1>7 DEF ShelfSettled

LEMMA BeginFits ==
    ASSUME ShelfTypes, NEW op, NEW v, NEW to, Begin(op, v, to)
    PROVE  /\ changes' = changes \cup {Change(op, v, to)} /\ lib.profile # "nobody"
           /\ began' \in [changes : Nat, switches : Nat]
BY DEF Begin, ShelfTypes

LEMMA FlairKeeps ==
    ASSUME ShelfInv, NEW v \in Volumes, NEW f \in Flairs, SetFlair(v, f) PROVE ShelfInv'
<1>1. PICK to : to = [lib.books[v] EXCEPT !.flair = f]
  OBVIOUS
<1>2. PICK n : n = Change("flair", v, to)
  OBVIOUS
<1>3. ShelfTypes /\ lib \in Libs /\ lib.books \in Contents /\ lib.books[v] # Gone
  BY DEF ShelfInv, ShelfTypes, Libs, SetFlair
<1>4. lib.books[v] \in [title : Nat \ {0}, flair : Flairs \cup {"gone"}]
  BY <1>3 DEF Contents, Records
<1>5. to \in Records /\ to # Gone /\ to.title = lib.books[v].title
  BY <1>1, <1>4 DEF Records, Gone
<1>6. Begin("flair", v, to)
  BY <1>1 DEF SetFlair
<1>7. /\ changes' = changes \cup {n} /\ began' \in [changes : Nat, switches : Nat]
      /\ lib.profile # "nobody"
  BY <1>2, <1>3, <1>6, BeginFits
<1>8. /\ n \in Requests /\ n.op = "flair" /\ n.by = lib.profile /\ n.generation = lib.generation
  BY <1>2, <1>3, <1>5, <1>7, ChangeFits DEF Edits
<1>9. PICK books : books = [lib.books EXCEPT ![v] = to]
  OBVIOUS
<1>10. /\ books \in Contents
       /\ \A w \in Volumes : (books[w].title = lib.books[w].title)
                              /\ (books[w] = Gone <=> lib.books[w] = Gone)
  BY <1>3, <1>5, <1>9 DEF Contents
<1>11. PICK stamps : stamps = [lib.stamps EXCEPT ![v] = @ + 1]
  OBVIOUS
<1>12. stamps \in [Volumes -> Nat]
  BY <1>3, <1>11 DEF Libs
<1>13. lib' = [lib EXCEPT !.books = books, !.stamps = stamps]
  BY <1>1, <1>3, <1>9, <1>11 DEF SetFlair, Stamped, Libs
<1>14. /\ lib' \in Libs /\ lib'.profile = lib.profile /\ lib'.generation = lib.generation
       /\ lib'.loaded = lib.loaded /\ lib'.books = books
  BY <1>3, <1>10, <1>12, <1>13 DEF Libs
<1>15. UNCHANGED <<shelves, gets, waiting, editing, blurred>>
  BY DEF SetFlair
<1>16. n.op \notin Edits
  BY <1>8 DEF Edits
<1>17. KeepsTitles
  BY <1>10, <1>14 DEF KeepsTitles
<1>18. QED
  BY <1>7, <1>8, <1>14, <1>15, <1>16, <1>17, AskKeeps

LEMMA ImportKeeps ==
    ASSUME ShelfInv, NEW v \in Volumes, RemoveBook(v) \/ Upload(v) \/ Rescan(v)
    PROVE  ShelfInv'
<1>1. PICK to \in Records : \E op \in Imports : Begin(op, v, to)
  <2>1. Gone \in Records
    BY DEF Records
  <2>2. PICK x : x = [title |-> began.changes + 2, flair |-> "plain"]
    OBVIOUS
  <2>3. x \in Records
    BY <2>2, LibraryAssumption DEF ShelfInv, ShelfTypes, Records
  <2>4. Begin("remove", v, Gone) \/ Begin("upload", v, x) \/ Begin("rescan", v, x)
    BY <2>2 DEF RemoveBook, Upload, Rescan
  <2>5. QED
    BY <2>1, <2>3, <2>4 DEF Imports
<1>2. PICK op \in Imports : Begin(op, v, to)
  BY <1>1
<1>3. PICK n : n = Change(op, v, to)
  OBVIOUS
<1>4. ShelfTypes /\ lib \in Libs
  BY DEF ShelfInv, ShelfTypes
<1>5. /\ changes' = changes \cup {n} /\ began' \in [changes : Nat, switches : Nat]
      /\ lib.profile # "nobody"
  BY <1>2, <1>3, <1>4, BeginFits
<1>6. op \notin Edits
  BY DEF Imports, Edits
<1>7. /\ n \in Requests /\ n.op = op /\ n.by = lib.profile /\ n.generation = lib.generation
  <2>1. op \in {"flair"} \cup Edits \cup Imports
    OBVIOUS
  <2>2. op \in Edits => to # Gone
    BY <1>6
  <2>3. QED
    BY <1>3, <1>4, <1>5, <2>1, <2>2, ChangeFits
<1>8. /\ lib' \in Libs /\ lib'.profile = lib.profile /\ lib'.generation = lib.generation
      /\ lib'.loaded = lib.loaded /\ lib'.books = lib.books
  BY <1>4 DEF RemoveBook, Upload, Rescan, Libs
<1>9. UNCHANGED <<shelves, gets, waiting, editing, blurred>>
  BY DEF RemoveBook, Upload, Rescan
<1>10. KeepsTitles
  BY <1>8 DEF KeepsTitles
<1>11. QED
  BY <1>5, <1>6, <1>7, <1>8, <1>9, <1>10, AskKeeps
LEMMA DialogKeeps ==
    ASSUME ShelfInv, CloseDialog \/ \E v \in Volumes : OpenDialog(v)
    PROVE  ShelfInv'
<1> USE DEF ShelfInv
<1>1. UNCHANGED <<shelves, lib, gets, changes, waiting, began, blurred>> /\ ~editing.busy
  BY DEF CloseDialog, OpenDialog, NoDialog
<1>2. editing' \in {NoDialog} \cup [volume : Volumes, todo : SUBSET Edits, busy : BOOLEAN]
  <2>1. CASE CloseDialog
    BY <2>1 DEF CloseDialog
  <2>2. ASSUME NEW v \in Volumes, OpenDialog(v)
        PROVE  editing' \in [volume : Volumes, todo : SUBSET Edits, busy : BOOLEAN]
    <3>1. PICK todo \in SUBSET Edits : editing' = [volume |-> v, todo |-> todo, busy |-> FALSE]
      BY <2>2 DEF OpenDialog, Edits
    <3>2. QED
      BY <3>1
  <2>3. QED
    BY <2>1, <2>2
<1>3. ShelfTypes'
  BY <1>1, <1>2 DEF ShelfTypes
<1>4. Whose'
  BY <1>1 DEF Whose, RequestsKnow, ListsKnow, OneList, SomebodysTab, Own
<1>5. \A c \in changes : ~(Own(c) /\ c.op \in Edits)
  BY <1>1 DEF OneDialog, DialogOwns
<1>6. OneDialog'
  BY <1>1, <1>5 DEF OneDialog, DialogOwns, OneStage, Own
<1>7. ShelfSettled'
  BY <1>1 DEF ShelfSettled, Own, Agreed, MayRollBack, Mends, Same
<1>8. ListsFit'
  BY <1>1 DEF ListsFit, Mine, Own, RefreshFollows, Reconciles
<1>9. QED
  BY <1>3, <1>4, <1>6, <1>7, <1>8

LEMMA SubmitKeeps == ASSUME ShelfInv, SubmitStage PROVE ShelfInv'
<1> USE DEF ShelfInv
<1>1. PICK v : v = editing.volume
  OBVIOUS
<1>2. ShelfTypes /\ lib \in Libs /\ lib.books \in Contents /\ began.changes \in Nat
  BY DEF ShelfTypes, Libs
<1>3. v \in Volumes /\ editing \in [volume : Volumes, todo : SUBSET Edits, busy : BOOLEAN]
  BY <1>1 DEF SubmitStage, ShelfTypes
<1>4. NextStage \in Edits
  BY DEF NextStage, Edits
<1>5. lib.books[v] \in Records
  BY <1>2, <1>3 DEF Contents
<1>6. PICK to : to = [lib.books[v] EXCEPT !.title = began.changes + 2]
  OBVIOUS
<1>7. to \in Records /\ to # Gone
  BY <1>2, <1>5, <1>6 DEF Records, Gone
<1>8. PICK n : n = Change(NextStage, v, to)
  OBVIOUS
<1>9. Begin(NextStage, v, to)
  BY <1>1, <1>6 DEF SubmitStage
<1>10. /\ changes' = changes \cup {n} /\ began' \in [changes : Nat, switches : Nat]
       /\ lib.profile # "nobody"
  BY <1>2, <1>8, <1>9, BeginFits
<1>11. /\ n \in Requests /\ n.op = NextStage /\ n.volume = v /\ n.by = lib.profile
       /\ n.generation = lib.generation /\ n.before = lib.books[v] /\ n.stage = "sent" /\ ~n.old
  <2>1. NextStage \in {"flair"} \cup Edits \cup Imports
    BY <1>4
  <2>2. QED
    BY <1>2, <1>3, <1>7, <1>8, <1>10, <2>1, ChangeFits
<1>12. /\ lib' \in Libs /\ lib'.profile = lib.profile /\ lib'.generation = lib.generation
       /\ lib'.loaded = lib.loaded
       /\ \A w \in Volumes \ {v} : lib'.books[w] = lib.books[w]
       /\ NextStage = "file" => lib' = lib
       /\ lib.books[v] = Gone => lib'.books = lib.books
       /\ lib.books[v] # Gone => lib'.books[v] # Gone
  <2>1. PICK stamps : stamps = [lib.stamps EXCEPT ![v] = @ + 1]
    OBVIOUS
  <2>2. PICK books : books = [lib.books EXCEPT ![v] = to]
    OBVIOUS
  <2>3. /\ stamps \in [Volumes -> Nat] /\ books \in Contents /\ books[v] = to
        /\ \A w \in Volumes \ {v} : books[w] = lib.books[w]
    BY <1>2, <1>3, <1>7, <2>1, <2>2 DEF Libs, Contents
  <2>4. CASE NextStage = "file"
    BY <1>2, <2>4 DEF SubmitStage
  <2>5. CASE NextStage # "file" /\ lib.books[v] = Gone
    <3>1. lib' = [lib EXCEPT !.stamps = stamps]
      BY <1>1, <2>1, <2>5 DEF SubmitStage, Stamped
    <3>2. lib' \in Libs /\ lib'.profile = lib.profile /\ lib'.generation = lib.generation
          /\ lib'.loaded = lib.loaded /\ lib'.books = lib.books
      BY <1>2, <2>3, <3>1 DEF Libs
    <3>3. QED
      BY <2>5, <3>2
  <2>6. CASE NextStage # "file" /\ lib.books[v] # Gone
    <3>1. lib' = [lib EXCEPT !.books = books, !.stamps = stamps]
      BY <1>1, <1>2, <1>6, <2>1, <2>2, <2>6 DEF SubmitStage, Stamped, Libs
    <3>2. lib' \in Libs /\ lib'.profile = lib.profile /\ lib'.generation = lib.generation
          /\ lib'.loaded = lib.loaded /\ lib'.books = books
      BY <1>2, <2>3, <3>1 DEF Libs
    <3>3. QED
      BY <1>7, <2>3, <2>6, <3>2
  <2>7. QED
    BY <2>4, <2>5, <2>6
<1>13. UNCHANGED <<shelves, gets, waiting, blurred>>
  BY DEF SubmitStage
<1>14. editing' = [volume |-> v, todo |-> editing.todo, busy |-> TRUE]
  BY <1>1, <1>3 DEF SubmitStage
<1>15. ShelfTypes'
  <2>1. editing' \in [volume : Volumes, todo : SUBSET Edits, busy : BOOLEAN]
    BY <1>3, <1>14
  <2>2. QED
    BY <1>2, <1>10, <1>11, <1>12, <1>13, <2>1 DEF ShelfTypes
<1>16. Whose'
  <2>1. lib.generation \in Nat
    BY <1>2 DEF Libs
  <2>2. RequestsKnow'
    BY <1>10, <1>11, <1>12, <2>1 DEF Whose, RequestsKnow, Own
  <2>3. ListsKnow' /\ OneList' /\ SomebodysTab'
    BY <1>12, <1>13 DEF Whose, ListsKnow, OneList, SomebodysTab
  <2>4. QED
    BY <2>2, <2>3 DEF Whose
<1>17. \A c \in changes : ~(Own(c) /\ c.op \in Edits)
  BY DEF SubmitStage, OneDialog, DialogOwns, Own
<1>18. \A c \in changes' : Own(c)' /\ c.op \in Edits => c = n
  BY <1>10, <1>12, <1>17 DEF Own
<1>19. OneDialog'
  <2>1. NextStage' = NextStage
    BY <1>14 DEF NextStage
  <2>2. DialogOwns'
    BY <1>11, <1>14, <1>18, <2>1 DEF DialogOwns
  <2>3. OneStage'
    BY <1>18 DEF OneStage
  <2>4. QED
    BY <2>2, <2>3 DEF OneDialog
<1>20. ListsFit'
  BY <1>10, <1>12, <1>13 DEF ListsFit, Mine, Own, RefreshFollows, Reconciles
<1>21. ASSUME NEW w \in Volumes, Agreed(w), MayRollBack(w) PROVE Agreed(w)' /\ MayRollBack(w)'
  <2>1. \A c \in changes : Own(c) => c \in changes' /\ Own(c)'
    BY <1>10, <1>12 DEF Own
  <2>2. Agreed(w)'
    <3>1. CASE lib'.books[w] = lib.books[w]
      <4>1. CASE Same(w)
        <5>1. Same(w)'
          BY <1>12, <1>13, <3>1, <4>1 DEF Same
        <5>2. QED
          BY <5>1 DEF Agreed
      <4>2. ASSUME NEW c \in changes, Mends(c, w) PROVE Agreed(w)'
        <5>1. Mends(c, w)'
          BY <2>1, <3>1, <4>2 DEF Mends
        <5>2. QED
          BY <2>1, <4>2, <5>1 DEF Agreed, Mends
      <4>3. QED
        BY <1>21, <4>1, <4>2 DEF Agreed
    <3>2. CASE lib'.books[w] # lib.books[w]
      <4>1. w = v /\ NextStage # "file" /\ lib'.books[v] # Gone
        BY <1>12, <3>2
      <4>2. n.op = "details"
        BY <1>11, <4>1 DEF NextStage
      <4>3. Own(n)'
        BY <1>10, <1>11, <1>12 DEF Own
      <4>4. Mends(n, w)'
        BY <1>11, <4>1, <4>2, <4>3 DEF Mends
      <4>5. QED
        BY <1>10, <4>4 DEF Agreed
    <3>3. QED
      BY <3>1, <3>2
  <2>3. MayRollBack(w)'
    <3>1. SUFFICES ASSUME n.volume = w, n.op = "details"
                   PROVE  \/ lib'.books[w] = Gone
                          \/ n.before.title = shelves'[lib'.profile][w].title
                          \/ \E d \in changes' : Own(d)' /\ d.volume = w /\ d.op \in Imports
      BY <1>4, <1>18 DEF MayRollBack, Edits
    <3>2. CASE Same(w)
      BY <1>11, <1>12, <1>13, <3>1, <3>2 DEF Same
    <3>3. ASSUME NEW c \in changes, Mends(c, w) PROVE c.op \in Imports
      BY <1>17, <3>3 DEF Mends, Edits
    <3>4. QED
      BY <1>21, <2>1, <3>2, <3>3 DEF Agreed, Mends
  <2>4. QED
    BY <2>2, <2>3
<1>22. QED
  BY <1>12, <1>13, <1>15, <1>16, <1>19, <1>20, <1>21 DEF ShelfSettled
LateFor(g, c, done) == IF done /\ Misses(g, c) THEN [g EXCEPT !.late = @ \cup {c.volume}] ELSE g

Returned(c, end, r) == [c EXCEPT !.stage = end, !.reply = r]

(* An answer changes nothing but where the request stands.                 *)
LEMMA AnsweredFits ==
    ASSUME NEW c \in Requests, NEW end \in {"ok", "rejected", "failed"}, NEW r \in Records,
           c.op = "remove" => r = Gone, NEW d, d = Returned(c, end, r)
    PROVE  /\ d \in Requests /\ d.op = c.op /\ d.volume = c.volume /\ d.by = c.by
           /\ d.generation = c.generation /\ d.before = c.before /\ d.old = c.old
           /\ d.stage = end
<1>1. c \in [op : {"flair"} \cup Edits \cup Imports, volume : Volumes, to : Records,
             by : Readers, generation : Nat, before : Records, stamp : Nat, id : Nat,
             stage : {"sent", "ok", "rejected", "failed"}, reply : Records, old : BOOLEAN]
      /\ (c.op \in Edits => c.to # Gone) /\ (c.op = "remove" => c.reply = Gone)
  BY DEF Requests
<1>2. d = [op |-> c.op, volume |-> c.volume, to |-> c.to, by |-> c.by,
           generation |-> c.generation, before |-> c.before, stamp |-> c.stamp, id |-> c.id,
           stage |-> end, reply |-> r, old |-> c.old]
  BY <1>1 DEF Returned
<1>3. QED
  BY <1>1, <1>2 DEF Requests

LEMMA ServeChangeKeeps == ASSUME ShelfInv, NEW c \in changes, ServeChange(c) PROVE ShelfInv'
<1> USE DEF ShelfInv
<1> DEFINE now   == shelves[c.by][c.volume]
           after == Applied(now, c)
<1>1. PICK end \in {"ok", "rejected", "failed"}, done \in BOOLEAN :
         /\ end = "ok" => done
         /\ end = "rejected" => ~done
         /\ c.op \in {"flair", "details", "file", "remove"} /\ now = Gone => end = "rejected"
         /\ shelves' = IF done THEN [shelves EXCEPT ![c.by][c.volume] = after] ELSE shelves
         /\ gets' = {IF done /\ Misses(g, [c EXCEPT !.stage = end])
                     THEN [g EXCEPT !.late = @ \cup {c.volume}] ELSE g : g \in gets}
         /\ blurred' = IF done /\ c.op # "flair" /\ c.by = lib.profile /\ c.generation # lib.generation
                       THEN blurred \cup {c.volume} ELSE blurred
         /\ changes' = (changes \ {c}) \cup {[c EXCEPT !.stage = end,
                                                      !.reply = IF done THEN after ELSE Gone]}
  BY DEF ServeChange
<1>2. /\ c.stage = "sent" /\ UNCHANGED <<lib, waiting, editing, began>>
  BY DEF ServeChange
<1>3. ShelfTypes /\ c \in Requests /\ c.volume \in Volumes /\ c.by \in Readers /\ lib \in Libs
      /\ c.op \in {"flair"} \cup Edits \cup Imports
  BY DEF ShelfTypes, Requests
<1>4. now \in Records
  BY <1>3 DEF ShelfTypes, Contents
<1>5. after \in Records /\ (c.op = "flair" => after.title = now.title)
      /\ (c.op = "remove" => after = Gone)
  BY <1>3, <1>4, AppliedFits
<1>6. PICK d : d = [c EXCEPT !.stage = end, !.reply = IF done THEN after ELSE Gone]
  OBVIOUS
<1>7. /\ d \in Requests /\ d.op = c.op /\ d.volume = c.volume /\ d.by = c.by
      /\ d.generation = c.generation /\ d.before = c.before /\ d.old = c.old /\ d.stage = end
  <2>1. PICK r \in Records : r = IF done THEN after ELSE Gone
    BY <1>5 DEF Records
  <2> HIDE DEF after, now
  <2>2. d = Returned(c, end, r)
    BY <1>6, <2>1 DEF Returned
  <2>3. c.op = "remove" => r = Gone
    BY <1>5, <2>1
  <2>4. QED
    BY <1>3, <2>2, <2>3, AnsweredFits
<1>8. changes' = (changes \ {c}) \cup {d}
  BY <1>1, <1>6
<1>9. PICK f : f = [c EXCEPT !.stage = end]
  OBVIOUS
<1>10. /\ f.op = c.op /\ f.volume = c.volume /\ f.by = c.by /\ f.generation = c.generation /\ f.stage = end
  BY <1>3, <1>9 DEF Requests
<1>11. RefreshFollows(f) <=> RefreshFollows(d)
  BY <1>7, <1>10 DEF RefreshFollows, Reconciles
<1>12. \A g \in gets : Misses(g, f) <=>
          /\ g.served /\ g.by = c.by /\ c.op # "flair"
          /\ g.generation = c.generation => ~RefreshFollows(d)
  BY <1>10, <1>11 DEF Misses
<1>13. shelves' \in [Readers -> Contents]
       /\ \A p \in Readers, v \in Volumes :
             shelves'[p][v] = IF done /\ p = c.by /\ v = c.volume THEN after ELSE shelves[p][v]
  <2> HIDE DEF after
  <2>1. shelves \in [Readers -> Contents]
    BY <1>3 DEF ShelfTypes
  <2>2. CASE done
    <3>1. PICK s : s = [shelves[c.by] EXCEPT ![c.volume] = after]
      OBVIOUS
    <3>2. s \in Contents /\ \A v \in Volumes : s[v] = IF v = c.volume THEN after ELSE shelves[c.by][v]
      BY <1>3, <1>5, <2>1, <3>1 DEF Contents
    <3>3. shelves' = [shelves EXCEPT ![c.by] = s]
      BY <1>1, <2>2, <3>1
    <3>4. QED
      BY <1>3, <2>1, <2>2, <3>2, <3>3
  <2>3. CASE ~done
    BY <1>1, <2>1, <2>3
  <2>4. QED
    BY <2>2, <2>3
<1>14. \A g \in gets' : \E h \in gets :
          /\ g \in Lists /\ g.by = h.by /\ g.generation = h.generation
          /\ g.served = h.served /\ g.got = h.got
          /\ g.late = IF done /\ Misses(h, f) THEN h.late \cup {c.volume} ELSE h.late
          /\ g = LateFor(h, f, done)
  <2>1. TAKE g \in gets'
  <2>2. PICK h \in gets : g = IF done /\ Misses(h, f)
                              THEN [h EXCEPT !.late = h.late \cup {c.volume}] ELSE h
    BY <1>1, <1>9
  <2> HIDE DEF now, after
  <2>3. g = LateFor(h, f, done)
    BY <1>10, <2>2 DEF LateFor
  <2>4. h \in Lists
    BY <1>3 DEF ShelfTypes
  <2>5. PICK missed : missed = h.late \cup {c.volume}
    OBVIOUS
  <2>6. missed \in SUBSET Volumes
    BY <1>3, <2>4, <2>5 DEF Lists
  <2>7. CASE done /\ Misses(h, f)
    <3>1. g = [h EXCEPT !.late = missed]
      BY <2>2, <2>5, <2>7
    <3>2. g \in Lists /\ g.by = h.by /\ g.generation = h.generation
          /\ g.served = h.served /\ g.got = h.got /\ g.late = missed
      BY <2>4, <2>6, <3>1 DEF Lists
    <3>3. QED
      BY <2>5, <2>7, <2>3, <3>2
  <2>8. CASE ~(done /\ Misses(h, f))
    <3>1. g = h
      BY <2>8, <2>3, Zenon DEF LateFor
    <3>2. QED
      BY <2>4, <2>8, <2>3, <3>1
  <2>9. QED
    BY <2>7, <2>8
<1>15. ShelfTypes'
  <2> HIDE DEF after, now
  <2>1. gets' \subseteq Lists
    BY <1>14
  <2>2. changes' \subseteq Requests
    BY <1>3, <1>7, <1>8 DEF ShelfTypes
  <2>3. blurred' \subseteq Volumes
    BY <1>1, <1>3 DEF ShelfTypes
  <2>4. QED
    BY <1>2, <1>3, <1>13, <2>1, <2>2, <2>3 DEF ShelfTypes
<1> HIDE DEF now, after
<1>16. Whose'
  <2>1. RequestsKnow'
    BY <1>2, <1>7, <1>8 DEF Whose, RequestsKnow, Own
  <2>2. ListsKnow'
    BY <1>2, <1>14 DEF Whose, ListsKnow
  <2>3. ASSUME NEW g \in gets', NEW b \in gets', g.generation = lib'.generation, b.generation = lib'.generation
        PROVE  g = b
    <3>1. PICK h \in gets : h.generation = g.generation
                           /\ g = LateFor(h, f, done)
      BY <1>14
    <3>2. PICK k \in gets : k.generation = b.generation
                           /\ b = LateFor(k, f, done)
      BY <1>14
    <3>3. h = k
      BY <1>2, <2>3, <3>1, <3>2 DEF Whose, OneList
    <3>4. QED
      BY <3>1, <3>2, <3>3
  <2>4. SomebodysTab'
    BY <1>2 DEF Whose, SomebodysTab
  <2>5. QED
    BY <2>1, <2>2, <2>3, <2>4 DEF Whose, OneList
<1>17. /\ Own(c) <=> Own(d)'
       /\ d \in changes'
       /\ \A x \in changes : x # c => x \in changes' /\ (Own(x) <=> Own(x)')
       /\ \A x \in changes' : x # d => x \in changes /\ x # c
  BY <1>2, <1>7, <1>8 DEF Own
<1>18. OneDialog'
  <2>1. NextStage' = NextStage
    BY <1>2 DEF NextStage
  <2>2. DialogOwns'
    BY <1>2, <1>7, <1>17, <2>1 DEF OneDialog, DialogOwns
  <2>3. OneStage'
    BY <1>7, <1>17 DEF OneDialog, OneStage
  <2>4. QED
    BY <2>2, <2>3 DEF OneDialog
<1>19. ASSUME lib.profile \in Readers, NEW v \in Volumes,
              shelves'[lib.profile][v].title # shelves[lib.profile][v].title
       PROVE  done /\ c.by = lib.profile /\ v = c.volume /\ c.op # "flair"
  BY <1>5, <1>13, <1>19 DEF now
<1>20. ListsFit'
  <2>1. SUFFICES ASSUME waiting' = <<>>, NEW g \in gets', g.generation = lib'.generation, g.served,
                        NEW v \in Volumes \ g.late
                 PROVE  \/ g.got[v].title = shelves'[lib'.profile][v].title
                        \/ \E x \in changes' : Own(x)' /\ x.volume = v /\ x.stage # "sent"
                                               /\ RefreshFollows(x)
    BY DEF ListsFit, Mine, RefreshFollows, Reconciles
  <2>2. PICK h \in gets :
          /\ g.by = h.by /\ g.generation = h.generation
          /\ g.served = h.served /\ g.got = h.got
          /\ g.late = IF done /\ Misses(h, f) THEN h.late \cup {c.volume} ELSE h.late
    BY <1>14
  <2>3. v \notin h.late /\ h.served /\ h.generation = lib.generation /\ waiting = <<>>
    BY <1>2, <2>1, <2>2
  <2>4. h.by = lib.profile /\ lib.profile \in Readers
    BY <1>3, <2>3 DEF Whose, ListsKnow, ShelfTypes, Lists
  <2>5. \/ h.got[v].title = shelves[lib.profile][v].title
        \/ \E x \in changes : Own(x) /\ x.volume = v /\ x.stage # "sent" /\ RefreshFollows(x)
    BY <2>3 DEF ListsFit, Mine
  <2>6. CASE \E x \in changes : Own(x) /\ x.volume = v /\ x.stage # "sent" /\ RefreshFollows(x)
    BY <1>2, <1>17, <2>6
  <2>7. CASE /\ h.got[v].title = shelves[lib.profile][v].title
             /\ shelves'[lib.profile][v].title = shelves[lib.profile][v].title
    BY <1>2, <2>2, <2>7
  <2>8. CASE shelves'[lib.profile][v].title # shelves[lib.profile][v].title
    <3>1. done /\ c.by = lib.profile /\ v = c.volume /\ c.op # "flair"
      BY <1>19, <2>4, <2>8
    <3>2. ~Misses(h, f)
      BY <2>1, <2>2, <3>1
    <3>3. h.generation = c.generation /\ RefreshFollows(d)
      BY <1>12, <2>3, <2>4, <3>1, <3>2
    <3>4. Own(c) /\ d.stage # "sent" /\ d.volume = v
      BY <1>7, <2>3, <3>1, <3>3 DEF Own
    <3>5. QED
      BY <1>17, <3>3, <3>4
  <2>9. QED
    BY <2>5, <2>6, <2>7, <2>8
<1>21. ASSUME lib.loaded, NEW v \in Volumes, v \notin blurred', Agreed(v), MayRollBack(v)
       PROVE  Agreed(v)' /\ MayRollBack(v)'
  <2>1. lib.profile \in Readers
    BY <1>21 DEF Whose, SomebodysTab
  <2>2. shelves'[lib.profile][v].title # shelves[lib.profile][v].title =>
           done /\ v = c.volume /\ Own(c) /\ c.op \in Edits \cup Imports
    <3>1. SUFFICES ASSUME shelves'[lib.profile][v].title # shelves[lib.profile][v].title
                   PROVE  done /\ v = c.volume /\ Own(c) /\ c.op \in Edits \cup Imports
      OBVIOUS
    <3>2. done /\ c.by = lib.profile /\ v = c.volume /\ c.op # "flair"
      BY <1>19, <2>1, <3>1
    <3>3. c.generation = lib.generation
      BY <1>1, <1>21, <3>2
    <3>4. QED
      BY <1>3, <3>2, <3>3 DEF Own
  <2>3. ASSUME NEW x \in changes, Mends(x, v) PROVE Agreed(v)'
    <3>1. CASE x # c
      <4>1. Mends(x, v)'
        BY <1>2, <1>17, <2>3, <3>1 DEF Mends
      <4>2. QED
        BY <1>17, <3>1, <4>1 DEF Agreed
    <3>2. CASE x = c
      <4>1. Mends(d, v)'
        BY <1>1, <1>2, <1>7, <1>17, <2>3, <3>2 DEF Mends, Edits
      <4>2. QED
        BY <1>17, <4>1 DEF Agreed
    <3>3. QED
      BY <3>1, <3>2
  <2>4. ASSUME Same(v) PROVE Agreed(v)'
    <3>1. CASE shelves'[lib.profile][v].title = shelves[lib.profile][v].title
      <4>1. Same(v)'
        BY <1>2, <2>4, <3>1 DEF Same
      <4>2. QED
        BY <4>1 DEF Agreed
    <3>2. CASE shelves'[lib.profile][v].title # shelves[lib.profile][v].title
      <4>1. done /\ v = c.volume /\ Own(c) /\ c.op \in Edits \cup Imports
        BY <2>2, <3>2
      <4>2. end # "rejected"
        BY <1>1, <4>1
      <4>3. ASSUME c.op \in Edits PROVE lib.books[v] # Gone
        <5>1. SUFFICES ASSUME lib.books[v] = Gone PROVE FALSE
          OBVIOUS
        <5>2. c.by = lib.profile
          BY <1>19, <2>1, <3>2
        <5>3. now.title = 0
          BY <2>4, <4>1, <5>1, <5>2 DEF now, Same, Gone
        <5>4. now = Gone
          BY <1>4, <5>3 DEF Records
        <5>5. QED
          BY <1>1, <4>2, <4>3, <5>4 DEF Edits
      <4>4. Mends(d, v)'
        BY <1>1, <1>2, <1>7, <1>17, <4>1, <4>2, <4>3 DEF Mends
      <4>5. QED
        BY <1>17, <4>4 DEF Agreed
    <3>3. QED
      BY <3>1, <3>2
  <2>5. MayRollBack(v)'
    <3>1. SUFFICES ASSUME NEW x \in changes', Own(x)', x.volume = v, x.op = "details",
                          x.stage \in {"sent", "rejected"}, ~x.old
                   PROVE  \/ lib'.books[v] = Gone
                          \/ x.before.title = shelves'[lib'.profile][v].title
                          \/ \E e \in changes' : Own(e)' /\ e.volume = v /\ e.op \in Imports
      BY DEF MayRollBack
    <3>2. ASSUME NEW e \in changes, Own(e), e.volume = v, e.op \in Imports
          PROVE  \E b \in changes' : Own(b)' /\ b.volume = v /\ b.op \in Imports
      BY <1>7, <1>17, <3>2
    <3>3. PICK y \in changes : /\ Own(y) /\ y.volume = v /\ y.op = "details"
                               /\ y.stage \in {"sent", "rejected"} /\ ~y.old
                               /\ y.before = x.before
                               /\ x = d => y = c
                               /\ x # d => y # c
      BY <1>2, <1>7, <1>17, <3>1
    <3>4. \/ lib.books[v] = Gone
          \/ y.before.title = shelves[lib.profile][v].title
          \/ \E e \in changes : Own(e) /\ e.volume = v /\ e.op \in Imports
      BY <1>21, <3>3 DEF MayRollBack
    <3>5. CASE shelves'[lib.profile][v].title = shelves[lib.profile][v].title
      BY <1>2, <3>2, <3>3, <3>4, <3>5
    <3>6. CASE shelves'[lib.profile][v].title # shelves[lib.profile][v].title
      <4>1. done /\ v = c.volume /\ Own(c) /\ c.op \in Edits \cup Imports
        BY <2>2, <3>6
      <4>2. x # d
        BY <1>1, <1>7, <3>1, <4>1
      <4>3. c.op \notin Edits
        BY <3>3, <4>1, <4>2 DEF OneDialog, OneStage, Edits
      <4>4. QED
        BY <3>2, <4>1, <4>3
    <3>7. QED
      BY <3>5, <3>6
  <2>6. QED
    BY <1>21, <2>3, <2>4, <2>5 DEF Agreed
<1>22. ShelfSettled'
  <2>1. blurred \subseteq blurred'
    BY <1>1
  <2>2. QED
    BY <1>2, <1>21, <2>1 DEF ShelfSettled
<1>23. QED
  BY <1>15, <1>16, <1>18, <1>20, <1>22
(* A request that has ended is gone from the air.  What hangs on it alone  *)
(* is the list its caller asks for.                                        *)
LEMMA EndFits ==
    ASSUME ShelfInv, NEW c \in changes, c.stage # "sent", changes' = changes \ {c},
           lib' \in Libs, lib'.profile = lib.profile, lib'.generation = lib.generation,
           lib'.loaded = lib.loaded, UNCHANGED <<shelves, gets, began>>,
           waiting' = waiting \/ \E w \in Awaiters : waiting' = Append(waiting, w),
           lib.profile = "nobody" => waiting' = waiting,
           waiting' = waiting => ~(Own(c) /\ RefreshFollows(c)),
           editing' \in {NoDialog} \cup [volume : Volumes, todo : SUBSET Edits, busy : BOOLEAN],
           blurred' \subseteq Volumes
    PROVE  ShelfTypes' /\ Whose' /\ OneStage' /\ ListsFit'
<1> USE DEF ShelfInv
<1>1. waiting \in Seq(Awaiters)
  BY DEF ShelfTypes
<1>2. waiting' \in Seq(Awaiters) /\ (waiting' = <<>> => waiting' = waiting)
  BY <1>1
<1>3. ShelfTypes'
  BY <1>2 DEF ShelfTypes
<1>4. \A x \in changes' : x \in changes /\ (Own(x)' => Own(x))
  BY DEF Own
<1>5. Whose'
  <2>1. RequestsKnow'
    BY <1>4 DEF Whose, RequestsKnow
  <2>2. ListsKnow' /\ OneList'
    BY DEF Whose, ListsKnow, OneList
  <2>3. SomebodysTab'
    BY DEF Whose, SomebodysTab
  <2>4. QED
    BY <2>1, <2>2, <2>3 DEF Whose
<1>6. OneStage'
  BY <1>4 DEF OneDialog, OneStage
<1>7. ListsFit'
  BY <1>2 DEF ListsFit, Mine, Own, RefreshFollows, Reconciles
<1>8. QED
  BY <1>3, <1>5, <1>6, <1>7

LEMMA RolledBackFits ==
    ASSUME NEW c \in Requests, lib \in Libs, NEW s, s = RolledBack(lib, c)
    PROVE  /\ s \in Libs /\ s.profile = lib.profile /\ s.generation = lib.generation
           /\ s.loaded = lib.loaded
           /\ \A v \in Volumes : v # c.volume \/ ~Owns(c) => s.books[v] = lib.books[v]
           /\ Owns(c) => /\ lib.books[c.volume] # Gone /\ s.books[c.volume] # Gone
                         /\ s.books[c.volume].title = IF c.op = "flair" THEN lib.books[c.volume].title
                                                      ELSE c.before.title
<1>1. CASE ~Owns(c)
  BY <1>1 DEF RolledBack
<1>2. CASE Owns(c)
  <2> DEFINE v == c.volume
             rec == lib.books[v]
             new == IF c.op = "flair" THEN [rec EXCEPT !.flair = c.before.flair]
                    ELSE [rec EXCEPT !.title = c.before.title]
  <2>1. v \in Volumes /\ c.before \in Records /\ c.before # Gone /\ lib.books \in Contents
        /\ rec \in Records /\ rec # Gone /\ lib.stamps \in [Volumes -> Nat]
    BY <1>2 DEF Requests, Owns, Libs, Contents
  <2>2. new \in Records /\ new # Gone
        /\ new.title = IF c.op = "flair" THEN rec.title ELSE c.before.title
    BY <2>1 DEF Records, Gone
  <2>3. PICK books : books = [lib.books EXCEPT ![v] = new]
    OBVIOUS
  <2>4. PICK stamps : stamps = [lib.stamps EXCEPT ![v] = @ + 1]
    OBVIOUS
  <2>5. s = [lib EXCEPT !.books = books, !.stamps = stamps]
    <3>1. CASE c.op = "flair"
      BY <1>2, <2>1, <2>3, <2>4, <3>1 DEF RolledBack, Stamped, Libs
    <3>2. CASE c.op # "flair"
      BY <1>2, <2>1, <2>3, <2>4, <3>2 DEF RolledBack, Stamped, Libs
    <3>3. QED
      BY <3>1, <3>2
  <2> HIDE DEF new
  <2>6. books \in Contents /\ books[v] = new /\ \A w \in Volumes : w # v => books[w] = lib.books[w]
    BY <2>1, <2>2, <2>3 DEF Contents
  <2>7. stamps \in [Volumes -> Nat]
    BY <2>1, <2>4
  <2>8. /\ s \in Libs /\ s.profile = lib.profile /\ s.generation = lib.generation
        /\ s.loaded = lib.loaded /\ s.books = books
    BY <2>5, <2>6, <2>7 DEF Libs
  <2>9. QED
    BY <1>2, <2>1, <2>2, <2>6, <2>8
<1>3. QED
  BY <1>1, <1>2

LEMMA ReplacedFits ==
    ASSUME NEW c \in Requests, lib \in Libs, NEW s, s = Replaced(lib, c)
    PROVE  /\ s \in Libs /\ s.profile = lib.profile /\ s.generation = lib.generation
           /\ s.loaded = lib.loaded
           /\ \A v \in Volumes : v # c.volume \/ lib.books[v] = Gone => s.books[v] = lib.books[v]
           /\ lib.books[c.volume] # Gone => s.books[c.volume] = c.reply
<1>1. c.volume \in Volumes /\ c.reply \in Records /\ lib.books \in Contents
      /\ lib.stamps \in [Volumes -> Nat]
  BY DEF Requests, Libs
<1>2. PICK stamps : stamps = [lib.stamps EXCEPT ![c.volume] = 0]
  OBVIOUS
<1>3. PICK books : books = [lib.books EXCEPT ![c.volume] = c.reply]
  OBVIOUS
<1>4. stamps \in [Volumes -> Nat] /\ books \in Contents /\ books[c.volume] = c.reply
      /\ \A w \in Volumes : w # c.volume => books[w] = lib.books[w]
  BY <1>1, <1>2, <1>3 DEF Contents
<1>5. CASE lib.books[c.volume] = Gone
  <2>1. s = [lib EXCEPT !.stamps = stamps]
    BY <1>2, <1>5 DEF Replaced
  <2>2. QED
    BY <1>4, <1>5, <2>1 DEF Libs
<1>6. CASE lib.books[c.volume] # Gone
  <2>1. s = [lib EXCEPT !.books = books, !.stamps = stamps]
    BY <1>2, <1>3, <1>6 DEF Replaced
  <2>2. /\ s \in Libs /\ s.profile = lib.profile /\ s.generation = lib.generation
        /\ s.loaded = lib.loaded /\ s.books = books
    BY <1>4, <2>1 DEF Libs
  <2>3. QED
    BY <1>4, <1>6, <2>2
<1>7. QED
  BY <1>5, <1>6
LEMMA EndImportKeeps == ASSUME ShelfInv, NEW c \in changes, EndImport(c) PROVE ShelfInv'
<1> USE DEF ShelfInv
<1>1. /\ c.stage # "sent" /\ c.op \in {"upload", "rescan"} /\ changes' = changes \ {c}
      /\ UNCHANGED <<shelves, gets, editing, began>>
  BY DEF EndImport
<1>2. c \in Requests /\ c.volume \in Volumes /\ lib \in Libs /\ waiting \in Seq(Awaiters)
      /\ blurred \subseteq Volumes
      /\ editing \in {NoDialog} \cup [volume : Volumes, todo : SUBSET Edits, busy : BOOLEAN]
  BY DEF ShelfTypes, Requests
<1>3. Own(c) <=> IsCurrentLib(c.by, c.generation)
  BY DEF Whose, RequestsKnow, Own, IsCurrentLib
<1>4. Own(c) => lib.profile # "nobody"
  BY <1>3, LibraryAssumption, <1>2 DEF IsCurrentLib, Requests
<1>5. /\ lib' \in Libs /\ lib'.profile = lib.profile /\ lib'.generation = lib.generation
      /\ lib'.loaded = lib.loaded /\ lib'.books = lib.books
  <2>1. lib' = lib \/ lib' = [lib EXCEPT !.rescanning = FALSE]
    BY DEF EndImport
  <2>2. QED
    BY <1>2, <2>1 DEF Libs
<1>6. /\ ~Own(c) => UNCHANGED <<waiting, blurred>>
      /\ Own(c) /\ c.op = "rescan" /\ c.stage # "ok" => waiting' = waiting /\ blurred' = blurred \cup {c.volume}
      /\ Own(c) /\ ~(c.op = "rescan" /\ c.stage # "ok") => waiting' = Append(waiting, c.op) /\ blurred' = blurred
  BY <1>3 DEF EndImport, Refreshed
<1>7. \A w \in Awaiters : Append(waiting, w) # waiting /\ Append(waiting, w) # <<>>
  BY <1>2
<1>8. c.op \in Awaiters
  BY <1>1 DEF Awaiters
<1>9. blurred \subseteq blurred' /\ blurred' \subseteq Volumes
  BY <1>2, <1>6
<1>10. waiting' = waiting \/ \E w \in Awaiters : waiting' = Append(waiting, w)
  BY <1>6, <1>8
<1>11. lib.profile = "nobody" => waiting' = waiting
  BY <1>4, <1>6
<1>12. waiting' = waiting => ~(Own(c) /\ RefreshFollows(c))
  <2>1. RefreshFollows(c) => ~(c.op = "rescan" /\ c.stage # "ok")
    BY <1>1 DEF RefreshFollows, Reconciles
  <2>2. QED
    BY <1>6, <1>7, <1>8, <2>1
<1>13. ShelfTypes' /\ Whose' /\ OneStage' /\ ListsFit'
  BY <1>1, <1>2, <1>5, <1>9, <1>10, <1>11, <1>12, EndFits
<1>14. DialogOwns'
  BY <1>1, <1>5 DEF OneDialog, DialogOwns, Own, NextStage
<1>15. ShelfSettled'
  <2>1. SUFFICES ASSUME lib'.loaded, waiting' = <<>>, NEW v \in Volumes \ blurred'
                 PROVE  Agreed(v)' /\ MayRollBack(v)'
    BY DEF ShelfSettled
  <2>2. waiting' = waiting
    BY <1>6, <1>7, <1>8, <2>1
  <2>3. Agreed(v) /\ MayRollBack(v)
    BY <1>5, <1>9, <2>1, <2>2 DEF ShelfSettled
  <2>4. ~(Own(c) /\ c.volume = v)
    BY <1>6, <1>7, <1>8, <2>1, <2>2
  <2>5. \A x \in changes : Own(x) /\ x.volume = v => x \in changes' /\ Own(x)'
    BY <1>1, <1>5, <2>4 DEF Own
  <2>6. \A x \in changes' : Own(x)' => x \in changes /\ Own(x)
    BY <1>1, <1>5 DEF Own
  <2>7. Agreed(v)'
    <3>1. Same(v) => Same(v)'
      BY <1>1, <1>5 DEF Same
    <3>2. \A x \in changes : Mends(x, v) => x \in changes' /\ Mends(x, v)'
      BY <1>5, <2>5 DEF Mends
    <3>3. QED
      BY <2>3, <3>1, <3>2 DEF Agreed
  <2>8. MayRollBack(v)'
    BY <1>1, <1>5, <2>3, <2>5, <2>6 DEF MayRollBack
  <2>9. QED
    BY <2>7, <2>8
<1>16. QED
  BY <1>13, <1>14, <1>15 DEF OneDialog

LEMMA EndChangeKeeps == ASSUME ShelfInv, NEW c \in changes, EndChange(c) PROVE ShelfInv'
<1> USE DEF ShelfInv
<1>1. /\ c.stage # "sent" /\ c.op \notin {"upload", "rescan"} /\ changes' = changes \ {c}
      /\ UNCHANGED <<shelves, gets, began>>
  BY DEF EndChange
<1>2. c \in Requests /\ c.volume \in Volumes /\ lib \in Libs /\ waiting \in Seq(Awaiters)
      /\ blurred \subseteq Volumes /\ c.op \in {"flair", "remove"} \cup Edits
      /\ editing \in {NoDialog} \cup [volume : Volumes, todo : SUBSET Edits, busy : BOOLEAN]
  BY <1>1 DEF ShelfTypes, Requests, Imports
<1>3. Own(c) <=> IsCurrentLib(c.by, c.generation)
  BY DEF Whose, RequestsKnow, Own, IsCurrentLib
<1>4. Own(c) => lib.profile # "nobody"
  BY <1>3, LibraryAssumption, <1>2 DEF IsCurrentLib, Requests
<1>5. ASSUME ~Own(c) PROVE ShelfInv'
  <2>1. UNCHANGED <<lib, waiting, editing, blurred>>
    BY <1>3, <1>5 DEF EndChange
  <2>2. ShelfTypes' /\ Whose' /\ OneStage' /\ ListsFit'
    BY <1>1, <1>2, <1>5, <2>1, EndFits
  <2>3. DialogOwns'
    BY <1>1, <2>1 DEF OneDialog, DialogOwns, Own, NextStage
  <2>4. \A x \in changes : Own(x) => x \in changes' /\ Own(x)'
    BY <1>1, <1>5, <2>1 DEF Own
  <2>5. \A x \in changes' : Own(x)' => x \in changes /\ Own(x)
    BY <1>1, <2>1 DEF Own
  <2>6. ASSUME NEW v \in Volumes, Agreed(v), MayRollBack(v) PROVE Agreed(v)' /\ MayRollBack(v)'
    <3>1. Same(v) => Same(v)'
      BY <1>1, <2>1 DEF Same
    <3>2. \A x \in changes : Mends(x, v) => x \in changes' /\ Mends(x, v)'
      BY <2>1, <2>4 DEF Mends
    <3>3. MayRollBack(v)'
      BY <1>1, <2>1, <2>4, <2>5, <2>6 DEF MayRollBack
    <3>4. QED
      BY <2>6, <3>1, <3>2, <3>3 DEF Agreed
  <2>7. ShelfSettled'
    BY <2>1, <2>6 DEF ShelfSettled
  <2>8. QED
    BY <2>2, <2>3, <2>7 DEF OneDialog
<1>6. ASSUME Own(c) PROVE ShelfInv'
  <2> DEFINE v == c.volume
  <2>1. /\ c.stage = "ok" /\ c.op = "remove" =>
             lib' = [lib EXCEPT !.books[c.volume] = Gone, !.stamps[c.volume] = 0]
        /\ c.stage = "ok" /\ c.op \in Edits => lib' = Replaced(lib, c)
        /\ c.stage # "ok" /\ c.op \in {"flair", "details"} => lib' = RolledBack(lib, c)
        /\ (c.stage = "ok" /\ c.op = "flair") \/ (c.stage # "ok" /\ c.op \in {"file", "remove"}) => lib' = lib
    <3>1. lib' = CASE c.stage = "ok" /\ c.op = "remove" ->
                             [lib EXCEPT !.books[c.volume] = Gone, !.stamps[c.volume] = 0]
                   [] c.stage = "ok" /\ c.op \in {"details", "file"} -> Replaced(lib, c)
                   [] c.stage # "ok" /\ c.op \in {"flair", "details"} -> RolledBack(lib, c)
                   [] OTHER -> lib
      BY <1>3, <1>6, Zenon DEF EndChange
    <3>2. CASE c.stage = "ok" /\ c.op = "remove"
      BY <3>1, <3>2, Zenon DEF Edits
    <3>3. CASE c.stage = "ok" /\ c.op \in Edits
      BY <3>1, <3>3, Zenon DEF Edits
    <3>4. CASE c.stage = "ok" /\ c.op = "flair"
      BY <3>1, <3>4, Zenon DEF Edits
    <3>5. CASE c.stage # "ok"
      BY <3>1, <3>5, Zenon DEF Edits
    <3>6. QED
      BY <1>2, <3>2, <3>3, <3>4, <3>5, Zenon
  <2>2. /\ waiting' = IF c.stage # "ok" /\ Reconciles(c) THEN Append(waiting, "nobody") ELSE waiting
        /\ blurred' = IF \/ c.stage # "ok" /\ c.op = "details" /\ (~Owns(c) \/ c.old)
                         \/ c.stage = "ok" /\ c.op # "flair" /\ shelves[c.by][v].title # c.reply.title
                      THEN blurred \cup {v} ELSE blurred
    BY <1>3, <1>6 DEF EndChange, Refreshed
  <2>3. Append(waiting, "nobody") # waiting /\ Append(waiting, "nobody") # <<>> /\ "nobody" \in Awaiters
    BY <1>2 DEF Awaiters
  <2>4. blurred \subseteq blurred' /\ blurred' \subseteq Volumes
    BY <1>2, <2>2
  <2>5. editing' \in {NoDialog} \cup [volume : Volumes, todo : SUBSET Edits, busy : BOOLEAN]
        /\ (c.op \notin Edits => editing' = editing)
    <3>1. CASE c.op \notin Edits
      BY <1>2, <1>3, <1>6, <3>1 DEF EndChange, Edits
    <3>2. CASE c.op \in Edits
      <4>1. editing.busy
        BY <1>6, <3>2 DEF OneDialog, DialogOwns
      <4>2. editing \in [volume : Volumes, todo : SUBSET Edits, busy : BOOLEAN]
        BY <1>2, <4>1 DEF NoDialog
      <4>3. PICK rest : rest = IF c.stage = "ok" THEN editing.todo \ {c.op} ELSE editing.todo
        OBVIOUS
      <4>4. rest \in SUBSET Edits
        BY <4>2, <4>3
      <4>5. PICK busy \in BOOLEAN : busy = (c.stage = "ok")
        OBVIOUS
      <4>6. editing' = NoDialog \/ editing' = [editing EXCEPT !.todo = rest, !.busy = busy]
        BY <1>3, <1>6, <3>2, <4>3, <4>5 DEF EndChange, Edits
      <4>7. ASSUME editing' = [editing EXCEPT !.todo = rest, !.busy = busy]
            PROVE  editing' \in [volume : Volumes, todo : SUBSET Edits, busy : BOOLEAN]
        BY <4>2, <4>4, <4>7
      <4>8. QED
        BY <3>2, <4>6, <4>7
    <3>3. QED
      BY <3>1, <3>2
  <2>6. /\ lib' \in Libs /\ lib'.profile = lib.profile /\ lib'.generation = lib.generation
        /\ lib'.loaded = lib.loaded
        /\ \A w \in Volumes : w # v => lib'.books[w] = lib.books[w]
        /\ c.op = "remove" => lib'.books[v] = IF c.stage = "ok" THEN Gone ELSE lib.books[v]
        /\ c.op = "flair" => /\ lib'.books[v].title = lib.books[v].title
                             /\ lib.books[v] # Gone => lib'.books[v] # Gone
                             /\ lib.books[v] = Gone => lib'.books[v] = Gone
        /\ c.op \in Edits /\ lib.books[v] = Gone => lib'.books[v] = lib.books[v]
        /\ c.op \in Edits /\ c.stage = "ok" /\ lib.books[v] # Gone => lib'.books[v] = c.reply
        /\ c.op = "file" /\ c.stage # "ok" => lib'.books[v] = lib.books[v]
        /\ c.op = "details" /\ c.stage # "ok" /\ Owns(c) =>
              lib.books[v] # Gone /\ lib'.books[v].title = c.before.title
    <3>1. CASE c.stage = "ok" /\ c.op = "remove"
      <4>1. lib.books \in Contents /\ lib.stamps \in [Volumes -> Nat] /\ Gone \in Records
        BY <1>2 DEF Libs, Records
      <4>2. PICK books : books = [lib.books EXCEPT ![c.volume] = Gone]
        OBVIOUS
      <4>3. PICK stamps : stamps = [lib.stamps EXCEPT ![c.volume] = 0]
        OBVIOUS
      <4>4. lib' = [lib EXCEPT !.books = books, !.stamps = stamps]
        BY <2>1, <3>1, <4>2, <4>3
      <4>5. books \in Contents /\ books[v] = Gone /\ \A w \in Volumes : w # v => books[w] = lib.books[w]
        BY <1>2, <4>1, <4>2 DEF Contents
      <4>6. stamps \in [Volumes -> Nat]
        BY <1>2, <4>1, <4>3
      <4>7. /\ lib' \in Libs /\ lib'.profile = lib.profile /\ lib'.generation = lib.generation
            /\ lib'.loaded = lib.loaded /\ lib'.books = books
        BY <1>2, <4>4, <4>5, <4>6 DEF Libs
      <4>8. QED
        BY <3>1, <4>5, <4>7 DEF Edits
    <3>2. CASE c.stage = "ok" /\ c.op \in Edits
      <4>1. lib' = Replaced(lib, c)
        BY <2>1, <3>2
      <4>2. QED
        BY <1>2, <3>2, <4>1, ReplacedFits DEF Edits
    <3>3. CASE c.stage # "ok" /\ c.op \in {"flair", "details"}
      <4>1. lib' = RolledBack(lib, c)
        BY <2>1, <3>3
      <4>2. c.op = "flair" \/ c.op = "details"
        BY <3>3
      <4>3. QED
        BY <1>2, <3>3, <4>1, <4>2, RolledBackFits DEF Edits, Owns
    <3>4. CASE (c.stage = "ok" /\ c.op = "flair") \/ (c.stage # "ok" /\ c.op \in {"file", "remove"})
      BY <1>2, <2>1, <3>4 DEF Edits
    <3>5. QED
      BY <1>2, <3>1, <3>2, <3>3, <3>4 DEF Edits
  <2>7. c.stage # "ok" /\ Reconciles(c) <=> waiting' # waiting
    BY <2>2, <2>3
  <2>8. waiting' = waiting => ~(Own(c) /\ RefreshFollows(c))
    BY <1>1, <2>7 DEF RefreshFollows
  <2>9. ShelfTypes' /\ Whose' /\ OneStage' /\ ListsFit'
    <3>1. waiting' = waiting \/ \E w \in Awaiters : waiting' = Append(waiting, w)
      BY <2>2, <2>3
    <3>2. lib.profile = "nobody" => waiting' = waiting
      BY <1>4, <1>6
    <3>3. QED
      BY <1>1, <2>4, <2>5, <2>6, <2>8, <3>1, <3>2, EndFits
  <2>10. \A x \in changes' : Own(x)' => x \in changes /\ Own(x) /\ x # c
    BY <1>1, <2>6 DEF Own
  <2>11. \A x \in changes : x # c /\ Own(x) => x \in changes' /\ Own(x)'
    BY <1>1, <2>6 DEF Own
  <2>12. c.op \in Edits => \A x \in changes' : ~(Own(x)' /\ x.op \in Edits)
    BY <1>6, <2>10 DEF OneDialog, OneStage
  <2>13. DialogOwns'
    <3>1. CASE c.op \in Edits
      BY <2>12, <3>1 DEF DialogOwns
    <3>2. CASE c.op \notin Edits
      BY <2>5, <2>10, <3>2 DEF OneDialog, DialogOwns, NextStage
    <3>3. QED
      BY <3>1, <3>2
  <2>14. ASSUME lib'.loaded, waiting' = <<>>, NEW w \in Volumes \ blurred'
         PROVE  Agreed(w)' /\ MayRollBack(w)'
    <3>1. waiting' = waiting /\ (c.stage = "ok" \/ ~Reconciles(c))
      BY <2>2, <2>3, <2>14
    <3>2. Agreed(w) /\ MayRollBack(w)
      BY <2>4, <2>6, <2>14, <3>1 DEF ShelfSettled
    <3>3. ASSUME NEW x \in changes, x # c, Mends(x, w), lib.books[w] # Gone => lib'.books[w] # Gone
          PROVE  Agreed(w)'
      <4>1. Mends(x, w)'
        BY <2>11, <3>3 DEF Mends
      <4>2. QED
        BY <2>11, <3>3, <4>1 DEF Agreed, Mends
    <3>4. ASSUME lib'.books[w].title = shelves[lib.profile][w].title PROVE Agreed(w)'
      <4>1. Same(w)'
        BY <1>1, <2>6, <3>4 DEF Same
      <4>2. QED
        BY <4>1 DEF Agreed
    <3>5. ASSUME lib.books[w] = Gone => lib'.books[w] = Gone,
                 \A x \in changes' : Own(x)' /\ x.volume = w /\ x.op = "details" =>
                    ~(c.op \in Imports /\ c.volume = w)
          PROVE  MayRollBack(w)'
      BY <1>1, <2>6, <2>10, <2>11, <3>2, <3>5 DEF MayRollBack
    <3>6. CASE w # v
      <4>1. Agreed(w)'
        <5>1. \A x \in changes : Mends(x, w) => x # c
          BY <3>6 DEF Mends
        <5>2. lib'.books[w] = lib.books[w]
          BY <2>6, <3>6
        <5>3. QED
          BY <3>2, <3>3, <3>4, <5>1, <5>2 DEF Agreed, Same
      <4>2. QED
        BY <2>6, <3>5, <3>6, <4>1
    <3>7. CASE w = v /\ c.op = "flair"
      <4>1. c.op \notin Edits \cup Imports
        BY <3>7 DEF Edits, Imports
      <4>2. \A x \in changes : Mends(x, w) => x # c
        BY <4>1 DEF Mends, Edits
      <4>3. QED
        BY <2>6, <3>2, <3>3, <3>4, <3>5, <3>7, <4>1, <4>2 DEF Agreed, Same
    <3>8. CASE w = v /\ c.op = "remove"
      <4>1. c.stage = "ok" /\ lib'.books[w] = Gone
        BY <2>6, <3>1, <3>8 DEF Reconciles
      <4>2. c.by = lib.profile
        BY <1>3, <1>6 DEF IsCurrentLib
      <4>3. c.reply = Gone
        BY <1>2, <3>8 DEF Requests
      <4>4. shelves[lib.profile][w].title = Gone.title
        BY <2>2, <2>14, <3>8, <4>1, <4>2, <4>3
      <4>5. MayRollBack(w)'
        BY <4>1 DEF MayRollBack
      <4>6. QED
        BY <3>4, <4>1, <4>4, <4>5
    <3>9. CASE w = v /\ c.op \in Edits
      <4>1. MayRollBack(w)'
        BY <2>12, <3>9 DEF MayRollBack, Edits
      <4>2. c.stage \in {"ok", "rejected"}
        BY <1>1, <1>2, <3>1, <3>9 DEF Reconciles, Requests, Edits
      <4>3. CASE c.stage = "ok" /\ lib.books[w] # Gone
        <5>1. lib'.books[w] = c.reply
          BY <2>6, <3>9, <4>3
        <5>2. c.by = lib.profile /\ c.op # "flair"
          BY <1>3, <1>6, <3>9 DEF IsCurrentLib, Edits
        <5>3. shelves[lib.profile][w].title = c.reply.title
          BY <2>2, <2>14, <3>9, <4>3, <5>2
        <5>4. QED
          BY <3>4, <4>1, <5>1, <5>3
      <4>4. CASE lib.books[w] = Gone \/ (c.op = "file" /\ c.stage # "ok")
        <5>1. lib'.books[w] = lib.books[w]
          BY <2>6, <3>9, <4>4
        <5>2. c.op \notin Imports
          BY <3>9 DEF Edits, Imports
        <5>3. \A x \in changes : Mends(x, w) => x # c
          BY <4>2, <4>4, <5>2 DEF Mends
        <5>4. QED
          BY <3>2, <3>3, <3>4, <4>1, <5>1, <5>3 DEF Agreed, Same
      <4>5. CASE c.op = "details" /\ c.stage = "rejected" /\ lib.books[w] # Gone
        <5>1. Owns(c) /\ ~c.old
          BY <2>2, <2>14, <3>9, <4>5
        <5>2. lib'.books[w].title = c.before.title
          BY <2>6, <3>9, <4>5, <5>1
        <5>3. \/ c.before.title = shelves[lib.profile][w].title
              \/ \E d \in changes : Own(d) /\ d.volume = w /\ d.op \in Imports
          BY <1>6, <3>2, <3>9, <4>5, <5>1 DEF MayRollBack
        <5>4. CASE c.before.title = shelves[lib.profile][w].title
          BY <3>4, <4>1, <5>2, <5>4
        <5>5. ASSUME NEW d \in changes, Own(d), d.volume = w, d.op \in Imports PROVE Agreed(w)'
          <6>1. d # c
            BY <4>5, <5>5 DEF Imports
          <6>2. Mends(d, w)'
            BY <2>11, <5>5, <6>1 DEF Mends
          <6>3. QED
            BY <2>11, <5>5, <6>1, <6>2 DEF Agreed
        <5>6. QED
          BY <4>1, <5>3, <5>4, <5>5
      <4>6. QED
        BY <3>9, <4>2, <4>3, <4>4, <4>5 DEF Edits
    <3>10. QED
      BY <1>2, <3>6, <3>7, <3>8, <3>9
  <2>15. ShelfSettled'
    BY <2>14 DEF ShelfSettled
  <2>16. QED
    BY <2>9, <2>13, <2>15 DEF OneDialog
<1>7. QED
  BY <1>5, <1>6

LEMMA ShelfStepKeeps == ShelfInv /\ [LibraryNext]_libraryVars => ShelfInv'
<1> SUFFICES ASSUME ShelfInv, [LibraryNext]_libraryVars PROVE ShelfInv'
  OBVIOUS
<1>1. CASE UNCHANGED libraryVars
  <2>1. ShelfTypes' /\ Whose' /\ OneDialog'
    BY <1>1 DEF libraryVars, ShelfInv, ShelfTypes, Whose, RequestsKnow, ListsKnow, OneList,
                SomebodysTab, OneDialog, DialogOwns, OneStage, Own, NextStage
  <2>2. ListsFit'
    BY <1>1 DEF libraryVars, ShelfInv, ListsFit, Mine, Own, RefreshFollows, Reconciles
  <2>3. ShelfSettled'
    BY <1>1 DEF libraryVars, ShelfInv, ShelfSettled, Agreed, MayRollBack, Mends, Own, Same
  <2>4. QED
    BY <2>1, <2>2, <2>3 DEF ShelfInv
<1>2. CASE \E p \in Readers \cup {"nobody"} : SwitchProfile(p)
  BY <1>2, SwitchKeeps
<1>3. CASE LoadLibrary
  BY <1>3, LoadKeeps
<1>4. CASE StartRefresh
  BY <1>4, StartKeeps
<1>5. CASE CloseDialog \/ \E v \in Volumes : OpenDialog(v)
  BY <1>5, DialogKeeps
<1>6. CASE SubmitStage
  BY <1>6, SubmitKeeps
<1>7. CASE \E g \in gets : ServeGet(g) \/ GetArrives(g)
  BY <1>7, ServeGetKeeps, ArrivesKeeps
<1>8. CASE \E v \in Volumes, f \in Flairs : SetFlair(v, f)
  BY <1>8, FlairKeeps
<1>9. CASE \E v \in Volumes : RemoveBook(v) \/ Upload(v) \/ Rescan(v)
  BY <1>9, ImportKeeps
<1>10. CASE \E c \in changes : ServeChange(c) \/ EndChange(c) \/ EndImport(c)
  BY <1>10, ServeChangeKeeps, EndChangeKeeps, EndImportKeeps
<1>11. QED
  BY <1>1, <1>2, <1>3, <1>4, <1>5, <1>6, <1>7, <1>8, <1>9, <1>10 DEF LibraryNext

(* ShelfHeals: with nothing under way, a loaded shelf has the books and    *)
(* titles of its profile's library, but for the losses named there, for    *)
(* any profiles, books and number of requests and switches.                *)
THEOREM ShelfComesRight == LibrarySpec => []ShelfHeals
<1>1. ShelfInv => ShelfHeals
  BY DEF ShelfInv, ShelfSettled, ShelfHeals, Agreed, Same, Mends, Own, Mine
<1>2. QED
  BY <1>1, InitSettled, ShelfStepKeeps, PTL DEF LibrarySpec

-----------------------------------------------------------------------------
(* What is open over the reading view.  A theme is edited from the         *)
(* settings panel only, and goes with it.                                  *)
OpenViews ==
    {v \in [inBook : BOOLEAN, specimen : BOOLEAN, loaded : BOOLEAN, leaving : BOOLEAN,
            sheets : SUBSET Sheets, panel : Panels \cup {"none"}, draft : BOOLEAN,
            theme : {"none", "open", "saving"}, more : BOOLEAN, ringing : BOOLEAN,
            alarm : BOOLEAN] :
        v.theme # "none" => v.panel = "settings"}

OverlaysInv == view \in OpenViews /\ posted \in Seq(Keys)

(* The page is all there is.                                               *)
OnThePage(v) == v.sheets = {} /\ v.theme = "none" /\ v.panel = "none" /\ ~v.more

(* A step that starts to leave the book does so from the page.             *)
LeavesRight(v, w) == ~v.leaving /\ w.leaving => OnThePage(v)

(* What opens and closes sheets, panels and dialogs does not leave.        *)
LEMMA SheetsStay ==
    ASSUME NEW v \in OpenViews
    PROVE  /\ \A sheet \in Sheets : Open(v, sheet) \in OpenViews /\ Open(v, sheet).leaving = v.leaving
           /\ CloseOverlays(v) \in OpenViews /\ CloseOverlays(v).leaving = v.leaving
           /\ TogglePalette(v) \in OpenViews /\ TogglePalette(v).leaving = v.leaving
<1>1. \A sheet \in Sheets : Open(v, sheet) \in OpenViews /\ Open(v, sheet).leaving = v.leaving
  BY DEF OpenViews, Open
<1>2. CloseOverlays(v) \in OpenViews /\ CloseOverlays(v).leaving = v.leaving
  BY DEF OpenViews, CloseOverlays
<1>3. TogglePalette(v) \in OpenViews /\ TogglePalette(v).leaving = v.leaving
  <2>1. CASE "palette" \in v.sheets
    <3>1. TogglePalette(v) = [v EXCEPT !.sheets = @ \ {"palette"}] BY <2>1 DEF TogglePalette
    <3> QED BY <3>1 DEF OpenViews
  <2>2. CASE "palette" \notin v.sheets
    <3>1. TogglePalette(v) = Open(v, "palette") /\ "palette" \in Sheets
      BY <2>2 DEF TogglePalette, Sheets
    <3> QED BY <1>1, <3>1
  <2> QED BY <2>1, <2>2
<1> QED BY <1>1, <1>2, <1>3

LEMMA PanelsStay ==
    ASSUME NEW v \in OpenViews
    PROVE  /\ \A p \in Panels \cup {"none"} : SetPanel(v, p) \in OpenViews /\ SetPanel(v, p).leaving = v.leaving
           /\ \A p \in Panels : TogglePanel(v, p) \in OpenViews /\ TogglePanel(v, p).leaving = v.leaving
           /\ CloseMore(v) \in OpenViews /\ CloseMore(v).leaving = v.leaving
           /\ PanelEscape(v) \in OpenViews /\ PanelEscape(v).leaving = v.leaving
<1>1. \A p \in Panels \cup {"none"} : SetPanel(v, p) \in OpenViews /\ SetPanel(v, p).leaving = v.leaving
  BY DEF OpenViews, SetPanel
<1>2. \A p \in Panels : TogglePanel(v, p) \in {v, SetPanel(v, "none"), SetPanel(v, p)}
  BY DEF TogglePanel
<1>3. \A p \in Panels : TogglePanel(v, p) \in OpenViews /\ TogglePanel(v, p).leaving = v.leaving
  BY <1>1, <1>2
<1>4. CloseMore(v) \in OpenViews /\ CloseMore(v).leaving = v.leaving
  BY DEF OpenViews, CloseMore
<1>5. DropDraft(v) \in OpenViews /\ DropDraft(v).leaving = v.leaving
  BY DEF OpenViews, DropDraft
<1>6. PanelEscape(v) \in OpenViews /\ PanelEscape(v).leaving = v.leaving
  BY <1>1, <1>5 DEF PanelEscape
<1> QED BY <1>1, <1>3, <1>4, <1>6

LEMMA CapturesStay ==
    ASSUME NEW v \in OpenViews, NEW layer
    PROVE  CaptureEscape(v, layer) \in OpenViews /\ CaptureEscape(v, layer).leaving = v.leaving
<1>1. CASE layer \in Sheets
  <2>1. layer # "ring" BY <1>1 DEF Sheets
  <2>2. CaptureEscape(v, layer) = CloseOverlays(v) BY <1>1, <2>1, Zenon DEF CaptureEscape
  <2> QED BY <2>2, SheetsStay
<1>2. CASE layer = "ring"
  <2>1. layer \notin Sheets BY <1>2 DEF Sheets
  <2>2. CaptureEscape(v, layer) = Dismissed(v) BY <1>2, <2>1, Zenon DEF CaptureEscape
  <2>3. Dismissed(v) \in OpenViews /\ Dismissed(v).leaving = v.leaving BY DEF OpenViews, Dismissed
  <2> QED BY <2>2, <2>3
<1>3. CASE layer \notin Sheets /\ layer # "ring"
  <2>1. CaptureEscape(v, layer) = CloseTheme(v) BY <1>3, Zenon DEF CaptureEscape
  <2>2. CloseTheme(v) \in OpenViews /\ CloseTheme(v).leaving = v.leaving BY DEF OpenViews, CloseTheme
  <2> QED BY <2>1, <2>2
<1> QED BY <1>1, <1>2, <1>3

(* The reader's shortcuts leave from the page only.                        *)
LEMMA KeyActionLeavesRight ==
    ASSUME NEW v \in OpenViews, NEW key \in Keys
    PROVE  HandleKeyAction(v, key) \in OpenViews /\ LeavesRight(v, HandleKeyAction(v, key))
<1> DEFINE w == HandleKeyAction(v, key)
<1> SUFFICES w \in OpenViews /\ LeavesRight(v, w) OBVIOUS
<1>1. ASSUME w \in OpenViews, w.leaving = v.leaving PROVE w \in OpenViews /\ LeavesRight(v, w)
  BY <1>1 DEF LeavesRight
<1>2. CASE key = "chord"
  <2>1. w = TogglePalette(v) BY <1>2, Zenon DEF HandleKeyAction
  <2> QED BY <1>1, <2>1, SheetsStay
<1>3. CASE key # "chord" /\ v.sheets # {}
  <2>1. w = v BY <1>3, Zenon DEF HandleKeyAction
  <2> QED BY <1>1, <2>1
<1>4. CASE key # "chord" /\ v.sheets = {} /\ MenuOwnsKeys(v)
  <2>1. w = IF key = "Escape" THEN CloseMore(v) ELSE v BY <1>4, Zenon DEF HandleKeyAction
  <2> HIDE DEF w
  <2> QED BY <1>1, <2>1, PanelsStay
<1>5. CASE key # "chord" /\ v.sheets = {} /\ ~MenuOwnsKeys(v)
  <2>1. w = IF key = "?" THEN Open(v, "shortcuts")
            ELSE IF key = "a" THEN Open(v, "alarm")
            ELSE IF key = "Escape"
            THEN IF v.panel # "none" THEN SetPanel(v, "none") ELSE [v EXCEPT !.leaving = TRUE]
            ELSE IF v.specimen /\ PanelKey[key] \in BookPanels THEN v
            ELSE TogglePanel(v, PanelKey[key])
    BY <1>5, Zenon DEF HandleKeyAction
  <2> HIDE DEF w
  <2>2. CASE key \in {"?", "a"}
    <3>1. w = Open(v, "shortcuts") \/ w = Open(v, "alarm") BY <2>1, <2>2
    <3>2. "shortcuts" \in Sheets /\ "alarm" \in Sheets BY DEF Sheets
    <3> QED BY <1>1, <3>1, <3>2, SheetsStay
  <2>3. CASE key = "Escape" /\ v.panel # "none"
    <3>1. w = SetPanel(v, "none") BY <2>1, <2>3
    <3> QED BY <1>1, <3>1, PanelsStay
  <2>4. CASE key = "Escape" /\ v.panel = "none"
    <3>1. w = [v EXCEPT !.leaving = TRUE] BY <2>1, <2>4
    <3>2. w \in OpenViews BY <3>1 DEF OpenViews
    <3>3. OnThePage(v) BY <1>5, <2>4 DEF OnThePage, OpenViews, MenuOwnsKeys
    <3> QED BY <3>2, <3>3 DEF LeavesRight
  <2>5. CASE key \notin {"?", "a", "Escape"}
    <3>1. key \in DOMAIN PanelKey BY <1>5, <2>5 DEF Keys
    <3>2. PanelKey[key] \in Panels BY <3>1 DEF PanelKey, Panels
    <3>3. w = v \/ w = TogglePanel(v, PanelKey[key]) BY <2>1, <2>5
    <3> QED BY <1>1, <3>2, <3>3, PanelsStay
  <2> QED BY <2>2, <2>3, <2>4, <2>5
<1> QED BY <1>2, <1>3, <1>4, <1>5

LEMMA ShellKeyLeavesRight ==
    ASSUME NEW v \in OpenViews, NEW key \in Keys, NEW focused
    PROVE  ShellKey(v, key, focused) \in OpenViews /\ LeavesRight(v, ShellKey(v, key, focused))
<1> DEFINE w == ShellKey(v, key, focused)
<1> SUFFICES w \in OpenViews /\ LeavesRight(v, w) OBVIOUS
<1>1. \/ capture # <<>> /\ w = CaptureEscape(v, Head(capture))
      \/ w \in {v, CloseMore(v), PanelEscape(v), TogglePalette(v), Open(v, "shortcuts")}
      \/ w = HandleKeyAction(v, key)
  BY DEF ShellKey
<1> HIDE DEF w
<1>2. "shortcuts" \in Sheets BY DEF Sheets
<1>3. CASE capture # <<>> /\ w = CaptureEscape(v, Head(capture))
  BY <1>3, CapturesStay DEF LeavesRight
<1>4. CASE w \in {v, CloseMore(v), PanelEscape(v), TogglePalette(v), Open(v, "shortcuts")}
  BY <1>2, <1>4, SheetsStay, PanelsStay DEF LeavesRight
<1>5. CASE w = HandleKeyAction(v, key) BY <1>5, KeyActionLeavesRight
<1> QED BY <1>1, <1>3, <1>4, <1>5

(* Clicks on what is open.                                                 *)
LEMMA ClicksStay ==
    ASSUME NEW v \in OpenViews
    PROVE  /\ Left(v) \in OpenViews /\ Left(v).leaving = FALSE
           /\ \A s \in BOOLEAN : Entered(v, s) \in OpenViews /\ Entered(v, s).leaving = FALSE
           /\ \A a \in BOOLEAN : LET w == [v EXCEPT !.alarm = a]
                                IN  w \in OpenViews /\ w.leaving = v.leaving
           /\ \A a \in BOOLEAN, b \in BOOLEAN : LET w == [v EXCEPT !.alarm = a, !.ringing = b]
                                IN  w \in OpenViews /\ w.leaving = v.leaving
BY DEF OpenViews, Left, Entered

LEMMA ChromeLeavesRight ==
    ASSUME OverlaysInv, ClickChrome
    PROVE  view' \in OpenViews /\ LeavesRight(view, view')
<1>1. view \in OpenViews /\ Layers(view) = {} /\ view.panel = "none"
  BY DEF OverlaysInv, ClickChrome, Covered
<1>2. ASSUME view'.leaving = view.leaving PROVE LeavesRight(view, view')
  BY <1>2 DEF LeavesRight
<1>3. CASE view' = [view EXCEPT !.more = ~@]
  BY <1>1, <1>2, <1>3 DEF OpenViews
<1>4. CASE view' = CloseMore(view) BY <1>1, <1>2, <1>4, PanelsStay
<1>5. ASSUME NEW p \in Panels, view' = TogglePanel(CloseMore(view), p)
      PROVE  view' \in OpenViews /\ LeavesRight(view, view')
  <2>1. CloseMore(view) \in OpenViews /\ CloseMore(view).leaving = view.leaving
    BY <1>1, PanelsStay
  <2> QED BY <1>2, <1>5, <2>1, PanelsStay
<1>6. CASE view' = Open(CloseMore(view), "alarm")
  <2>1. CloseMore(view) \in OpenViews /\ CloseMore(view).leaving = view.leaving
    BY <1>1, PanelsStay
  <2>2. "alarm" \in Sheets BY DEF Sheets
  <2> QED BY <1>2, <1>6, <2>1, <2>2, SheetsStay
<1>7. CASE ~view.more /\ view' = [view EXCEPT !.leaving = TRUE]
  <2>1. view' \in OpenViews BY <1>1, <1>7 DEF OpenViews
  <2>2. view.sheets = {} BY <1>1 DEF Layers
  <2>3. OnThePage(view) BY <1>1, <1>7, <2>2 DEF OnThePage, OpenViews
  <2> QED BY <2>1, <2>3 DEF LeavesRight
<1> QED BY <1>3, <1>4, <1>5, <1>6, <1>7 DEF ClickChrome, Becomes

LEMMA PanelClicksStay ==
    ASSUME OverlaysInv, ClickPanel
    PROVE  view' \in OpenViews /\ view'.leaving = view.leaving
<1>1. view \in OpenViews BY DEF OverlaysInv
<1>2. CASE view' = SetPanel(view, "none") BY <1>1, <1>2, PanelsStay
<1>3. CASE view' = [view EXCEPT !.draft = TRUE] BY <1>1, <1>3 DEF OpenViews
<1>4. CASE view.panel = "settings" /\ view' = [view EXCEPT !.theme = "open"]
  BY <1>1, <1>4 DEF OpenViews
<1>5. CASE view' = Open(view, "alarm")
  <2>1. "alarm" \in Sheets BY DEF Sheets
  <2> QED BY <1>1, <1>5, <2>1, SheetsStay
<1> QED BY <1>2, <1>3, <1>4, <1>5 DEF ClickPanel, Becomes

LEMMA ThemeClicksStay ==
    ASSUME OverlaysInv, ClickTheme
    PROVE  view' \in OpenViews /\ view'.leaving = view.leaving
<1>1. view \in OpenViews BY DEF OverlaysInv
<1>2. PICK t \in {"none", "open", "saving"} : view' = [view EXCEPT !.theme = t]
  BY DEF ClickTheme, Becomes
<1>3. view.theme # "none" BY DEF ClickTheme
<1> QED BY <1>1, <1>2, <1>3 DEF OpenViews

(* A command of the palette, the other sheets, and the alarm.              *)
LEMMA SheetClicksStay ==
    ASSUME OverlaysInv, Choose \/ SubmitAlarm \/ AboutToShortcuts \/ CloseSheet \/ OverlayFailure
    PROVE  view' \in OpenViews /\ (view'.leaving => view.leaving)
<1>1. view \in OpenViews BY DEF OverlaysInv
<1>2. CloseOverlays(view) \in OpenViews /\ CloseOverlays(view).leaving = view.leaving
  BY <1>1, SheetsStay
<1>3. CASE Choose
  <2>1. CASE view' = Left(CloseOverlays(view)) BY <1>2, <2>1, ClicksStay
  <2>2. ASSUME NEW s \in {"shortcuts", "about"}, view' = Open(CloseOverlays(view), s)
        PROVE  view' \in OpenViews /\ (view'.leaving => view.leaving)
    <3>1. s \in Sheets BY DEF Sheets
    <3> QED BY <1>2, <2>2, <3>1, SheetsStay
  <2> QED BY <1>3, <2>1, <2>2 DEF Choose, Becomes
<1>4. CASE SubmitAlarm
  <2>1. PICK a \in BOOLEAN : view' = [CloseOverlays(view) EXCEPT !.alarm = a]
    BY <1>4 DEF SubmitAlarm, Becomes
  <2> QED BY <1>2, <2>1, ClicksStay
<1>5. CASE AboutToShortcuts
  <2>1. "shortcuts" \in Sheets BY DEF Sheets
  <2> QED BY <1>1, <1>5, <2>1, SheetsStay DEF AboutToShortcuts, Becomes
<1>6. CASE CloseSheet \/ OverlayFailure
  BY <1>2, <1>6 DEF CloseSheet, OverlayFailure, Becomes
<1> QED BY <1>3, <1>4, <1>5, <1>6

LEMMA AlarmRingsInPlace ==
    ASSUME OverlaysInv, Ring \/ ClickRing
    PROVE  view' \in OpenViews /\ view'.leaving = view.leaving
<1>1. view \in OpenViews /\ view.alarm \in BOOLEAN BY DEF OverlaysInv, OpenViews
<1>2. PICK a \in BOOLEAN, b \in BOOLEAN : view' = [view EXCEPT !.alarm = a, !.ringing = b]
  <2>1. CASE Ring BY <2>1 DEF Ring, Becomes
  <2>2. CASE ClickRing
    <3>1. PICK a \in {view.alarm, TRUE} : view' = [view EXCEPT !.ringing = FALSE, !.alarm = a]
      BY <2>2 DEF ClickRing, Becomes
    <3>2. a \in BOOLEAN BY <1>1
    <3>3. [view EXCEPT !.ringing = FALSE, !.alarm = a] = [view EXCEPT !.alarm = a, !.ringing = FALSE]
      BY <1>1 DEF OpenViews
    <3> QED BY <3>1, <3>2, <3>3
  <2> QED BY <2>1, <2>2
<1> QED BY <1>1, <1>2, ClicksStay

LEMMA OverlaysStep ==
    ASSUME OverlaysInv, [OverlaysNext]_overlayVars
    PROVE  OverlaysInv' /\ LeavesRight(view, view')
<1>1. view \in OpenViews /\ posted \in Seq(Keys) BY DEF OverlaysInv
<1>2. posted' \in Seq(Keys)
  <2>1. \A key \in Keys : Append(posted, key) \in Seq(Keys) BY <1>1
  <2>2. posted # <<>> => Tail(posted) \in Seq(Keys) BY <1>1
  <2>3. <<>> \in Seq(Keys) OBVIOUS
  <2>4. CASE EnterBook \/ Depart \/ SignedOut BY <2>3, <2>4 DEF EnterBook, Depart, SignedOut
  <2>5. CASE PressInBook BY <2>1, <2>5 DEF PressInBook
  <2>6. CASE FrameKeyArrives BY <2>2, <2>6 DEF FrameKeyArrives
  <2>7. CASE Choose BY <1>1, <2>3, <2>7 DEF Choose
  <2>8. CASE BookArrives \/ PressInShell \/ ClickPanel \/ ClickTheme
    BY <1>1, <2>8 DEF BookArrives, PressInShell, ClickPanel, ClickTheme
  <2>9. CASE ClickChrome BY <1>1, <2>9 DEF ClickChrome
  <2>10. CASE SubmitAlarm \/ AboutToShortcuts \/ CloseSheet \/ OverlayFailure \/ Ring \/ ClickRing
    BY <1>1, <2>10 DEF SubmitAlarm, AboutToShortcuts, CloseSheet, OverlayFailure, Ring, ClickRing
  <2>11. CASE UNCHANGED overlayVars BY <1>1, <2>11 DEF overlayVars
  <2> QED BY <2>4, <2>5, <2>6, <2>7, <2>8, <2>9, <2>10, <2>11 DEF OverlaysNext
<1>3. view' \in OpenViews /\ LeavesRight(view, view')
  <2>1. ASSUME view' \in OpenViews, view'.leaving => view.leaving
        PROVE  view' \in OpenViews /\ LeavesRight(view, view')
    BY <2>1 DEF LeavesRight
  <2>2. CASE EnterBook
    <3>1. PICK s \in BOOLEAN : view' = Entered(view, s) BY <2>2 DEF EnterBook, Becomes
    <3> QED BY <1>1, <2>1, <3>1, ClicksStay
  <2>3. CASE BookArrives
    <3>1. view' = [view EXCEPT !.loaded = TRUE] BY <2>3 DEF BookArrives, Becomes
    <3>2. view' \in OpenViews /\ view'.leaving = view.leaving BY <1>1, <3>1 DEF OpenViews
    <3> QED BY <2>1, <3>2
  <2>4. CASE Depart BY <1>1, <2>1, <2>4, ClicksStay DEF Depart, Becomes
  <2>5. CASE PressInShell
    <3>1. PICK key \in Keys, f \in FocusIn(view) : view' = ShellKey(view, key, f)
      BY <2>5 DEF PressInShell, Becomes
    <3> QED BY <1>1, <3>1, ShellKeyLeavesRight
  <2>6. CASE PressInBook BY <1>1, <2>1, <2>6 DEF PressInBook
  <2>7. CASE FrameKeyArrives
    <3>1. Head(posted) \in Keys BY <1>1, <2>7 DEF FrameKeyArrives
    <3>2. view' = CloseOverlays(view) \/ view' = HandleKeyAction(view, Head(posted))
      BY <2>7 DEF FrameKeyArrives, Becomes, HandleFrameKey
    <3> QED BY <1>1, <2>1, <3>1, <3>2, SheetsStay, KeyActionLeavesRight
  <2>8. CASE ClickChrome BY <2>8, ChromeLeavesRight
  <2>9. CASE ClickPanel BY <2>1, <2>9, PanelClicksStay
  <2>10. CASE ClickTheme BY <2>1, <2>10, ThemeClicksStay
  <2>11. CASE Choose \/ SubmitAlarm \/ AboutToShortcuts \/ CloseSheet \/ OverlayFailure
    BY <2>1, <2>11, SheetClicksStay
  <2>12. CASE Ring \/ ClickRing BY <2>1, <2>12, AlarmRingsInPlace
  <2>13. CASE SignedOut
    <3>1. view' = Left(CloseOverlays(view)) BY <2>13 DEF SignedOut, Becomes
    <3> QED BY <1>1, <2>1, <3>1, SheetsStay, ClicksStay
  <2>14. CASE UNCHANGED overlayVars BY <1>1, <2>1, <2>14 DEF overlayVars
  <2> QED BY <2>2, <2>3, <2>4, <2>5, <2>6, <2>7, <2>8, <2>9, <2>10, <2>11, <2>12, <2>13, <2>14
          DEF OverlaysNext
<1> QED BY <1>2, <1>3 DEF OverlaysInv

LEMMA OverlaysStart == OverlaysInit => OverlaysInv
BY DEF OverlaysInit, OverlaysInv, OpenViews, Sheets, Panels

(* A theme is edited from the settings panel only, and every key on its    *)
(* way is one of the reader's.                                             *)
THEOREM OverlaysStay == OverlaysSpec => []OverlaysInv
BY OverlaysStart, OverlaysStep, PTL DEF OverlaysSpec

(* The reader starts to leave the book only with no sheet, panel, dialog   *)
(* or menu open, for any number of keys on their way (Read.tsx).           *)
THEOREM LeavesOnlyThePage == OverlaysSpec => LeavesFromThePage
<1>1. OverlaysInv /\ [OverlaysNext]_overlayVars =>
        [(~view.leaving /\ view'.leaving) =>
            /\ view.sheets = {} /\ view.theme = "none"
            /\ view.panel = "none" /\ ~view.more]_overlayVars
  BY OverlaysStep DEF LeavesRight, OnThePage
<1> QED BY <1>1, OverlaysStay, PTL DEF OverlaysSpec, LeavesFromThePage

=============================================================================
