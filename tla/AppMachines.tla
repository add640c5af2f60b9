---------------------------- MODULE AppMachines ----------------------------
(* The parts of the app around its reader, for TLC.  They share no         *)
(* variable, so a behaviour is one of theirs, with the others at rest.     *)
EXTENDS MCClientSession, SettingsSync, ThemeStore, LibraryView, FocusTraps,
        Overlays, FontFaces, DevicePrefs, ShellPaint, LoginScreen

VARIABLE machine   \* which one runs

appVars == <<machine, sessionVars, settingsVars, themeVars, libraryVars,
              trapVars, overlayVars, fontVars, prefsVars, paintVars, loginVars>>

AppMachinesInit ==
    /\ machine \in {"session", "settings", "themes", "library", "traps",
                    "overlays", "fonts", "prefs", "paint", "login"}
    /\ SessionInit
    /\ (machine # "session" => ~up /\ granted = 0)
    /\ SettingsInit
    /\ ThemeInit
    /\ (machine # "themes" => chosen = [p \in Owners |-> 0])
    /\ LibraryInit
    /\ (machine # "library" => shelves = [p \in Readers |-> [v \in Volumes |-> Gone]])
    /\ FocusTrapsInit
    /\ (machine # "traps" => ground.at = 0 /\ focus = "body")
    /\ OverlaysInit
    /\ FontsInit
    /\ (machine # "fonts" => active = CHOOSE f \in Files : TRUE)
    /\ PrefsInit
    /\ PaintInit
    /\ LoginInit
    /\ (machine # "login" => roster = {})

AppMachinesNext ==
    /\ UNCHANGED machine
    /\ \/ /\ machine = "session" /\ SessionNext
          /\ UNCHANGED <<settingsVars, themeVars, libraryVars, trapVars,
                         overlayVars, fontVars, prefsVars, paintVars, loginVars>>
       \/ /\ machine = "settings" /\ SettingsNext
          /\ UNCHANGED <<sessionVars, themeVars, libraryVars, trapVars,
                         overlayVars, fontVars, prefsVars, paintVars, loginVars>>
       \/ /\ machine = "themes" /\ ThemeNext
          /\ UNCHANGED <<sessionVars, settingsVars, libraryVars, trapVars,
                         overlayVars, fontVars, prefsVars, paintVars, loginVars>>
       \/ /\ machine = "library" /\ LibraryNext
          /\ UNCHANGED <<sessionVars, settingsVars, themeVars, trapVars,
                         overlayVars, fontVars, prefsVars, paintVars, loginVars>>
       \/ /\ machine = "traps" /\ FocusTrapsNext
          /\ UNCHANGED <<sessionVars, settingsVars, themeVars, libraryVars,
                         overlayVars, fontVars, prefsVars, paintVars, loginVars>>
       \/ /\ machine = "overlays" /\ OverlaysNext
          /\ UNCHANGED <<sessionVars, settingsVars, themeVars, libraryVars,
                         trapVars, fontVars, prefsVars, paintVars, loginVars>>
       \/ /\ machine = "fonts" /\ FontsNext
          /\ UNCHANGED <<sessionVars, settingsVars, themeVars, libraryVars,
                         trapVars, overlayVars, prefsVars, paintVars, loginVars>>
       \/ /\ machine = "prefs" /\ PrefsNext
          /\ UNCHANGED <<sessionVars, settingsVars, themeVars, libraryVars,
                         trapVars, overlayVars, fontVars, paintVars, loginVars>>
       \/ /\ machine = "paint" /\ PaintNext
          /\ UNCHANGED <<sessionVars, settingsVars, themeVars, libraryVars,
                         trapVars, overlayVars, fontVars, prefsVars, loginVars>>
       \/ /\ machine = "login" /\ LoginNext
          /\ UNCHANGED <<sessionVars, settingsVars, themeVars, libraryVars,
                         trapVars, overlayVars, fontVars, prefsVars, paintVars>>

(* SessionFairness, for the behaviours of the session.                     *)
AppFairness ==
    LET Runs == machine = "session" IN
    /\ \A k \in Kinds : /\ WF_sessionVars(Runs /\ (Serve(k) \/ Fail(k)))
                        /\ WF_sessionVars(Runs /\ Receive(k))
    /\ WF_sessionVars(Runs /\ Heartbeat) /\ SF_sessionVars(Runs /\ Serve("health"))

AppMachinesSpec == AppMachinesInit /\ [][AppMachinesNext]_appVars /\ AppFairness
=============================================================================
