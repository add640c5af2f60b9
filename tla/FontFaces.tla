------------------------------ MODULE FontFaces ------------------------------
(***************************************************************************)
(* The user fonts of a browser tab: the registry that reads and rescans    *)
(* the families one request at a time (lib/fontRegistry.ts), the token     *)
(* every answer carries and the font URLs use (api/client.ts), the watch   *)
(* that re-reads when the server is back, and the calibration that sizes   *)
(* the active face by its measured ink (lib/fontMeasure.ts, Read.tsx).     *)
(* The server mints its token once per process and scans its directory     *)
(* once, or when asked.                                                    *)
(***************************************************************************)
EXTENDS Integers, Sequences, FiniteSets

CONSTANTS
    Files,    \* the files a family may use for its regular face
    MaxBoots, \* processes of the server
    MaxDisk,  \* contents of the font directory
    MaxScans, \* operations of the registry waiting at once
    MaxErrors \* answers that are neither a refusal nor a list

VARIABLES
    fontServer,  \* is it up, its token, the list it scanned (0: none yet)
    disk,        \* what is in the font directory
    registry,    \* the token and list published, what is under way, the operations waiting
    flights,     \* operations whose request is under way
    reachable,   \* what the tab believes of the server
    active,      \* the regular file chosen for the reading family
    probes,      \* measurements: of the published family or an older object, live or cleaned up
    calibration, \* the measured ratio the page keeps, of which face
    sized,       \* history: the face in use has been measured
    errors,      \* errors spent
    unseen       \* history: something happened that no recovery edge followed

fontVars == <<fontServer, disk, registry, flights, reachable, active, probes, calibration, sized,
              errors, unseen>>

FontRequest(op) == [op |-> op, got |-> "none", token |-> 0, list |-> 0]
None == [current |-> FALSE, file |-> "none"]

FontsInit ==
    /\ fontServer = [up |-> TRUE, token |-> 1, list |-> 0]
    /\ disk = 1
    /\ registry = [token |-> 0, list |-> 0, loaded |-> FALSE, loading |-> FALSE,
                   rescanning |-> FALSE, queue |-> <<>>]
    /\ flights = {} /\ reachable = TRUE
    /\ active \in Files
    /\ probes = {} /\ calibration = None /\ sized = FALSE
    /\ errors = 0 /\ unseen = FALSE

-----------------------------------------------------------------------------
(* The registry: load shares the load in flight and does nothing once a    *)
(* list is held; rescan and reload always join the queue.                  *)

EnqueueList(r, op) == [r EXCEPT !.queue = Append(@, op)]
Load(r) == IF r.loaded \/ r.loading THEN r ELSE EnqueueList([r EXCEPT !.loading = TRUE], "load")
Reload(r) == EnqueueList(r, "reload")

(* Faulty WatchReachability: load() ignores it when there is a list.       *)
LoadsOnRecovery(r) == Load(r)

(* watchReachability: on the edge back, re-read a list that is held, else  *)
(* run the load that was missed.                                           *)
WatchReachability(r) == IF r.loaded THEN Reload(r) ELSE Load(r)

(* The first list, answered by the process before and not yet delivered:   *)
(* the edge finds nothing loaded and joins or queues a load, which that    *)
(* list makes a no-op, so its token stays until the next edge.             *)
Overtaken == /\ ~registry.loaded
             /\ \E a \in flights : a.got = "ok" /\ a.token # fontServer.token

(* A request's outcome reports reachability; the edge back runs the watch. *)
Reports(back, r) ==
    LET edge == back /\ ~reachable
    IN  /\ reachable' = back
        /\ registry' = IF edge THEN WatchReachability(r) ELSE r
        /\ unseen' = IF edge THEN Overtaken ELSE unseen

RoomForRequest == Len(registry.queue) < MaxScans

Mount == /\ RoomForRequest /\ registry' = Load(registry)
         /\ UNCHANGED <<fontServer, disk, flights, reachable, active, probes, calibration, sized, errors,
                        unseen>>

(* The settings panel refuses a second rescan while one runs.              *)
RescanFonts == /\ ~registry.rescanning /\ RoomForRequest
          /\ registry' = EnqueueList([registry EXCEPT !.rescanning = TRUE], "rescan")
          /\ UNCHANGED <<fontServer, disk, flights, reachable, active, probes, calibration, sized, errors,
                         unseen>>

Serialized == flights = {}

(* The queue's head runs; a load that finds a list already held is done.   *)
StartNext ==
    /\ registry.queue # <<>> /\ Serialized
    /\ LET op == Head(registry.queue)
           r == [registry EXCEPT !.queue = Tail(@)]
       IN  IF op = "load" /\ registry.loaded
           THEN registry' = [r EXCEPT !.loading = FALSE] /\ UNCHANGED flights
           ELSE registry' = r /\ flights' = flights \cup {FontRequest(op)}
    /\ UNCHANGED <<fontServer, disk, reachable, active, probes, calibration, sized, errors, unseen>>

-----------------------------------------------------------------------------
(* The server.                                                             *)

ServeFonts ==
    \E a \in flights :
        /\ a.got = "none"
        /\ IF fontServer.up
           THEN LET list == IF a.op = "rescan" \/ fontServer.list = 0 THEN disk ELSE fontServer.list
                IN  /\ fontServer' = [fontServer EXCEPT !.list = list]
                    /\ flights' = (flights \ {a})
                              \cup {[a EXCEPT !.got = "ok", !.token = fontServer.token, !.list = list]}
           ELSE flights' = (flights \ {a}) \cup {[a EXCEPT !.got = "refused"]} /\ UNCHANGED fontServer
        /\ UNCHANGED <<disk, registry, reachable, active, probes, calibration, sized, errors, unseen>>

(* A timeout, or an answer that is an error: it reports nothing down.      *)
Err == /\ errors < MaxErrors
       /\ errors' = errors + 1
       /\ \E a \in flights : /\ a.got \in {"none", "ok"}
                         /\ flights' = (flights \ {a}) \cup {[a EXCEPT !.got = "error"]}
       /\ unseen' = TRUE
       /\ UNCHANGED <<fontServer, disk, registry, reachable, active, probes, calibration, sized>>

Quit == /\ fontServer.up /\ fontServer' = [fontServer EXCEPT !.up = FALSE]
        /\ UNCHANGED <<disk, registry, flights, reachable, active, probes, calibration, sized, errors,
                       unseen>>

(* A restart while the tab believes the server up may pass unnoticed.      *)
BootTab == /\ ~fontServer.up /\ fontServer.token < MaxBoots
        /\ fontServer' = [up |-> TRUE, token |-> fontServer.token + 1, list |-> 0]
        /\ unseen' = (unseen \/ reachable)
        /\ UNCHANGED <<disk, registry, flights, reachable, active, probes, calibration, sized, errors>>

Install == /\ disk < MaxDisk /\ disk' = disk + 1
           /\ UNCHANGED <<fontServer, registry, flights, reachable, active, probes, calibration, sized,
                          errors, unseen>>

-----------------------------------------------------------------------------

(* The effect on the active face: its cleanup aborts the measurement of    *)
(* the face before, and the face of a family that is known is measured.    *)
Remeasure(ps, known, file) ==
    /\ probes' = {[p EXCEPT !.live = FALSE] : p \in ps}
                 \cup (IF known THEN {[current |-> TRUE, file |-> file, live |-> TRUE]} ELSE {})
    /\ sized' = FALSE

(* #publish makes the objects of the list before old ones.                 *)
Outdated(face) == [face EXCEPT !.current = FALSE]

(* acceptFontsResponse and #publish: token and list of one answer.         *)
Publish(r, a) == [r EXCEPT !.token = a.token, !.list = a.list, !.loaded = TRUE]

Ended(r, op) == CASE op = "load" -> [r EXCEPT !.loading = FALSE]
                  [] op = "rescan" -> [r EXCEPT !.rescanning = FALSE]
                  [] op = "reload" -> r

SettleOk ==
    \E a \in flights :
        /\ a.got = "ok" /\ flights' = flights \ {a}
        /\ Reports(TRUE, Ended(Publish(registry, a), a.op))
        /\ Remeasure({Outdated(p) : p \in probes}, TRUE, active)
        /\ calibration' = Outdated(calibration)
        /\ UNCHANGED <<fontServer, disk, active, errors>>

SettleFailed ==
    \E a \in flights :
        /\ a.got \in {"refused", "error"} /\ flights' = flights \ {a}
        /\ IF a.got = "refused" THEN Reports(FALSE, Ended(registry, a.op))
           ELSE registry' = Ended(registry, a.op) /\ UNCHANGED <<reachable, unseen>>
        /\ UNCHANGED <<fontServer, disk, active, probes, calibration, sized, errors>>

(* Any other request of the tab, or the health poll of the banner.         *)
OtherRequest ==
    /\ reachable # fontServer.up /\ RoomForRequest
    /\ Reports(fontServer.up, registry)
    /\ UNCHANGED <<fontServer, disk, flights, active, probes, calibration, sized, errors>>

PickFile ==
    /\ \E f \in Files \ {active} : active' = f /\ Remeasure(probes, registry.loaded, f)
    /\ UNCHANGED <<fontServer, disk, registry, flights, reachable, calibration, errors, unseen>>

IsKept(p) == p.live

(* The face cannot be read, its glyphs agree on no ratio, or the           *)
(* measurement was aborted: nothing is kept.                               *)
MeasureFails ==
    \E p \in probes :
        /\ probes' = probes \ {p}
        /\ UNCHANGED <<fontServer, disk, registry, flights, reachable, active, calibration, sized,
                       errors, unseen>>

(* A measurement ends well; only one whose cleanup has not run is kept.    *)
Measured ==
    \E p \in probes :
        /\ IsKept(p)
        /\ probes' = probes \ {p}
        /\ calibration' = [current |-> p.current, file |-> p.file]
        /\ sized' = (sized \/ p.live)
        /\ UNCHANGED <<fontServer, disk, registry, flights, reachable, active, errors, unseen>>

FontsNext ==
    \/ Mount \/ RescanFonts \/ StartNext \/ ServeFonts \/ Err \/ Quit \/ BootTab \/ Install
    \/ SettleOk \/ SettleFailed \/ OtherRequest \/ PickFile \/ MeasureFails
    \/ Measured

FontsSpec == FontsInit /\ [][FontsNext]_fontVars

-----------------------------------------------------------------------------

(* fontFaceCSS: the ratio sizes only the very family and file it is of.    *)
RatioInUse == calibration.current /\ calibration.file = active

(* A face that has been measured stays sized: no late result of the file   *)
(* or the list it replaced takes its ratio away (Read.tsx, the calibration *)
(* effect and fontFaceCSS).                                                *)
StaysSized == sized => RatioInUse

(* Once the tab has seen the server come back, and its requests have been  *)
(* answered, its font URLs carry the token of the running process          *)
(* (fontRegistry.ts, watchReachability).                                   *)
FontsHeal ==
    (reachable /\ fontServer.up /\ flights = {} /\ registry.queue = <<>> /\ ~unseen /\ registry.loaded)
        => registry.token = fontServer.token

(* The faces of the page are served by the running process and sized as    *)
(* measured.                                                               *)
FontsInOrder == StaysSized /\ FontsHeal
=============================================================================
