---------------------------- MODULE BookMachines ----------------------------
(* The server's side of a book, for TLC: changes of its file next to those *)
(* who read it, the move of stored positions, the parsed spine, the shared *)
(* ZIP readers, the folder the books lie in; and the throttle of logins.   *)
(* They share no variable, so a behaviour is one of theirs, with the       *)
(* others at rest.                                                         *)
EXTENDS BookFiles, LoginThrottle, SpineCache, EPUBStore, ChapterRemap, LibraryFolder

VARIABLE machine   \* which one runs

bookMachineVars == <<machine, bvars, throttleVars, spineVars, storeVars, remapVars, folderVars>>

(* Two profiles that one client tries, and one that another does.          *)
TwoClients == [k \in Keys |-> IF k \in {"ana@home", "ben@home"} THEN "home" ELSE "away"]

(* Neither paths nor contents differ from one another, so a folder is one  *)
(* of these with its names exchanged: empty, or with a file at this path.  *)
FolderUpToNames ==
    LET p == CHOOSE x \in EPUBPaths : TRUE
        c == CHOOSE x \in Contents : TRUE
    IN  IF folder[p] = NoFile THEN \A x \in EPUBPaths : folder[x] = NoFile ELSE folder[p] = c

BookMachinesInit ==
    /\ machine \in {"files", "throttle", "spine", "store", "remap", "folder"}
    /\ BookFilesInit /\ ThrottleInit /\ SpineInit /\ StoreInit
    /\ RemapInit /\ (machine # "remap" => Len(spine) = 1 /\ spine[1] = CHOOSE h \in Hrefs : TRUE)
    /\ FolderInit /\ FolderUpToNames
    /\ (machine # "folder" => \A p \in EPUBPaths : folder[p] = NoFile)

BookMachinesNext ==
    /\ UNCHANGED machine
    /\ \/ /\ machine = "files" /\ BookFilesNext
          /\ UNCHANGED <<throttleVars, spineVars, storeVars, remapVars, folderVars>>
       \/ /\ machine = "throttle" /\ ThrottleNext
          /\ UNCHANGED <<bvars, spineVars, storeVars, remapVars, folderVars>>
       \/ /\ machine = "spine" /\ SpineNext
          /\ UNCHANGED <<bvars, throttleVars, storeVars, remapVars, folderVars>>
       \/ /\ machine = "store" /\ StoreNext
          /\ UNCHANGED <<bvars, throttleVars, spineVars, remapVars, folderVars>>
       \/ /\ machine = "remap" /\ RemapNext
          /\ UNCHANGED <<bvars, throttleVars, spineVars, storeVars, folderVars>>
       \/ /\ machine = "folder" /\ FolderNext
          /\ UNCHANGED <<bvars, throttleVars, spineVars, storeVars, remapVars>>

BookMachinesSpec == BookMachinesInit /\ [][BookMachinesNext]_bookMachineVars
=============================================================================
