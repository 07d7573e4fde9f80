------------------------------ MODULE DevWatch ------------------------------
(***************************************************************************)
(* The development watchers: a rebuild of server.js restarts the language  *)
(* server of the editor that runs it. VS Code (extension.ts:149-172) has   *)
(* one thread, a timer and a flag; JetBrains (OtelcolDevWatcher.kt) a      *)
(* coroutine per restart, beside the restart action of its menu. What      *)
(* stops and starts the server is external, and may fail.                  *)
(***************************************************************************)
EXTENDS Integers

CONSTANTS
    MaxBuilds,    \* how often the bundle is rebuilt
    MaxRestarts   \* how many restarts may be under way at once

ASSUME WatchAssumption == MaxBuilds \in Nat /\ MaxRestarts \in Nat \ {0}

VARIABLES
    editor,       \* the editor that watches
    built,        \* the latest build of server.js, numbered
    whole,        \* it is completely written
    touched,      \* a change of the file is not yet noticed
    debounce,     \* the 300 ms of the latest noticed change run
    restarting,   \* VS Code's flag
    stopping,     \* restarts that are about to stop the server
    starting,     \* restarts that have stopped it and are about to start it
    running,      \* the build the server runs, NoServer if it does not
    excused       \* history: the last rebuild's restart was dropped or failed
watchVars == <<editor, built, whole, touched, debounce, restarting,
               stopping, starting, running, excused>>

NoServer == 0
UnderWay == stopping + starting

(* VS Code's flag is set just while a restart of its is under way.         *)
WatchTypeOK ==
    /\ editor \in {"vscode", "jetbrains"}
    /\ built \in 1..(MaxBuilds + 1) /\ running \in {NoServer} \cup 1..built
    /\ stopping \in 0..MaxRestarts /\ starting \in 0..MaxRestarts
    /\ whole \in BOOLEAN /\ touched \in BOOLEAN /\ debounce \in BOOLEAN
    /\ restarting \in BOOLEAN /\ excused \in BOOLEAN
    /\ editor = "vscode" => UnderWay = IF restarting THEN 1 ELSE 0

WatchInit ==
    /\ editor \in {"vscode", "jetbrains"}
    /\ built = 1 /\ whole = TRUE /\ running = 1
    /\ touched = FALSE /\ debounce = FALSE /\ restarting = FALSE
    /\ stopping = 0 /\ starting = 0 /\ excused = FALSE

(* esbuild rewrites the file: it is cut to nothing, then filled.           *)
Rebuild ==
    /\ \/ whole /\ built <= MaxBuilds /\ whole' = FALSE /\ built' = built + 1
       \/ ~whole /\ whole' = TRUE /\ UNCHANGED built
    /\ touched' = TRUE
    /\ UNCHANGED <<editor, debounce, restarting, stopping, starting, running, excused>>

(* A turn of JetBrains' watch loop: the delay of the last change is        *)
(* cancelled. A restart past its delay does not suspend, and goes on.      *)
runWatcher ==
    /\ editor = "jetbrains" /\ touched
    /\ touched' = FALSE /\ debounce' = TRUE
    /\ UNCHANGED <<editor, built, whole, restarting, stopping, starting, running, excused>>

(* The delay is over.                                                      *)
delayed ==
    /\ editor = "jetbrains" /\ debounce /\ UnderWay < MaxRestarts
    /\ debounce' = FALSE
    /\ stopping' = stopping + 1 /\ excused' = FALSE
    /\ UNCHANGED <<editor, built, whole, touched, restarting, starting, running>>

(* The restart action of the menu, on a thread of its own.                 *)
actionPerformed ==
    /\ editor = "jetbrains" /\ UnderWay < MaxRestarts
    /\ stopping' = stopping + 1
    /\ UNCHANGED <<editor, built, whole, touched, debounce, restarting, starting, running, excused>>

(* trigger of VS Code: the timer is set again.                             *)
trigger ==
    /\ editor = "vscode" /\ touched
    /\ touched' = FALSE /\ debounce' = TRUE
    /\ UNCHANGED <<editor, built, whole, restarting, stopping, starting, running, excused>>

(* Mutant of timerFires: it does not ask whether a restart is under way.   *)
timerFiresAnyway ==
    /\ editor = "vscode" /\ debounce
    /\ debounce' = FALSE /\ restarting' = TRUE /\ stopping' = stopping + 1
    /\ excused' = (UnderWay > 0)
    /\ UNCHANGED <<editor, built, whole, touched, starting, running>>

(* Its timer: nothing is done while a restart is under way.                *)
timerFires ==
    /\ editor = "vscode" /\ debounce
    /\ debounce' = FALSE
    /\ IF restarting THEN UNCHANGED <<restarting, stopping>>
                     ELSE restarting' = TRUE /\ stopping' = stopping + 1
    /\ excused' = (UnderWay > 0)
    /\ UNCHANGED <<editor, built, whole, touched, starting, running>>

(* Mutant of settled: the flag is cleared after the await, not in finally. *)
settledUnlessThrown(thrown) == restarting' = (restarting /\ thrown)

(* The end of client.restart(), thrown or not: VS Code clears its flag.    *)
settled(thrown) == restarting' = FALSE

(* The server is stopped; it is started unless it runs already, with the   *)
(* build on the disk, which ends at once if that is not complete; or one   *)
(* of both throws and the restart is over.                                 *)
stopServer ==
    /\ stopping > 0
    /\ stopping' = stopping - 1 /\ starting' = starting + 1
    /\ running' = NoServer
    /\ UNCHANGED <<editor, built, whole, touched, debounce, restarting, excused>>
startServer ==
    /\ starting > 0
    /\ starting' = starting - 1
    /\ running' = IF running # NoServer THEN running ELSE IF whole THEN built ELSE NoServer
    /\ settled(FALSE)
    /\ UNCHANGED <<editor, built, whole, touched, debounce, stopping, excused>>
restartFails ==
    /\ \/ stopping > 0 /\ stopping' = stopping - 1 /\ UNCHANGED starting
       \/ starting > 0 /\ starting' = starting - 1 /\ UNCHANGED stopping
    /\ settled(TRUE) /\ excused' = TRUE
    /\ UNCHANGED <<editor, built, whole, touched, debounce, running>>

WatchNext == \/ Rebuild \/ runWatcher \/ delayed \/ actionPerformed \/ trigger \/ timerFires
             \/ stopServer \/ startServer \/ restartFails

(* When nothing is left to do, the server runs the latest build, however   *)
(* rebuilds, restarts and the menu's restarts met, unless the restart of   *)
(* the last rebuild failed or, in VS Code, fell into another one, which is *)
(* dropped (extension.ts:155). An earlier failure leaves no trace.         *)
LatestBuildRuns ==
    (whole /\ ~touched /\ ~debounce /\ UnderWay = 0) => (running = built \/ excused)
=============================================================================
