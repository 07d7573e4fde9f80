----------------------------- MODULE ZedInstall -----------------------------
(***************************************************************************)
(* The server of the Zed extension (otelcol.rs): found in the settings or  *)
(* on the PATH, or installed from npm in the version of the extension, or  *)
(* else in npm's latest; a copy from an earlier start serves when nothing  *)
(* can be installed. Every step that asks Zed or npm may fail.             *)
(***************************************************************************)
EXTENDS Integers, FiniteSets, FiniteSetsExt

CONSTANTS
    MaxVersion, \* of the npm package: they are numbered
    MaxStarts   \* how often Zed asks for the server's command

ASSUME VersionsAssumption == MaxVersion \in Nat \ {0} /\ MaxStarts \in Nat

VARIABLES
    wanted,      \* SERVER_VERSION: the version of the extension
    published,   \* the versions on npm
    installed,   \* the version in the extension's directory, or NotInstalled
    step,        \* where the call of language_server_command is
    status,      \* what Zed shows of the installation
    result,      \* what the last call returned
    starts,      \* calls so far
    hostFailed   \* history: a question to Zed, not an installation, failed in this call
zedVars == <<wanted, published, installed, step, status, result, starts, hostFailed>>

Versions == 1..MaxVersion
NotInstalled == 0

ZedTypeOK ==
    /\ wanted \in Versions /\ published \subseteq Versions
    /\ installed \in Versions \cup {NotInstalled}
    /\ step \in {"returned", "check", "install", "latest", "recheck", "node"}
    /\ status \in {"none", "checking", "downloading", "failed"}
    /\ result \in {"nothing", "other", "installed", "error"}
    /\ starts \in 0..MaxStarts /\ hostFailed \in BOOLEAN

ZedInit ==
    /\ wanted \in Versions /\ published \in SUBSET Versions /\ installed = NotInstalled
    /\ step = "returned" /\ status = "none" /\ result = "nothing"
    /\ starts = 0 /\ hostFailed = FALSE

returns(r, failed) == step' = "returned" /\ result' = r /\ hostFailed' = failed

(* The settings and the PATH come first; a script needs Zed's node.        *)
language_server_command ==
    /\ step = "returned" /\ starts < MaxStarts
    /\ starts' = starts + 1
    /\ \/ returns("other", FALSE) /\ UNCHANGED status
       \/ returns("error", TRUE) /\ UNCHANGED status
       \/ /\ step' = "check" /\ status' = "checking"
          /\ hostFailed' = FALSE /\ UNCHANGED result
    /\ UNCHANGED <<wanted, published, installed>>

(* ensure_server_installed: the version that is there.                     *)
checkInstalled ==
    /\ step = "check"
    /\ \/ /\ installed = wanted
          /\ step' = "node" /\ status' = "none"
          /\ UNCHANGED <<result, hostFailed>>
       \/ /\ installed # wanted
          /\ step' = "install" /\ status' = "downloading"
          /\ UNCHANGED <<result, hostFailed>>
       \/ returns("error", TRUE) /\ UNCHANGED status
    /\ UNCHANGED <<wanted, published, installed, starts>>

(* npm install, of one version: it may leave what was there, or nothing.   *)
npmInstalls(version, then) ==
    /\ version \in published
    /\ installed' = version /\ step' = then
npmFails(then) ==
    /\ installed' \in {installed, NotInstalled} /\ step' = then

installWanted ==
    /\ step = "install"
    /\ \/ npmInstalls(wanted, "node") /\ status' = "none"
       \/ npmFails("latest") /\ UNCHANGED status
    /\ UNCHANGED <<wanted, published, result, starts, hostFailed>>

installLatest ==
    /\ step = "latest"
    /\ \/ published # {} /\ npmInstalls(Max(published), "node") /\ status' = "none"
       \/ npmFails("recheck") /\ UNCHANGED status
    /\ UNCHANGED <<wanted, published, result, starts, hostFailed>>

(* Mutant of keepInstalled: any failure to install is an error.            *)
keepNothing ==
    /\ step = "recheck"
    /\ returns("error", FALSE) /\ status' = "failed"
    /\ UNCHANGED <<wanted, published, installed, starts>>

(* Nothing could be installed: a copy from before is kept.                 *)
keepInstalled ==
    /\ step = "recheck"
    /\ \/ installed = NotInstalled /\ returns("error", FALSE) /\ status' = "failed"
       \/ /\ installed # NotInstalled
          /\ step' = "node" /\ status' = "none"
          /\ UNCHANGED <<result, hostFailed>>
       \/ returns("error", TRUE) /\ UNCHANGED status
    /\ UNCHANGED <<wanted, published, installed, starts>>

(* node_binary_path, and the command.                                      *)
findNode ==
    /\ step = "node"
    /\ returns("installed", FALSE) \/ returns("error", TRUE)
    /\ UNCHANGED <<wanted, published, installed, status, starts>>

(* A release is published, maybe while a call is under way; the extension  *)
(* is updated between two calls.                                           *)
publish(version) ==
    /\ version \notin published
    /\ published' = published \cup {version}
    /\ UNCHANGED <<wanted, installed, step, status, result, starts, hostFailed>>
update(version) ==
    /\ step = "returned" /\ version > wanted
    /\ wanted' = version
    /\ UNCHANGED <<published, installed, step, status, result, starts, hostFailed>>

ZedNext == \/ language_server_command \/ checkInstalled \/ installWanted \/ installLatest
           \/ keepInstalled \/ findNode
           \/ \E version \in Versions : publish(version) \/ update(version)

(* A call that falls back on npm returns the installed copy exactly when   *)
(* there is one, whichever installations failed, and whatever was there    *)
(* before; otherwise Zed shows the failure. Nothing is left shown as       *)
(* checking or downloading. Only a question that Zed itself fails to       *)
(* answer is an error in any case, and leaves the status as it was.        *)
UsableVersionStarts ==
    (step = "returned" /\ ~hostFailed) =>
        /\ result = "installed" => installed # NotInstalled /\ status = "none"
        /\ result = "error" => installed = NotInstalled /\ status = "failed"
=============================================================================
