------------------------------- MODULE Editors -------------------------------
(***************************************************************************)
(* The parts of the editors' extensions that keep state of their own. They *)
(* share nothing, so a behaviour follows one of them.                      *)
(***************************************************************************)
EXTENDS DevWatch, BundledServer, ZedInstall

VARIABLE part

Init ==
    /\ part \in {"watch", "bundle", "zed"}
    /\ WatchInit /\ BundleInit /\ ZedInit

Next ==
    \/ part = "watch" /\ WatchNext /\ UNCHANGED <<part, bundleVars, zedVars>>
    \/ part = "bundle" /\ BundleNext /\ UNCHANGED <<part, watchVars, zedVars>>
    \/ part = "zed" /\ ZedNext /\ UNCHANGED <<part, watchVars, bundleVars>>

Spec == Init /\ [][Next]_<<part, watchVars, bundleVars, zedVars>>

(* The types of all three; VS Code restarts one server at a time.          *)
TypeOK == WatchTypeOK /\ BundleTypeOK /\ ZedTypeOK
=============================================================================
