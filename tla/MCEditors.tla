------------------------------ MODULE MCEditors ------------------------------
(***************************************************************************)
(* Two bundles that share server.js and one file and differ in another,    *)
(* two projects, three sessions; two versions; three rebuilds.             *)
(***************************************************************************)
EXTENDS Editors

MCManifest == [old |-> <<"schema", "server.js">>, new |-> <<"server.js", "schema", "extra">>]
=============================================================================
