----------------------------- MODULE MCServer -----------------------------
(***************************************************************************)
(* Instances of Server for TLC.                                            *)
(***************************************************************************)
EXTENDS Server, TLC

(* Texts: an anchor that defines nothing, two fragments (the second with   *)
(* OTTL), a complete config, something else.                               *)
Plain == [ hasPipelines |-> FALSE, hasFragmentKeys |-> FALSE, otelcolKeys |-> 0,
           directive |-> <<>>, bare |-> {}, marker |-> FALSE, anchorShaped |-> FALSE, ottl |-> FALSE ]
Anchor   == [ Plain EXCEPT !.hasPipelines = TRUE, !.otelcolKeys = 1, !.anchorShaped = TRUE ]
Fragment == [ Plain EXCEPT !.hasFragmentKeys = TRUE, !.otelcolKeys = 1 ]
WithOttl == [ Fragment EXCEPT !.ottl = TRUE ]

MCShape == [ c \in Contents |->
    CASE c \in {"anchor", "anchor2"} -> Anchor
      [] c \in {"frag", "frag2"}     -> Fragment
      [] c = "ottl"                  -> WithOttl
      [] OTHER                       -> Plain ]

(* The files, in walk order and in path order.                             *)
Rank == [ f |-> 1, p |-> 2, e |-> 3, y |-> 4, q |-> 5, s |-> 6, c |-> 7 ]
MCOrder == [ S \in SUBSET Uris |-> SetToSortSeq(S, LAMBDA u, v : Rank[u] < Rank[v]) ]

(* prod is the workspace folder; lab lies outside it.                      *)
Layout == [ f |-> <<"prod">>, p |-> <<"prod">>, y |-> <<"prod">>, e |-> <<"prod", "eu">>,
            c |-> <<"prod">>, q |-> <<"lab">>, s |-> <<"lab", "sub">> ]
MCDirOf == [ u \in Uris |-> Layout[u] ]
MCLang == [ u \in Uris |-> IF u \in {"y", "c"} THEN "yaml" ELSE "otelcol" ]

Base == [ autoDiscover |-> TRUE, maxFilesScanned |-> 2000, attachToYaml |-> FALSE,
          distribution |-> "contrib", ottl |-> FALSE ]
Core == [ Base EXCEPT !.distribution = "core" ]
NoDiscovery == [ Base EXCEPT !.autoDiscover = FALSE ]
Forwarding  == [ Base EXCEPT !.ottl = TRUE ]

Attaching   == [ Base EXCEPT !.attachToYaml = TRUE ]
ProdFolder == << <<"prod">> >>

NoSidecars     == [ d \in Dirs |-> NoSidecar ]
NoSidecarEdits == [ d \in Dirs |-> {} ]
FirstDisk(disk) == { [ u \in Uris |-> IF u \in DOMAIN disk THEN disk[u] ELSE None ] }

(* run "server": an anchor and a fragment in prod, a nested directory that *)
(* may become a set of its own, discovery switched on and off.             *)
OneSet == FirstDisk([ f |-> "frag", p |-> "anchor" ])
FragOrAnchor == [ f |-> {"frag", "frag2", None}, p |-> {"anchor", "frag", None},
                  e |-> {"frag", "anchor", None} ]
SettingsPlain == { Base, NoDiscovery }

(* run "roots": a plain yaml fragment in prod, a set outside the folders,  *)
(* a sidecar that claims the fragment for prod's anchor, and is opened.    *)
Outside == FirstDisk([ p |-> "anchor", y |-> "frag", q |-> "anchor" ])
OutsideTexts == [ p |-> {"anchor"}, y |-> {"frag", "frag2", "other"},
                  q |-> {"anchor", "frag"}, s |-> {"frag", None}, c |-> {"other"} ]
ProdSidecar == [ d \in Dirs |->
    IF d = <<"prod">> THEN { NoSidecar,
                             [ exists |-> TRUE, valid |-> TRUE, members |-> <<"p", "y">> ] }
                      ELSE {} ]
SettingsYaml == { Base, Attaching }

(* Nothing happens before the server has initialized.                      *)
QuietNext == Next /\ (phase = "starting" => phase' = "running")
QuietSpec == Init /\ [][QuietNext]_vars /\ Fairness

(* run "forward": OTTL blocks go to the forwarder; no file changes its set.*)
ForwardTexts == [ f |-> {"frag", "ottl"}, p |-> {"anchor"} ]
SettingsForward == { Base, Forwarding }

(* run "shared": two anchors in one directory, and their fragment.         *)
TwoAnchors == FirstDisk([ f |-> "anchor", p |-> "anchor", e |-> "frag" ])
TwoAnchorTexts == [ f |-> {"anchor"}, p |-> {"anchor"}, e |-> {"frag"} ]
=============================================================================
