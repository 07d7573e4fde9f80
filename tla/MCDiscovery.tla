---------------------------- MODULE MCDiscovery ----------------------------
(***************************************************************************)
(* An instance of Discovery for TLC: three nested directories and one      *)
(* beside them, anchors and fragments anywhere, one explicit set.          *)
(***************************************************************************)
EXTENDS Discovery, TLC

Plain == [ hasPipelines |-> FALSE, hasFragmentKeys |-> FALSE, otelcolKeys |-> 0,
           directive |-> <<>>, bare |-> {}, marker |-> FALSE, anchorShaped |-> FALSE, ottl |-> FALSE ]
Anchor == [ Plain EXCEPT !.hasPipelines = TRUE ]

(* "full" is a complete configuration: an anchor that has fragment keys.   *)
(* "listing" is an anchor with a directive, whose "c1" may be unscanned.   *)
MCShape == [ c \in Contents |->
    CASE c = "anchor"  -> Anchor
      [] c = "full"    -> [ Anchor EXCEPT !.hasFragmentKeys = TRUE ]
      [] c = "frag"    -> [ Plain EXCEPT !.hasFragmentKeys = TRUE ]
      [] c = "listing" -> [ Anchor EXCEPT !.directive = <<"a2", "c1">> ]
      [] OTHER         -> Plain ]

Rank == [ c1 |-> 1, b1 |-> 2, b2 |-> 3, a1 |-> 4, a2 |-> 5 ]
MCOrder == [ S \in SUBSET Uris |-> SetToSortSeq(S, LAMBDA u, v : Rank[u] < Rank[v]) ]
MCDirOf == [ u \in Uris |-> CASE u \in {"a1", "a2"} -> <<"w">>
                              [] u \in {"b1", "b2"} -> <<"w", "b">>
                              [] OTHER              -> <<"w", "b", "out">> ]

(* The walk from w or b does not enter out; out may be a root.             *)
MCRoots == { << <<"w", "b">>, <<"w">> >>, << <<"w">>, <<"w", "b", "out">> >> }
MCOptions == [ autoDiscover : BOOLEAN, maxFilesScanned : {3, 9} ]
FewTexts == [ u \in Uris |-> CASE u = "a1" -> {"anchor", "full", None}
                               [] u = "a2" -> {"anchor", "frag"}
                               [] u = "b1" -> {"anchor", "full", "frag"}
                               [] u = "b2" -> {"frag", "listing", None}
                               [] OTHER    -> {"full", "frag"} ]
MCFiles == { f \in [Uris -> Contents \cup {None}] : \A u \in Uris : f[u] \in FewTexts[u] }
NoSidecars == { [ d \in Dirs |-> NoSidecar ] }
ListsFragments == [ exists |-> TRUE, valid |-> TRUE, members |-> <<"b1", "c1">> ]
MCSidecars == [ d \in Dirs |-> IF d = <<"w", "b">> THEN { ListsFragments, NoSidecar } ELSE {} ]
=============================================================================
