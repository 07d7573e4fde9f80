---------------------------- MODULE ConfigSets ----------------------------
(***************************************************************************)
(* Config-set discovery, as ConfigSetIndex.rescan computes it: which files *)
(* of a workspace are analysed together, and which set answers for a file. *)
(*                                                                         *)
(* A file is a URI; its directory is the sequence of directory names that  *)
(* leads to it, so "below" is "has as a prefix".  A file's text is a       *)
(* member of Contents, and Shape says what the classifier sees in it.      *)
(*                                                                         *)
(* No operator here is RECURSIVE: the theorems of ConfigSetsProofs and     *)
(* ServerProofs are about these definitions.                               *)
(***************************************************************************)
EXTENDS Naturals, Sequences, SequencesExt

CONSTANTS
    Uris,        \* the YAML files a workspace may hold (sidecars excluded)
    Contents,    \* the texts a file may hold
    Empty,       \* the empty text, which an unreadable file stands for
    None,        \* absent file, closed document, unread text, no model...
    DirOf,       \* [Uris -> Seq(directory names)]
    Shape,       \* [Contents -> Shapes]
    PathOrder,   \* lists a set of URIs alphabetically by path
    WalkOrder    \* lists a set of URIs in the order the walk meets them

(* What the classifier and the two ad-hoc recognisers read in a text. The  *)
(* directive is kept as the URIs its names resolve to.                     *)
Shapes == [ hasPipelines    : BOOLEAN,      \* has service.pipelines
            hasFragmentKeys : BOOLEAN,      \* receivers, processors, ...
            otelcolKeys     : 0..2,         \* 2 stands for two or more
            directive       : Seq(Uris),    \* <<>> when there is none
            bare            : SUBSET Uris,  \* named by it without a path
            marker          : BOOLEAN,      \* a directive comment anywhere
            anchorShaped    : BOOLEAN,      \* the regex test on 4096 bytes
            ottl            : BOOLEAN ]     \* holds OTTL blocks

Dirs == UNION { { SubSeq(DirOf[u], 1, n) : n \in 0..Len(DirOf[u]) } : u \in Uris }

Sidecars == [ exists : BOOLEAN, valid : BOOLEAN, members : Seq(Uris) ]
NoSidecar == [ exists |-> FALSE, valid |-> FALSE, members |-> <<>> ]

Options == [ autoDiscover : BOOLEAN, maxFilesScanned : Nat ]

ASSUME ContentsAssumption ==
    /\ Empty \in Contents
    /\ None \notin Contents \cup Uris
    /\ Shape \in [Contents -> Shapes]
ASSUME DirAssumption == \A u \in Uris : DirOf[u] \in Seq(STRING)
ASSUME ListingAssumption ==
    /\ \A S \in SUBSET Uris : PathOrder[S] \in Seq(Uris) /\ ToSet(PathOrder[S]) = S
    /\ \A S \in SUBSET Uris : WalkOrder[S] \in Seq(Uris) /\ ToSet(WalkOrder[S]) = S

----------------------------------------------------------------------------
(* The scan.  "file" is the disk, [Uris -> Contents \cup {None}].          *)

isUnderDir(u, dir) == IsPrefix(dir, DirOf[u])
SKIP_DIRS == {"node_modules", ".git", "out", "dist", ".vscode", "build"}

(* The walk does not enter a directory of these names; it may start in one.*)
isSkipped(u, root) == \E n \in (Len(root) + 1)..Len(DirOf[u]) : DirOf[u][n] \in SKIP_DIRS
firstOf(seq, n) == IF Len(seq) <= n THEN seq ELSE SubSeq(seq, 1, n)

(* What the walk meets, root after root, cut at the limit: a file below    *)
(* two roots is met twice, and both meetings count.                        *)
walkFiles(file, roots, opts) ==
    LET walks == [ i \in DOMAIN roots |->
                     WalkOrder[{ u \in Uris : /\ file[u] # None
                                               /\ isUnderDir(u, roots[i])
                                               /\ ~ isSkipped(u, roots[i]) }] ]
    IN  firstOf(FlattenSeq(walks), opts.maxFilesScanned)

Scanned(met) == { u \in Uris : \E i \in DOMAIN met : met[i] = u }

(* classifyFile; a file that cannot be read is neither.                    *)
isAnchor(file, u)   == file[u] # None /\ Shape[file[u]].hasPipelines
isFragment(file, u) == file[u] # None /\ Shape[file[u]].hasFragmentKeys

Anchors(file, files) == { u \in files : isAnchor(file, u) }

(* Mutants of ownedByNestedAnchor: the search for fragments does not stop  *)
(* at nested anchors; it stops at the set's own directory.                 *)
ownedByNone(u, dir, anchorDirs) == FALSE
ownedByAny(u, dir, anchorDirs) ==
    \E d \in anchorDirs : IsPrefix(dir, d) /\ isUnderDir(u, d)
(* A file below dir is owned by a nested anchor when a directory strictly  *)
(* below dir, on the way to the file, holds an anchor.                     *)
ownedByNestedAnchor(u, dir, anchorDirs) ==
    \E d \in anchorDirs : IsStrictPrefix(dir, d) /\ isUnderDir(u, d)

(* Mutant of Explicit: a directive's set is what it lists, the anchor is   *)
(* not added.                                                              *)
ExplicitAsListed(file, sidecar, files, a) ==
    LET sc   == sidecar[DirOf[a]]
        dirv == Shape[file[a]].directive
    IN  IF sc.exists /\ sc.valid
        THEN [ members |-> ToSet(sc.members), order |-> sc.members, explicit |-> "sidecar" ]
        ELSE [ members |-> ToSet(dirv) \cap files, order |-> dirv, explicit |-> "directive" ]

(* A ConfigSet.  "order" lists the members as declared; a directive's list *)
(* may name files the scan did not meet, which are not members.            *)
Explicit(file, sidecar, files, a) ==
    LET sc   == sidecar[DirOf[a]]
        dirv == Shape[file[a]].directive
    IN  IF sc.exists /\ sc.valid
        THEN [ members |-> ToSet(sc.members), order |-> sc.members,
               explicit |-> "sidecar" ]
        ELSE [ members |-> (ToSet(dirv) \cap files) \cup {a},
               order |-> Append(dirv, a), explicit |-> "directive" ]

isExplicit(file, sidecar, a) ==
    \/ sidecar[DirOf[a]].exists /\ sidecar[DirOf[a]].valid
    \/ Shape[file[a]].directive # <<>>

Discovered(file, files, a) ==
    LET anchorDirs == { DirOf[b] : b \in Anchors(file, files) }
        fragments  == { u \in files \ {a} :
                          /\ isFragment(file, u)
                          /\ isUnderDir(u, DirOf[a])
                          /\ ~ ownedByNestedAnchor(u, DirOf[a], anchorDirs) }
    IN  [ members |-> fragments \cup {a}, order |-> Append(PathOrder[fragments], a),
          explicit |-> "none" ]

buildSetForAnchor(file, sidecar, files, a) ==
    IF isExplicit(file, sidecar, a) THEN Explicit(file, sidecar, files, a)
                                    ELSE Discovered(file, files, a)

(* The set that answers for u: of the sets that list u, the one whose      *)
(* anchor the scan met last, because each set overwrites the map's entry.  *)
MemberMap(sets, met) ==
    LET Holds(i, u) == met[i] \in DOMAIN sets /\ u \in sets[met[i]].members
        LastFor(i, u) == /\ Holds(i, u)
                         /\ \A j \in DOMAIN met : Holds(j, u) => j <= i
    IN  [ u \in Uris |-> IF \E i \in DOMAIN met : LastFor(i, u)
                         THEN met[CHOOSE i \in DOMAIN met : LastFor(i, u)]
                         ELSE None ]

(* The index after a rescan.  "met" is the walk, which orders its sets.    *)
Rescan(file, sidecar, roots, opts) ==
    LET met     == walkFiles(file, roots, opts)
        files   == Scanned(met)
        anchors == { a \in Anchors(file, files) :
                       opts.autoDiscover \/ isExplicit(file, sidecar, a) }
        sets    == [ a \in anchors |-> buildSetForAnchor(file, sidecar, files, a) ]
    IN  [ sets |-> sets, memberOf |-> MemberMap(sets, met),
          met |-> met, roots |-> roots, opts |-> opts ]

(* The index of a server that has not scanned yet.                         *)
NoIndex(opts) == [ sets |-> [ a \in {} |-> None ], memberOf |-> [ u \in Uris |-> None ],
                   met |-> <<>>, roots |-> <<>>, opts |-> opts ]

getSetForUri(index, u) == index.memberOf[u]
Members(index, a) == index.sets[a].members

(* The places of the sets in the walk, in the order of allSets.            *)
allSets(index) == { i \in DOMAIN index.met : /\ index.met[i] \in DOMAIN index.sets
                                             /\ \A j \in 1..(i - 1) : index.met[j] # index.met[i] }
=============================================================================
