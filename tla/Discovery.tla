----------------------------- MODULE Discovery -----------------------------
(***************************************************************************)
(* The class ConfigSetIndex of src/server/configset.ts as an object: its   *)
(* four fields and the operations that change them, on a disk that other   *)
(* programs write.  The index answers from its last scan, whatever has     *)
(* happened to the disk, the roots or the options since.                   *)
(***************************************************************************)
EXTENDS ConfigSets

CONSTANTS
    FirstFiles, FirstSidecars,  \* what the disk may hold at first
    RootsSet,                   \* the root lists that may be set
    OptionsSet,                 \* and the options
    TextsOf, SidecarsOf,        \* bound: what may be written where
    MaxWrites                   \* bound: writes to the disk

VARIABLES
    file, sidecar,              \* the disk
    roots, opts,
    setsByAnchor, setByMember,
    fresh,                      \* history: nothing has changed since the scan
    writes                      \* bound: writes so far

index == <<setsByAnchor, setByMember>>
vars  == <<file, sidecar, roots, opts, index, fresh, writes>>

ASSUME DiscoveryAssumption ==
    /\ \A f \in FirstFiles : f \in [Uris -> Contents \cup {None}]
    /\ \A s \in FirstSidecars : s \in [Dirs -> Sidecars]
    /\ RootsSet \subseteq Seq(Dirs) /\ OptionsSet \subseteq Options
    /\ TextsOf \in [Uris -> SUBSET (Contents \cup {None})]
    /\ \A d \in Dirs : SidecarsOf[d] \subseteq Sidecars
    /\ MaxWrites \in Nat

----------------------------------------------------------------------------
Init ==
    /\ file \in FirstFiles /\ sidecar \in FirstSidecars
    /\ roots = <<>> /\ opts \in OptionsSet
    /\ setsByAnchor = NoIndex(opts).sets /\ setByMember = NoIndex(opts).memberOf
    /\ fresh = FALSE /\ writes = 0

setOptions(o) ==
    /\ opts' = o /\ fresh' = (fresh /\ o = opts)
    /\ UNCHANGED <<file, sidecar, roots, index, writes>>

setRoots(r) ==
    /\ roots' = r /\ fresh' = (fresh /\ r = roots)
    /\ UNCHANGED <<file, sidecar, opts, index, writes>>

rescan ==
    /\ \E next \in {Rescan(file, sidecar, roots, opts)} :
          setsByAnchor' = next.sets /\ setByMember' = next.memberOf
    /\ fresh' = TRUE
    /\ UNCHANGED <<file, sidecar, roots, opts, writes>>

(* Mutant of invalidate: the members still map to the set.                 *)
invalidateSetOnly(u) ==
    LET a == setByMember[u]
    IN  /\ a \in DOMAIN setsByAnchor
        /\ setsByAnchor' = [ b \in DOMAIN setsByAnchor \ {a} |-> setsByAnchor[b] ]
        /\ fresh' = FALSE
        /\ UNCHANGED <<file, sidecar, roots, opts, setByMember, writes>>

(* The set that answers for u is forgotten, and with it what its members   *)
(* map to, be it this set or another.                                      *)
invalidate(u) ==
    LET a == setByMember[u]
    IN  /\ a \in DOMAIN setsByAnchor
        /\ setByMember' = [ m \in Uris |-> IF m \in setsByAnchor[a].members THEN None
                                           ELSE setByMember[m] ]
        /\ setsByAnchor' = [ b \in DOMAIN setsByAnchor \ {a} |-> setsByAnchor[b] ]
        /\ fresh' = FALSE
        /\ UNCHANGED <<file, sidecar, roots, opts, writes>>

(* Other programs write and delete files.                                  *)
Write(u, c) ==
    /\ writes < MaxWrites /\ writes' = writes + 1
    /\ file[u] # c
    /\ file' = [file EXCEPT ![u] = c] /\ fresh' = FALSE
    /\ UNCHANGED <<sidecar, roots, opts, index>>

WriteSidecar(d, sc) ==
    /\ writes < MaxWrites /\ writes' = writes + 1
    /\ sidecar[d] # sc
    /\ sidecar' = [sidecar EXCEPT ![d] = sc] /\ fresh' = FALSE
    /\ UNCHANGED <<file, roots, opts, index>>

Next ==
    \/ \E o \in OptionsSet : setOptions(o)
    \/ \E r \in RootsSet : setRoots(r)
    \/ rescan
    \/ \E u \in Uris : invalidate(u)
    \/ \E u \in Uris : \E c \in TextsOf[u] : Write(u, c)
    \/ \E d \in Dirs : \E sc \in SidecarsOf[d] : WriteSidecar(d, sc)

Spec == Init /\ [][Next]_vars
----------------------------------------------------------------------------
(* Properties.                                                             *)

ConfigSet == [ members : SUBSET Uris, order : Seq(Uris),
               explicit : {"none", "directive", "sidecar"} ]

(* A set lists each of its members, and its anchor is one, unless a sidecar*)
(* names others (resolveExplicit, buildSetForAnchor).                      *)
TypeOK ==
    /\ file \in [Uris -> Contents \cup {None}]
    /\ sidecar \in [Dirs -> Sidecars]
    /\ roots \in RootsSet \cup {<<>>} /\ opts \in OptionsSet
    /\ DOMAIN setsByAnchor \subseteq Uris
    /\ \A a \in DOMAIN setsByAnchor :
          LET set == setsByAnchor[a]
          IN  /\ set \in ConfigSet /\ set.members \subseteq ToSet(set.order)
              /\ a \in set.members \/ set.explicit = "sidecar"
    /\ setByMember \in [Uris -> Uris \cup {None}]
    /\ fresh \in BOOLEAN /\ writes \in 0..MaxWrites

isAuto(a) == setsByAnchor[a].explicit = "none"

(* getSetForUri never answers with a set that is gone, or that does not    *)
(* list the file: the two maps of the index agree, through every scan and  *)
(* invalidation.                                                           *)
MapsAgree ==
    \A u \in Uris : setByMember[u] # None =>
        setByMember[u] \in DOMAIN setsByAnchor /\ u \in setsByAnchor[setByMember[u]].members

(* "staging/ and prod/ form independent sets": discovered sets that share  *)
(* a member have their anchors in one directory.                           *)
IndependentSets ==
    \A a, b \in DOMAIN setsByAnchor :
        isAuto(a) /\ isAuto(b) /\ setsByAnchor[a].members \cap setsByAnchor[b].members # {}
            => DirOf[a] = DirOf[b]

(* The discovered set that answers for a file has the nearest anchor above *)
(* the file: no set's anchor lies strictly between them.                   *)
NearestAnchorAnswers ==
    \A u \in Uris : setByMember[u] # None =>
        LET a == setByMember[u]
        IN  isAuto(a) => /\ isUnderDir(u, DirOf[a])
                         /\ \A b \in DOMAIN setsByAnchor :
                               ~ (IsStrictPrefix(DirOf[a], DirOf[b]) /\ isUnderDir(u, DirOf[b]))

(* After a scan with discovery on, every scanned fragment below an anchor  *)
(* is in a set, unless a nearest anchor's set is explicit: a set's fragment*)
(* is never left out because of the other anchors around it.               *)
FragmentsAnswered ==
    fresh /\ opts.autoDiscover =>
        \A u \in Scanned(walkFiles(file, roots, opts)) :
            LET above   == { a \in DOMAIN setsByAnchor : isUnderDir(u, DirOf[a]) }
                nearest == { a \in above : \A b \in above : ~ IsStrictPrefix(DirOf[a], DirOf[b]) }
            IN  isFragment(file, u) /\ nearest # {} /\ (\A a \in nearest : isAuto(a))
                    => setByMember[u] # None
=============================================================================
