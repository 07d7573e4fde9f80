-------------------------- MODULE DiscoveryProofs --------------------------
(***************************************************************************)
(* The config-set index, for every workspace, option and order of scans:   *)
(* its two maps agree, discovered sets are independent, and the set that   *)
(* answers for a file has the nearest anchor.                              *)
(***************************************************************************)
EXTENDS Discovery, ConfigSetsProofs

(* The members of every discovered set are below its anchor's directory,   *)
(* and no set's anchor lies between: what the two properties rest on.      *)
MembersBelow ==
    \A a \in DOMAIN setsByAnchor : isAuto(a) =>
        \A m \in setsByAnchor[a].members :
            /\ isUnderDir(m, DirOf[a])
            /\ \A b \in DOMAIN setsByAnchor :
                  ~ (IsStrictPrefix(DirOf[a], DirOf[b]) /\ isUnderDir(m, DirOf[b]))

IndexInv == MapsAgree /\ IndependentSets /\ MembersBelow

(* The index of a server that has not scanned satisfies the invariant.     *)
LEMMA InitIndex == Init => IndexInv
  BY DEF Init, NoIndex, IndexInv, MapsAgree, IndependentSets, MembersBelow

(* So does what a scan computes, whatever was there before.                *)
LEMMA RescanIndex == rescan => IndexInv'
<1> SUFFICES ASSUME rescan PROVE IndexInv'
  OBVIOUS
<1> DEFINE next  == Rescan(file, sidecar, roots, opts)
           files == Scanned(next.met)
<1>1. setsByAnchor' = next.sets /\ setByMember' = next.memberOf
  BY DEF rescan
<1>2. /\ DOMAIN next.sets \subseteq Anchors(file, files)
      /\ \A a \in DOMAIN next.sets :
            next.sets[a] = buildSetForAnchor(file, sidecar, files, a)
  BY RescanAnchors
<1>3. files \in SUBSET Uris
  BY DEF Scanned
<1>4. MapsAgree'
  BY <1>1, RescanSound DEF MapsAgree
<1>5. ASSUME NEW a \in DOMAIN next.sets, next.sets[a].explicit = "none"
      PROVE  next.sets[a] = Discovered(file, files, a)
  BY <1>2, <1>5, AutoIsDiscovered
<1>6. IndependentSets'
  <2> SUFFICES ASSUME NEW a \in DOMAIN next.sets, NEW b \in DOMAIN next.sets,
                      next.sets[a].explicit = "none", next.sets[b].explicit = "none",
                      NEW m \in next.sets[a].members, m \in next.sets[b].members
               PROVE  DirOf[a] = DirOf[b]
    BY <1>1 DEF IndependentSets, isAuto
  <2>1. m \in Discovered(file, files, a).members /\ m \in Discovered(file, files, b).members
    BY <1>5
  <2> QED
    BY <1>2, <1>3, <2>1, DiscoveredIndependent
<1>7. MembersBelow'
  <2> SUFFICES ASSUME NEW a \in DOMAIN next.sets, next.sets[a].explicit = "none",
                      NEW m \in next.sets[a].members
               PROVE  /\ isUnderDir(m, DirOf[a])
                      /\ \A b \in DOMAIN next.sets :
                            ~ (IsStrictPrefix(DirOf[a], DirOf[b]) /\ isUnderDir(m, DirOf[b]))
    BY <1>1 DEF MembersBelow, isAuto
  <2>1. m \in Discovered(file, files, a).members
    BY <1>5
  <2> QED
    BY <1>2, <1>3, <2>1, DiscoveredMembers
<1> QED
  BY <1>4, <1>6, <1>7 DEF IndexInv

(* Forgetting a set takes its members out of the map with it.              *)
LEMMA InvalidateIndex ==
    ASSUME NEW u \in Uris, IndexInv, invalidate(u)
    PROVE  IndexInv'
<1> DEFINE a == setByMember[u]
<1>1. /\ a \in DOMAIN setsByAnchor
      /\ setsByAnchor' = [ b \in DOMAIN setsByAnchor \ {a} |-> setsByAnchor[b] ]
      /\ setByMember' = [ m \in Uris |-> IF m \in setsByAnchor[a].members THEN None
                                         ELSE setByMember[m] ]
  BY DEF invalidate
<1>2. /\ DOMAIN setsByAnchor' = DOMAIN setsByAnchor \ {a}
      /\ \A b \in DOMAIN setsByAnchor' : setsByAnchor'[b] = setsByAnchor[b]
  BY <1>1
<1>3. MapsAgree'
  <2> SUFFICES ASSUME NEW m \in Uris, setByMember'[m] # None
               PROVE  /\ setByMember'[m] \in DOMAIN setsByAnchor'
                      /\ m \in setsByAnchor'[setByMember'[m]].members
    BY DEF MapsAgree
  <2>1. m \notin setsByAnchor[a].members /\ setByMember'[m] = setByMember[m]
    BY <1>1
  <2>2. /\ setByMember[m] \in DOMAIN setsByAnchor
        /\ m \in setsByAnchor[setByMember[m]].members
    BY <2>1 DEF IndexInv, MapsAgree
  <2> QED
    BY <1>2, <2>1, <2>2
<1>4. IndependentSets'
  BY <1>2 DEF IndexInv, IndependentSets, isAuto
<1>5. MembersBelow'
  BY <1>2 DEF IndexInv, MembersBelow, isAuto
<1> QED
  BY <1>3, <1>4, <1>5 DEF IndexInv

(* Every other step leaves the index as it is.                             *)
LEMMA NextIndex == IndexInv /\ [Next]_vars => IndexInv'
<1> SUFFICES ASSUME IndexInv, [Next]_vars PROVE IndexInv'
  OBVIOUS
<1>1. CASE UNCHANGED index
  BY <1>1 DEF index, IndexInv, MapsAgree, IndependentSets, MembersBelow, isAuto
<1>2. CASE rescan
  BY <1>2, RescanIndex
<1>3. ASSUME NEW u \in Uris, invalidate(u) PROVE IndexInv'
  BY <1>3, InvalidateIndex
<1>4. ASSUME NEW o \in OptionsSet, setOptions(o) PROVE IndexInv'
  BY <1>1, <1>4 DEF setOptions
<1>5. ASSUME NEW r \in RootsSet, setRoots(r) PROVE IndexInv'
  BY <1>1, <1>5 DEF setRoots
<1>6. ASSUME NEW u \in Uris, NEW c \in TextsOf[u], Write(u, c) PROVE IndexInv'
  BY <1>1, <1>6 DEF Write
<1>7. ASSUME NEW d \in Dirs, NEW sc \in SidecarsOf[d], WriteSidecar(d, sc) PROVE IndexInv'
  BY <1>1, <1>7 DEF WriteSidecar
<1>8. CASE UNCHANGED vars
  BY <1>1, <1>8 DEF vars
<1> QED
  BY <1>2, <1>3, <1>4, <1>5, <1>6, <1>7, <1>8 DEF Next

(* The invariant holds throughout.                                         *)
LEMMA IndexInvariant == Spec => []IndexInv
  BY InitIndex, NextIndex, PTL DEF Spec

(* What a sequence holds after an Append.                                  *)
LEMMA AppendedList ==
    ASSUME NEW seq \in Seq(Uris), NEW u \in Uris
    PROVE  ToSet(Append(seq, u)) = ToSet(seq) \cup {u}
<1>1. /\ DOMAIN Append(seq, u) = 1..(Len(seq) + 1) /\ DOMAIN seq = 1..Len(seq)
      /\ \A i \in 1..Len(seq) : Append(seq, u)[i] = seq[i]
      /\ Append(seq, u)[Len(seq) + 1] = u /\ Len(seq) \in Nat
  OBVIOUS
<1>2. \A i : i \in 1..(Len(seq) + 1) <=> i \in 1..Len(seq) \/ i = Len(seq) + 1
  BY <1>1
<1> QED
  BY <1>1, <1>2 DEF ToSet

(* A set lists its members and its anchor; a sidecar's, its members.       *)
LEMMA SetsList ==
    ASSUME NEW f \in [Uris -> Contents \cup {None}], NEW s \in [Dirs -> Sidecars],
           NEW files \in SUBSET Uris, NEW a \in Anchors(f, files)
    PROVE  LET set == buildSetForAnchor(f, s, files, a)
           IN  /\ set.members \subseteq ToSet(set.order)
               /\ a \in set.members \/ set.explicit = "sidecar"
<1>1. a \in Uris /\ f[a] \in Contents
  BY DEF Anchors, isAnchor
<1>2. CASE isExplicit(f, s, a)
  <2> DEFINE sc   == s[DirOf[a]]
             dirv == Shape[f[a]].directive
  <2>1. CASE sc.exists /\ sc.valid
    BY <1>2, <2>1 DEF buildSetForAnchor, Explicit
  <2>2. CASE ~ (sc.exists /\ sc.valid)
    <3>1. dirv \in Seq(Uris)
      BY <1>1, ContentsAssumption DEF Shapes
    <3>2. ToSet(Append(dirv, a)) = ToSet(dirv) \cup {a}
      BY <1>1, <3>1, AppendedList
    <3> QED
      BY <1>2, <2>2, <3>2 DEF buildSetForAnchor, Explicit
  <2> QED
    BY <2>1, <2>2
<1>3. CASE ~ isExplicit(f, s, a)
  <2> DEFINE set == Discovered(f, files, a)
  <2>1. PICK S \in SUBSET Uris : set.members = S \cup {a} /\ set.order = Append(PathOrder[S], a)
    BY DEF Discovered
  <2>2. ToSet(Append(PathOrder[S], a)) = S \cup {a}
    BY <1>1, <2>1, AppendedList, ListingAssumption
  <2> QED
    BY <1>3, <2>1, <2>2 DEF buildSetForAnchor
<1> QED
  BY <1>2, <1>3

(* The index is made of URIs and texts at every step.                      *)
THEOREM TypeCorrect == Spec => []TypeOK
<1>1. Init => TypeOK
  <2> SUFFICES ASSUME Init PROVE TypeOK
    OBVIOUS
  <2>1. /\ file \in [Uris -> Contents \cup {None}] /\ sidecar \in [Dirs -> Sidecars]
        /\ roots = <<>> /\ opts \in OptionsSet
    BY DiscoveryAssumption DEF Init
  <2>2. /\ DOMAIN setsByAnchor = {} /\ setByMember \in [Uris -> Uris \cup {None}]
    BY DEF Init, NoIndex
  <2>3. fresh = FALSE /\ writes \in 0..MaxWrites
    BY DiscoveryAssumption DEF Init
  <2> QED
    BY <2>1, <2>2, <2>3 DEF TypeOK
<1>2. TypeOK /\ [Next]_vars => TypeOK'
  <2> SUFFICES ASSUME TypeOK, [Next]_vars PROVE TypeOK'
    OBVIOUS
  <2>1. CASE rescan
    <3> DEFINE next == Rescan(file, sidecar, roots, opts)
    <3>1. /\ setsByAnchor' = next.sets /\ setByMember' = next.memberOf
          /\ fresh' = TRUE /\ UNCHANGED <<file, sidecar, roots, opts, writes>>
      BY <2>1 DEF rescan
    <3>2. /\ DOMAIN next.sets \subseteq Uris
          /\ \A a \in DOMAIN next.sets : next.sets[a] \in ConfigSet
          /\ next.memberOf \in [Uris -> Uris \cup {None}]
      BY RescanTyped DEF TypeOK, ConfigSet
    <3>3. \A a \in DOMAIN next.sets :
             /\ next.sets[a].members \subseteq ToSet(next.sets[a].order)
             /\ a \in next.sets[a].members \/ next.sets[a].explicit = "sidecar"
      <4>1. Scanned(next.met) \in SUBSET Uris
        BY DEF Scanned
      <4>2. file \in [Uris -> Contents \cup {None}] /\ sidecar \in [Dirs -> Sidecars]
        BY DEF TypeOK
      <4> QED
        BY <4>1, <4>2, RescanAnchors, SetsList
    <3> HIDE DEF next
    <3> QED
      BY <3>1, <3>2, <3>3 DEF TypeOK
  <2>2. ASSUME NEW u \in Uris, invalidate(u) PROVE TypeOK'
    <3> DEFINE a == setByMember[u]
    <3>1. /\ DOMAIN setsByAnchor' = DOMAIN setsByAnchor \ {a}
          /\ \A b \in DOMAIN setsByAnchor' : setsByAnchor'[b] = setsByAnchor[b]
      BY <2>2 DEF invalidate
    <3>2. setByMember' = [ m \in Uris |-> IF m \in setsByAnchor[a].members THEN None
                                          ELSE setByMember[m] ]
      BY <2>2 DEF invalidate
    <3>3. setByMember' \in [Uris -> Uris \cup {None}]
      BY <3>2 DEF TypeOK
    <3>4. fresh' = FALSE /\ UNCHANGED <<file, sidecar, roots, opts, writes>>
      BY <2>2 DEF invalidate
    <3> QED
      BY <3>1, <3>3, <3>4 DEF TypeOK
  <2>3. ASSUME NEW o \in OptionsSet, setOptions(o) PROVE TypeOK'
    BY <2>3 DEF setOptions, index, TypeOK
  <2>4. ASSUME NEW r \in RootsSet, setRoots(r) PROVE TypeOK'
    BY <2>4 DEF setRoots, index, TypeOK
  <2>5. ASSUME NEW u \in Uris, NEW c \in TextsOf[u], Write(u, c) PROVE TypeOK'
    <3>1. c \in Contents \cup {None}
      BY DiscoveryAssumption
    <3>2. writes' \in 0..MaxWrites
      BY <2>5, DiscoveryAssumption DEF Write, TypeOK
    <3> QED
      BY <2>5, <3>1, <3>2 DEF Write, index, TypeOK
  <2>6. ASSUME NEW d \in Dirs, NEW sc \in SidecarsOf[d], WriteSidecar(d, sc) PROVE TypeOK'
    <3>1. sc \in Sidecars
      BY DiscoveryAssumption
    <3>2. writes' \in 0..MaxWrites
      BY <2>6, DiscoveryAssumption DEF WriteSidecar, TypeOK
    <3> QED
      BY <2>6, <3>1, <3>2 DEF WriteSidecar, index, TypeOK
  <2>7. CASE UNCHANGED vars
    BY <2>7 DEF vars, index, TypeOK
  <2> QED
    BY <2>1, <2>2, <2>3, <2>4, <2>5, <2>6, <2>7 DEF Next
<1> QED
  BY <1>1, <1>2, PTL DEF Spec

(* getSetForUri never answers with a set that is gone or that does not     *)
(* list the file, whatever scans and invalidations came before.            *)
THEOREM MapsAlwaysAgree == Spec => []MapsAgree
<1>1. IndexInv => MapsAgree
  BY DEF IndexInv
<1> QED
  BY <1>1, IndexInvariant, PTL

(* Discovered sets that share a member have their anchors in one           *)
(* directory: staging/ and prod/ are independent in every workspace.       *)
THEOREM SetsAlwaysIndependent == Spec => []IndependentSets
<1>1. IndexInv => IndependentSets
  BY DEF IndexInv
<1> QED
  BY <1>1, IndexInvariant, PTL

(* The discovered set that answers for a file has the nearest anchor.      *)
THEOREM NearestAlwaysAnswers == Spec => []NearestAnchorAnswers
<1>1. IndexInv => NearestAnchorAnswers
  BY DEF IndexInv, MapsAgree, MembersBelow, NearestAnchorAnswers
<1> QED
  BY <1>1, IndexInvariant, PTL


----------------------------------------------------------------------------
(* While nothing has changed since the scan, the index is what a scan      *)
(* would compute now.                                                      *)
FreshIndex ==
    fresh => /\ setsByAnchor = Rescan(file, sidecar, roots, opts).sets
             /\ setByMember = Rescan(file, sidecar, roots, opts).memberOf

FreshInv == TypeOK /\ FreshIndex

LEMMA NextFresh == FreshIndex /\ [Next]_vars => FreshIndex'
<1> SUFFICES ASSUME FreshIndex, [Next]_vars, fresh'
             PROVE  /\ setsByAnchor' = Rescan(file', sidecar', roots', opts').sets
                    /\ setByMember' = Rescan(file', sidecar', roots', opts').memberOf
  BY DEF FreshIndex
<1>1. CASE rescan
  BY <1>1 DEF rescan
<1>2. CASE fresh /\ UNCHANGED <<file, sidecar, roots, opts, setsByAnchor, setByMember>>
  BY <1>2 DEF FreshIndex
<1>3. ASSUME NEW o \in OptionsSet, setOptions(o)
      PROVE  fresh /\ UNCHANGED <<file, sidecar, roots, opts, setsByAnchor, setByMember>>
  BY <1>3 DEF setOptions, index
<1>4. ASSUME NEW r \in RootsSet, setRoots(r)
      PROVE  fresh /\ UNCHANGED <<file, sidecar, roots, opts, setsByAnchor, setByMember>>
  BY <1>4 DEF setRoots, index
<1>5. CASE UNCHANGED vars
  BY <1>2, <1>5 DEF vars, index
<1> QED
  BY <1>1, <1>2, <1>3, <1>4, <1>5 DEF Next, invalidate, Write, WriteSidecar

(* Of a nearest anchor's discovered set, the fragment is a member: what    *)
(* would own it instead is a set's anchor between them.                    *)
LEMMA FreshAnswers == FreshInv => FragmentsAnswered
<1> DEFINE next  == Rescan(file, sidecar, roots, opts)
           files == Scanned(next.met)
           above(u) == { a \in DOMAIN setsByAnchor : isUnderDir(u, DirOf[a]) }
           nearest(u) == { a \in above(u) :
                             \A b \in above(u) : ~ IsStrictPrefix(DirOf[a], DirOf[b]) }
<1> SUFFICES ASSUME FreshInv, fresh, opts.autoDiscover,
                    NEW u \in Scanned(walkFiles(file, roots, opts)), isFragment(file, u),
                    NEW a \in nearest(u), isAuto(a)
             PROVE  setByMember[u] # None
  BY DEF FragmentsAnswered
<1>1. /\ setsByAnchor = next.sets /\ setByMember = next.memberOf
      /\ u \in files /\ u \in Uris
  BY RescanAnchors DEF FreshInv, FreshIndex, Scanned
<1>2. DOMAIN next.sets = Anchors(file, files)
  BY DEF Rescan
<1>3. next.sets[a] = Discovered(file, files, a)
  BY <1>1, RescanAnchors, AutoIsDiscovered DEF isAuto
<1>4. isUnderDir(u, DirOf[a])
  OBVIOUS
<1>5. ~ ownedByNestedAnchor(u, DirOf[a], { DirOf[b] : b \in Anchors(file, files) })
  <2> SUFFICES ASSUME NEW b \in Anchors(file, files), IsStrictPrefix(DirOf[a], DirOf[b]),
                      isUnderDir(u, DirOf[b])
               PROVE  FALSE
    BY DEF ownedByNestedAnchor
  <2>1. b \in above(u)
    BY <1>1, <1>2
  <2> QED
    BY <2>1
<1>6. u \in next.sets[a].members
  <2> HIDE DEF next, files
  <2> QED
    BY <1>1, <1>3, <1>4, <1>5 DEF Discovered
<1>7. a \in DOMAIN next.sets
  BY <1>1
<1>8. opts.maxFilesScanned \in Nat /\ \E n \in Nat : DOMAIN roots = 1..n
  BY DiscoveryAssumption DEF FreshInv, TypeOK, Options
<1> HIDE DEF next, files
<1> QED
  BY <1>1, <1>6, <1>7, <1>8, RescanComplete DEF next

(* After a scan with discovery on, every scanned fragment below an anchor  *)
(* is in a set, unless a nearest anchor's set is explicit: discovery       *)
(* leaves no fragment out (discoverFragments, rescan).                     *)
THEOREM FragmentsAlwaysAnswered == Spec => []FragmentsAnswered
<1>1. Init => FreshIndex
  BY DEF Init, FreshIndex
<1>2. FreshIndex /\ TypeOK => FragmentsAnswered
  BY FreshAnswers DEF FreshInv
<1> QED
  BY <1>1, <1>2, NextFresh, TypeCorrect, PTL DEF Spec
=============================================================================
