------------------------- MODULE ConfigSetsProofs -------------------------
(***************************************************************************)
(* Facts about one scan, for every workspace: what the member map and the  *)
(* discovered sets are like.  DiscoveryProofs and ServerProofs rest on it. *)
(***************************************************************************)
EXTENDS ConfigSets, SequenceTheorems, NaturalsInduction, WellFoundedInduction, TLAPS

----------------------------------------------------------------------------
(* Prefixes.                                                               *)

(* A prefix agrees with the sequence place by place.                       *)
LEMMA PrefixPointwise ==
    ASSUME NEW S, NEW s \in Seq(S), NEW t \in Seq(S)
    PROVE  IsPrefix(s, t) <=> Len(s) <= Len(t) /\ \A i \in 1..Len(s) : s[i] = t[i]
<1>1. ASSUME Len(s) <= Len(t)
      PROVE  /\ SubSeq(s, 1, Len(s)) = [ i \in 1..Len(s) |-> s[i] ]
             /\ SubSeq(t, 1, Len(s)) = [ i \in 1..Len(s) |-> t[i] ]
  BY <1>1
<1> QED
  BY <1>1 DEF IsPrefix

(* Every sequence is a prefix of itself, and of no strict prefix of its.   *)
LEMMA PrefixOrder ==
    ASSUME NEW S, NEW s \in Seq(S), NEW t \in Seq(S)
    PROVE  /\ IsPrefix(s, s)
           /\ IsPrefix(s, t) /\ IsPrefix(t, s) => s = t
<1>1. IsPrefix(s, s)
  BY PrefixPointwise
<1>2. ASSUME IsPrefix(s, t), IsPrefix(t, s) PROVE s = t
  <2>1. Len(s) = Len(t) /\ \A i \in 1..Len(s) : s[i] = t[i]
    BY <1>2, PrefixPointwise, LenProperties
  <2> QED
    BY <2>1, SeqEqual
<1> QED
  BY <1>1, <1>2

(* Two prefixes of one sequence are comparable.                            *)
LEMMA PrefixesComparable ==
    ASSUME NEW S, NEW s \in Seq(S), NEW t \in Seq(S), NEW w \in Seq(S),
           IsPrefix(s, w), IsPrefix(t, w)
    PROVE  IsPrefix(s, t) \/ IsPrefix(t, s)
<1>1. /\ Len(s) <= Len(w) /\ \A i \in 1..Len(s) : s[i] = w[i]
      /\ Len(t) <= Len(w) /\ \A i \in 1..Len(t) : t[i] = w[i]
  BY PrefixPointwise
<1>2. Len(s) \in Nat /\ Len(t) \in Nat
  BY LenProperties
<1>3. CASE Len(s) <= Len(t)
  <2>1. \A i \in 1..Len(s) : s[i] = t[i]
    BY <1>1, <1>2, <1>3
  <2> QED
    BY <2>1, <1>3, PrefixPointwise
<1>4. CASE Len(t) <= Len(s)
  <2>1. \A i \in 1..Len(t) : t[i] = s[i]
    BY <1>1, <1>2, <1>4
  <2> QED
    BY <2>1, <1>4, PrefixPointwise
<1> QED
  BY <1>2, <1>3, <1>4

----------------------------------------------------------------------------
(* The scan.                                                               *)

(* The member map answers only with a set that lists the file.             *)
LEMMA MemberMapSound ==
    ASSUME NEW sets, NEW met, NEW u \in Uris, MemberMap(sets, met)[u] # None
    PROVE  /\ MemberMap(sets, met)[u] \in DOMAIN sets
           /\ u \in sets[MemberMap(sets, met)[u]].members
<1> DEFINE LastPlace(i) == /\ met[i] \in DOMAIN sets /\ u \in sets[met[i]].members
                           /\ \A j \in DOMAIN met :
                                 met[j] \in DOMAIN sets /\ u \in sets[met[j]].members => j <= i
<1>1. MemberMap(sets, met)[u] = IF \E i \in DOMAIN met : LastPlace(i)
                                THEN met[CHOOSE i \in DOMAIN met : LastPlace(i)] ELSE None
  BY DEF MemberMap
<1>2. PICK i \in DOMAIN met : LastPlace(i)
  BY <1>1
<1>3. LastPlace(CHOOSE j \in DOMAIN met : LastPlace(j))
  BY <1>2
<1> QED
  BY <1>1, <1>2, <1>3

(* A scan's index answers only with a set that lists the file.             *)
LEMMA RescanSound ==
    ASSUME NEW file, NEW sidecar, NEW roots, NEW opts, NEW u \in Uris,
           Rescan(file, sidecar, roots, opts).memberOf[u] # None
    PROVE  LET index == Rescan(file, sidecar, roots, opts)
           IN  /\ index.memberOf[u] \in DOMAIN index.sets
               /\ u \in index.sets[index.memberOf[u]].members
<1> DEFINE index == Rescan(file, sidecar, roots, opts)
<1>1. index.memberOf = MemberMap(index.sets, index.met)
  BY DEF Rescan
<1> QED
  BY <1>1, MemberMapSound

(* A scan's sets have their anchors among the files.                       *)
LEMMA RescanAnchors ==
    ASSUME NEW file, NEW sidecar, NEW roots, NEW opts
    PROVE  LET index == Rescan(file, sidecar, roots, opts)
           IN  /\ DOMAIN index.sets \subseteq Anchors(file, Scanned(index.met))
               /\ DOMAIN index.sets \subseteq Uris
               /\ index.met = walkFiles(file, roots, opts)
               /\ index.roots = roots
               /\ \A a \in DOMAIN index.sets : index.sets[a] =
                     buildSetForAnchor(file, sidecar, Scanned(index.met), a)
  BY DEF Rescan, Anchors, Scanned

(* Without a root nothing is found.                                        *)
LEMMA RescanNothing ==
    ASSUME NEW file, NEW sidecar, NEW opts, opts.maxFilesScanned \in Nat
    PROVE  LET index == Rescan(file, sidecar, <<>>, opts)
           IN  DOMAIN index.sets = {} /\ \A u \in Uris : index.memberOf[u] = None
<1> DEFINE index == Rescan(file, sidecar, <<>>, opts)
<1>1. index.met = <<>>
  <2> DEFINE walks == [ i \in DOMAIN <<>> |->
                 WalkOrder[{ u \in Uris : /\ file[u] # None
                                           /\ isUnderDir(u, (<<>>)[i])
                                           /\ ~ isSkipped(u, (<<>>)[i]) }] ]
  <2>1. walks = <<>>
    OBVIOUS
  <2>2. FlattenSeq(<<>>) = <<>>
    BY DEF FlattenSeq
  <2>3. firstOf(<<>>, opts.maxFilesScanned) = <<>>
    BY DEF firstOf
  <2>4. walkFiles(file, <<>>, opts) = firstOf(FlattenSeq(walks), opts.maxFilesScanned)
    BY DEF walkFiles
  <2>5. index.met = walkFiles(file, <<>>, opts)
    BY RescanAnchors
  <2> QED
    BY <2>1, <2>2, <2>3, <2>4, <2>5
<1>2. DOMAIN index.sets = {}
  BY <1>1, RescanAnchors DEF Anchors, Scanned
<1>3. ASSUME NEW u \in Uris PROVE index.memberOf[u] = None
  BY <1>2, RescanSound
<1> QED
  BY <1>2, <1>3

----------------------------------------------------------------------------
(* Discovered sets.                                                        *)

(* A set that is not explicit is the discovered one.                       *)
LEMMA AutoIsDiscovered ==
    ASSUME NEW file, NEW sidecar, NEW files, NEW a,
           buildSetForAnchor(file, sidecar, files, a).explicit = "none"
    PROVE  buildSetForAnchor(file, sidecar, files, a) = Discovered(file, files, a)
<1>1. Explicit(file, sidecar, files, a).explicit \in {"sidecar", "directive"}
  BY DEF Explicit
<1> QED
  BY <1>1 DEF buildSetForAnchor

(* A member of a discovered set lies below its anchor's directory, and no  *)
(* anchor lies between.                                                    *)
LEMMA DiscoveredMembers ==
    ASSUME NEW file, NEW files \in SUBSET Uris, NEW a \in Anchors(file, files),
           NEW m \in Discovered(file, files, a).members
    PROVE  /\ m \in Uris
           /\ isUnderDir(m, DirOf[a])
           /\ \A b \in Anchors(file, files) :
                 ~ (IsStrictPrefix(DirOf[a], DirOf[b]) /\ isUnderDir(m, DirOf[b]))
<1>1. a \in Uris
  BY DEF Anchors
<1>2. CASE m = a
  <2>1. isUnderDir(a, DirOf[a])
    BY <1>1, DirAssumption, PrefixOrder DEF isUnderDir
  <2>2. ASSUME NEW b \in Anchors(file, files), IsStrictPrefix(DirOf[a], DirOf[b])
        PROVE  ~ isUnderDir(a, DirOf[b])
    <3>1. b \in Uris
      BY DEF Anchors
    <3>2. IsPrefix(DirOf[a], DirOf[b]) /\ DirOf[a] # DirOf[b]
      BY <2>2 DEF IsStrictPrefix
    <3> QED
      BY <1>1, <3>1, <3>2, DirAssumption, PrefixOrder DEF isUnderDir
  <2> QED
    BY <1>1, <1>2, <2>1, <2>2
<1>3. CASE m # a
  <2>1. /\ m \in files /\ isUnderDir(m, DirOf[a])
        /\ ~ ownedByNestedAnchor(m, DirOf[a], { DirOf[b] : b \in Anchors(file, files) })
    BY <1>3 DEF Discovered
  <2> QED
    BY <2>1 DEF ownedByNestedAnchor
<1> QED
  BY <1>2, <1>3

(* Two discovered sets of one scan that share a member have their anchors  *)
(* in one directory: of two anchors above the member, neither lies below   *)
(* the other.                                                              *)
LEMMA DiscoveredIndependent ==
    ASSUME NEW file, NEW files \in SUBSET Uris,
           NEW a \in Anchors(file, files), NEW b \in Anchors(file, files),
           NEW m \in Discovered(file, files, a).members,
           m \in Discovered(file, files, b).members
    PROVE  DirOf[a] = DirOf[b]
<1>1. /\ m \in Uris /\ a \in Uris /\ b \in Uris
      /\ isUnderDir(m, DirOf[a]) /\ isUnderDir(m, DirOf[b])
      /\ ~ IsStrictPrefix(DirOf[a], DirOf[b]) /\ ~ IsStrictPrefix(DirOf[b], DirOf[a])
  BY DiscoveredMembers DEF Anchors
<1>2. IsPrefix(DirOf[a], DirOf[b]) \/ IsPrefix(DirOf[b], DirOf[a])
  BY <1>1, DirAssumption, PrefixesComparable DEF isUnderDir
<1> QED
  BY <1>1, <1>2 DEF IsStrictPrefix

(* Every set is made of URIs.                                              *)
LEMMA SetTyped ==
    ASSUME NEW file \in [Uris -> Contents \cup {None}], NEW sidecar \in [Dirs -> Sidecars],
           NEW files \in SUBSET Uris, NEW a \in Anchors(file, files)
    PROVE  buildSetForAnchor(file, sidecar, files, a) \in
             [ members : SUBSET Uris, order : Seq(Uris),
               explicit : {"none", "directive", "sidecar"} ]
<1> DEFINE dirv == Shape[file[a]].directive
           sc   == sidecar[DirOf[a]]
<1>1. a \in files /\ a \in Uris /\ file[a] \in Contents
  BY DEF Anchors, isAnchor
<1>2. dirv \in Seq(Uris)
  BY <1>1, ContentsAssumption DEF Shapes
<1>3. sc.members \in Seq(Uris)
  <2>1. DirOf[a] = SubSeq(DirOf[a], 1, Len(DirOf[a])) /\ Len(DirOf[a]) \in 0..Len(DirOf[a])
    BY <1>1, DirAssumption, SubSeqFull, LenProperties
  <2>2. DirOf[a] \in Dirs
    BY <1>1, <2>1 DEF Dirs
  <2> QED
    BY <2>2 DEF Sidecars
<1>4. CASE isExplicit(file, sidecar, a)
  <2>1. CASE sc.exists /\ sc.valid
    <3>1. ToSet(sc.members) \subseteq Uris
      BY <1>3, ElementOfSeq DEF ToSet
    <3> QED
      BY <1>3, <1>4, <2>1, <3>1 DEF buildSetForAnchor, Explicit
  <2>2. CASE ~ (sc.exists /\ sc.valid)
    <3>1. Append(dirv, a) \in Seq(Uris)
      BY <1>1, <1>2
    <3> QED
      BY <1>1, <1>4, <2>2, <3>1 DEF buildSetForAnchor, Explicit
  <2> QED
    BY <2>1, <2>2
<1>5. CASE ~ isExplicit(file, sidecar, a)
  <2>1. \A S \in SUBSET Uris : Append(PathOrder[S], a) \in Seq(Uris)
    BY <1>1, ListingAssumption
  <2>2. /\ Discovered(file, files, a).members \subseteq Uris
        /\ Discovered(file, files, a).order \in Seq(Uris)
        /\ Discovered(file, files, a).explicit = "none"
        /\ Discovered(file, files, a) =
             [ members |-> Discovered(file, files, a).members,
               order |-> Discovered(file, files, a).order,
               explicit |-> Discovered(file, files, a).explicit ]
    BY <1>1, <2>1 DEF Discovered
  <2> QED
    BY <1>5, <2>2 DEF buildSetForAnchor
<1> QED
  BY <1>4, <1>5

(* A scan's index is made of URIs.                                         *)
LEMMA RescanTyped ==
    ASSUME NEW file \in [Uris -> Contents \cup {None}], NEW sidecar \in [Dirs -> Sidecars],
           NEW roots, NEW opts
    PROVE  LET index == Rescan(file, sidecar, roots, opts)
           IN  /\ DOMAIN index.sets \subseteq Uris
               /\ \A a \in DOMAIN index.sets : index.sets[a] \in
                     [ members : SUBSET Uris, order : Seq(Uris),
                       explicit : {"none", "directive", "sidecar"} ]
               /\ index.memberOf \in [Uris -> Uris \cup {None}]
<1> DEFINE index == Rescan(file, sidecar, roots, opts)
           files == Scanned(index.met)
<1>1. /\ DOMAIN index.sets \subseteq Anchors(file, files)
      /\ DOMAIN index.sets \subseteq Uris
      /\ \A a \in DOMAIN index.sets :
            index.sets[a] = buildSetForAnchor(file, sidecar, files, a)
  BY RescanAnchors
<1>2. files \in SUBSET Uris
  BY DEF Scanned
<1>3. \A a \in DOMAIN index.sets : index.sets[a] \in
        [ members : SUBSET Uris, order : Seq(Uris), explicit : {"none", "directive", "sidecar"} ]
  BY <1>1, <1>2, SetTyped
<1>4. index.memberOf = MemberMap(index.sets, index.met)
  BY DEF Rescan
<1>5. index.memberOf = [ u \in Uris |-> index.memberOf[u] ]
  BY <1>4 DEF MemberMap
<1>6. \A u \in Uris : index.memberOf[u] \in Uris \cup {None}
  BY <1>1, RescanSound
<1> QED
  BY <1>1, <1>3, <1>5, <1>6

----------------------------------------------------------------------------
(* The member map is complete.                                             *)

(* A nonempty set of natural numbers has a least one.                      *)
LEMMA Least ==
    ASSUME NEW T \in SUBSET Nat, T # {}
    PROVE  \E m \in T : \A n \in T : m <= n
<1>1. PICK m \in T : \A n \in T : <<n, m>> \notin OpToRel(<, Nat)
  BY NatLessThanWellFounded, WFMin
<1>2. \A n \in T : ~(n < m)
  BY <1>1 DEF OpToRel
<1> QED
  BY <1>2

(* A nonempty set of natural numbers below a bound has a greatest one.     *)
LEMMA Greatest ==
    ASSUME NEW bound \in Nat, NEW T \in SUBSET (0..bound), T # {}
    PROVE  \E m \in T : \A n \in T : n <= m
<1> DEFINE Bounds == { b \in Nat : \A n \in T : n <= b }
<1>1. PICK m \in Bounds : \A b \in Bounds : m <= b
  <2>1. bound \in Bounds /\ Bounds \in SUBSET Nat
    OBVIOUS
  <2> HIDE DEF Bounds
  <2> QED
    BY <2>1, Least
<1>2. ASSUME m \notin T PROVE FALSE
  <2>1. PICK n \in T : TRUE
    OBVIOUS
  <2>2. m - 1 \in Bounds
    BY <1>2, <2>1
  <2> QED
    BY <1>1, <2>2
<1> QED
  BY <1>2

(* The concatenation of sequences is a sequence.                           *)
LEMMA Flattened ==
    ASSUME NEW S, NEW seqs \in Seq(Seq(S))
    PROVE  FlattenSeq(seqs) \in Seq(S)
<1> DEFINE n == Len(seqs)
           IsFlat(f, k) == f = [ i \in 1..k |-> IF i = 1 THEN seqs[i] ELSE f[i-1] \o seqs[i] ]
           flatten == CHOOSE f : IsFlat(f, n)
           Missing == { k \in 0..n : ~ \E f : IsFlat(f, k) }
<1>1. CASE n = 0
  BY <1>1 DEF FlattenSeq
<1>2. CASE n # 0
  <2>0. n \in Nat \ {0}
    BY <1>2
  <2>1. FlattenSeq(seqs) = flatten[n]
    BY <1>2 DEF FlattenSeq
  <2>2. Missing = {}
    <3> SUFFICES ASSUME Missing # {} PROVE FALSE
      OBVIOUS
    <3>1. PICK k \in Missing : \A j \in Missing : k <= j
      <4> HIDE DEF IsFlat, n
      <4>1. Missing \in SUBSET Nat
        BY <2>0
      <4> HIDE DEF Missing
      <4> QED
        BY <4>1, Least
    <3>2. k # 0
      <4>1. IsFlat([ i \in 1..0 |-> <<>> ], 0)
        OBVIOUS
      <4> QED
        BY <4>1
    <3>3. k \in 1..n /\ k - 1 \in 0..n /\ k - 1 \notin Missing
      <4> HIDE DEF IsFlat, n
      <4> QED
        BY <2>0, <3>1, <3>2
    <3>4. PICK f : IsFlat(f, k - 1)
      BY <3>3
    <3> DEFINE g == [ i \in 1..k |-> IF i = k THEN IF k = 1 THEN seqs[k] ELSE f[k-1] \o seqs[k]
                                             ELSE f[i] ]
    <3>5. IsFlat(g, k)
      <4>1. ASSUME NEW i \in 1..k
            PROVE  g[i] = IF i = 1 THEN seqs[i] ELSE g[i-1] \o seqs[i]
        <5> HIDE DEF n
        <5>1. CASE i = k
          <6>1. k # 1 => g[k-1] = f[k-1]
            BY <2>0, <3>3
          <6> QED
            BY <2>0, <3>3, <5>1, <6>1
        <5>2. CASE i # k
          <6>1. i \in 1..(k-1) /\ g[i] = f[i]
            BY <2>0, <3>3, <5>2
          <6>2. i # 1 => g[i-1] = f[i-1]
            BY <2>0, <3>3, <6>1
          <6>3. f[i] = IF i = 1 THEN seqs[i] ELSE f[i-1] \o seqs[i]
            BY <3>4, <6>1
          <6> QED
            BY <6>1, <6>2, <6>3
        <5> QED
          BY <5>1, <5>2
      <4> QED
        BY <4>1
    <3> QED
      BY <3>1, <3>5
  <2>3. IsFlat(flatten, n)
    <3>1. \E f : IsFlat(f, n)
      <4>1. n \in 0..n
        BY <2>0
      <4> HIDE DEF IsFlat, n
      <4> QED
        BY <2>2, <4>1
    <3> QED
      BY <3>1
  <2> HIDE DEF flatten
  <2> DEFINE Wrong == { i \in 1..n : flatten[i] \notin Seq(S) }
  <2>4. Wrong = {}
    <3> SUFFICES ASSUME Wrong # {} PROVE FALSE
      OBVIOUS
    <3>1. PICK k \in Wrong : \A j \in Wrong : k <= j
      <4>1. Wrong \in SUBSET Nat
        BY <2>0
      <4> HIDE DEF Wrong
      <4> QED
        BY <4>1, Least
    <3>2. flatten[k] = IF k = 1 THEN seqs[k] ELSE flatten[k-1] \o seqs[k]
      BY <2>3
    <3>3. k # 1 => flatten[k-1] \in Seq(S)
      BY <2>0, <3>1
    <3>4. seqs[k] \in Seq(S)
      BY <3>1
    <3>5. k # 1 => flatten[k-1] \o seqs[k] \in Seq(S)
      BY <3>3, <3>4
    <3> QED
      BY <3>1, <3>2, <3>4, <3>5
  <2> QED
    BY <2>0, <2>1, <2>4
<1> QED
  BY <1>1, <1>2

(* What the walk meets is a sequence of URIs.                              *)
LEMMA WalkTyped ==
    ASSUME NEW file, NEW roots, NEW n \in Nat, DOMAIN roots = 1..n,
           NEW opts, opts.maxFilesScanned \in Nat
    PROVE  walkFiles(file, roots, opts) \in Seq(Uris)
<1> DEFINE walks == [ i \in DOMAIN roots |->
                        WalkOrder[{ u \in Uris : /\ file[u] # None
                                                  /\ isUnderDir(u, roots[i])
                                                  /\ ~ isSkipped(u, roots[i]) }] ]
<1>1. walks \in Seq(Seq(Uris))
  <2>1. \A i \in 1..n : walks[i] \in Seq(Uris)
    BY ListingAssumption
  <2>2. DOMAIN walks = 1..n /\ walks = [ i \in 1..n |-> walks[i] ]
    OBVIOUS
  <2> HIDE DEF walks
  <2> QED
    BY <2>1, <2>2
<1> HIDE DEF walks
<1>2. FlattenSeq(walks) \in Seq(Uris)
  BY <1>1, Flattened
<1>3. walkFiles(file, roots, opts) = firstOf(FlattenSeq(walks), opts.maxFilesScanned)
  BY DEF walkFiles, walks
<1> QED
  BY <1>2, <1>3 DEF firstOf

(* Every file that a set lists has a set that answers for it.              *)
LEMMA MemberMapComplete ==
    ASSUME NEW sets, NEW met \in Seq(Uris), NEW u \in Uris,
           NEW i \in DOMAIN met, met[i] \in DOMAIN sets, u \in sets[met[i]].members
    PROVE  MemberMap(sets, met)[u] # None
<1> DEFINE Holds(k) == met[k] \in DOMAIN sets /\ u \in sets[met[k]].members
           Places == { k \in DOMAIN met : Holds(k) }
           LastPlace(k) == Holds(k) /\ \A j \in DOMAIN met : Holds(j) => j <= k
<1>1. PICK k \in Places : \A j \in Places : j <= k
  <2>1. Places \in SUBSET (0..Len(met)) /\ Places # {} /\ Len(met) \in Nat
    OBVIOUS
  <2> HIDE DEF Places
  <2> QED
    BY <2>1, Greatest
<1>2. k \in DOMAIN met /\ LastPlace(k)
  BY <1>1
<1>3. MemberMap(sets, met)[u] = IF \E j \in DOMAIN met : LastPlace(j)
                                THEN met[CHOOSE j \in DOMAIN met : LastPlace(j)] ELSE None
  BY DEF MemberMap
<1> HIDE DEF LastPlace
<1>4. (CHOOSE j \in DOMAIN met : LastPlace(j)) \in DOMAIN met
  BY <1>2
<1> QED
  BY <1>2, <1>3, <1>4, ContentsAssumption

LEMMA RescanComplete ==
    ASSUME NEW file, NEW sidecar, NEW roots, NEW n \in Nat, DOMAIN roots = 1..n,
           NEW opts, opts.maxFilesScanned \in Nat
    PROVE  LET index == Rescan(file, sidecar, roots, opts)
           IN  /\ index.met \in Seq(Uris)
               /\ \A a \in DOMAIN index.sets, u \in Uris :
                     u \in index.sets[a].members => index.memberOf[u] # None
<1> DEFINE index == Rescan(file, sidecar, roots, opts)
<1>1. index.met \in Seq(Uris)
  BY WalkTyped, RescanAnchors
<1>2. index.memberOf = MemberMap(index.sets, index.met)
  BY DEF Rescan
<1>3. \A a \in DOMAIN index.sets : \E i \in DOMAIN index.met : index.met[i] = a
  BY RescanAnchors DEF Anchors, Scanned
<1> HIDE DEF index
<1>4. \A a \in DOMAIN index.sets, u \in Uris :
        u \in index.sets[a].members => index.memberOf[u] # None
  BY <1>1, <1>2, <1>3, MemberMapComplete
<1> QED
  BY <1>1, <1>4 DEF index
=============================================================================
