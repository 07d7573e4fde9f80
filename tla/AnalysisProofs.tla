--------------------------- MODULE AnalysisProofs ---------------------------
(***************************************************************************)
(* The answers computed from a config set fit together, whatever its       *)
(* members hold: any number of members and any texts.                      *)
(*                                                                         *)
(* The keys that enclose a line say what it is: a reference, a definition  *)
(* or a pipeline, never two of them, nor a definition of two classes.  So  *)
(* a site has one entry of the merged view, and what definition, hover,    *)
(* references, diagnostics and tokens do at a site comes down to which     *)
(* classes have the id written there; each feature branches on that in its *)
(* own way, and the proofs compare the branches.                           *)
(*                                                                         *)
(* For the tokens, that counting the tokens before each puts them in order,*)
(* and that a client adding up the deltas finds the places they came from. *)
(*                                                                         *)
(* For a set and the one text that all its members make: a line of it is   *)
(* enclosed by the same lines, so it is the same reference, definition or  *)
(* pipeline, moved; the order of places is kept; and each rule then says   *)
(* the same of the two.                                                    *)
(***************************************************************************)
EXTENDS Analysis, FiniteSetTheorems, WellFoundedInduction, TLAPS

(* Every member has one of the texts.                                      *)
Chosen == text \in [1..Members -> DOMAIN Texts]

LEMMA InitChosen == Init => Chosen
<1>1. 1 \in DOMAIN Texts
  BY TextsAssumption
<1> QED
  BY <1>1 DEF Init, Chosen

LEMMA NextChosen == Chosen /\ [Next]_vars => Chosen'
  BY DEF Chosen, Next, Edit, vars

LEMMA AlwaysChosen == Spec => []Chosen
  BY InitChosen, NextChosen, PTL DEF Spec

-----------------------------------------------------------------------------
(* The first and the last of something.                                    *)

LEMMA Smallest ==
    ASSUME NEW T \in SUBSET Nat, T # {}
    PROVE  \E m \in T : \A n \in T : m <= n
<1>1. PICK m \in T : \A n \in T : <<n, m>> \notin OpToRel(<, Nat)
  BY NatLessThanWellFounded, WFMin
<1>2. \A n \in T : ~(n < m)
  BY <1>1 DEF OpToRel
<1> QED
  BY <1>2

LEMMA Largest ==
    ASSUME NEW T \in SUBSET Nat, T # {}, NEW bound \in Nat, \A n \in T : n <= bound
    PROVE  \E m \in T : \A n \in T : n <= m
<1> DEFINE Bounds == { b \in Nat : \A n \in T : n <= b }
<1>1. PICK m \in Bounds : \A b \in Bounds : m <= b
  <2>1. bound \in Bounds
    OBVIOUS
  <2> HIDE DEF Bounds
  <2>2. Bounds \in SUBSET Nat
    BY DEF Bounds
  <2> QED
    BY <2>1, <2>2, Smallest
<1>2. m \in T
  <2> SUFFICES ASSUME m \notin T PROVE FALSE
    OBVIOUS
  <2>1. \A n \in T : n < m
    BY <1>1
  <2>2. m \in Nat \ {0}
    <3>1. PICK n \in T : n < m
      BY <2>1
    <3> QED
      BY <3>1
  <2>3. m - 1 \in Bounds
    BY <2>1, <2>2
  <2> QED
    BY <1>1, <2>2, <2>3
<1> QED
  BY <1>1, <1>2

LEMMA MaxIsLargest ==
    ASSUME NEW T \in SUBSET Nat, T # {}, NEW bound \in Nat, \A n \in T : n <= bound
    PROVE  Max(T) \in T
<1>1. PICK m \in T : \A n \in T : n <= m
  BY Largest
<1>2. m \in T /\ \A n \in T : m >= n
  BY <1>1
<1> QED
  BY <1>2 DEF Max

(* Sites are pairs of a member and a line.                                 *)
LEMMA FirstIsOne ==
    ASSUME NEW S \in SUBSET (Nat \X Nat), S # {}
    PROVE  FirstOf(S) \in S
<1>1. PICK i \in { s[1] : s \in S } : \A j \in { s[1] : s \in S } : i <= j
  <2> DEFINE T == { s[1] : s \in S }
  <2>1. T \in SUBSET Nat /\ T # {}
    OBVIOUS
  <2> HIDE DEF T
  <2> QED
    BY <2>1, Smallest DEF T
<1> DEFINE lines == { n \in Nat : <<i, n>> \in S }
<1>2. PICK n \in lines : \A k \in lines : n <= k
  <2>1. lines \in SUBSET Nat /\ lines # {}
    OBVIOUS
  <2> HIDE DEF lines
  <2> QED
    BY <2>1, Smallest
<1>3. <<i, n>> \in S /\ \A x \in S : x = <<i, n>> \/ Before(<<i, n>>, x)
  <2>1. ASSUME NEW x \in S PROVE x = <<i, n>> \/ Before(<<i, n>>, x)
    <3>1. PICK j \in Nat, k \in Nat : x = <<j, k>>
      OBVIOUS
    <3>2. i <= j /\ (j = i => n <= k)
      BY <1>1, <1>2, <3>1
    <3> QED
      BY <3>1, <3>2 DEF Before
  <2> QED
    BY <1>2, <2>1
<1> QED
  BY <1>3 DEF FirstOf

IsLast(S, s) == s \in S /\ \A x \in S : x = s \/ Before(x, s)

LEMMA LastIsOne ==
    ASSUME NEW S \in SUBSET (Nat \X Nat), S # {}, NEW bound \in Nat,
           \A s \in S : s[1] <= bound,
           \A s \in S : \E b \in Nat : \A x \in S : x[1] = s[1] => x[2] <= b
    PROVE  LastOf(S) \in S /\ IsLast(S, LastOf(S))
<1>1. PICK i \in { s[1] : s \in S } : \A j \in { s[1] : s \in S } : j <= i
  <2> DEFINE T == { s[1] : s \in S }
  <2>1. T \in SUBSET Nat /\ T # {} /\ \A n \in T : n <= bound
    OBVIOUS
  <2> HIDE DEF T
  <2> QED
    BY <2>1, Largest DEF T
<1> DEFINE lines == { n \in Nat : <<i, n>> \in S }
<1>2. PICK n \in lines : \A k \in lines : k <= n
  <2>1. lines \in SUBSET Nat /\ lines # {}
    OBVIOUS
  <2>2. PICK b \in Nat : \A k \in lines : k <= b
    <3>1. PICK s \in S : s[1] = i
      OBVIOUS
    <3> QED
      BY <3>1
  <2> HIDE DEF lines
  <2> QED
    BY <2>1, <2>2, Largest
<1>3. <<i, n>> \in S /\ \A x \in S : x = <<i, n>> \/ Before(x, <<i, n>>)
  <2>1. ASSUME NEW x \in S PROVE x = <<i, n>> \/ Before(x, <<i, n>>)
    <3>1. PICK j \in Nat, k \in Nat : x = <<j, k>>
      OBVIOUS
    <3>2. j <= i /\ (j = i => k <= n)
      BY <1>1, <1>2, <3>1
    <3> QED
      BY <3>1, <3>2 DEF Before
  <2> QED
    BY <1>2, <2>1
<1> QED
  BY <1>3 DEF LastOf, IsLast

-----------------------------------------------------------------------------
(* What buildModel reads off a line, by the keys that enclose it.          *)

trails(t) == [n \in Written(t) |-> Trail(t, n)]
kindOf(t, n) == RefKind(t, trails(t), n)
Kinds == Buckets \cup {"service", "strict", "soft", "pipeline"}
RefLines(t) == { n \in Written(t) : kindOf(t, n) # "none" }
refOf(t, n) ==
    [kind |-> kindOf(t, n), id |-> resolveRefId(t[n].val), at |-> n,
     pipe |-> IF kindOf(t, n) \in Buckets THEN trails(t)[n][3] ELSE ""]
RefOf(i, n) == [refOf(TextOf(i), n) EXCEPT !.at = <<i, n>>]

isDefinition(t, cls, n) ==
    /\ n \in Written(t)
    /\ Len(trails(t)[n]) = 2 /\ trails(t)[n][1] \in DOMAIN CLASS_KEYS
    /\ CLASS_KEYS[trails(t)[n][1]] = cls
isPipeline(t, n) ==
    /\ n \in Written(t)
    /\ Len(trails(t)[n]) = 3 /\ trails(t)[n][1] = "service" /\ trails(t)[n][2] = "pipelines"

LEMMA WrittenLines ==
    ASSUME NEW K, NEW t \in Seq(K)
    PROVE  /\ Written(t) \in SUBSET Nat /\ Written(t) \subseteq DOMAIN t
           /\ Len(t) \in Nat /\ \A n \in Written(t) : n <= Len(t)
  BY DEF Written

LEMMA KindsOfRefs ==
    ASSUME NEW t, NEW n \in RefLines(t)
    PROVE  kindOf(t, n) \in Kinds
  BY DEF RefLines, kindOf, RefKind, ServiceKind, scrapeExtensionRef, Kinds

(* No line is two of a reference, a definition and a pipeline, nor a       *)
(* definition of two classes.                                              *)
LEMMA LinesAreOne ==
    ASSUME NEW t, NEW n
    PROVE  /\ n \in RefLines(t) => ~ isPipeline(t, n) /\ \A c : ~ isDefinition(t, c, n)
           /\ isPipeline(t, n) => \A c : ~ isDefinition(t, c, n)
           /\ \A c, d : isDefinition(t, c, n) /\ isDefinition(t, d, n) => c = d
<1>1. n \in RefLines(t) => ~ isPipeline(t, n)
  <2> SUFFICES ASSUME isPipeline(t, n) PROVE kindOf(t, n) = "none"
    BY DEF RefLines
  <2>1. ~ InConfig(trails(t), n)
    BY DEF isPipeline, InConfig, CLASS_KEYS
  <2>2. trails(t)[n] # <<"service", "extensions", Dash>>
    BY DEF isPipeline
  <2>3. ServiceKind(t, trails(t), n) = "none"
    BY <2>2 DEF isPipeline, ServiceKind
  <2> QED
    BY <2>1, <2>3 DEF kindOf, RefKind
<1>2. n \in RefLines(t) => \A c : ~ isDefinition(t, c, n)
  <2> SUFFICES ASSUME NEW c, isDefinition(t, c, n) PROVE kindOf(t, n) = "none"
    BY DEF RefLines
  <2>1. ~ InConfig(trails(t), n)
    BY DEF isDefinition, InConfig
  <2>2. trails(t)[n] # <<"service", "extensions", Dash>>
    BY DEF isDefinition
  <2>3. ServiceKind(t, trails(t), n) = "none"
    BY <2>2 DEF isDefinition, ServiceKind
  <2> QED
    BY <2>1, <2>3 DEF kindOf, RefKind
<1>3. isPipeline(t, n) => \A c : ~ isDefinition(t, c, n)
  BY DEF isPipeline, isDefinition
<1>4. \A c, d : isDefinition(t, c, n) /\ isDefinition(t, d, n) => c = d
  BY DEF isDefinition
<1> QED
  BY <1>1, <1>2, <1>3, <1>4

LEMMA DocsAre ==
    ASSUME Chosen
    PROVE  /\ DOMAIN Docs = 1..Members
           /\ \A i \in 1..Members : Docs[i] = buildModel(TextOf(i)) /\ TextOf(i) \in Seq(Line)
<1>1. ASSUME NEW i \in 1..Members PROVE text[i] \in DOMAIN Texts
  BY DEF Chosen
<1>2. \A n \in DOMAIN Texts : Texts[n] \in Seq(Line)
  BY TextsAssumption
<1> QED
  BY <1>1, <1>2 DEF Docs, Model, TextOf

LEMMA Built ==
    ASSUME NEW t
    PROVE  /\ \A cls \in Classes : buildModel(t).components[cls] = collectComponents(t, trails(t), cls)
           /\ buildModel(t).pipelines = collectService(t, trails(t))
           /\ buildModel(t).refs = { refOf(t, n) : n \in RefLines(t) }
  BY DEF buildModel, trails, kindOf, RefLines, refOf

LEMMA RefsAre ==
    ASSUME Chosen, NEW r
    PROVE  r \in Refs(Docs) <=>
             \E i \in 1..Members : \E n \in RefLines(TextOf(i)) : r = RefOf(i, n)
<1>2. \A i \in 1..Members : Docs[i].refs = { refOf(TextOf(i), n) : n \in RefLines(TextOf(i)) }
  BY Built, DocsAre
<1>3. \A i, n : [refOf(TextOf(i), n) EXCEPT !.at = <<i, @>>] = RefOf(i, n)
  BY DEF refOf, RefOf
<1>4. r \in Refs(Docs) <=> \E i \in 1..Members : \E q \in Docs[i].refs : r = [q EXCEPT !.at = <<i, @>>]
  BY DocsAre DEF Refs
<1> QED
  BY <1>2, <1>3, <1>4

LEMMA DefinitionsAre ==
    ASSUME Chosen, NEW cls \in Classes, NEW id, NEW s \in Definitions(Docs, cls, id)
    PROVE  \E i \in 1..Members : \E n \in Written(TextOf(i)) :
             /\ s = <<i, n>> /\ isDefinition(TextOf(i), cls, n) /\ TextOf(i)[n].key = id
             /\ id \in DOMAIN Docs[i].components[cls] /\ Docs[i].components[cls][id] = n
<1>1. PICK i \in 1..Members : /\ id \in DOMAIN Docs[i].components[cls]
                              /\ s = <<i, Docs[i].components[cls][id]>>
  BY DocsAre DEF Definitions
<1> DEFINE t    == TextOf(i)
           defs == { n \in Written(t) : /\ Len(trails(t)[n]) = 2 /\ trails(t)[n][2] # Dash
                                         /\ trails(t)[n][1] \in DOMAIN CLASS_KEYS
                                         /\ CLASS_KEYS[trails(t)[n][1]] = cls }
           same == { n \in defs : t[n].key = id }
<1>2. Docs[i].components[cls] = collectComponents(t, trails(t), cls)
  BY DocsAre, Built
<1>3. collectComponents(t, trails(t), cls)
        = [ k \in { t[n].key : n \in defs } |-> Max({ n \in defs : t[n].key = k }) ]
  BY DEF collectComponents, trails
<1>4. id \in { t[n].key : n \in defs } /\ Docs[i].components[cls][id] = Max(same)
  BY <1>1, <1>2, <1>3
<1>5. Max(same) \in same
  <2>1. /\ same \in SUBSET Nat /\ same # {}
        /\ Len(t) \in Nat /\ \A n \in same : n <= Len(t)
    BY <1>4, WrittenLines, DocsAre
  <2> HIDE DEF same
  <2> QED
    BY <2>1, MaxIsLargest
<1> QED
  BY <1>1, <1>4, <1>5 DEF isDefinition

LEMMA FragmentsAre ==
    ASSUME Chosen, NEW p \in Fragments(Docs)
    PROVE  \E i \in 1..Members : \E n \in Written(TextOf(i)) :
             p = [id |-> TextOf(i)[n].key, at |-> <<i, n>>] /\ isPipeline(TextOf(i), n)
<1>1. PICK i \in 1..Members : \E q \in Docs[i].pipelines : p = [q EXCEPT !.at = <<i, @>>]
  BY DocsAre DEF Fragments
<1> DEFINE t == TextOf(i)
<1>2. Docs[i].pipelines = collectService(t, trails(t))
  BY DocsAre, Built
<1>3. PICK q \in collectService(t, trails(t)) : p = [q EXCEPT !.at = <<i, @>>]
  BY <1>1, <1>2
<1>4. PICK n \in Written(t) : q = [id |-> t[n].key, at |-> n] /\ isPipeline(t, n)
  BY DEF collectService, trails, isPipeline
<1> QED
  BY <1>3, <1>4

LEMMA Have ==
    ASSUME Chosen, NEW cls \in Classes, NEW id
    PROVE  Has(Docs, cls, id) <=> <<cls, id>> \in Components(Docs)
<1>1. Has(Docs, cls, id) => \E i \in DOMAIN Docs : id \in DOMAIN Docs[i].components[cls]
  BY DEF Has, Definitions
<1> QED
  BY <1>1 DEF Components

LEMMA ComponentsAre ==
    ASSUME NEW c \in Components(Docs)
    PROVE  c[1] \in Classes /\ c = <<c[1], c[2]>> /\ Has(Docs, c[1], c[2])
  BY DEF Components

-----------------------------------------------------------------------------
(* Putting things in order.                                                *)

LEMMA BeforeIsTotal ==
    ASSUME NEW a \in Nat \X Nat, NEW b \in Nat \X Nat
    PROVE  /\ ~ Before(a, a) /\ (a = b \/ Before(a, b) \/ Before(b, a)) /\ ~ (Before(a, b) /\ Before(b, a))
           /\ \A c \in Nat \X Nat : Before(a, b) /\ Before(b, c) => Before(a, c)
  BY DEF Before

(* Counting how many come before tells apart the members of a finite set   *)
(* in a total order, and every count from none to all but one occurs.      *)
IsOrder(S, R) ==
    /\ \A x \in S : <<x, x>> \notin R
    /\ \A x, y \in S : x = y \/ <<x, y>> \in R \/ <<y, x>> \in R
    /\ \A x, y, z \in S : <<x, y>> \in R /\ <<y, z>> \in R => <<x, z>> \in R
rank(S, R, x) == Cardinality({y \in S : <<y, x>> \in R})

LEMMA RanksDiffer ==
    ASSUME NEW S, IsFiniteSet(S), NEW R, IsOrder(S, R)
    PROVE  /\ Cardinality(S) \in Nat
           /\ \A x \in S : rank(S, R, x) \in Nat
           /\ \A x, y \in S : <<x, y>> \in R => rank(S, R, x) < rank(S, R, y)
           /\ \A x, y \in S : rank(S, R, x) = rank(S, R, y) => x = y
           /\ \A k \in 1..Cardinality(S) : \E x \in S : rank(S, R, x) = k - 1
           /\ \A x \in S : \E k \in 1..Cardinality(S) : rank(S, R, x) = k - 1
<1> DEFINE C == Cardinality(S)
           below(x) == {y \in S : <<y, x>> \in R}
           count == [x \in S |-> rank(S, R, x)]
<1>1. C \in Nat
  BY FS_CardinalityType
<1>2. ASSUME NEW x \in S PROVE IsFiniteSet(below(x)) /\ count[x] \in 0..(C - 1) /\ count[x] \in Nat
  <2>1. below(x) \in SUBSET S /\ x \notin below(x)
    BY DEF IsOrder
  <2>2. count[x] = Cardinality(below(x))
    BY DEF rank
  <2> HIDE DEF below, count
  <2>3. IsFiniteSet(below(x)) /\ Cardinality(below(x)) <= C /\ Cardinality(below(x)) # C
    BY <2>1, FS_Subset
  <2>4. Cardinality(below(x)) \in Nat
    BY <2>3, FS_CardinalityType
  <2> QED
    BY <1>1, <2>2, <2>3, <2>4
<1>3. ASSUME NEW x \in S, NEW y \in S, <<x, y>> \in R PROVE count[x] < count[y]
  <2>1. below(x) \in SUBSET below(y)
    BY <1>3 DEF IsOrder
  <2>2. x \in below(y) /\ x \notin below(x)
    BY <1>3 DEF IsOrder
  <2>3. count[x] = Cardinality(below(x)) /\ count[y] = Cardinality(below(y))
    BY DEF rank
  <2> HIDE DEF below, count
  <2>4. Cardinality(below(x)) <= Cardinality(below(y)) /\ Cardinality(below(x)) # Cardinality(below(y))
    BY <1>2, <2>1, <2>2, FS_Subset
  <2>5. count[x] \in Nat /\ count[y] \in Nat
    BY <1>2
  <2> QED
    BY <2>3, <2>4, <2>5
<1>4. ASSUME NEW x \in S, NEW y \in S PROVE count[x] = count[y] => x = y
  <2> HIDE DEF count
  <2>1. count[x] \in Nat /\ count[y] \in Nat
    BY <1>2
  <2>2. x = y \/ <<x, y>> \in R \/ <<y, x>> \in R
    BY DEF IsOrder
  <2>3. <<x, y>> \in R => count[x] < count[y]
    BY <1>3
  <2>4. <<y, x>> \in R => count[y] < count[x]
    BY <1>3
  <2> QED
    BY <2>1, <2>2, <2>3, <2>4
<1>5. \A k \in 1..C : \E x \in S : count[x] = k - 1
  <2>1. count \in Injection(S, 0..(C - 1))
    <3>1. count \in [S -> 0..(C - 1)]
      BY <1>2
    <3> HIDE DEF count
    <3> QED
      BY <1>4, <3>1 DEF Injection, IsInjective
  <2>2. IsFiniteSet(0..(C - 1)) /\ Cardinality(0..(C - 1)) = C
    BY <1>1, FS_Interval
  <2> HIDE DEF count
  <2>3. count \in Surjection(S, 0..(C - 1))
    BY <2>1, <2>2, FS_Injection
  <2>4. \A t \in 0..(C - 1) : \E x \in S : count[x] = t
    BY <2>3 DEF Surjection
  <2> HIDE DEF C
  <2>5. \A k \in 1..C : k - 1 \in 0..(C - 1)
    BY <1>1
  <2> QED
    BY <2>4, <2>5
<1>6. ASSUME NEW x \in S PROVE \E k \in 1..C : count[x] = k - 1
  <2> HIDE DEF C, count
  <2>1. count[x] \in 0..(C - 1) /\ count[x] \in Nat
    BY <1>2
  <2>2. count[x] + 1 \in 1..C /\ (count[x] + 1) - 1 = count[x]
    BY <1>1, <2>1
  <2> QED
    BY <2>2
<1>7. \A x \in S : count[x] = rank(S, R, x)
  OBVIOUS
<1> HIDE DEF count, C
<1>8. \A x \in S : rank(S, R, x) \in Nat
  BY <1>2, <1>7
<1>9. \A x, y \in S : <<x, y>> \in R => rank(S, R, x) < rank(S, R, y)
  BY <1>3, <1>7
<1>10. \A x, y \in S : rank(S, R, x) = rank(S, R, y) => x = y
  BY <1>4, <1>7
<1>11. \A k \in 1..C : \E x \in S : rank(S, R, x) = k - 1
  BY <1>5, <1>7
<1>12. \A x \in S : \E k \in 1..C : rank(S, R, x) = k - 1
  BY <1>6, <1>7
<1> QED
  BY <1>1, <1>8, <1>9, <1>10, <1>11, <1>12 DEF C

(* The members of a set by the sites that first has for them.              *)
bySite(S, first) ==
    [k \in 1..Cardinality(S) |-> CHOOSE x \in S : Cardinality({y \in S : Before(first[y], first[x])}) = k - 1]

LEMMA BySiteHasAll ==
    ASSUME NEW S, IsFiniteSet(S), NEW first,
           \A x \in S : first[x] \in Nat \X Nat,
           \A x, y \in S : first[x] = first[y] => x = y
    PROVE  /\ Cardinality(S) \in Nat /\ bySite(S, first) \in Seq(S)
           /\ Len(bySite(S, first)) = Cardinality(S)
           /\ \A x \in S : \E k \in 1..Cardinality(S) : bySite(S, first)[k] = x
<1> DEFINE C == Cardinality(S)
           R == {p \in S \X S : Before(first[p[1]], first[p[2]])}
           seen == bySite(S, first)
<1>1. \A x, y \in S : <<x, y>> \in R <=> Before(first[x], first[y])
  OBVIOUS
<1>2. ASSUME NEW x \in S PROVE {y \in S : <<y, x>> \in R} = {y \in S : Before(first[y], first[x])}
  BY <1>1
<1> HIDE DEF R
<1>3. IsOrder(S, R)
  BY <1>1, BeforeIsTotal DEF IsOrder
<1>4. \A x \in S : rank(S, R, x) = Cardinality({y \in S : Before(first[y], first[x])})
  BY <1>2 DEF rank
<1>5. /\ C \in Nat
      /\ \A x, y \in S : rank(S, R, x) = rank(S, R, y) => x = y
      /\ \A k \in 1..C : \E x \in S : rank(S, R, x) = k - 1
      /\ \A x \in S : \E k \in 1..C : rank(S, R, x) = k - 1
  BY <1>3, RanksDiffer
<1>6. ASSUME NEW k \in 1..C PROVE seen[k] \in S /\ rank(S, R, seen[k]) = k - 1
  <2>1. seen[k] = CHOOSE x \in S : Cardinality({y \in S : Before(first[y], first[x])}) = k - 1
    BY DEF bySite
  <2>2. \E x \in S : Cardinality({y \in S : Before(first[y], first[x])}) = k - 1
    BY <1>4, <1>5
  <2>3. seen[k] \in S /\ Cardinality({y \in S : Before(first[y], first[seen[k]])}) = k - 1
    BY <2>1, <2>2
  <2> QED
    BY <1>4, <2>3
<1> DEFINE pick(k) == CHOOSE x \in S : Cardinality({y \in S : Before(first[y], first[x])}) = k - 1
<1>7. seen = [k \in 1..C |-> pick(k)]
  BY DEF bySite
<1> HIDE DEF seen, C, pick
<1>8. seen \in [1..C -> S]
  BY <1>6, <1>7
<1>9. seen \in Seq(S) /\ Len(seen) = C
  BY <1>5, <1>8
<1>10. ASSUME NEW x \in S PROVE \E k \in 1..C : seen[k] = x
  <2>1. PICK k \in 1..C : rank(S, R, x) = k - 1
    BY <1>5
  <2>2. seen[k] \in S /\ rank(S, R, seen[k]) = k - 1
    BY <1>6
  <2>3. seen[k] = x
    BY <1>5, <2>1, <2>2
  <2> QED
    BY <2>3
<1> QED
  BY <1>5, <1>9, <1>10 DEF seen, C

LEMMA MinOfTwo ==
    ASSUME NEW a \in Nat, NEW b \in Nat
    PROVE  Min({a, b}) = IF a < b THEN a ELSE b
<1> DEFINE m == IF a < b THEN a ELSE b
<1>1. m \in {a, b} /\ m \in Nat /\ \A y \in {a, b} : m <= y /\ y \in Nat
  OBVIOUS
<1> HIDE DEF m
<1>2. \A x \in {a, b} : (\A y \in {a, b} : x <= y) => x = m
  BY <1>1
<1>3. Min({a, b}) = m
  BY <1>1, <1>2 DEF Min
<1> QED
  BY <1>3 DEF m

(* The head of a sequence is all of it, or as long as it may be.           *)
LEMMA HeadOf ==
    ASSUME NEW S, NEW seq \in Seq(S), NEW limit \in Nat \ {0}
    PROVE  \/ SubSeq(seq, 1, Min({limit, Len(seq)})) = seq
           \/ Len(SubSeq(seq, 1, Min({limit, Len(seq)}))) = limit
<1>1. Len(seq) \in Nat /\ limit \in Nat
  OBVIOUS
<1>2. Min({limit, Len(seq)}) = IF limit < Len(seq) THEN limit ELSE Len(seq)
  BY <1>1, MinOfTwo
<1>3. CASE limit < Len(seq)
  <2>1. Len(SubSeq(seq, 1, limit)) = limit
    BY <1>1, <1>3
  <2> QED
    BY <1>2, <1>3, <2>1
<1>4. CASE ~ (limit < Len(seq))
  <2>1. SubSeq(seq, 1, Len(seq)) = seq
    OBVIOUS
  <2> QED
    BY <1>2, <1>4, <2>1
<1> QED
  BY <1>3, <1>4

(* There are finitely many places for a reference.                         *)
LEMMA SitesFinite ==
    ASSUME Chosen
    PROVE  /\ IsFiniteSet({r.at : r \in Refs(Docs)})
           /\ {r.at : r \in Refs(Docs)} \in SUBSET (Nat \X Nat)
<1> DEFINE spans == [i \in 1..Members |-> 1..Len(TextOf(i))]
           S == {spans[i] : i \in 1..Members}
           L == UNION S
           at == {r.at : r \in Refs(Docs)}
<1>1. IsFiniteSet(1..Members)
  BY FS_Interval, MembersAssumption
<1>2. IsFiniteSet(S) /\ \A s \in S : IsFiniteSet(s)
  <2>1. \A i \in 1..Members : IsFiniteSet(spans[i])
    <3>1. \A i \in 1..Members : Len(TextOf(i)) \in Nat
      BY DocsAre, WrittenLines
    <3>2. ASSUME NEW i \in 1..Members PROVE IsFiniteSet(1..Len(TextOf(i)))
      <4>1. Len(TextOf(i)) \in Int /\ 1 \in Int
        BY <3>1
      <4> QED
        BY <4>1, FS_Interval
    <3> QED
      BY <3>2
  <2> HIDE DEF spans
  <2>2. IsFiniteSet(S)
    <3>1. spans \in Surjection(1..Members, S)
      <4>1. spans \in [1..Members -> S]
        BY DEF spans
      <4> QED
        BY <4>1 DEF Surjection
    <3> QED
      BY <1>1, <3>1, FS_Surjection
  <2> QED
    BY <2>1, <2>2
<1>3. IsFiniteSet(L)
  <2> HIDE DEF S
  <2> QED
    BY <1>2, FS_UNION
<1>4. ASSUME NEW r \in Refs(Docs) PROVE r.at \in (1..Members) \X L
  <2>0. PICK i \in 1..Members : \E n \in RefLines(TextOf(i)) : r = RefOf(i, n)
    BY RefsAre
  <2>1. PICK n \in RefLines(TextOf(i)) : r = RefOf(i, n)
    BY <2>0
  <2>2. r.at = <<i, n>>
    BY <2>1 DEF RefOf, refOf
  <2>3. n \in 1..Len(TextOf(i))
    BY DocsAre, WrittenLines DEF RefLines
  <2>4. spans[i] = 1..Len(TextOf(i))
    OBVIOUS
  <2>5. n \in L
    BY <2>3, <2>4
  <2> QED
    BY <2>2, <2>5
<1>5. L \in SUBSET Nat
  BY DocsAre, WrittenLines
<1> HIDE DEF L
<1>6. IsFiniteSet((1..Members) \X L)
  BY <1>1, <1>3, FS_Product
<1>7. at \in SUBSET ((1..Members) \X L)
  BY <1>4
<1> HIDE DEF at
<1>8. IsFiniteSet(at)
  BY <1>6, <1>7, FS_Subset
<1>9. at \in SUBSET (Nat \X Nat)
  <2>1. 1..Members \in SUBSET Nat
    BY MembersAssumption
  <2> QED
    BY <1>5, <1>7, <2>1
<1> QED
  BY <1>8, <1>9 DEF at

-----------------------------------------------------------------------------
(* What is at a site.                                                      *)

LEMMA AtRef ==
    ASSUME Chosen, NEW r \in Refs(Docs)
    PROVE  /\ RefsAt(Docs, r.at) = {r} /\ EntriesAt(Docs, r.at) = {} /\ PipelinesAt(Docs, r.at) = {}
           /\ r.kind \in Kinds
<1>0. PICK i \in 1..Members : \E n \in RefLines(TextOf(i)) : r = RefOf(i, n)
  BY RefsAre
<1>1. PICK n \in RefLines(TextOf(i)) : r = RefOf(i, n)
  BY <1>0
<1>2. r.at = <<i, n>> /\ r.kind = kindOf(TextOf(i), n)
  BY <1>1 DEF RefOf, refOf
<1>3. RefsAt(Docs, r.at) = {r}
  <2>1. ASSUME NEW q \in Refs(Docs), q.at = r.at PROVE q = r
    <3>1. PICK j, k : q = RefOf(j, k)
      BY RefsAre
    <3>2. q.at = <<j, k>>
      BY <3>1 DEF RefOf, refOf
    <3> QED
      BY <1>1, <1>2, <2>1, <3>1, <3>2
  <2> QED
    BY <2>1 DEF RefsAt
<1>4. EntriesAt(Docs, r.at) = {}
  <2> SUFFICES ASSUME NEW c \in EntriesAt(Docs, r.at) PROVE FALSE
    OBVIOUS
  <2>1. c[1] \in Classes /\ c[2] \in DOMAIN Docs[i].components[c[1]] /\ Docs[i].components[c[1]][c[2]] = n
    BY <1>2, ComponentsAre DEF EntriesAt
  <2>2. <<i, n>> \in Definitions(Docs, c[1], c[2])
    BY <2>1, DocsAre DEF Definitions
  <2>3. isDefinition(TextOf(i), c[1], n)
    BY <2>1, <2>2, DefinitionsAre
  <2> QED
    BY <2>3, LinesAreOne
<1>5. PipelinesAt(Docs, r.at) = {}
  <2> SUFFICES ASSUME NEW p \in Fragments(Docs), p.at = <<i, n>> PROVE FALSE
    BY <1>2 DEF PipelinesAt
  <2>1. isPipeline(TextOf(i), n)
    BY FragmentsAre
  <2> QED
    BY <2>1, LinesAreOne
<1> QED
  BY <1>2, <1>3, <1>4, <1>5, KindsOfRefs

LEMMA AtDefinition ==
    ASSUME Chosen, NEW cls \in Classes, NEW id, NEW s \in Definitions(Docs, cls, id)
    PROVE  RefsAt(Docs, s) = {} /\ EntriesAt(Docs, s) = {<<cls, id>>} /\ PipelinesAt(Docs, s) = {}
<1>0. PICK i \in 1..Members : \E n \in Written(TextOf(i)) :
         /\ s = <<i, n>> /\ isDefinition(TextOf(i), cls, n) /\ TextOf(i)[n].key = id
         /\ id \in DOMAIN Docs[i].components[cls] /\ Docs[i].components[cls][id] = n
  BY DefinitionsAre
<1>1. PICK n \in Written(TextOf(i)) :
         /\ s = <<i, n>> /\ isDefinition(TextOf(i), cls, n) /\ TextOf(i)[n].key = id
         /\ id \in DOMAIN Docs[i].components[cls] /\ Docs[i].components[cls][id] = n
  BY <1>0
<1>2. RefsAt(Docs, s) = {}
  <2> SUFFICES ASSUME NEW r \in Refs(Docs), r.at = s PROVE FALSE
    BY DEF RefsAt
  <2>1. <<cls, id>> \in EntriesAt(Docs, s)
    <3>1. <<cls, id>> \in Components(Docs)
      BY Have DEF Has
    <3> QED
      BY <1>1, <3>1 DEF EntriesAt
  <2> QED
    BY <2>1, AtRef
<1>3. EntriesAt(Docs, s) = {<<cls, id>>}
  <2>1. <<cls, id>> \in EntriesAt(Docs, s)
    <3>1. <<cls, id>> \in Components(Docs)
      BY Have DEF Has
    <3> QED
      BY <1>1, <3>1 DEF EntriesAt
  <2>2. ASSUME NEW c \in EntriesAt(Docs, s) PROVE c = <<cls, id>>
    <3>1. /\ c[1] \in Classes /\ c = <<c[1], c[2]>>
          /\ c[2] \in DOMAIN Docs[i].components[c[1]] /\ Docs[i].components[c[1]][c[2]] = n
      BY <1>1, <2>2, ComponentsAre DEF EntriesAt
    <3>2. s \in Definitions(Docs, c[1], c[2])
      BY <1>1, <3>1, DocsAre DEF Definitions
    <3>3. isDefinition(TextOf(i), c[1], n) /\ TextOf(i)[n].key = c[2]
      BY <1>1, <3>1, <3>2, DefinitionsAre
    <3>4. c[1] = cls
      BY <1>1, <3>3, LinesAreOne
    <3> QED
      BY <1>1, <3>1, <3>3, <3>4
  <2> QED
    BY <2>1, <2>2
<1>4. PipelinesAt(Docs, s) = {}
  <2> SUFFICES ASSUME NEW p \in Fragments(Docs), p.at = s PROVE FALSE
    BY DEF PipelinesAt
  <2>1. isPipeline(TextOf(i), n)
    BY <1>1, FragmentsAre
  <2> QED
    BY <1>1, <2>1, LinesAreOne
<1> QED
  BY <1>2, <1>3, <1>4

LEMMA AtPipeline ==
    ASSUME Chosen, NEW p \in Fragments(Docs)
    PROVE  RefsAt(Docs, p.at) = {} /\ EntriesAt(Docs, p.at) = {} /\ PipelinesAt(Docs, p.at) = {p}
<1>0. PICK i \in 1..Members : \E n \in Written(TextOf(i)) :
         p = [id |-> TextOf(i)[n].key, at |-> <<i, n>>] /\ isPipeline(TextOf(i), n)
  BY FragmentsAre
<1>1. PICK n \in Written(TextOf(i)) :
         p = [id |-> TextOf(i)[n].key, at |-> <<i, n>>] /\ isPipeline(TextOf(i), n)
  BY <1>0
<1>2. p.at = <<i, n>>
  BY <1>1
<1>3. p \in PipelinesAt(Docs, p.at)
  BY DEF PipelinesAt
<1>4. RefsAt(Docs, p.at) = {}
  <2> SUFFICES ASSUME NEW r \in Refs(Docs), r.at = p.at PROVE FALSE
    BY DEF RefsAt
  <2> QED
    BY <1>3, AtRef
<1>5. EntriesAt(Docs, p.at) = {}
  <2> SUFFICES ASSUME NEW c \in EntriesAt(Docs, p.at) PROVE FALSE
    OBVIOUS
  <2>1. c[1] \in Classes /\ c[2] \in DOMAIN Docs[i].components[c[1]] /\ Docs[i].components[c[1]][c[2]] = n
    BY <1>2, ComponentsAre DEF EntriesAt
  <2>2. p.at \in Definitions(Docs, c[1], c[2])
    BY <1>2, <2>1, DocsAre DEF Definitions
  <2> QED
    BY <1>3, <2>1, <2>2, AtDefinition
<1>6. ASSUME NEW q \in Fragments(Docs), q.at = p.at PROVE q = p
  <2>1. PICK j, k : q = [id |-> TextOf(j)[k].key, at |-> <<j, k>>]
    BY FragmentsAre
  <2>2. q.at = <<j, k>>
    BY <2>1
  <2> QED
    BY <1>1, <1>2, <1>6, <2>1, <2>2
<1> QED
  BY <1>3, <1>4, <1>5, <1>6 DEF PipelinesAt

-----------------------------------------------------------------------------
(* How many, and which is first.                                           *)

LEMMA DefinitionsFinite ==
    ASSUME Chosen, NEW cls \in Classes, NEW id
    PROVE  /\ IsFiniteSet(Definitions(Docs, cls, id))
           /\ Definitions(Docs, cls, id) \in SUBSET (Nat \X Nat)
<1> DEFINE D == Definitions(Docs, cls, id)
           f == [ s \in D |-> s[1] ]
<1>1. f \in Injection(D, 1..Members)
  <2>1. \A s \in D : \E i \in 1..Members : s = <<i, Docs[i].components[cls][id]>>
    BY DocsAre DEF Definitions
  <2> HIDE DEF D
  <2>2. f \in [D -> 1..Members]
    BY <2>1
  <2>3. \A s, q \in D : f[s] = f[q] => s = q
    BY <2>1
  <2> QED
    BY <2>2, <2>3 DEF Injection, IsInjective
<1>2. IsFiniteSet(1..Members)
  BY FS_Interval, MembersAssumption
<1>3. IsFiniteSet(D)
  <2> HIDE DEF D, f
  <2> QED
    BY <1>1, <1>2, FS_Injection
<1>4. ASSUME NEW s \in D PROVE s \in Nat \X Nat
  <2>0. PICK i \in 1..Members : \E n \in Written(TextOf(i)) : s = <<i, n>>
    BY DefinitionsAre
  <2>1. Written(TextOf(i)) \in SUBSET Nat
    BY DocsAre, WrittenLines
  <2> QED
    BY <2>0, <2>1, MembersAssumption
<1> QED
  BY <1>3, <1>4

LEMMA FirstDefined ==
    ASSUME Chosen, NEW cls \in Classes, NEW id, Has(Docs, cls, id)
    PROVE  FirstOf(Definitions(Docs, cls, id)) \in Definitions(Docs, cls, id)
  BY DefinitionsFinite, FirstIsOne DEF Has

LEMMA DuplicateIsThere ==
    ASSUME Chosen, NEW cls \in Classes, NEW id
    PROVE  isDuplicate(Docs, cls, id) => Has(Docs, cls, id)
  BY FS_EmptySet DEF isDuplicate, Has

LEMMA LastPipeline ==
    ASSUME Chosen, NEW id, PipelineSites(Docs, id) # {}
    PROVE  /\ LastOf(PipelineSites(Docs, id)) \in PipelineSites(Docs, id)
           /\ IsLast(PipelineSites(Docs, id), LastOf(PipelineSites(Docs, id)))
<1> DEFINE S == PipelineSites(Docs, id)
<1>1. \A s \in S : \E i \in 1..Members : \E n \in Written(TextOf(i)) : s = <<i, n>>
  BY FragmentsAre DEF PipelineSites
<1>2. ASSUME NEW i \in 1..Members
      PROVE  /\ Written(TextOf(i)) \in SUBSET Nat /\ Len(TextOf(i)) \in Nat
             /\ \A n \in Written(TextOf(i)) : n <= Len(TextOf(i))
  BY DocsAre, WrittenLines
<1> HIDE DEF S
<1>3. S \in SUBSET (Nat \X Nat) /\ \A s \in S : s[1] <= Members
  BY <1>1, <1>2, MembersAssumption
<1>4. ASSUME NEW s \in S PROVE \E b \in Nat : \A x \in S : x[1] = s[1] => x[2] <= b
  <2>1. s[1] \in 1..Members
    BY <1>1
  <2>2. \A x \in S : x[1] = s[1] => x[2] \in Written(TextOf(s[1]))
    BY <1>1
  <2> QED
    BY <1>2, <2>1, <2>2
<1> QED
  BY <1>3, <1>4, LastIsOne, MembersAssumption DEF S

-----------------------------------------------------------------------------
(* Where references lead.                                                  *)

LEMMA ClassOfBucket ==
    ASSUME NEW b \in Buckets
    PROVE  /\ ClassOf(b) \in Classes /\ ClassOf(b) # "connector" /\ ClassOf(b) # "extension"
           /\ b \notin {"service", "strict", "soft", "pipeline"}
  BY DEF ClassOf, CLASS_KEYS, Buckets, Classes

LEMMA GoesToTargets ==
    ASSUME Chosen, NEW r \in Refs(Docs)
    PROVE  onDefinition(Docs, r.at) = Targets(Docs, r)
  BY AtRef DEF onDefinition

LEMMA GoesToUses ==
    ASSUME Chosen, NEW cls \in Classes, NEW id, NEW s \in Definitions(Docs, cls, id)
    PROVE  onDefinition(Docs, s) = pipelineRefsTo(Docs, cls, id)
<1> DEFINE Uses(c) == pipelineRefsTo(Docs, c[1], c[2])
           A == UNION {Targets(Docs, r) : r \in RefsAt(Docs, s)}
           B == UNION {Uses(c) : c \in EntriesAt(Docs, s)}
           C == UNION {pipelineIdRefsTo(Docs, p.id) : p \in PipelinesAt(Docs, s)}
<1>1. A = {} /\ C = {}
  BY AtDefinition
<1>2. B = Uses(<<cls, id>>)
  <2> HIDE DEF Uses
  <2> QED
    BY AtDefinition
<1>3. onDefinition(Docs, s) = A \cup B \cup C
  BY DEF onDefinition
<1>4. Uses(<<cls, id>>) = pipelineRefsTo(Docs, cls, id)
  OBVIOUS
<1> HIDE DEF A, B, C, Uses
<1> QED
  BY <1>1, <1>2, <1>3, <1>4

LEMMA GoesToRouters ==
    ASSUME Chosen, NEW p \in Fragments(Docs)
    PROVE  onDefinition(Docs, p.at) = pipelineIdRefsTo(Docs, p.id)
<1> DEFINE A == UNION {Targets(Docs, r) : r \in RefsAt(Docs, p.at)}
           B == UNION {pipelineRefsTo(Docs, c[1], c[2]) : c \in EntriesAt(Docs, p.at)}
           C == UNION {pipelineIdRefsTo(Docs, q.id) : q \in PipelinesAt(Docs, p.at)}
<1>1. A = {} /\ B = {}
  BY AtPipeline
<1>2. C = pipelineIdRefsTo(Docs, p.id)
  BY AtPipeline
<1>3. onDefinition(Docs, p.at) = A \cup B \cup C
  BY DEF onDefinition
<1> HIDE DEF A, B, C
<1> QED
  BY <1>1, <1>2, <1>3

(* The class in which a bucket's reference is looked up, when it finds one.*)
LEMMA BucketTargets ==
    ASSUME Chosen, NEW r \in Refs(Docs), r.kind \in Buckets
    PROVE  \E cls \in {ClassOf(r.kind), "connector"} :
             /\ Targets(Docs, r) = Definitions(Docs, cls, r.id)
             /\ ~ Has(Docs, cls, r.id) => /\ ~ Has(Docs, ClassOf(r.kind), r.id)
                                         /\ ~ Has(Docs, "connector", r.id)
             /\ isDuplicate(Docs, cls, r.id)
                  \/ cls = IF Has(Docs, ClassOf(r.kind), r.id) THEN ClassOf(r.kind) ELSE "connector"
<1> DEFINE own == ClassOf(r.kind)
           dup == {c \in {own, "connector"} : isDuplicate(Docs, c, r.id)}
           to  == IF dup # {} THEN dup ELSE {c \in {own, "connector"} : Has(Docs, c, r.id)}
           cls == IF own \in to THEN own ELSE "connector"
<1>1. Targets(Docs, r) = Definitions(Docs, cls, r.id)
  <2>1. ~ (r.kind = "service") /\ ~ (r.kind \in {"strict", "soft"}) /\ ~ (r.kind = "pipeline")
    BY ClassOfBucket
  <2> QED
    BY <2>1 DEF Targets
<1>2. own \in Classes /\ "connector" \in Classes
  BY ClassOfBucket DEF Classes
<1>3. \A c \in {own, "connector"} : isDuplicate(Docs, c, r.id) => Has(Docs, c, r.id)
  BY <1>2, DuplicateIsThere
<1>4. cls \in {own, "connector"}
  OBVIOUS
<1>5. ~ Has(Docs, cls, r.id) => ~ Has(Docs, own, r.id) /\ ~ Has(Docs, "connector", r.id)
  BY <1>3
<1>6. isDuplicate(Docs, cls, r.id) \/ cls = IF Has(Docs, own, r.id) THEN own ELSE "connector"
  OBVIOUS
<1> QED
  BY <1>1, <1>4, <1>5, <1>6

LEMMA TargetsRefer ==
    ASSUME Chosen, NEW r \in Refs(Docs), NEW s \in Targets(Docs, r)
    PROVE  IF r.kind = "pipeline"
           THEN s \in PipelineSites(Docs, r.id)
           ELSE \E cls \in Classes : s \in Definitions(Docs, cls, r.id) /\ r \in UsesOf(Docs, cls, r.id)
<1>1. CASE r.kind \in Buckets
  <2>1. PICK cls \in {ClassOf(r.kind), "connector"} : s \in Definitions(Docs, cls, r.id)
    BY <1>1, BucketTargets
  <2>2. cls \in Classes /\ cls # "extension"
    BY <1>1, ClassOfBucket DEF Classes
  <2>3. r \in UsesOf(Docs, cls, r.id)
    BY <1>1, <2>2 DEF UsesOf
  <2> QED
    BY <1>1, <2>1, <2>2, <2>3, ClassOfBucket
<1>2. CASE r.kind \in {"service", "strict", "soft"}
  <2>1. s \in Definitions(Docs, "extension", r.id)
    BY <1>2 DEF Targets, Buckets
  <2>2. r \in UsesOf(Docs, "extension", r.id)
    BY <1>2 DEF UsesOf
  <2> QED
    BY <1>2, <2>1, <2>2 DEF Classes
<1>3. CASE r.kind = "pipeline"
  BY <1>3 DEF Targets, Buckets
<1> QED
  BY <1>1, <1>2, <1>3, AtRef DEF Kinds

LEMMA JumpBack == Chosen => JumpsReturn
<1> SUFFICES ASSUME Chosen, NEW r \in Refs(Docs), NEW s \in Targets(Docs, r)
             PROVE  r.at \in onDefinition(Docs, s)
  BY GoesToTargets DEF JumpsReturn
<1>1. CASE r.kind = "pipeline"
  <2>1. PICK p \in Fragments(Docs) : p.id = r.id /\ s = p.at
    BY <1>1, TargetsRefer DEF PipelineSites
  <2> QED
    BY <1>1, <2>1, GoesToRouters DEF pipelineIdRefsTo
<1>2. CASE r.kind # "pipeline"
  <2>1. PICK cls \in Classes : s \in Definitions(Docs, cls, r.id) /\ r \in UsesOf(Docs, cls, r.id)
    BY <1>2, TargetsRefer
  <2> QED
    BY <2>1, GoesToUses DEF pipelineRefsTo
<1> QED
  BY <1>1, <1>2

(* From a definition that a reference leads to, definition leads back to   *)
(* the reference (server.ts:499-626), for any members.                     *)
THEOREM JumpsAlwaysReturn == Spec => []JumpsReturn
BY AlwaysChosen, JumpBack, PTL

-----------------------------------------------------------------------------
(* Which rule says what.                                                   *)

LEMMA RulesSay ==
    ASSUME NEW docs
    PROVE  /\ \A d \in StructureDiagnostics(docs) : d.what \in {"unknown signal", "no receivers", "no exporters"}
           /\ \A d \in UndefinedDiagnostics(docs) : d.what = "not defined"
           /\ \A d \in SignalDiagnostics(docs) : d.what = "signal"
           /\ \A d \in DuplicateDiagnostics(docs) : d.what = "duplicate"
           /\ \A d \in ComponentDiagnostics(docs) : d.what \in {"unknown type", "unused"}
<1> DEFINE Says(D, W) == \A d \in D : \E a : \E w \in W : d = [at |-> a, what |-> w]
<1>1. Says(StructureDiagnostics(docs), {"unknown signal", "no receivers", "no exporters"})
  BY DEF StructureDiagnostics
<1>2. Says(UndefinedDiagnostics(docs), {"not defined"})
  BY DEF UndefinedDiagnostics
<1>3. Says(SignalDiagnostics(docs), {"signal"})
  BY DEF SignalDiagnostics
<1>4. Says(DuplicateDiagnostics(docs), {"duplicate"})
  BY DEF DuplicateDiagnostics
<1>5. Says(ComponentDiagnostics(docs), {"unknown type", "unused"})
  BY DEF ComponentDiagnostics
<1>6. ASSUME NEW D, NEW W, Says(D, W) PROVE \A d \in D : d.what \in W
  BY <1>6
<1> HIDE DEF Says
<1> QED
  BY <1>1, <1>2, <1>3, <1>4, <1>5, <1>6

Checked(docs) == ValidRefs(docs) \cup {r \in Refs(docs) : r.kind \in {"service", "strict", "pipeline"}}

LEMMA SaysUndefined ==
    ASSUME NEW docs, NEW site
    PROVE  /\ Diagnosed(docs, site, "not defined")
                <=> [at |-> site, what |-> "not defined"] \in UndefinedDiagnostics(docs)
           /\ [at |-> site, what |-> "not defined"] \in UndefinedDiagnostics(docs)
                <=> \E r \in Checked(docs) : r.at = site /\ ~ IsDefined(docs, r) /\ r.id \notin Substitutions
<1> DEFINE d == [at |-> site, what |-> "not defined"]
<1>1. d.what = "not defined"
  OBVIOUS
<1>2. /\ d \notin StructureDiagnostics(docs) /\ d \notin SignalDiagnostics(docs)
      /\ d \notin DuplicateDiagnostics(docs) /\ d \notin ComponentDiagnostics(docs)
  <2> HIDE DEF d
  <2> QED
    BY <1>1, RulesSay
<1>3. d \in UndefinedDiagnostics(docs)
        <=> \E r \in Checked(docs) : r.at = site /\ ~ IsDefined(docs, r) /\ r.id \notin Substitutions
  BY DEF UndefinedDiagnostics, Checked
<1> QED
  BY <1>2, <1>3 DEF Diagnosed, validatePipelines

LEMMA SaysUnused ==
    ASSUME NEW docs, NEW site
    PROVE  Diagnosed(docs, site, "unused")
             <=> \E c \in Components(docs) :
                   /\ site = FirstOf(Definitions(docs, c[1], c[2])) /\ ~ isDuplicate(docs, c[1], c[2])
                   /\ c[1] # "connector" /\ c \notin Referenced(docs)
<1> DEFINE d == [at |-> site, what |-> "unused"]
<1>1. d.what = "unused"
  OBVIOUS
<1>2. /\ d \notin StructureDiagnostics(docs) /\ d \notin SignalDiagnostics(docs)
      /\ d \notin DuplicateDiagnostics(docs) /\ d \notin UndefinedDiagnostics(docs)
  <2> HIDE DEF d
  <2> QED
    BY <1>1, RulesSay
<1>3. d \in ComponentDiagnostics(docs)
        <=> \E c \in Components(docs) :
               /\ site = FirstOf(Definitions(docs, c[1], c[2])) /\ ~ isDuplicate(docs, c[1], c[2])
               /\ c[1] # "connector" /\ c \notin Referenced(docs)
  BY DEF ComponentDiagnostics
<1> QED
  BY <1>2, <1>3 DEF Diagnosed, validatePipelines

-----------------------------------------------------------------------------
(* References that lead nowhere.                                           *)

LEMMA TargetsDefined ==
    ASSUME Chosen, NEW r \in Refs(Docs)
    PROVE  /\ Targets(Docs, r) = {} <=> (~ IsDefined(Docs, r))
           /\ r.kind # "pipeline" => (Targets(Docs, r) = {} <=> HoverTarget(Docs, r) = {})
<1>1. CASE r.kind \in Buckets
  <2> DEFINE own == ClassOf(r.kind)
  <2>0. /\ own \in Classes /\ own # "connector" /\ "connector" \in Classes
        /\ r.kind \notin {"service", "strict", "soft", "pipeline"}
    BY <1>1, ClassOfBucket DEF Classes
  <2>1. Targets(Docs, r) = {} <=> ~ Has(Docs, own, r.id) /\ ~ Has(Docs, "connector", r.id)
    <3>1. PICK cls \in {own, "connector"} :
             /\ Targets(Docs, r) = Definitions(Docs, cls, r.id)
             /\ ~ Has(Docs, cls, r.id) => ~ Has(Docs, own, r.id) /\ ~ Has(Docs, "connector", r.id)
      BY <1>1, BucketTargets
    <3> QED
      BY <3>1 DEF Has
  <2>2. Resolved(Docs, r) = {} <=> ~ Has(Docs, own, r.id) /\ ~ Has(Docs, "connector", r.id)
    BY <2>0, DuplicateIsThere DEF Resolved
  <2>3. IsDefined(Docs, r) <=> Resolved(Docs, r) # {}
    BY <1>1, <2>0 DEF IsDefined
  <2>4. HoverTarget(Docs, r) = {} <=> ~ Has(Docs, own, r.id) /\ ~ Has(Docs, "connector", r.id)
    BY <1>1, <2>0 DEF HoverTarget
  <2> QED
    BY <2>1, <2>2, <2>3, <2>4
<1>2. CASE r.kind \in {"service", "strict", "soft"}
  <2>0. r.kind \notin Buckets /\ r.kind # "pipeline" /\ "extension" \in Classes
    BY <1>2 DEF Buckets, Classes
  <2>1. Targets(Docs, r) = {} <=> ~ Has(Docs, "extension", r.id)
    <3>1. CASE r.kind = "service"
      BY <2>0, <3>1 DEF Targets, Has
    <3>2. CASE r.kind \in {"strict", "soft"}
      <4>1. Targets(Docs, r) = {s \in Definitions(Docs, "extension", r.id) :
                                  s = FirstOf(Definitions(Docs, "extension", r.id))}
        BY <2>0, <3>2 DEF Targets
      <4> QED
        BY <2>0, <4>1, FirstDefined DEF Has
    <3> QED
      BY <1>2, <3>1, <3>2
  <2>2. IsDefined(Docs, r) <=> Has(Docs, "extension", r.id)
    BY <1>2, <2>0 DEF IsDefined
  <2>3. HoverTarget(Docs, r) = {} <=> ~ Has(Docs, "extension", r.id)
    BY <2>0 DEF HoverTarget
  <2> QED
    BY <2>1, <2>2, <2>3
<1>3. CASE r.kind = "pipeline"
  <2>0. r.kind \notin Buckets /\ r.kind \notin {"service", "strict", "soft"}
    BY <1>3 DEF Buckets
  <2>1. Targets(Docs, r) = {s \in PipelineSites(Docs, r.id) : s = LastOf(PipelineSites(Docs, r.id))}
    BY <1>3, <2>0 DEF Targets
  <2>2. IsDefined(Docs, r) <=> PipelineSites(Docs, r.id) # {}
    BY <1>3, <2>0 DEF IsDefined
  <2> QED
    BY <1>3, <2>1, <2>2, LastPipeline
<1> QED
  BY <1>1, <1>2, <1>3, AtRef DEF Kinds

LEMMA UsedInPipelines ==
    ASSUME Chosen, NEW cls, NEW id, NEW r \in UsesOf(Docs, cls, id)
    PROVE  \/ r.pipe \in Range(pipelinesUsing(Docs, cls, id))
           \/ Len(pipelinesUsing(Docs, cls, id)) = UsesLimit
<1> DEFINE uses  == UsesOf(Docs, cls, id)
           S     == {x.pipe : x \in uses}
           at(p) == {q.at : q \in {x \in uses : x.pipe = p}}
           first == [p \in S |-> FirstOf(at(p))]
           seen  == bySite(S, first)
<1>1. pipelinesUsing(Docs, cls, id) = SubSeq(seen, 1, Min({UsesLimit, Len(seen)}))
  <2>1. DOMAIN first = S
    OBVIOUS
  <2>2. seen = InOrder(DOMAIN first, LAMBDA p, q : Before(first[p], first[q]))
    BY <2>1 DEF InOrder, bySite
  <2> QED
    BY <2>2 DEF pipelinesUsing
<1>2. uses \in SUBSET Refs(Docs) /\ r.pipe \in S
  BY DEF UsesOf
<1> DEFINE sites == {q.at : q \in Refs(Docs)}
<1>3. IsFiniteSet(sites) /\ sites \in SUBSET (Nat \X Nat)
  BY SitesFinite
<1>4. ASSUME NEW p \in S PROVE first[p] \in at(p) /\ first[p] \in sites /\ first[p] \in Nat \X Nat
  <2>1. at(p) \in SUBSET sites /\ at(p) # {}
    BY <1>2
  <2> HIDE DEF at, sites
  <2>2. FirstOf(at(p)) \in at(p)
    BY <1>3, <2>1, FirstIsOne
  <2> QED
    BY <1>3, <2>1, <2>2
<1>5. ASSUME NEW p \in S, NEW q \in S, first[p] = first[q] PROVE p = q
  <2>1. PICK x \in Refs(Docs) : x.pipe = p /\ x.at = first[p]
    BY <1>2, <1>4
  <2>2. PICK y \in Refs(Docs) : y.pipe = q /\ y.at = first[q]
    BY <1>2, <1>4
  <2>3. y \in RefsAt(Docs, x.at) /\ RefsAt(Docs, x.at) = {x}
    BY <1>5, <2>1, <2>2, AtRef DEF RefsAt
  <2> QED
    BY <2>1, <2>2, <2>3
<1>6. IsFiniteSet(S)
  <2>1. first \in [S -> sites]
    BY <1>4
  <2> HIDE DEF first, S, sites
  <2>2. first \in Injection(S, sites)
    BY <1>5, <2>1 DEF Injection, IsInjective
  <2> QED
    BY <1>3, <2>2, FS_Injection
<1> HIDE DEF S, first
<1>7. /\ Cardinality(S) \in Nat /\ seen \in Seq(S) /\ Len(seen) = Cardinality(S)
      /\ \A x \in S : \E k \in 1..Cardinality(S) : seen[k] = x
  BY <1>4, <1>5, <1>6, BySiteHasAll
<1> HIDE DEF seen
<1>8. r.pipe \in Range(seen)
  <2>1. PICK k \in 1..Len(seen) : seen[k] = r.pipe
    BY <1>2, <1>7
  <2>2. k \in DOMAIN seen
    BY <1>7
  <2> QED
    BY <2>1, <2>2 DEF Range
<1> QED
  BY <1>1, <1>7, <1>8, HeadOf, UsesLimitAssumption

LEMMA HoverUses ==
    ASSUME Chosen, NEW r \in Refs(Docs), r.kind \in Buckets, NEW c \in HoverTarget(Docs, r)
    PROVE  \/ r.pipe \in Range(pipelinesUsing(Docs, c[1], c[2]))
           \/ Len(pipelinesUsing(Docs, c[1], c[2])) = UsesLimit
<1>1. c \in {<<ClassOf(r.kind), r.id>>, <<"connector", r.id>>}
  BY DEF HoverTarget
<1>2. c[2] = r.id /\ c[1] # "extension" /\ (c[1] = "connector" \/ ClassOf(r.kind) = c[1])
  BY <1>1, ClassOfBucket
<1>3. r \in UsesOf(Docs, c[1], c[2])
  BY <1>2 DEF UsesOf
<1> QED
  BY <1>3, UsedInPipelines

LEMMA RefsAgree == Chosen => FeaturesAgreeOnRefs
<1> SUFFICES ASSUME Chosen, NEW r \in Refs(Docs)
             PROVE  LET dead      == onDefinition(Docs, r.at) = {}
                        diagnosed == Diagnosed(Docs, r.at, "not defined")
                    IN /\ diagnosed => dead
                       /\ dead => \/ diagnosed \/ r.id \in Substitutions \/ r.kind = "soft"
                                  \/ r.kind \in Buckets /\ SignalOf[r.pipe] \notin KnownSignals
                       /\ r.kind # "pipeline" => (dead <=> HoverTarget(Docs, r) = {})
                       /\ \A c \in HoverTarget(Docs, r) :
                            LET named == pipelinesUsing(Docs, c[1], c[2]) IN
                            r.kind \in Buckets => r.pipe \in Range(named) \/ Len(named) = UsesLimit
  BY DEF FeaturesAgreeOnRefs
<1>1. onDefinition(Docs, r.at) = {} <=> Targets(Docs, r) = {}
  BY GoesToTargets
<1>2. Diagnosed(Docs, r.at, "not defined")
        <=> r \in Checked(Docs) /\ ~ IsDefined(Docs, r) /\ r.id \notin Substitutions
  <2>1. ASSUME NEW q \in Checked(Docs), q.at = r.at PROVE q = r
    <3>1. q \in Refs(Docs)
      BY DEF Checked, ValidRefs, BucketRefs
    <3>2. q \in RefsAt(Docs, r.at)
      BY <2>1, <3>1 DEF RefsAt
    <3> QED
      BY <3>2, AtRef
  <2> QED
    BY <2>1, SaysUndefined
<1>3. \/ r \in Checked(Docs) \/ r.kind = "soft"
      \/ r.kind \in Buckets /\ SignalOf[r.pipe] \notin KnownSignals
  <2>1. r.kind \in Buckets \/ r.kind = "soft" \/ r.kind \in {"service", "strict", "pipeline"}
    BY AtRef DEF Kinds
  <2> QED
    BY <2>1 DEF Checked, ValidRefs, BucketRefs
<1> QED
  BY <1>1, <1>2, <1>3, TargetsDefined, HoverUses

(* Diagnostics, definition and hover agree on every reference              *)
(* (pipeline.ts:95-221, server.ts:499-594, hover.ts:48-76), whatever the   *)
(* members define and however often.                                       *)
THEOREM FeaturesAlwaysAgree == Spec => []FeaturesAgreeOnRefs
BY AlwaysChosen, RefsAgree, PTL

-----------------------------------------------------------------------------
(* Unused components.                                                      *)

LEMMA UnusedAt ==
    ASSUME Chosen, NEW c \in Components(Docs), ~ isDuplicate(Docs, c[1], c[2]), c[1] # "connector"
    PROVE  Diagnosed(Docs, FirstOf(Definitions(Docs, c[1], c[2])), "unused") <=> c \notin Referenced(Docs)
<1> DEFINE at(d) == FirstOf(Definitions(Docs, d[1], d[2]))
<1>1. ASSUME NEW d \in Components(Docs)
      PROVE  EntriesAt(Docs, at(d)) = {d}
  <2>1. at(d) \in Definitions(Docs, d[1], d[2])
    BY ComponentsAre, FirstDefined
  <2> QED
    BY <2>1, ComponentsAre, AtDefinition
<1>2. \A d \in Components(Docs) : at(d) = at(c) => d = c
  <2> HIDE DEF at
  <2> QED
    BY <1>1
<1> QED
  BY <1>2, SaysUnused

(* What the rules mark as referenced, component by component.              *)
LEMMA ReferencedIf ==
    ASSUME Chosen, NEW c \in Components(Docs), ~ isDuplicate(Docs, c[1], c[2]), c[1] # "connector"
    PROVE  c \in Referenced(Docs)
             <=> \E r \in UsesOf(Docs, c[1], c[2]) :
                   \/ r.kind \notin Buckets
                   \/ SignalOf[r.pipe] \in KnownSignals /\ ~ isDuplicate(Docs, "connector", c[2])
<1>0. c[1] \in Classes /\ c = <<c[1], c[2]>> /\ Has(Docs, c[1], c[2])
  BY ComponentsAre
<1>1. c \in Referenced(Docs)
        <=> \/ \E r \in ValidRefs(Docs) : c[2] = r.id /\ c[1] \in Resolved(Docs, r)
            \/ c[1] = "extension" /\ \E r \in Refs(Docs) : r.kind \in {"service", "strict", "soft"} /\ r.id = c[2]
  <2>1. ASSUME NEW r PROVE (\E x \in Resolved(Docs, r) : c = <<x, r.id>>) <=> c[2] = r.id /\ c[1] \in Resolved(Docs, r)
    BY <1>0
  <2>2. ASSUME NEW r PROVE c = <<"extension", r.id>> <=> c[1] = "extension" /\ c[2] = r.id
    BY <1>0
  <2>3. c \in Referenced(Docs)
          <=> \/ \E r \in ValidRefs(Docs) : \E x \in Resolved(Docs, r) : c = <<x, r.id>>
              \/ \E r \in Refs(Docs) : /\ r.kind \in {"service", "strict", "soft"} /\ Has(Docs, "extension", r.id)
                                         /\ c = <<"extension", r.id>>
    BY DEF Referenced
  <2> QED
    BY <1>0, <2>1, <2>2, <2>3
<1>2. ASSUME NEW r \in Refs(Docs), r.kind \in Buckets, r.id = c[2]
      PROVE  c[1] \in Resolved(Docs, r) <=> ClassOf(r.kind) = c[1] /\ ~ isDuplicate(Docs, "connector", c[2])
  BY <1>0, <1>2, ClassOfBucket DEF Resolved
<1>3. CASE c[1] = "extension"
  <2>1. \A r \in ValidRefs(Docs) : r.id = c[2] => c[1] \notin Resolved(Docs, r)
    BY <1>2, <1>3, ClassOfBucket DEF ValidRefs, BucketRefs
  <2>2. UsesOf(Docs, c[1], c[2]) = {r \in Refs(Docs) : r.id = c[2] /\ r.kind \in {"service", "strict", "soft"}}
    BY <1>3 DEF UsesOf
  <2>3. \A r \in UsesOf(Docs, c[1], c[2]) : r.kind \notin Buckets
    BY <2>2, ClassOfBucket
  <2> QED
    BY <1>1, <1>3, <2>1, <2>2, <2>3
<1>4. CASE c[1] # "extension"
  <2>1. UsesOf(Docs, c[1], c[2]) = {r \in Refs(Docs) : r.id = c[2] /\ r.kind \in Buckets /\ ClassOf(r.kind) = c[1]}
    BY <1>4 DEF UsesOf
  <2>2. ValidRefs(Docs) = {r \in Refs(Docs) : r.kind \in Buckets /\ SignalOf[r.pipe] \in KnownSignals}
    BY DEF ValidRefs, BucketRefs
  <2> QED
    BY <1>1, <1>2, <1>4, <2>1, <2>2
<1> QED
  BY <1>3, <1>4

LEMMA UnusedUnreferenced == Chosen => UnusedMeansUnreferenced
<1> SUFFICES ASSUME Chosen, NEW c \in Components(Docs), c[1] # "connector", ~ isDuplicate(Docs, c[1], c[2])
             PROVE  Diagnosed(Docs, FirstOf(Definitions(Docs, c[1], c[2])), "unused")
                      <=> ~ \E r \in UsesOf(Docs, c[1], c[2]) :
                              \/ r.kind \notin Buckets
                              \/ SignalOf[r.pipe] \in KnownSignals /\ ~ isDuplicate(Docs, "connector", r.id)
  BY DEF UnusedMeansUnreferenced
<1>1. \A r \in UsesOf(Docs, c[1], c[2]) : r.id = c[2]
  BY DEF UsesOf
<1> QED
  BY <1>1, UnusedAt, ReferencedIf

(* "Defined but never used" (pipeline.ts:263-275) is reported exactly where*)
(* the reference query of usage.ts finds no use that counts.               *)
THEOREM UnusedAlwaysUnreferenced == Spec => []UnusedMeansUnreferenced
BY AlwaysChosen, UnusedUnreferenced, PTL

LEMMA TokenReferencedIf ==
    ASSUME Chosen, NEW c \in Components(Docs), c[1] # "connector", ~ Has(Docs, "connector", c[2])
    PROVE  c \in TokenReferenced(Docs) <=> UsesOf(Docs, c[1], c[2]) # {}
<1> DEFINE taken(r) == <<IF r.kind \in Buckets THEN ClassOf(r.kind) ELSE "extension", r.id>>
<1>0. c = <<c[1], c[2]>>
  BY ComponentsAre
<1>1. c \in TokenReferenced(Docs) <=> \E r \in Refs(Docs) : r.kind # "pipeline" /\ c = taken(r)
  <2>1. c \in TokenReferenced(Docs)
          <=> \E r \in Refs(Docs) :
                r.kind # "pipeline" /\ c = IF r.kind # "processors" /\ r.kind \in Buckets /\ Has(Docs, "connector", r.id)
                                           THEN <<"connector", r.id>> ELSE taken(r)
    BY DEF TokenReferenced
  <2>2. ASSUME NEW r PROVE (c = <<"connector", r.id>>) = FALSE
    BY <1>0
  <2>3. ASSUME NEW r, c = taken(r) PROVE ~ Has(Docs, "connector", r.id)
    <3>1. c[2] = r.id
      BY <2>3
    <3> QED
      BY <3>1
  <2> HIDE DEF taken
  <2> QED
    BY <2>1, <2>2, <2>3
<1>2. ASSUME NEW r \in Refs(Docs)
      PROVE  r.kind # "pipeline" /\ c = taken(r) <=> r \in UsesOf(Docs, c[1], c[2])
  <2>1. c = taken(r) <=> c[1] = (IF r.kind \in Buckets THEN ClassOf(r.kind) ELSE "extension") /\ c[2] = r.id
    BY <1>0
  <2>2. CASE r.kind \in Buckets
    BY <2>1, <2>2, ClassOfBucket DEF UsesOf
  <2>3. CASE r.kind \notin Buckets
    <3>1. r.kind = "pipeline" \/ r.kind \in {"service", "strict", "soft"}
      BY <2>3, AtRef DEF Kinds
    <3>2. CASE c[1] = "extension"
      BY <2>1, <2>3, <3>1, <3>2 DEF UsesOf
    <3>3. CASE c[1] # "extension"
      BY <2>1, <2>3, <3>3 DEF UsesOf
    <3> QED
      BY <3>2, <3>3
  <2> QED
    BY <2>2, <2>3
<1>3. UsesOf(Docs, c[1], c[2]) \subseteq Refs(Docs)
  BY DEF UsesOf
<1> QED
  BY <1>1, <1>2, <1>3

LEMMA DeprecatedUnused == Chosen => DeprecatedMatchesUnused
<1> SUFFICES ASSUME Chosen, NEW c \in Components(Docs), c[1] # "connector", ~ isDuplicate(Docs, c[1], c[2]),
                    ~ Has(Docs, "connector", c[2]),
                    \A r \in UsesOf(Docs, c[1], c[2]) : ~ (r.kind \in Buckets /\ SignalOf[r.pipe] \notin KnownSignals)
             PROVE  IsDeprecated(Docs, c[1], c[2])
                      <=> Diagnosed(Docs, FirstOf(Definitions(Docs, c[1], c[2])), "unused")
  BY DEF DeprecatedMatchesUnused
<1>1. ~ isDuplicate(Docs, "connector", c[2])
  BY DuplicateIsThere DEF Classes
<1>2. c \in Referenced(Docs) <=> UsesOf(Docs, c[1], c[2]) # {}
  BY <1>1, ReferencedIf
<1>3. IsDeprecated(Docs, c[1], c[2]) <=> c \notin TokenReferenced(Docs)
  BY ComponentsAre DEF IsDeprecated
<1> QED
  BY <1>2, <1>3, UnusedAt, TokenReferencedIf

(* The token that is greyed out (semantic-tokens.ts:49-71) is where the    *)
(* diagnostic it mirrors is: the exceptions that the property names are    *)
(* all there are.                                                          *)
THEOREM DeprecatedAlwaysUnused == Spec => []DeprecatedMatchesUnused
BY AlwaysChosen, DeprecatedUnused, PTL

-----------------------------------------------------------------------------
(* Find-references.                                                        *)

UsesAndFirst(c) ==
    pipelineRefsTo(Docs, c[1], c[2])
      \cup {s \in Definitions(Docs, c[1], c[2]) : s = FirstOf(Definitions(Docs, c[1], c[2]))}
RoutersAndLast(id) ==
    pipelineIdRefsTo(Docs, id) \cup {s \in PipelineSites(Docs, id) : s = LastOf(PipelineSites(Docs, id))}

LEMMA FindsAtRef ==
    ASSUME Chosen, NEW r \in Refs(Docs)
    PROVE  onReferences(Docs, r.at)
             = IF r.kind = "pipeline" THEN RoutersAndLast(r.id) ELSE UsesAndFirst(ReferenceTarget(Docs, r))
<1> DEFINE targets == EntriesAt(Docs, r.at)
                   \cup {ReferenceTarget(Docs, q) : q \in {x \in RefsAt(Docs, r.at) : x.kind # "pipeline"}}
           named   == {q.id : q \in {x \in RefsAt(Docs, r.at) : x.kind = "pipeline"}}
           A == UNION {UsesAndFirst(c) : c \in targets}
           B == UNION {RoutersAndLast(id) : id \in named}
           C == UNION {pipelineIdRefsTo(Docs, p.id) \cup {r.at} : p \in PipelinesAt(Docs, r.at)}
<1>1. onReferences(Docs, r.at) = A \cup B \cup C
  BY DEF onReferences, UsesAndFirst, RoutersAndLast
<1>2. C = {}
  BY AtRef
<1>3. targets = (IF r.kind = "pipeline" THEN {} ELSE {ReferenceTarget(Docs, r)})
      /\ named = (IF r.kind = "pipeline" THEN {r.id} ELSE {})
  BY AtRef
<1>4. /\ r.kind = "pipeline" => A = {} /\ B = RoutersAndLast(r.id)
      /\ r.kind # "pipeline" => A = UsesAndFirst(ReferenceTarget(Docs, r)) /\ B = {}
  <2> HIDE DEF targets, named
  <2> QED
    BY <1>3
<1> HIDE DEF A, B, C
<1> QED
  BY <1>1, <1>2, <1>4

LEMMA FindsAtDefinition ==
    ASSUME Chosen, NEW cls \in Classes, NEW id, NEW s \in Definitions(Docs, cls, id)
    PROVE  onReferences(Docs, s) = UsesAndFirst(<<cls, id>>)
<1> DEFINE targets == EntriesAt(Docs, s)
                   \cup {ReferenceTarget(Docs, q) : q \in {x \in RefsAt(Docs, s) : x.kind # "pipeline"}}
           named   == {q.id : q \in {x \in RefsAt(Docs, s) : x.kind = "pipeline"}}
           A == UNION {UsesAndFirst(c) : c \in targets}
           B == UNION {RoutersAndLast(k) : k \in named}
           C == UNION {pipelineIdRefsTo(Docs, p.id) \cup {s} : p \in PipelinesAt(Docs, s)}
<1>1. onReferences(Docs, s) = A \cup B \cup C
  BY DEF onReferences, UsesAndFirst, RoutersAndLast
<1>2. C = {}
  BY AtDefinition
<1>3. targets = {<<cls, id>>} /\ named = {}
  BY AtDefinition
<1>4. A = UsesAndFirst(<<cls, id>>) /\ B = {}
  <2> HIDE DEF targets, named
  <2> QED
    BY <1>3
<1> HIDE DEF A, B, C
<1> QED
  BY <1>1, <1>2, <1>4

LEMMA FindsAtPipeline ==
    ASSUME Chosen, NEW p \in Fragments(Docs)
    PROVE  onReferences(Docs, p.at) = pipelineIdRefsTo(Docs, p.id) \cup {p.at}
<1> DEFINE targets == EntriesAt(Docs, p.at)
                   \cup {ReferenceTarget(Docs, q) : q \in {x \in RefsAt(Docs, p.at) : x.kind # "pipeline"}}
           named   == {q.id : q \in {x \in RefsAt(Docs, p.at) : x.kind = "pipeline"}}
           A == UNION {UsesAndFirst(c) : c \in targets}
           B == UNION {RoutersAndLast(k) : k \in named}
           C == UNION {pipelineIdRefsTo(Docs, q.id) \cup {p.at} : q \in PipelinesAt(Docs, p.at)}
<1>1. onReferences(Docs, p.at) = A \cup B \cup C
  BY DEF onReferences, UsesAndFirst, RoutersAndLast
<1>2. C = pipelineIdRefsTo(Docs, p.id) \cup {p.at}
  BY AtPipeline
<1>3. targets = {} /\ named = {}
  BY AtPipeline
<1>4. A = {} /\ B = {}
  <2> HIDE DEF targets, named
  <2> QED
    BY <1>3
<1> HIDE DEF A, B, C
<1> QED
  BY <1>1, <1>2, <1>4

LEMMA FindsAlike == Chosen => ReferencesAgree
<1> SUFFICES ASSUME Chosen, NEW r \in Refs(Docs), Cardinality(Targets(Docs, r)) = 1, NEW s \in Targets(Docs, r)
             PROVE  onReferences(Docs, r.at) = onReferences(Docs, s)
  BY GoesToTargets DEF ReferencesAgree
<1>1. CASE r.kind \in Buckets
  <2> DEFINE own == ClassOf(r.kind)
  <2>0. own \in Classes /\ "connector" \in Classes /\ r.kind # "pipeline"
    BY <1>1, ClassOfBucket DEF Classes
  <2>1. PICK cls \in {own, "connector"} :
           /\ Targets(Docs, r) = Definitions(Docs, cls, r.id)
           /\ isDuplicate(Docs, cls, r.id) \/ cls = IF Has(Docs, own, r.id) THEN own ELSE "connector"
    BY <1>1, BucketTargets
  <2>2. ~ isDuplicate(Docs, cls, r.id)
    BY <2>1 DEF isDuplicate
  <2>3. Has(Docs, cls, r.id)
    BY <2>1 DEF Has
  <2>4. ReferenceTarget(Docs, r) = <<cls, r.id>>
    BY <1>1, <2>1, <2>2, <2>3 DEF ReferenceTarget
  <2> QED
    BY <2>0, <2>1, <2>4, FindsAtRef, FindsAtDefinition
<1>2. CASE r.kind \in {"service", "strict", "soft"}
  <2>1. s \in Definitions(Docs, "extension", r.id) /\ r.kind \notin Buckets /\ r.kind # "pipeline"
    BY <1>2 DEF Targets, Buckets
  <2>2. ReferenceTarget(Docs, r) = <<"extension", r.id>> /\ "extension" \in Classes
    BY <2>1 DEF ReferenceTarget, Classes
  <2> QED
    BY <2>1, <2>2, FindsAtRef, FindsAtDefinition
<1>3. CASE r.kind = "pipeline"
  <2>1. Targets(Docs, r) = {x \in PipelineSites(Docs, r.id) : x = LastOf(PipelineSites(Docs, r.id))}
    BY <1>3 DEF Targets, Buckets
  <2>2. PICK p \in Fragments(Docs) : p.id = r.id /\ s = p.at
    BY <2>1 DEF PipelineSites
  <2>3. {x \in PipelineSites(Docs, r.id) : x = LastOf(PipelineSites(Docs, r.id))} = {s}
    BY <2>1
  <2> QED
    BY <1>3, <2>2, <2>3, FindsAtRef, FindsAtPipeline DEF RoutersAndLast
<1> QED
  BY <1>1, <1>2, <1>3, AtRef DEF Kinds

(* Find-references answers alike at a reference and at the definition it   *)
(* leads to, where there is one (server.ts:632-729).                       *)
THEOREM ReferencesAlwaysAgree == Spec => []ReferencesAgree
BY AlwaysChosen, FindsAlike, PTL

-----------------------------------------------------------------------------
(* Completion.                                                             *)

(* more is Docs with one more reference in member i.                       *)
Adds(more, i, ref) ==
    /\ DOMAIN more = 1..Members
    /\ \A j \in 1..Members :
         /\ more[j].components = Docs[j].components
         /\ more[j].refs = IF j = i THEN Docs[j].refs \cup {ref} ELSE Docs[j].refs

LEMMA OneMoreRef ==
    ASSUME Chosen, NEW i \in 1..Members, NEW b, NEW id, NEW n, NEW pipe, NEW more,
           Adds(more, i, [kind |-> b, id |-> id, at |-> n, pipe |-> pipe])
    PROVE  /\ Refs(more) = Refs(Docs) \cup {[kind |-> b, id |-> id, at |-> <<i, n>>, pipe |-> pipe]}
           /\ \A cls, k : Definitions(more, cls, k) = Definitions(Docs, cls, k)
<1> DEFINE ref == [kind |-> b, id |-> id, at |-> n, pipe |-> pipe]
           put == [kind |-> b, id |-> id, at |-> <<i, n>>, pipe |-> pipe]
<1>1. DOMAIN Docs = 1..Members /\ Adds(more, i, ref)
  BY DocsAre
<1>2. \A cls, k : Definitions(more, cls, k) = Definitions(Docs, cls, k)
  BY <1>1 DEF Definitions, Adds
<1>3. ASSUME NEW q
      PROVE  q \in Refs(more) <=> q \in Refs(Docs) \/ q = put
  <2>0. [ref EXCEPT !.at = <<i, @>>] = put
    OBVIOUS
  <2>1. q \in Refs(more) <=> \E j \in 1..Members : \E r \in more[j].refs : q = [r EXCEPT !.at = <<j, @>>]
    BY <1>1 DEF Refs, Adds
  <2>2. q \in Refs(Docs) <=> \E j \in 1..Members : \E r \in Docs[j].refs : q = [r EXCEPT !.at = <<j, @>>]
    BY <1>1 DEF Refs
  <2>3. \A j \in 1..Members : more[j].refs = IF j = i THEN Docs[j].refs \cup {ref} ELSE Docs[j].refs
    BY <1>1 DEF Adds
  <2> HIDE DEF ref, put
  <2> QED
    BY <2>0, <2>1, <2>2, <2>3
<1> QED
  BY <1>2, <1>3

LEMMA OffersResolve == Chosen => OfferedIdsResolve
<1> SUFFICES ASSUME Chosen, NEW i \in 1..Members, NEW p \in Docs[i].pipelines, NEW b \in Buckets,
                    NEW id \in OfferedIds(Docs, b)
             PROVE  LET new == Len(TextOf(i)) + 1
                        ref == [kind |-> b, id |-> id, at |-> new, pipe |-> p.id]
                        accepted == [Docs EXCEPT ![i].refs = @ \cup {ref}]
                    IN  [at |-> <<i, new>>, what |-> "not defined"] \notin UndefinedDiagnostics(accepted)
  BY DEF OfferedIdsResolve
<1> DEFINE new == Len(TextOf(i)) + 1
           ref == [kind |-> b, id |-> id, at |-> new, pipe |-> p.id]
           accepted == [Docs EXCEPT ![i].refs = @ \cup {ref}]
           put == [kind |-> b, id |-> id, at |-> <<i, new>>, pipe |-> p.id]
<1>0. Adds(accepted, i, ref)
  <2>1. DOMAIN Docs = 1..Members
    BY DocsAre
  <2>2. DOMAIN Docs[i] = {"components", "pipelines", "refs", "suppressions"}
    <3>1. \A t : DOMAIN buildModel(t) = {"components", "pipelines", "refs", "suppressions"}
      BY DEF buildModel
    <3> QED
      BY <3>1, DocsAre
  <2> HIDE DEF ref
  <2>3. accepted[i] = [Docs[i] EXCEPT !.refs = @ \cup {ref}] /\ DOMAIN accepted = 1..Members
    BY <2>1
  <2>4. \A j \in 1..Members : j # i => accepted[j] = Docs[j]
    BY <2>1
  <2> HIDE DEF accepted
  <2> QED
    BY <2>2, <2>3, <2>4 DEF Adds
<1>1. Refs(accepted) = Refs(Docs) \cup {put} /\ \A c : Definitions(accepted, c, id) = Definitions(Docs, c, id)
  <2> HIDE DEF accepted, new
  <2> QED
    BY <1>0, OneMoreRef
<1>2. \A q \in Refs(Docs) : q.at # <<i, new>>
  <2>1. ASSUME NEW j \in 1..Members, NEW k \in RefLines(TextOf(j)), <<j, k>> = <<i, new>> PROVE FALSE
    <3>1. k \in Written(TextOf(i)) /\ k = new
      BY <2>1 DEF RefLines
    <3>2. k <= Len(TextOf(i)) /\ Len(TextOf(i)) \in Nat
      BY <3>1, DocsAre, WrittenLines
    <3> QED
      BY <3>1, <3>2
  <2>2. \A j, k : RefOf(j, k).at = <<j, k>>
    BY DEF RefOf, refOf
  <2> HIDE DEF new
  <2> QED
    BY <2>1, <2>2, RefsAre
<1>3. put.kind = b /\ put.id = id
  OBVIOUS
<1> HIDE DEF accepted, put, ref, new
<1>4. IsDefined(accepted, put)
  <2>1. PICK x \in {ClassOf(b), "connector"} : Has(Docs, x, id)
    <3>1. PICK c \in Components(Docs) : c[1] \in {ClassOf(b), "connector"} /\ id = c[2]
      BY DEF OfferedIds
    <3> QED
      BY <3>1, ComponentsAre
  <2>2. Has(accepted, x, id)
    BY <1>1, <2>1 DEF Has
  <2>3. Resolved(accepted, put) # {}
    BY <1>3, <2>1, <2>2 DEF Resolved
  <2> QED
    BY <1>3, <2>3, ClassOfBucket DEF IsDefined
<1>5. \A q \in Checked(accepted) : q.at = <<i, new>> => q = put
  BY <1>1, <1>2 DEF Checked, ValidRefs, BucketRefs
<1>6. [at |-> <<i, new>>, what |-> "not defined"] \notin UndefinedDiagnostics(accepted)
  BY <1>4, <1>5, SaysUndefined
<1> QED
  BY <1>6 DEF accepted, ref, new

(* An id that completion offers (completion.ts:196-227) is not reported as *)
(* not defined once it is accepted, whatever the other members define.     *)
THEOREM OffersAlwaysResolve == Spec => []OfferedIdsResolve
BY AlwaysChosen, OffersResolve, PTL

-----------------------------------------------------------------------------
(* Where the definitions and references are.                               *)

LEMMA SitesTyped == Chosen => TypeOK
<1> SUFFICES ASSUME Chosen PROVE TypeOK
  OBVIOUS
<1>1. ASSUME NEW r \in Refs(Docs)
      PROVE  /\ r.at[2] \in DOMAIN TextOf(r.at[1])
             /\ r.id \in {TextOf(r.at[1])[r.at[2]].val.raw, TextOf(r.at[1])[r.at[2]].val.inner}
  <2>0. PICK i \in 1..Members : \E n \in RefLines(TextOf(i)) : r = RefOf(i, n)
    BY RefsAre
  <2>1. PICK n \in RefLines(TextOf(i)) : r = RefOf(i, n)
    BY <2>0
  <2>2. r.at = <<i, n>> /\ r.id = resolveRefId(TextOf(i)[n].val)
    BY <2>1 DEF RefOf, refOf
  <2>3. n \in DOMAIN TextOf(i)
    BY DocsAre, WrittenLines DEF RefLines
  <2> QED
    BY <2>2, <2>3 DEF resolveRefId
<1>2. ASSUME NEW c \in Components(Docs), NEW s \in Definitions(Docs, c[1], c[2])
      PROVE  s[2] \in DOMAIN TextOf(s[1]) /\ TextOf(s[1])[s[2]].key = c[2]
  <2>1. PICK i \in 1..Members : \E n \in Written(TextOf(i)) : s = <<i, n>> /\ TextOf(i)[n].key = c[2]
    BY ComponentsAre, DefinitionsAre
  <2>2. PICK n \in Written(TextOf(i)) : s = <<i, n>> /\ TextOf(i)[n].key = c[2]
    BY <2>1
  <2> QED
    BY <2>2, DocsAre, WrittenLines
<1> QED
  BY <1>1, <1>2 DEF TypeOK, Chosen

(* Every definition and reference of the merged view is at the line that   *)
(* writes it (yaml-model.ts, set-model.ts).                                *)
THEOREM SitesAlwaysTyped == Spec => []TypeOK
BY AlwaysChosen, SitesTyped, PTL

-----------------------------------------------------------------------------
(* Semantic tokens.                                                        *)

LEMMA UpIsAbove ==
    ASSUME NEW t \in Seq(Line), NEW n \in Written(t)
    PROVE  Up(t, n) # 0 => Up(t, n) \in Written(t) /\ Up(t, n) < n
<1> DEFINE above == {m \in Written(t) : /\ m < n
                                       /\ \/ t[m].ind < t[n].ind
                                          \/ t[m].ind = t[n].ind /\ IsItem(t, n) /\ ~IsItem(t, m)}
<1>1. Up(t, n) = Max({0} \cup above)
  BY DEF Up
<1>2. /\ {0} \cup above \in SUBSET Nat /\ {0} \cup above # {}
      /\ Len(t) \in Nat /\ \A m \in {0} \cup above : m <= Len(t)
  BY WrittenLines
<1>3. Max({0} \cup above) \in {0} \cup above
  <2> HIDE DEF above
  <2> QED
    BY <1>2, MaxIsLargest
<1> QED
  BY <1>1, <1>3

LEMMA LaterIsFurther ==
    ASSUME NEW d \in Nat, NEW e \in Nat, NEW w \in Nat, d < e
    PROVE  d * w \in Nat /\ e * w \in Nat /\ d * w + w <= e * w
<1>1. PICK x \in Nat : e = (d + 1) + x
  <2>1. e - (d + 1) \in Nat /\ e = (d + 1) + (e - (d + 1))
    OBVIOUS
  <2> QED
    BY <2>1
<1>2. e * w = d * w + w + x * w
  BY <1>1
<1>3. d * w \in Nat /\ x * w \in Nat
  BY <1>1
<1> QED
  BY <1>2, <1>3

(* No two lines are at one position, and of two that are shown on one line *)
(* the later one leaves room for the widest id.                            *)
LEMMA PositionsDiffer ==
    ASSUME MaxWidth \in Nat, NEW t \in Seq(Line), NEW n \in Written(t)
    PROVE  /\ Position(t, n) \in Nat \X Nat
           /\ \A m \in Written(t) :
                 Position(t, m)[1] = Position(t, n)[1] =>
                   \/ m = n
                   \/ Position(t, m)[2] + MaxWidth < Position(t, n)[2]
                   \/ Position(t, n)[2] + MaxWidth < Position(t, m)[2]
<1>1. \A m \in Written(t) : m \in Nat /\ t[m].ind \in Nat
  <2>1. \A m \in Written(t) : m \in Nat /\ m \in DOMAIN t
    BY WrittenLines
  <2>2. \A m \in DOMAIN t : t[m] \in Line
    OBVIOUS
  <2> QED
    BY <2>1, <2>2 DEF Line
<1>2. \A m \in Written(t) : Shown(t, m) \in Written(t) /\ Shown(t, m) <= m
  BY <1>1, UpIsAbove DEF Shown
<1> DEFINE row(m) == Shown(t, m)
           gap(m) == m - row(m)
           W == MaxWidth + 1
           col(m) == t[row(m)].ind + gap(m) * W
<1>3. \A m \in Written(t) : Position(t, m)[1] = row(m) /\ Position(t, m)[2] = col(m) /\ Position(t, m) = <<row(m), col(m)>>
  BY DEF Position
<1>4. \A m \in Written(t) : row(m) \in Nat /\ gap(m) \in Nat /\ t[row(m)].ind \in Nat
  BY <1>1, <1>2
<1>5. W \in Nat /\ MaxWidth < W
  OBVIOUS
<1>6. ASSUME NEW m \in Written(t) PROVE col(m) \in Nat
  <2>1. \A g \in Nat : g * W \in Nat
    BY <1>5
  <2> QED
    BY <1>4, <2>1
<1>7. ASSUME NEW m \in Written(t), NEW k \in Written(t), row(m) = row(k), m < k
      PROVE  col(m) + MaxWidth < col(k)
  <2>1. gap(m) < gap(k)
    BY <1>1, <1>4, <1>7
  <2>2. gap(m) \in Nat /\ gap(k) \in Nat
    BY <1>4
  <2> HIDE DEF gap, W
  <2>3. gap(m) * W \in Nat /\ gap(k) * W \in Nat /\ gap(m) * W + W <= gap(k) * W
    BY <1>5, <2>1, <2>2, LaterIsFurther
  <2>4. t[row(m)].ind = t[row(k)].ind /\ t[row(k)].ind \in Nat
    BY <1>4, <1>7
  <2> QED
    BY <1>5, <2>3, <2>4
<1> HIDE DEF row, col
<1>8. Position(t, n) \in Nat \X Nat
  BY <1>3, <1>4, <1>6
<1>9. ASSUME NEW m \in Written(t), Position(t, m)[1] = Position(t, n)[1], m # n
      PROVE  \/ Position(t, m)[2] + MaxWidth < Position(t, n)[2]
             \/ Position(t, n)[2] + MaxWidth < Position(t, m)[2]
  <2>1. row(m) = row(n) /\ (m < n \/ n < m)
    BY <1>1, <1>3, <1>9
  <2> QED
    BY <1>3, <1>7, <2>1
<1> QED
  BY <1>8, <1>9

(* The token of a line, by what the line is.                               *)
lineToken(i, n) ==
    LET t == TextOf(i)
    IN  [pos  |-> Position(t, n),
         len  |-> IF n \in RefLines(t) THEN valueLen(t, n) ELSE keyLen(t, n),
         type |-> IF n \in RefLines(t) THEN IF kindOf(t, n) = "pipeline" THEN "namespace" ELSE "class"
                  ELSE IF isPipeline(t, n) THEN "namespace" ELSE "class",
         mods |-> IF n \in RefLines(t) THEN {}
                  ELSE IF isPipeline(t, n) THEN {"declaration"}
                  ELSE IF IsDeprecated(Docs, CLASS_KEYS[trails(t)[n][1]], t[n].key)
                       THEN {"declaration", "deprecated"} ELSE {"declaration"}]

(* A token is that of one line, and not empty.                             *)
LEMMA TokensOfLines ==
    ASSUME Chosen, NEW i \in 1..Members, NEW x \in TokenSet(Docs, i, TextOf(i))
    PROVE  x.len > 0 /\ \E n \in Written(TextOf(i)) : x = lineToken(i, n)
<1> DEFINE t == TextOf(i)
           defs == {c \in Components(Docs) : c[2] \in DOMAIN Docs[i].components[c[1]]}
           line(c) == Docs[i].components[c[1]][c[2]]
           mods(c) == IF IsDeprecated(Docs, c[1], c[2]) THEN {"declaration", "deprecated"} ELSE {"declaration"}
           type(r) == IF r.kind = "pipeline" THEN "namespace" ELSE "class"
<1>0. \/ \E c \in defs : x \in Token(t, line(c), keyLen(t, line(c)), "class", mods(c))
      \/ \E p \in Docs[i].pipelines : x \in Token(t, p.at, keyLen(t, p.at), "namespace", {"declaration"})
      \/ \E r \in Docs[i].refs : x \in Token(t, r.at, valueLen(t, r.at), type(r), {})
  BY DEF TokenSet
<1>1. ASSUME NEW c \in defs, x \in Token(t, line(c), keyLen(t, line(c)), "class", mods(c))
      PROVE  x.len > 0 /\ \E n \in Written(t) : x = lineToken(i, n)
  <2> DEFINE n == line(c)
  <2>0. /\ keyLen(t, n) > 0
        /\ x = [pos |-> Position(t, n), len |-> keyLen(t, n), type |-> "class", mods |-> mods(c)]
    BY <1>1 DEF Token
  <2>1. <<i, n>> \in Definitions(Docs, c[1], c[2]) /\ c[1] \in Classes
    BY DocsAre, ComponentsAre DEF Definitions
  <2>2. n \in Written(t) /\ isDefinition(t, c[1], n) /\ t[n].key = c[2]
    BY <2>1, DefinitionsAre
  <2>3. n \notin RefLines(t) /\ ~ isPipeline(t, n) /\ CLASS_KEYS[trails(t)[n][1]] = c[1]
    BY <2>2, LinesAreOne DEF isDefinition
  <2> HIDE DEF n
  <2>4. x = lineToken(i, n)
    BY <2>0, <2>2, <2>3 DEF lineToken
  <2> QED
    BY <2>0, <2>2, <2>4
<1>2. ASSUME NEW p \in Docs[i].pipelines, x \in Token(t, p.at, keyLen(t, p.at), "namespace", {"declaration"})
      PROVE  x.len > 0 /\ \E n \in Written(t) : x = lineToken(i, n)
  <2>1. Docs[i].pipelines = collectService(t, trails(t))
    BY DocsAre, Built
  <2>2. PICK n \in Written(t) : p = [id |-> t[n].key, at |-> n] /\ isPipeline(t, n)
    BY <2>1 DEF collectService, trails, isPipeline
  <2>3. n \notin RefLines(t)
    BY <2>2, LinesAreOne
  <2>4. /\ keyLen(t, n) > 0
        /\ x = [pos |-> Position(t, n), len |-> keyLen(t, n), type |-> "namespace", mods |-> {"declaration"}]
    BY <1>2, <2>2 DEF Token
  <2> QED
    BY <2>2, <2>3, <2>4 DEF lineToken
<1>3. ASSUME NEW r \in Docs[i].refs, x \in Token(t, r.at, valueLen(t, r.at), type(r), {})
      PROVE  x.len > 0 /\ \E n \in Written(t) : x = lineToken(i, n)
  <2>1. Docs[i].refs = { refOf(t, n) : n \in RefLines(t) }
    BY DocsAre, Built
  <2>2. PICK n \in RefLines(t) : r = refOf(t, n)
    BY <2>1
  <2>3. r.at = n /\ r.kind = kindOf(t, n) /\ n \in Written(t)
    BY <2>2 DEF refOf, RefLines
  <2>4. /\ valueLen(t, n) > 0
        /\ x = [pos |-> Position(t, n), len |-> valueLen(t, n), type |-> type(r), mods |-> {}]
    BY <1>3, <2>3 DEF Token
  <2> QED
    BY <2>3, <2>4 DEF lineToken
<1> QED
  BY <1>0, <1>1, <1>2, <1>3

(* No id is wider than the widest.                                         *)
LEMMA WidthsBounded ==
    ASSUME Chosen, NEW i \in 1..Members, NEW n \in Written(TextOf(i))
    PROVE  /\ keyLen(TextOf(i), n) \in 0..MaxWidth /\ valueLen(TextOf(i), n) \in 0..MaxWidth
           /\ MaxWidth \in Nat
<1>1. text[i] \in DOMAIN Texts /\ n \in DOMAIN Texts[text[i]]
  BY DocsAre, WrittenLines DEF Chosen, TextOf
<1>2. MaxWidth \in Nat /\ Width[Texts[text[i]][n].key] \in 1..MaxWidth /\ Width[Texts[text[i]][n].val.raw] \in 1..MaxWidth
  BY <1>1, WidthsAssumption
<1> QED
  BY <1>2 DEF keyLen, valueLen, TextOf

(* Tokens each at a place of its own, and a sequence of them in order.     *)
Apart(S) ==
    /\ IsFiniteSet(S) /\ \A x \in S : x.pos \in Nat \X Nat
    /\ \A x, y \in S : x.pos = y.pos => x = y
(* None is empty, and each ends before another begins.                     *)
Spaced(S) ==
    /\ \A x \in S : x.len \in Nat \ {0}
    /\ \A x, y \in S : Before(x.pos, y.pos) /\ x.pos[1] = y.pos[1] => x.pos[2] + x.len <= y.pos[2]
counted(S) ==
    [k \in 1..Cardinality(S) |-> CHOOSE x \in S : Cardinality({y \in S : Before(y.pos, x.pos)}) = k - 1]
ordered(toks, C) ==
    /\ C \in Nat /\ DOMAIN toks = 1..C
    /\ \A k \in 1..C : toks[k].pos \in Nat \X Nat
    /\ \A k \in 2..C : Before(toks[k - 1].pos, toks[k].pos)

(* So it puts the tokens in order, one at each place.                      *)
LEMMA CountingSorts ==
    ASSUME NEW S, Apart(S)
    PROVE  /\ ordered(counted(S), Cardinality(S))
           /\ \A k \in 1..Cardinality(S) : counted(S)[k] \in S
           /\ \A x \in S : \E k \in 1..Cardinality(S) : counted(S)[k] = x
<1> DEFINE C == Cardinality(S)
           R == {p \in S \X S : Before(p[1].pos, p[2].pos)}
           toks == counted(S)
<1>1. \A x, y \in S : <<x, y>> \in R <=> Before(x.pos, y.pos)
  OBVIOUS
<1>2. IsFiniteSet(S) /\ (\A x \in S : x.pos \in Nat \X Nat) /\ \A x, y \in S : x.pos = y.pos => x = y
  BY DEF Apart
<1>3. ASSUME NEW x \in S PROVE {y \in S : <<y, x>> \in R} = {y \in S : Before(y.pos, x.pos)}
  BY <1>1
<1> HIDE DEF R
<1>4. IsOrder(S, R)
  BY <1>1, <1>2, BeforeIsTotal DEF IsOrder
<1>5. \A x \in S : rank(S, R, x) = Cardinality({y \in S : Before(y.pos, x.pos)})
  BY <1>3 DEF rank
<1>6. /\ C \in Nat
      /\ \A x \in S : rank(S, R, x) \in Nat
      /\ \A x, y \in S : <<x, y>> \in R => rank(S, R, x) < rank(S, R, y)
      /\ \A x, y \in S : rank(S, R, x) = rank(S, R, y) => x = y
      /\ \A k \in 1..C : \E x \in S : rank(S, R, x) = k - 1
      /\ \A x \in S : \E k \in 1..C : rank(S, R, x) = k - 1
  BY <1>2, <1>4, RanksDiffer
<1>7. ASSUME NEW k \in 1..C PROVE toks[k] \in S /\ rank(S, R, toks[k]) = k - 1
  <2>1. toks[k] = CHOOSE x \in S : Cardinality({y \in S : Before(y.pos, x.pos)}) = k - 1
    BY DEF counted
  <2>2. \E x \in S : Cardinality({y \in S : Before(y.pos, x.pos)}) = k - 1
    BY <1>5, <1>6
  <2>3. toks[k] \in S /\ Cardinality({y \in S : Before(y.pos, toks[k].pos)}) = k - 1
    BY <2>1, <2>2
  <2> QED
    BY <1>5, <2>3
<1>8. DOMAIN toks = 1..C /\ \A k \in 1..C : toks[k].pos \in Nat \X Nat
  BY <1>2, <1>7 DEF counted
<1> HIDE DEF toks, C
<1>9. ASSUME NEW x \in S PROVE \E k \in 1..C : toks[k] = x
  BY <1>6, <1>7
<1>10. ASSUME NEW k \in 2..C PROVE Before(toks[k - 1].pos, toks[k].pos)
  <2>1. k \in 1..C /\ k - 1 \in 1..C /\ k \in Nat
    BY <1>6
  <2>2. /\ toks[k] \in S /\ toks[k - 1] \in S
        /\ rank(S, R, toks[k]) = k - 1 /\ rank(S, R, toks[k - 1]) = (k - 1) - 1
    BY <1>7, <2>1
  <2>3. ~ (rank(S, R, toks[k]) < rank(S, R, toks[k - 1])) /\ rank(S, R, toks[k]) # rank(S, R, toks[k - 1])
    BY <2>1, <2>2
  <2>4. toks[k] # toks[k - 1] /\ <<toks[k], toks[k - 1]>> \notin R
    BY <1>6, <2>2, <2>3
  <2> QED
    BY <1>1, <1>4, <2>2, <2>4 DEF IsOrder
<1> QED
  BY <1>6, <1>7, <1>8, <1>9, <1>10 DEF C, toks, ordered

(* The tokens of a member are finitely many, each at a place of its own.   *)
LEMMA TokensApart ==
    ASSUME Chosen, NEW i \in 1..Members
    PROVE  Apart(TokenSet(Docs, i, TextOf(i))) /\ Spaced(TokenSet(Docs, i, TextOf(i)))
<1> DEFINE t == TextOf(i)
           S == TokenSet(Docs, i, t)
           line == [x \in S |-> CHOOSE n \in Written(t) : x = lineToken(i, n)]
<1>1. t \in Seq(Line)
  BY DocsAre
<1>2. \A x \in S : x.len > 0 /\ line[x] \in Written(t) /\ x = lineToken(i, line[x])
  BY TokensOfLines
<1>3. \A n \in Written(t) : lineToken(i, n).pos = Position(t, n) /\ lineToken(i, n).len \in 0..MaxWidth /\ MaxWidth \in Nat
  BY WidthsBounded DEF lineToken
<1> HIDE DEF t, S
<1>4. IsFiniteSet(1..Len(t)) /\ Written(t) \subseteq 1..Len(t)
  BY <1>1, FS_Interval, WrittenLines
<1>5. line \in [S -> 1..Len(t)]
  BY <1>2, <1>4
<1> HIDE DEF line
<1>6. IsFiniteSet(S)
  <2>1. line \in Injection(S, 1..Len(t))
    BY <1>2, <1>5 DEF Injection, IsInjective
  <2> QED
    BY <1>4, <2>1, FS_Injection
<1>7. \A x \in S : /\ x.pos = Position(t, line[x]) /\ line[x] \in Written(t) /\ x = lineToken(i, line[x])
                   /\ x.len \in 0..MaxWidth /\ MaxWidth \in Nat /\ x.len > 0
  BY <1>2, <1>3
<1>8. \A x \in S : x.pos \in Nat \X Nat
  BY <1>1, <1>7, PositionsDiffer
<1>9. ASSUME NEW x \in S, NEW y \in S, x # y
      PROVE  x.pos[1] = y.pos[1] => x.pos[2] + MaxWidth < y.pos[2] \/ y.pos[2] + MaxWidth < x.pos[2]
  <2>1. line[x] # line[y]
    BY <1>7, <1>9
  <2> QED
    BY <1>1, <1>7, <2>1, PositionsDiffer
<1>10. ASSUME NEW x \in S, NEW y \in S, x.pos = y.pos PROVE x = y
  <2>1. x.pos[2] \in Nat /\ MaxWidth \in Nat /\ x.pos[1] = y.pos[1] /\ x.pos[2] = y.pos[2]
    BY <1>7, <1>8, <1>10
  <2> QED
    BY <1>9, <2>1
<1>11. ASSUME NEW x \in S, NEW y \in S, Before(x.pos, y.pos), x.pos[1] = y.pos[1]
       PROVE  x.pos[2] + x.len <= y.pos[2]
  <2>1. x.pos[1] \in Nat /\ x.pos[2] \in Nat /\ y.pos[2] \in Nat /\ x.len \in 0..MaxWidth /\ MaxWidth \in Nat
    BY <1>7, <1>8
  <2>2. x.pos[2] < y.pos[2]
    BY <1>11, <2>1 DEF Before
  <2>3. x # y
    BY <2>1, <2>2
  <2>4. x.pos[2] + MaxWidth < y.pos[2] \/ y.pos[2] + MaxWidth < x.pos[2]
    BY <1>9, <1>11, <2>3
  <2> QED
    BY <2>1, <2>2, <2>4
<1>12. \A x \in S : x.len \in Nat \ {0}
  BY <1>7
<1> QED
  BY <1>6, <1>8, <1>10, <1>11, <1>12 DEF Apart, Spaced, S, t

(* What a client makes of the deltas, and the places it should find.       *)
decoding(wire, pos) ==
    pos = [k \in 0..Len(wire) |->
             IF k = 0 THEN <<0, 0>>
             ELSE <<pos[k - 1][1] + wire[k].dLine,
                    IF wire[k].dLine = 0 THEN pos[k - 1][2] + wire[k].dChar ELSE wire[k].dChar>>]
places(toks, C) == [k \in 0..C |-> IF k = 0 THEN <<0, 0>> ELSE toks[k].pos]

(* The deltas of tokens in order are not negative, and they lead from each *)
(* place to the next.                                                      *)
LEMMA DeltasLead ==
    ASSUME NEW C, NEW toks, ordered(toks, C), NEW k \in 1..C
    PROVE  LET w  == encodeSemanticTokens(toks)[k]
               at == places(toks, C)
           IN  /\ w.dLine >= 0 /\ w.dChar >= 0
               /\ w.len = toks[k].len /\ w.type = toks[k].type /\ w.mods = toks[k].mods
               /\ at[k] = <<at[k - 1][1] + w.dLine,
                            IF w.dLine = 0 THEN at[k - 1][2] + w.dChar ELSE w.dChar>>
<1> DEFINE w == encodeSemanticTokens(toks)[k]
           prev == IF k = 1 THEN <<0, 0>> ELSE toks[k - 1].pos
           here == toks[k].pos
<1>1. /\ w.dLine = here[1] - prev[1]
      /\ w.dChar = IF w.dLine = 0 THEN here[2] - prev[2] ELSE here[2]
      /\ w.len = toks[k].len /\ w.type = toks[k].type /\ w.mods = toks[k].mods
  BY DEF encodeSemanticTokens, ordered
<1>2. k \in Nat /\ k - 1 \in 0..C /\ k \in 0..C /\ k # 0
  BY DEF ordered
<1>3. places(toks, C)[k] = here /\ places(toks, C)[k - 1] = prev
  BY <1>2 DEF places
<1>4. /\ here \in Nat \X Nat /\ prev \in Nat \X Nat
      /\ Before(prev, here) \/ prev = <<0, 0>>
  <2>1. CASE k = 1
    BY <2>1 DEF ordered
  <2>2. CASE k # 1
    <3>1. k \in 2..C /\ k - 1 \in 1..C
      BY <2>2 DEF ordered
    <3> QED
      BY <2>2, <3>1 DEF ordered
  <2> QED
    BY <2>1, <2>2
<1> HIDE DEF prev, here, w
<1>5. here[1] \in Nat /\ here[2] \in Nat /\ prev[1] \in Nat /\ prev[2] \in Nat /\ here = <<here[1], here[2]>>
  BY <1>4
<1>6. prev[1] < here[1] \/ (prev[1] = here[1] /\ prev[2] <= here[2])
  BY <1>4, <1>5 DEF Before
<1>7. /\ w.dLine >= 0 /\ w.dChar >= 0
      /\ here[1] = prev[1] + w.dLine
      /\ here[2] = IF w.dLine = 0 THEN prev[2] + w.dChar ELSE w.dChar
  BY <1>1, <1>5, <1>6
<1> QED
  BY <1>1, <1>3, <1>5, <1>7 DEF w

(* So the client finds those places, and no others.                        *)
LEMMA PlacesFound ==
    ASSUME NEW C, NEW toks, ordered(toks, C)
    PROVE  LET wire == encodeSemanticTokens(toks)
           IN  /\ decoding(wire, places(toks, C))
               /\ \A pos : decoding(wire, pos) => \A k \in 0..C : pos[k] = places(toks, C)[k]
<1> DEFINE wire == encodeSemanticTokens(toks)
           at == places(toks, C)
           step(p, k) == <<p[1] + wire[k].dLine,
                           IF wire[k].dLine = 0 THEN p[2] + wire[k].dChar ELSE wire[k].dChar>>
<1>1. \A k \in 1..C : at[k] = step(at[k - 1], k)
  BY DeltasLead
<1>0. C \in Nat /\ Len(wire) = C
  BY DEF ordered, encodeSemanticTokens
<1> HIDE DEF wire
<1>2. \A k \in 0..C : k # 0 => k \in 1..C
  BY <1>0
<1>3. at = [k \in 0..Len(wire) |-> IF k = 0 THEN <<0, 0>> ELSE step(at[k - 1], k)]
  <2>1. at = [k \in 0..C |-> at[k]] /\ at[0] = <<0, 0>>
    BY <1>0 DEF places
  <2> HIDE DEF at, step
  <2> QED
    BY <1>0, <1>1, <1>2, <2>1
<1>4. ASSUME NEW pos, decoding(wire, pos), NEW m \in 0..C, pos[m] # at[m] PROVE FALSE
  <2>1. \A k \in 0..C : pos[k] = IF k = 0 THEN <<0, 0>> ELSE step(pos[k - 1], k)
    BY <1>0, <1>4 DEF decoding
  <2>2. at[0] = <<0, 0>>
    BY <1>0 DEF places
  <2> HIDE DEF at, step
  <2> DEFINE wrong == {k \in 0..C : pos[k] # at[k]}
  <2>3. PICK k \in wrong : \A n \in wrong : k <= n
    <3>1. wrong \in SUBSET Nat /\ wrong # {}
      BY <1>4
    <3> HIDE DEF wrong
    <3> QED
      BY <3>1, Smallest
  <2>4. k \in 1..C
    BY <1>2, <2>1, <2>2, <2>3
  <2>5. k - 1 \in 0..C /\ ~(k <= k - 1)
    BY <1>0, <2>4
  <2>6. pos[k - 1] = at[k - 1]
    BY <2>3, <2>5
  <2> QED
    BY <1>1, <2>1, <2>3, <2>4, <2>6
<1> QED
  BY <1>3, <1>4 DEF decoding, wire

LEMMA TokensFound == Chosen => TokensDecode
<1> SUFFICES ASSUME Chosen, NEW i \in 1..Members
             PROVE  LET wire == encodeSemanticTokens(computeSemanticTokens(Docs, i, TextOf(i)))
                        pos  == CHOOSE p : decoding(wire, p)
                    IN  /\ \A k \in DOMAIN wire : wire[k].dLine >= 0 /\ wire[k].dChar >= 0
                        /\ \A k \in DOMAIN wire : wire[k].len > 0
                        /\ \A k \in 2 .. Len(wire) :
                             \/ pos[k - 1][1] < pos[k][1]
                             \/ pos[k - 1][1] = pos[k][1] /\ pos[k - 1][2] + wire[k - 1].len <= pos[k][2]
                        /\ {[pos |-> pos[k], len |-> wire[k].len, type |-> wire[k].type, mods |-> wire[k].mods] :
                              k \in DOMAIN wire}
                             = TokenSet(Docs, i, TextOf(i))
  BY DEF TokensDecode, decoding
<1> DEFINE S    == TokenSet(Docs, i, TextOf(i))
           C    == Cardinality(S)
           toks == computeSemanticTokens(Docs, i, TextOf(i))
           wire == encodeSemanticTokens(toks)
           pos  == CHOOSE p : decoding(wire, p)
           found(k) == [pos |-> pos[k], len |-> wire[k].len, type |-> wire[k].type, mods |-> wire[k].mods]
<1>1. Apart(S) /\ Spaced(S)
  BY TokensApart
<1>2. toks = counted(S)
  BY DEF computeSemanticTokens, InOrder, counted
<1>3. \A x \in S : x = [pos |-> x.pos, len |-> x.len, type |-> x.type, mods |-> x.mods]
  BY DEF TokenSet, Token
<1> HIDE DEF S, toks
<1>4. /\ ordered(toks, C)
      /\ \A k \in 1..C : toks[k] \in S
      /\ \A x \in S : \E k \in 1..C : toks[k] = x
  BY <1>1, <1>2, CountingSorts
<1> HIDE DEF C
<1>5. C \in Nat /\ (\A k \in 1..C : toks[k].pos \in Nat \X Nat) /\ \A k \in 2..C : Before(toks[k - 1].pos, toks[k].pos)
  BY <1>4 DEF ordered
<1>6. DOMAIN wire = 1..C /\ Len(wire) = C
  BY <1>4 DEF ordered, encodeSemanticTokens
<1>8. \A k \in 1..C : /\ wire[k].dLine >= 0 /\ wire[k].dChar >= 0
                      /\ wire[k].len = toks[k].len /\ wire[k].type = toks[k].type /\ wire[k].mods = toks[k].mods
  BY <1>4, DeltasLead
<1>9. decoding(wire, places(toks, C)) /\ \A p : decoding(wire, p) => \A k \in 0..C : p[k] = places(toks, C)[k]
  BY <1>4, PlacesFound
<1> HIDE DEF wire
<1>10. decoding(wire, pos)
  BY <1>9
<1> HIDE DEF pos
<1>11. \A k \in 1..C : pos[k] = toks[k].pos
  <2>1. \A k \in 1..C : k \in 0..C /\ k # 0
    BY <1>5
  <2> QED
    BY <1>9, <1>10, <2>1 DEF places
<1>7. \A k \in 1..C : wire[k].len > 0
  <2>1. \A k \in 1..C : wire[k].len \in Nat \ {0}
    BY <1>1, <1>4, <1>8 DEF Spaced
  <2> QED
    BY <2>1
<1>12. ASSUME NEW k \in 2..C
       PROVE  \/ pos[k - 1][1] < pos[k][1]
              \/ pos[k - 1][1] = pos[k][1] /\ pos[k - 1][2] + wire[k - 1].len <= pos[k][2]
  <2> DEFINE x == toks[k - 1]
             y == toks[k]
  <2>1. k \in 1..C /\ k - 1 \in 1..C
    BY <1>5
  <2>2. x \in S /\ y \in S /\ pos[k - 1] = x.pos /\ pos[k] = y.pos /\ wire[k - 1].len = x.len
    BY <1>4, <1>8, <1>11, <2>1
  <2>3. Before(x.pos, y.pos)
    BY <1>5
  <2> HIDE DEF x, y
  <2>4. x.pos[1] = y.pos[1] => x.pos[2] + x.len <= y.pos[2]
    BY <1>1, <2>2, <2>3 DEF Spaced
  <2>5. x.pos[1] < y.pos[1] \/ x.pos[1] = y.pos[1]
    BY <2>3 DEF Before
  <2> QED
    BY <2>2, <2>4, <2>5
<1>13. \A k \in 1..C : found(k) = toks[k]
  BY <1>3, <1>4, <1>8, <1>11
<1>14. {found(k) : k \in DOMAIN wire} = S
  <2>1. \A k \in DOMAIN wire : found(k) \in S
    BY <1>4, <1>6, <1>13
  <2>2. \A x \in S : \E k \in DOMAIN wire : x = found(k)
    BY <1>4, <1>6, <1>13
  <2> HIDE DEF found
  <2> QED
    BY <2>1, <2>2, Zenon
<1> QED
  BY <1>6, <1>7, <1>8, <1>12, <1>14 DEF S, pos, wire, toks

(* A client that adds up the deltas of the encoded tokens                  *)
(* (semantic-tokens.ts:175-188) finds each token of the document once, at  *)
(* its place. No delta is negative, no token is empty, and none reaches    *)
(* into the next.                                                          *)
THEOREM TokensAlwaysDecode == Spec => []TokensDecode
  BY AlwaysChosen, TokensFound, PTL

-----------------------------------------------------------------------------
(* A set and the one text that its members make.                           *)

(* f puts the first k of the texts one after another.                      *)
IsFlat(seqs, f, k) == f = [i \in 1..k |-> IF i = 1 THEN seqs[i] ELSE f[i - 1] \o seqs[i]]

LEMMA FlatExists ==
    ASSUME NEW seqs, NEW n \in Nat
    PROVE  \E f : IsFlat(seqs, f, n)
<1> DEFINE Missing == {k \in Nat : ~ \E f : IsFlat(seqs, f, k)}
<1> SUFFICES ASSUME n \in Missing PROVE FALSE
  OBVIOUS
<1>1. PICK k \in Missing : \A j \in Missing : k <= j
  <2>1. Missing \in SUBSET Nat /\ Missing # {}
    OBVIOUS
  <2> HIDE DEF Missing
  <2> QED
    BY <2>1, Smallest
<1>2. k # 0
  <2>1. IsFlat(seqs, [i \in 1..0 |-> <<>>], 0)
    BY DEF IsFlat
  <2> QED
    BY <1>1, <2>1
<1>3. k \in Nat \ {0} /\ k - 1 \in Nat /\ k - 1 \notin Missing
  <2>1. k \in Nat \ {0} /\ k - 1 \in Nat /\ ~(k <= k - 1)
    BY <1>1, <1>2
  <2> QED
    BY <1>1, <2>1
<1>4. PICK f : IsFlat(seqs, f, k - 1)
  BY <1>3
<1> DEFINE g == [i \in 1..k |-> IF i = k THEN IF k = 1 THEN seqs[k] ELSE f[k - 1] \o seqs[k] ELSE f[i]]
<1>5. ASSUME NEW i \in 1..k PROVE g[i] = IF i = 1 THEN seqs[i] ELSE g[i - 1] \o seqs[i]
  <2>1. CASE i = k
    <3>1. k # 1 => g[k - 1] = f[k - 1]
      BY <1>3
    <3> QED
      BY <1>3, <2>1, <3>1
  <2>2. CASE i # k
    <3>1. i \in 1..(k - 1) /\ g[i] = f[i]
      BY <1>3, <2>2
    <3>2. i # 1 => g[i - 1] = f[i - 1]
      BY <1>3, <3>1
    <3>3. f[i] = IF i = 1 THEN seqs[i] ELSE f[i - 1] \o seqs[i]
      BY <1>4, <3>1 DEF IsFlat
    <3> QED
      BY <3>1, <3>2, <3>3
  <2> QED
    BY <2>1, <2>2
<1>6. IsFlat(seqs, g, k)
  BY <1>5 DEF IsFlat
<1> QED
  BY <1>1, <1>6

(* off says where each text begins in the whole.                           *)
IsOffset(seqs, off, n) ==
    \A i \in 1..n : off[i] = IF i = 1 THEN 0 ELSE off[i - 1] + Len(seqs[i - 1])

(* The whole of the first k texts: where each is, and that nothing else is.*)
Holds(whole, seqs, off, k) ==
    /\ whole \in Seq(Line)
    /\ \A i \in 1..k :
        /\ off[i] \in Nat /\ off[i] + Len(seqs[i]) <= Len(whole)
        /\ \A n \in 1..Len(seqs[i]) : whole[off[i] + n] = seqs[i][n]
        /\ \A j \in 1..k : i < j => off[i] + Len(seqs[i]) <= off[j]
    /\ \A w \in 1..Len(whole) : \E i \in 1..k : \E n \in 1..Len(seqs[i]) : w = off[i] + n

LEMMA HoldsFirst ==
    ASSUME NEW seqs \in Seq(Seq(Line)), Len(seqs) # 0, NEW off, off[1] = 0
    PROVE  Holds(seqs[1], seqs, off, 1)
<1>1. seqs[1] \in Seq(Line)
  OBVIOUS
<1> QED
  BY <1>1 DEF Holds

LEMMA Concatenated ==
    ASSUME NEW S, NEW a \in Seq(S), NEW b \in Seq(S)
    PROVE  /\ a \o b \in Seq(S) /\ Len(a \o b) = Len(a) + Len(b)
           /\ Len(a) \in Nat /\ Len(b) \in Nat
           /\ \A n \in 1..Len(a) : (a \o b)[n] = a[n]
           /\ \A n \in 1..Len(b) : (a \o b)[Len(a) + n] = b[n]
  OBVIOUS

LEMMA HoldsNext ==
    ASSUME NEW seqs \in Seq(Seq(Line)), NEW k \in Nat \ {0}, k < Len(seqs), NEW off, NEW whole,
           Holds(whole, seqs, off, k), Len(whole) = off[k] + Len(seqs[k]),
           off[k + 1] = off[k] + Len(seqs[k])
    PROVE  /\ Holds(whole \o seqs[k + 1], seqs, off, k + 1)
           /\ Len(whole \o seqs[k + 1]) = off[k + 1] + Len(seqs[k + 1])
<1> DEFINE more == seqs[k + 1]
           all == whole \o more
<1>1. whole \in Seq(Line) /\ more \in Seq(Line) /\ off[k + 1] = Len(whole)
  BY DEF Holds
<1> HIDE DEF more
<1>2. /\ all \in Seq(Line) /\ Len(all) = Len(whole) + Len(more)
      /\ \A n \in 1..Len(whole) : all[n] = whole[n]
      /\ \A n \in 1..Len(more) : all[Len(whole) + n] = more[n]
      /\ Len(whole) \in Nat /\ Len(more) \in Nat
  <2>1. /\ whole \o more \in Seq(Line) /\ Len(whole \o more) = Len(whole) + Len(more)
        /\ Len(whole) \in Nat /\ Len(more) \in Nat
        /\ \A n \in 1..Len(whole) : (whole \o more)[n] = whole[n]
        /\ \A n \in 1..Len(more) : (whole \o more)[Len(whole) + n] = more[n]
    <3>1. whole \in Seq(Line) /\ more \in Seq(Line)
      BY <1>1
    <3> QED
      BY ONLY <3>1, Concatenated
  <2> QED
    BY <2>1 DEF all
<1> HIDE DEF all
<1>3. \A i \in 1..(k + 1) : i \in 1..k \/ i = k + 1
  OBVIOUS
<1>4. ASSUME NEW i \in 1..k
      PROVE  /\ off[i] \in Nat /\ off[i] + Len(seqs[i]) <= Len(whole) /\ Len(seqs[i]) \in Nat
             /\ \A n \in 1..Len(seqs[i]) : whole[off[i] + n] = seqs[i][n]
             /\ \A j \in 1..k : i < j => off[i] + Len(seqs[i]) <= off[j]
  <2>1. i \in 1..Len(seqs) /\ Len(seqs[i]) \in Nat
    <3>1. i \in 1..Len(seqs)
      OBVIOUS
    <3>2. seqs[i] \in Seq(Line)
      BY <3>1
    <3> QED
      BY <3>1, <3>2
  <2> QED
    BY <2>1 DEF Holds
<1>5. ASSUME NEW i \in 1..k
      PROVE  /\ off[i] + Len(seqs[i]) <= Len(all)
             /\ \A n \in 1..Len(seqs[i]) : all[off[i] + n] = seqs[i][n]
             /\ \A j \in 1..(k + 1) : i < j => off[i] + Len(seqs[i]) <= off[j]
  <2>0. /\ off[i] \in Nat /\ off[i] + Len(seqs[i]) <= Len(whole) /\ Len(seqs[i]) \in Nat
        /\ \A n \in 1..Len(seqs[i]) : whole[off[i] + n] = seqs[i][n]
    BY <1>4
  <2>1. off[i] + Len(seqs[i]) <= Len(all)
    <3>1. Len(all) = Len(whole) + Len(more) /\ Len(whole) \in Nat /\ Len(more) \in Nat
      BY <1>2
    <3>2. off[i] \in Nat /\ Len(seqs[i]) \in Nat /\ off[i] + Len(seqs[i]) <= Len(whole)
      BY <2>0
    <3> QED
      BY ONLY <3>1, <3>2
  <2>2. ASSUME NEW n \in 1..Len(seqs[i]) PROVE all[off[i] + n] = seqs[i][n]
    <3>0. Len(whole) \in Nat /\ off[i] \in Nat /\ off[i] + Len(seqs[i]) <= Len(whole) /\ Len(seqs[i]) \in Nat
      BY <1>2, <2>0
    <3>1. off[i] + n \in 1..Len(whole)
      BY <3>0
    <3> QED
      BY <1>2, <2>0, <3>1
  <2>3. \A j \in 1..(k + 1) : i < j => off[i] + Len(seqs[i]) <= off[j]
    BY <1>1, <1>3, <1>4
  <2> QED
    BY <2>1, <2>2, <2>3
<1>6. /\ off[k + 1] \in Nat /\ off[k + 1] + Len(more) <= Len(all)
      /\ \A n \in 1..Len(more) : all[off[k + 1] + n] = more[n]
      /\ \A j \in 1..(k + 1) : ~(k + 1 < j)
  BY <1>1, <1>2
<1>7. ASSUME NEW w \in 1..Len(all) PROVE \E i \in 1..(k + 1) : \E n \in 1..Len(seqs[i]) : w = off[i] + n
  <2>1. CASE w <= Len(whole)
    <3>1. w \in 1..Len(whole)
      BY <1>2, <2>1
    <3>2. \E i \in 1..k : \E n \in 1..Len(seqs[i]) : w = off[i] + n
      BY <3>1 DEF Holds
    <3>3. \A i \in 1..k : i \in 1..(k + 1)
      OBVIOUS
    <3> QED
      BY <3>2, <3>3
  <2>2. CASE ~(w <= Len(whole))
    <3>1. w - Len(whole) \in 1..Len(more) /\ w = off[k + 1] + (w - Len(whole)) /\ k + 1 \in 1..(k + 1)
      BY <1>1, <1>2, <2>2
    <3> QED
      BY <3>1 DEF more
  <2> QED
    BY <2>1, <2>2
<1>8. Holds(all, seqs, off, k + 1)
  <2>1. \A i \in 1..(k + 1) :
          /\ off[i] \in Nat /\ off[i] + Len(seqs[i]) <= Len(all)
          /\ \A n \in 1..Len(seqs[i]) : all[off[i] + n] = seqs[i][n]
          /\ \A j \in 1..(k + 1) : i < j => off[i] + Len(seqs[i]) <= off[j]
    BY <1>3, <1>4, <1>5, <1>6 DEF more
  <2> QED
    BY <1>2, <1>7, <2>1 DEF Holds
<1> QED
  BY <1>1, <1>2, <1>8 DEF all, more

LEMMA WholeHolds ==
    ASSUME NEW seqs \in Seq(Seq(Line)), Len(seqs) # 0, NEW off, IsOffset(seqs, off, Len(seqs))
    PROVE  Holds(FlattenSeq(seqs), seqs, off, Len(seqs))
<1> DEFINE n == Len(seqs)
           flatten == CHOOSE f : IsFlat(seqs, f, n)
<1>1. n \in Nat \ {0} /\ FlattenSeq(seqs) = flatten[n]
  BY DEF FlattenSeq, IsFlat
<1>2. IsFlat(seqs, flatten, n)
  <2>1. \E f : IsFlat(seqs, f, n)
    BY <1>1, FlatExists
  <2> QED
    BY <2>1
<1> HIDE DEF flatten
<1>3. \A i \in 1..n : flatten[i] = IF i = 1 THEN seqs[i] ELSE flatten[i - 1] \o seqs[i]
  BY <1>2 DEF IsFlat
<1> DEFINE Fine(k) == Holds(flatten[k], seqs, off, k) /\ Len(flatten[k]) = off[k] + Len(seqs[k])
           Wrong == {k \in 1..n : ~Fine(k)}
<1> HIDE DEF n
<1>4. \A i \in 1..n : off[i] = IF i = 1 THEN 0 ELSE off[i - 1] + Len(seqs[i - 1])
  BY DEF IsOffset, n
<1>5. Wrong = {}
  <2> SUFFICES ASSUME Wrong # {} PROVE FALSE
    OBVIOUS
  <2>1. PICK k \in Wrong : \A j \in Wrong : k <= j
    <3>1. Wrong \in SUBSET Nat
      BY <1>1
    <3> HIDE DEF Wrong
    <3> QED
      BY <3>1, Smallest
  <2> HIDE DEF Fine
  <2>2. k \in 1..n /\ ~Fine(k) /\ k \in Nat
    BY <1>1, <2>1
  <2>3. k # 1
    <3>1. flatten[1] = seqs[1] /\ off[1] = 0 /\ 1 \in 1..n
      BY <1>1, <1>3, <1>4
    <3>2. Len(seqs[1]) = 0 + Len(seqs[1])
      <4>1. seqs[1] \in Seq(Line)
        BY <3>1 DEF n
      <4> QED
        BY <4>1
    <3>3. Fine(1)
      BY <3>1, <3>2, HoldsFirst DEF Fine
    <3> QED
      BY <2>2, <3>3
  <2> DEFINE j == k - 1
  <2>4. j \in Nat \ {0} /\ j + 1 = k /\ j < n /\ j \in 1..n /\ ~(k <= j)
    BY <1>1, <2>2, <2>3
  <2> HIDE DEF j
  <2>5. Fine(j)
    BY <2>1, <2>4
  <2>6. flatten[j + 1] = flatten[j] \o seqs[j + 1] /\ off[j + 1] = off[j] + Len(seqs[j])
    BY <1>3, <1>4, <2>2, <2>3, <2>4 DEF j
  <2>7. Fine(j + 1)
    BY <2>4, <2>5, <2>6, HoldsNext DEF Fine, n
  <2> QED
    BY <2>2, <2>4, <2>7
<1> QED
  BY <1>1, <1>5 DEF n

-----------------------------------------------------------------------------
(* What encloses a line is the same in the whole as in its member, if the  *)
(* member's first line is a key at column 0.                               *)

IsPart(whole, t, o) ==
    /\ whole \in Seq(Line) /\ t \in Seq(Line) /\ o \in Nat /\ o + Len(t) <= Len(whole)
    /\ \A n \in 1..Len(t) : whole[o + n] = t[n]
    /\ StartsFlush(t)

encloses(t, m, n) ==
    /\ m < n
    /\ \/ t[m].ind < t[n].ind
       \/ t[m].ind = t[n].ind /\ IsItem(t, n) /\ ~IsItem(t, m)

LEMMA UpEncloses ==
    ASSUME NEW K, NEW t \in Seq(K), NEW n \in DOMAIN t
    PROVE  /\ Up(t, n) \in Nat /\ Up(t, n) < n
           /\ Up(t, n) # 0 => Up(t, n) \in Written(t) /\ encloses(t, Up(t, n), n)
           /\ \A m \in Written(t) : encloses(t, m, n) => m <= Up(t, n)
<1> DEFINE T == {0} \cup {m \in Written(t) : encloses(t, m, n)}
<1>1. Up(t, n) = Max(T)
  BY DEF Up, encloses
<1>2. T \in SUBSET Nat /\ T # {} /\ Len(t) \in Nat /\ \A m \in T : m <= Len(t)
  BY WrittenLines
<1> HIDE DEF T
<1>3. PICK g \in T : \A m \in T : m <= g
  BY <1>2, Largest
<1>4. Max(T) \in T
  BY <1>2, MaxIsLargest
<1>5. \A m \in T : m <= Max(T)
  <2>1. \E x \in T : \A m \in T : x >= m
    BY <1>2, <1>3
  <2>2. \A m \in T : Max(T) >= m
    BY <2>1 DEF Max
  <2> QED
    BY <1>2, <1>4, <2>2
<1>6. n \in Nat /\ 0 < n
  OBVIOUS
<1> QED
  BY <1>1, <1>2, <1>4, <1>5, <1>6 DEF T, encloses

LEMMA UpIs ==
    ASSUME NEW K, NEW t \in Seq(K), NEW n \in DOMAIN t, NEW u \in Nat,
           u # 0 => u \in Written(t) /\ encloses(t, u, n),
           \A m \in Written(t) : encloses(t, m, n) => m <= u
    PROVE  Up(t, n) = u
<1>1. /\ Up(t, n) \in Nat
      /\ Up(t, n) # 0 => Up(t, n) \in Written(t) /\ encloses(t, Up(t, n), n)
      /\ \A m \in Written(t) : encloses(t, m, n) => m <= Up(t, n)
  BY UpEncloses
<1>2. Up(t, n) <= u
  BY <1>1
<1>3. u <= Up(t, n)
  BY <1>1
<1> QED
  BY <1>1, <1>2, <1>3

LEMMA PartLines ==
    ASSUME NEW whole, NEW t, NEW o, IsPart(whole, t, o), NEW n \in 1..Len(t)
    PROVE  /\ n \in DOMAIN t /\ n \in Nat /\ o + n \in DOMAIN whole /\ o + n \in Nat
           /\ whole[o + n] = t[n] /\ t[n] \in Line /\ t[n].ind \in Nat
           /\ (IsItem(whole, o + n) <=> IsItem(t, n)) /\ (IsString(whole, o + n) <=> IsString(t, n))
           /\ (o + n \in Written(whole) <=> n \in Written(t))
<1>1. /\ whole \in Seq(Line) /\ t \in Seq(Line) /\ o \in Nat /\ o + Len(t) <= Len(whole)
      /\ Len(t) \in Nat /\ Len(whole) \in Nat /\ whole[o + n] = t[n]
  BY DEF IsPart
<1>2. n \in DOMAIN t /\ n \in Nat /\ o + n \in DOMAIN whole /\ o + n \in Nat
  BY <1>1
<1>3. t[n] \in Line
  BY <1>1, <1>2
<1>4. t[n].ind \in Nat
  BY <1>3 DEF Line
<1> QED
  BY <1>1, <1>2, <1>3, <1>4 DEF IsItem, IsString, Written

LEMMA EnclosesWithin ==
    ASSUME NEW whole, NEW t, NEW o, IsPart(whole, t, o), NEW n \in 1..Len(t), NEW m \in 1..Len(t)
    PROVE  encloses(whole, o + m, o + n) <=> encloses(t, m, n)
<1>1. o \in Nat /\ m \in Nat /\ n \in Nat
  BY DEF IsPart
<1>2. o + m < o + n <=> m < n
  BY <1>1
<1> QED
  BY <1>2, PartLines DEF encloses

LEMMA UpWithin ==
    ASSUME NEW whole, NEW t, NEW o, IsPart(whole, t, o), NEW n \in Written(t)
    PROVE  Up(whole, o + n) = IF Up(t, n) = 0 THEN 0 ELSE o + Up(t, n)
<1>1. /\ whole \in Seq(Line) /\ t \in Seq(Line) /\ o \in Nat /\ Len(t) \in Nat
      /\ n \in 1..Len(t) /\ n \in DOMAIN t /\ n \in Nat
  BY WrittenLines DEF IsPart
<1>2. o + n \in DOMAIN whole /\ o + n \in Nat
  BY <1>1, PartLines
<1>3. /\ Up(t, n) \in Nat /\ Up(t, n) < n
      /\ Up(t, n) # 0 => Up(t, n) \in Written(t) /\ encloses(t, Up(t, n), n)
      /\ \A m \in Written(t) : encloses(t, m, n) => m <= Up(t, n)
  BY <1>1, UpEncloses
<1>4. ASSUME NEW w \in Written(whole), encloses(whole, w, o + n)
      PROVE  w \in Nat /\ (w <= o \/ \E m \in Written(t) : w = o + m /\ encloses(t, m, n))
  <2>1. w \in Nat /\ w < o + n
    BY <1>1, <1>4, WrittenLines DEF encloses
  <2>2. CASE w <= o
    BY <2>1, <2>2
  <2>3. CASE ~(w <= o)
    <3>1. PICK m \in 1..Len(t) : w = o + m
      <4>1. w - o \in 1..Len(t) /\ w = o + (w - o)
        BY <1>1, <2>1, <2>3
      <4> QED
        BY <4>1
    <3>2. m \in Written(t)
      BY <1>4, <3>1, PartLines
    <3>3. encloses(t, m, n)
      BY <1>1, <1>4, <3>1, EnclosesWithin
    <3> QED
      BY <2>1, <3>1, <3>2, <3>3
  <2> QED
    BY <2>2, <2>3
<1>5. CASE Up(t, n) # 0
  <2> DEFINE u == Up(t, n)
  <2>1. u \in 1..Len(t) /\ u \in Written(t) /\ encloses(t, u, n) /\ u \in Nat
    BY <1>1, <1>3, <1>5, WrittenLines
  <2> HIDE DEF u
  <2>2. o + u \in Written(whole) /\ o + u \in Nat
    BY <2>1, PartLines
  <2>3. encloses(whole, o + u, o + n)
    BY <1>1, <2>1, EnclosesWithin
  <2>4. ASSUME NEW w \in Written(whole), encloses(whole, w, o + n) PROVE w <= o + u
    <3>1. w \in Nat /\ (w <= o \/ \E m \in Written(t) : w = o + m /\ encloses(t, m, n))
      BY <1>4, <2>4
    <3>2. CASE w <= o
      BY <1>1, <2>1, <3>1, <3>2
    <3>3. CASE \E m \in Written(t) : w = o + m /\ encloses(t, m, n)
      <4>1. PICK m \in Written(t) : w = o + m /\ encloses(t, m, n)
        BY <3>3
      <4>2. m <= u /\ m \in Nat
        BY <1>1, <1>3, <4>1, WrittenLines DEF u
      <4> QED
        BY <1>1, <2>1, <4>1, <4>2
    <3> QED
      BY <3>1, <3>2, <3>3
  <2>5. Up(whole, o + n) = o + u
    BY <1>1, <1>2, <2>2, <2>3, <2>4, UpIs
  <2> QED
    BY <1>5, <2>5 DEF u
<1>6. CASE Up(t, n) = 0
  <2>1. \A m \in Written(t) : ~encloses(t, m, n)
    <3>1. \A m \in Written(t) : m \in Nat /\ m # 0
      BY <1>1 DEF Written
    <3> QED
      BY <1>3, <1>6, <3>1
  <2>2. PICK f \in Written(t) : \A m \in Written(t) : f <= m
    BY <1>1, WrittenLines, Smallest
  <2>3. t[f].ind = 0 /\ ~IsItem(t, f) /\ f <= n /\ f \in Nat
    BY <1>1, <2>2, WrittenLines DEF IsPart, StartsFlush
  <2>4. t[n].ind = 0 /\ ~IsItem(t, n)
    <3>1. t[n].ind \in Nat
      BY <1>1, PartLines
    <3>2. CASE f = n
      BY <2>3, <3>2
    <3>3. CASE f # n
      <4>1. f < n /\ ~encloses(t, f, n)
        BY <1>1, <2>1, <2>3, <3>3
      <4>2. ~(t[f].ind < t[n].ind) /\ ~(t[f].ind = t[n].ind /\ IsItem(t, n) /\ ~IsItem(t, f))
        BY <4>1 DEF encloses
      <4>3. t[n].ind = 0
        BY <2>3, <3>1, <4>2
      <4> QED
        BY <2>3, <4>2, <4>3
    <3> QED
      BY <3>2, <3>3
  <2>5. ASSUME NEW w \in Written(whole) PROVE ~encloses(whole, w, o + n)
    <3>1. whole[o + n].ind = 0 /\ ~IsItem(whole, o + n)
      BY <1>1, <2>4, PartLines
    <3>2. whole[w].ind \in Nat
      <4>1. w \in DOMAIN whole
        BY DEF Written
      <4>2. whole[w] \in Line
        BY <1>1, <4>1
      <4> QED
        BY <4>2 DEF Line
    <3> QED
      BY <3>1, <3>2 DEF encloses
  <2>6. Up(whole, o + n) = 0
    BY <1>1, <1>2, <2>5, UpIs
  <2> QED
    BY <1>6, <2>6
<1> QED
  BY <1>5, <1>6

(* f has the lines above each of the first n lines, and 0 among them.      *)
IsAbove(t, f, n) == f = [m \in 0..n |-> IF m = 0 THEN {} ELSE {Up(t, m)} \cup f[Up(t, m)]]

LEMMA AboveExists ==
    ASSUME NEW K, NEW t \in Seq(K), NEW n \in 0..Len(t)
    PROVE  \E f : IsAbove(t, f, n)
<1> DEFINE Missing == {k \in 0..Len(t) : ~ \E f : IsAbove(t, f, k)}
<1> SUFFICES ASSUME n \in Missing PROVE FALSE
  OBVIOUS
<1>0. Len(t) \in Nat
  OBVIOUS
<1>1. PICK k \in Missing : \A j \in Missing : k <= j
  <2>1. Missing \in SUBSET Nat /\ Missing # {}
    BY <1>0
  <2> HIDE DEF Missing
  <2> QED
    BY <2>1, Smallest
<1>2. k # 0
  <2>1. IsAbove(t, [m \in 0..0 |-> {}], 0)
    BY DEF IsAbove
  <2> QED
    BY <1>1, <2>1
<1>3. k \in Nat \ {0} /\ k \in 1..Len(t) /\ k - 1 \in Nat /\ k - 1 \in 0..Len(t) /\ k - 1 \notin Missing
  <2>1. k \in Nat \ {0} /\ k \in 1..Len(t) /\ k - 1 \in Nat /\ k - 1 \in 0..Len(t) /\ ~(k <= k - 1)
    BY <1>0, <1>1, <1>2
  <2> QED
    BY <1>1, <2>1
<1>4. PICK f : IsAbove(t, f, k - 1)
  BY <1>3
<1> HIDE DEF Missing
<1>5. \A m \in 1..k : Up(t, m) \in 0..(k - 1)
  <2> SUFFICES ASSUME NEW m \in 1..k PROVE Up(t, m) \in 0..(k - 1)
    OBVIOUS
  <2>1. m \in DOMAIN t /\ m <= k /\ m \in Nat
    BY <1>0, <1>3
  <2>2. Up(t, m) \in Nat /\ Up(t, m) < m
    BY <2>1, UpEncloses
  <2> QED
    BY <1>3, <2>1, <2>2
<1> DEFINE g == [m \in 0..k |-> IF m = k THEN {Up(t, k)} \cup f[Up(t, k)] ELSE f[m]]
<1>6. \A m \in 0..(k - 1) : m \in 0..k /\ m # k /\ (m # 0 => m \in 1..k)
  BY <1>3
<1>7. ASSUME NEW m \in 0..k PROVE g[m] = IF m = 0 THEN {} ELSE {Up(t, m)} \cup g[Up(t, m)]
  <2>1. CASE m = k
    <3>1. Up(t, k) \in 0..(k - 1) /\ k \in 0..k
      BY <1>3, <1>5
    <3>2. g[Up(t, k)] = f[Up(t, k)] /\ g[k] = {Up(t, k)} \cup f[Up(t, k)]
      BY <1>6, <3>1
    <3> QED
      BY <1>2, <2>1, <3>2
  <2>2. CASE m # k
    <3>1. m \in 0..(k - 1) /\ g[m] = f[m]
      BY <1>3, <2>2
    <3>2. m # 0 => Up(t, m) \in 0..(k - 1) /\ g[Up(t, m)] = f[Up(t, m)]
      BY <1>5, <1>6, <3>1
    <3>3. f[m] = IF m = 0 THEN {} ELSE {Up(t, m)} \cup f[Up(t, m)]
      BY <1>4, <3>1 DEF IsAbove
    <3> QED
      BY <3>1, <3>2, <3>3
  <2> QED
    BY <2>1, <2>2
<1>8. IsAbove(t, g, k)
  BY <1>7 DEF IsAbove
<1> QED
  BY <1>1, <1>8 DEF Missing

(* The lines above a line, up to the document.                             *)
LEMMA AboveIs ==
    ASSUME NEW K, NEW t \in Seq(K), NEW n \in 0..Len(t)
    PROVE  \E f : /\ Above(t, n) = f[n] \ {0} /\ f[0] = {}
                  /\ \A m \in 1..n : f[m] = {Up(t, m)} \cup f[Up(t, m)]
<1> DEFINE above == CHOOSE f : IsAbove(t, f, n)
<1>1. Above(t, n) = above[n] \ {0}
  BY DEF Above, IsAbove
<1>2. IsAbove(t, above, n)
  BY AboveExists
<1> HIDE DEF above
<1>3. \A m \in 0..n : above[m] = IF m = 0 THEN {} ELSE {Up(t, m)} \cup above[Up(t, m)]
  BY <1>2 DEF IsAbove
<1>4. 0 \in 0..n /\ \A m \in 1..n : m \in 0..n /\ m # 0
  OBVIOUS
<1> QED
  BY <1>1, <1>3, <1>4

Shifted(o, S) == {o + x : x \in S}

LEMMA AboveWithin ==
    ASSUME NEW whole, NEW t, NEW o, IsPart(whole, t, o), NEW n \in Written(t)
    PROVE  /\ Above(t, n) \subseteq Written(t) /\ \A x \in Above(t, n) : x < n
           /\ Above(whole, o + n) = Shifted(o, Above(t, n))
<1>1. /\ whole \in Seq(Line) /\ t \in Seq(Line) /\ o \in Nat /\ Len(t) \in Nat /\ Len(whole) \in Nat
      /\ n \in 1..Len(t) /\ n \in Nat
      /\ \A m \in Written(t) : m \in 1..Len(t) /\ m \in Nat
  BY WrittenLines DEF IsPart, Written
<1>2. o + n \in 1..Len(whole)
  BY <1>1, PartLines
<1>3. PICK f : /\ Above(t, n) = f[n] \ {0} /\ f[0] = {}
               /\ \A m \in 1..n : f[m] = {Up(t, m)} \cup f[Up(t, m)]
  <2>1. n \in 0..Len(t)
    BY <1>1
  <2> QED
    BY <1>1, <2>1, AboveIs
<1>4. PICK g : /\ Above(whole, o + n) = g[o + n] \ {0} /\ g[0] = {}
               /\ \A m \in 1..(o + n) : g[m] = {Up(whole, m)} \cup g[Up(whole, m)]
  <2>1. o + n \in 0..Len(whole)
    BY <1>1, <1>2
  <2> QED
    BY <1>1, <2>1, AboveIs
<1> DEFINE Like(m) == /\ g[o + m] \ {0} = Shifted(o, f[m] \ {0})
                      /\ f[m] \ {0} \subseteq Written(t) /\ \A x \in f[m] : x < m
           Wrong == {m \in Written(t) : m <= n /\ ~Like(m)}
<1> HIDE DEF Like
<1>5. Wrong = {}
  <2> SUFFICES ASSUME Wrong # {} PROVE FALSE
    OBVIOUS
  <2>1. PICK k \in Wrong : \A j \in Wrong : k <= j
    <3>1. Wrong \in SUBSET Nat
      BY <1>1
    <3> HIDE DEF Wrong
    <3> QED
      BY <3>1, Smallest
  <2>2. k \in Written(t) /\ k <= n /\ ~Like(k) /\ k \in 1..Len(t) /\ k \in Nat /\ k \in 1..n
    BY <1>1, <2>1
  <2> DEFINE u == Up(t, k)
  <2>3. u \in Nat /\ u < k /\ (u # 0 => u \in Written(t))
    BY <1>1, <2>2, UpEncloses
  <2>4. f[k] = {u} \cup f[u]
    BY <1>3, <2>2
  <2>5. g[o + k] = {Up(whole, o + k)} \cup g[Up(whole, o + k)]
    <3>1. o + k \in 1..(o + n)
      BY <1>1, <2>2
    <3> QED
      BY <1>4, <3>1
  <2>6. Up(whole, o + k) = IF u = 0 THEN 0 ELSE o + u
    BY <2>2, UpWithin
  <2> HIDE DEF u
  <2>7. CASE u = 0
    <3>1. f[k] = {0} /\ g[o + k] = {0}
      BY <1>3, <1>4, <2>4, <2>5, <2>6, <2>7
    <3>2. Like(k)
      BY <2>2, <3>1 DEF Like, Shifted
    <3> QED
      BY <2>2, <3>2
  <2>8. CASE u # 0
    <3>1. Like(u)
      BY <2>1, <2>2, <2>3, <2>8
    <3>2. g[o + k] = {o + u} \cup g[o + u] /\ o + u # 0
      BY <1>1, <2>3, <2>5, <2>6, <2>8
    <3>3. g[o + k] \ {0} = Shifted(o, f[k] \ {0})
      BY <2>4, <2>8, <3>1, <3>2 DEF Like, Shifted
    <3>4. f[k] \ {0} \subseteq Written(t)
      BY <2>3, <2>4, <2>8, <3>1 DEF Like
    <3>5. \A x \in f[k] : x < k
      <4> SUFFICES ASSUME NEW x \in f[k], x # u, x # 0 PROVE x < k
        BY <2>2, <2>3, <2>4
      <4>1. x \in f[u] /\ x < u /\ x \in Written(t)
        BY <2>4, <3>1 DEF Like
      <4>2. x \in Nat
        BY <1>1, <4>1
      <4> QED
        BY <2>2, <2>3, <4>1, <4>2
    <3> QED
      BY <2>2, <3>3, <3>4, <3>5 DEF Like
  <2> QED
    BY <2>7, <2>8
<1>6. Like(n)
  BY <1>1, <1>5
<1> QED
  BY <1>3, <1>4, <1>6 DEF Like

LEMMA ShiftedSize ==
    ASSUME NEW o \in Nat, NEW S \in SUBSET Nat, IsFiniteSet(S)
    PROVE  IsFiniteSet(Shifted(o, S)) /\ Cardinality(Shifted(o, S)) = Cardinality(S)
<1> DEFINE move == [x \in S |-> o + x]
<1>1. move \in [S -> Shifted(o, S)] /\ \A y \in Shifted(o, S) : \E x \in S : move[x] = y
  BY DEF Shifted
<1>2. \A x, y \in S : move[x] = move[y] => x = y
  OBVIOUS
<1> HIDE DEF move
<1>3. move \in Bijection(S, Shifted(o, S))
  BY <1>1, <1>2 DEF Bijection, Injection, Surjection, IsInjective
<1> QED
  BY <1>3, FS_Bijection DEF ExistsBijection

(* The lines of a set in order.                                            *)
lower(S, x) == Cardinality({y \in S : y < x})
inOrder(S) == [k \in 1..Cardinality(S) |-> CHOOSE x \in S : lower(S, x) = k - 1]

LEMMA InOrderIs ==
    ASSUME NEW S, S \in SUBSET Nat, IsFiniteSet(S)
    PROVE  /\ Cardinality(S) \in Nat
           /\ \A k \in 1..Cardinality(S) : inOrder(S)[k] \in S /\ lower(S, inOrder(S)[k]) = k - 1
           /\ \A x, y \in S : lower(S, x) = lower(S, y) => x = y
<1> DEFINE R == {p \in S \X S : p[1] < p[2]}
<1>1. \A x, y \in S : <<x, y>> \in R <=> x < y
  OBVIOUS
<1>2. ASSUME NEW x \in S PROVE {y \in S : <<y, x>> \in R} = {y \in S : y < x}
  BY <1>1
<1> HIDE DEF R
<1>3. IsOrder(S, R)
  <2>1. \A x, y \in S : ~(x < x) /\ (x = y \/ x < y \/ y < x)
    OBVIOUS
  <2>2. \A x, y, z \in S : x < y /\ y < z => x < z
    OBVIOUS
  <2> QED
    BY <1>1, <2>1, <2>2 DEF IsOrder
<1>4. \A x \in S : rank(S, R, x) = lower(S, x)
  BY <1>2 DEF rank, lower
<1>5. /\ Cardinality(S) \in Nat
      /\ \A x \in S : rank(S, R, x) \in Nat
      /\ \A x, y \in S : <<x, y>> \in R => rank(S, R, x) < rank(S, R, y)
      /\ \A x, y \in S : rank(S, R, x) = rank(S, R, y) => x = y
      /\ \A k \in 1..Cardinality(S) : \E x \in S : rank(S, R, x) = k - 1
      /\ \A x \in S : \E k \in 1..Cardinality(S) : rank(S, R, x) = k - 1
  <2>1. IsFiniteSet(S)
    OBVIOUS
  <2> QED
    BY ONLY <1>3, <2>1, RanksDiffer
<1>6. ASSUME NEW k \in 1..Cardinality(S)
      PROVE  inOrder(S)[k] \in S /\ lower(S, inOrder(S)[k]) = k - 1
  <2>1. \E x \in S : lower(S, x) = k - 1
    BY <1>4, <1>5
  <2>2. inOrder(S)[k] = CHOOSE x \in S : lower(S, x) = k - 1
    BY DEF inOrder
  <2> QED
    BY <2>1, <2>2
<1>7. \A x, y \in S : lower(S, x) = lower(S, y) => x = y
  BY <1>4, <1>5
<1> QED
  BY <1>5, <1>6, <1>7

LEMMA InOrderShifted ==
    ASSUME NEW o \in Nat, NEW S \in SUBSET Nat, IsFiniteSet(S), NEW k \in 1..Cardinality(S)
    PROVE  inOrder(Shifted(o, S))[k] = o + inOrder(S)[k]
<1> DEFINE T == Shifted(o, S)
           x == inOrder(S)[k]
           y == inOrder(T)[k]
<1>1. T \in SUBSET Nat /\ IsFiniteSet(T) /\ Cardinality(T) = Cardinality(S)
  <2>1. T \in SUBSET Nat
    BY DEF Shifted
  <2> QED
    BY <2>1, ShiftedSize
<1>2. x \in S /\ lower(S, x) = k - 1
  BY InOrderIs
<1> HIDE DEF x
<1>4. o + x \in T /\ {z \in T : z < o + x} = Shifted(o, {z \in S : z < x})
  BY <1>2 DEF Shifted
<1> HIDE DEF T
<1>3. y \in T /\ lower(T, y) = k - 1
  BY <1>1, InOrderIs
<1>5. lower(T, o + x) = k - 1
  <2>1. {z \in S : z < x} \in SUBSET Nat /\ IsFiniteSet({z \in S : z < x})
    BY FS_Subset
  <2> QED
    BY <1>2, <1>4, <2>1, ShiftedSize DEF lower
<1> HIDE DEF y
<1>6. y = o + x
  <2>1. \A v, w \in T : lower(T, v) = lower(T, w) => v = w
    BY <1>1, InOrderIs
  <2> QED
    BY <1>3, <1>4, <1>5, <2>1
<1> QED
  BY <1>6 DEF x, y, T

LEMMA KeysWithin ==
    ASSUME NEW whole, NEW t, NEW o, IsPart(whole, t, o), NEW S \in SUBSET Written(t)
    PROVE  KeysOf(whole, Shifted(o, S)) = KeysOf(t, S)
<1>1. /\ t \in Seq(Line) /\ o \in Nat /\ Len(t) \in Nat
      /\ \A m \in Written(t) : m \in 1..Len(t) /\ m \in Nat
  BY WrittenLines DEF IsPart, Written
<1>2. S \in SUBSET Nat /\ S \in SUBSET (1..Len(t)) /\ IsFiniteSet(S)
  <2>1. S \in SUBSET Nat /\ S \in SUBSET (1..Len(t))
    BY <1>1
  <2>2. IsFiniteSet(1..Len(t))
    BY <1>1, FS_Interval
  <2> QED
    BY <2>1, <2>2, FS_Subset
<1>3. \A v, Q : KeysOf(v, Q) = [i \in 1..Cardinality(Q) |-> v[inOrder(Q)[i]].key]
  BY DEF KeysOf, InOrder, inOrder, lower
<1>4. Cardinality(Shifted(o, S)) = Cardinality(S)
  BY <1>1, <1>2, ShiftedSize
<1>5. ASSUME NEW k \in 1..Cardinality(S) PROVE whole[inOrder(Shifted(o, S))[k]] = t[inOrder(S)[k]]
  <2>1. inOrder(S)[k] \in 1..Len(t)
    BY <1>2, InOrderIs
  <2>2. inOrder(Shifted(o, S))[k] = o + inOrder(S)[k]
    BY <1>1, <1>2, InOrderShifted
  <2> QED
    BY <2>1, <2>2, PartLines
<1> QED
  BY <1>3, <1>4, <1>5

LEMMA TrailWithin ==
    ASSUME NEW whole, NEW t, NEW o, IsPart(whole, t, o), NEW n \in Written(t)
    PROVE  Trail(whole, o + n) = Trail(t, n)
<1>1. Above(t, n) \cup {n} \in SUBSET Written(t)
  BY AboveWithin
<1>2. Above(whole, o + n) \cup {o + n} = Shifted(o, Above(t, n) \cup {n})
  BY AboveWithin DEF Shifted
<1> QED
  BY <1>1, <1>2, KeysWithin DEF Trail

-----------------------------------------------------------------------------
(* What a line is in its member it is in the whole: the whole is made of   *)
(* its parts, which lie one after another and do not overlap.              *)
IsMade(whole, seqs, off, N) ==
    Holds(whole, seqs, off, N) /\ \A i \in 1..N : IsPart(whole, seqs[i], off[i])

(* Each line of the whole is a line of one member.                         *)
LEMMA MadeOfLines ==
    ASSUME NEW N \in Nat, NEW whole, NEW seqs, NEW off, IsMade(whole, seqs, off, N)
    PROVE  /\ \A w \in Written(whole) : \E i \in 1..N : \E n \in Written(seqs[i]) : w = off[i] + n
           /\ \A i \in 1..N : \A n \in Written(seqs[i]) :
                /\ off[i] + n \in Written(whole) /\ off[i] + n \in Nat \ {0} /\ off[i] \in Nat /\ n \in Nat \ {0}
                /\ n <= Len(seqs[i]) /\ off[i] + Len(seqs[i]) <= Len(whole) /\ Len(seqs[i]) \in Nat
<1>1. ASSUME NEW i \in 1..N
      PROVE  /\ IsPart(whole, seqs[i], off[i]) /\ off[i] \in Nat /\ off[i] + Len(seqs[i]) <= Len(whole)
             /\ Len(seqs[i]) \in Nat /\ \A n \in Written(seqs[i]) : n \in 1..Len(seqs[i]) /\ n \in Nat \ {0}
  <2>1. IsPart(whole, seqs[i], off[i])
    BY DEF IsMade
  <2>2. seqs[i] \in Seq(Line) /\ off[i] \in Nat /\ off[i] + Len(seqs[i]) <= Len(whole)
    BY <2>1 DEF IsPart
  <2>3. Len(seqs[i]) \in Nat /\ \A n \in Written(seqs[i]) : n \in 1..Len(seqs[i])
    BY <2>2 DEF Written
  <2> QED
    BY <2>1, <2>2, <2>3
<1>2. ASSUME NEW w \in Written(whole)
      PROVE  \E i \in 1..N : \E n \in Written(seqs[i]) : w = off[i] + n
  <2>1. w \in 1..Len(whole)
    BY DEF Written, IsMade, Holds
  <2>2. PICK i \in 1..N : \E n \in 1..Len(seqs[i]) : w = off[i] + n
    BY <2>1 DEF IsMade, Holds
  <2>3. PICK n \in 1..Len(seqs[i]) : w = off[i] + n
    BY <2>2
  <2>4. n \in Written(seqs[i])
    BY <1>1, <2>3, PartLines
  <2> QED
    BY <2>3, <2>4
<1>3. ASSUME NEW i \in 1..N, NEW n \in Written(seqs[i])
      PROVE  /\ off[i] + n \in Written(whole) /\ off[i] + n \in Nat \ {0} /\ off[i] \in Nat /\ n \in Nat \ {0}
             /\ n <= Len(seqs[i]) /\ off[i] + Len(seqs[i]) <= Len(whole) /\ Len(seqs[i]) \in Nat
  <2>1. off[i] \in Nat /\ Len(seqs[i]) \in Nat /\ n \in 1..Len(seqs[i]) /\ n \in Nat \ {0}
        /\ off[i] + Len(seqs[i]) <= Len(whole)
    BY <1>1
  <2>2. off[i] + n \in Written(whole)
    BY <1>1, <2>1, PartLines
  <2> QED
    BY <2>1, <2>2
<1> QED
  BY <1>2, <1>3

LEMMA MadeApart ==
    ASSUME NEW N \in Nat, NEW whole, NEW seqs, NEW off, IsMade(whole, seqs, off, N),
           NEW i \in 1..N, NEW j \in 1..N, NEW n \in Written(seqs[i]), NEW m \in Written(seqs[j])
    PROVE  /\ i < j => off[i] + n < off[j] + m
           /\ off[i] + n = off[j] + m => i = j /\ n = m
<1>1. /\ off[i] \in Nat /\ n \in Nat /\ n <= Len(seqs[i]) /\ 0 < n /\ Len(seqs[i]) \in Nat
      /\ off[j] \in Nat /\ m \in Nat /\ m <= Len(seqs[j]) /\ 0 < m /\ Len(seqs[j]) \in Nat
  <2>1. /\ off[i] \in Nat /\ n \in Nat \ {0} /\ n <= Len(seqs[i]) /\ Len(seqs[i]) \in Nat
    BY MadeOfLines
  <2>2. /\ off[j] \in Nat /\ m \in Nat \ {0} /\ m <= Len(seqs[j]) /\ Len(seqs[j]) \in Nat
    BY MadeOfLines
  <2> QED
    BY <2>1, <2>2
<1>2. /\ i < j => off[i] + Len(seqs[i]) <= off[j]
      /\ j < i => off[j] + Len(seqs[j]) <= off[i]
  BY DEF IsMade, Holds
<1>3. /\ i < j => off[i] + n < off[j] + m
      /\ j < i => off[j] + m < off[i] + n
  BY <1>1, <1>2
<1>4. i = j \/ i < j \/ j < i
  OBVIOUS
<1> QED
  BY <1>1, <1>3, <1>4

LEMMA ChildrenWithin ==
    ASSUME NEW N \in Nat, NEW whole, NEW seqs, NEW off, IsMade(whole, seqs, off, N),
           NEW i \in 1..N, NEW n \in Written(seqs[i])
    PROVE  Children(whole, off[i] + n) = Shifted(off[i], Children(seqs[i], n))
<1>0. \A j \in 1..N : IsPart(whole, seqs[j], off[j])
  BY DEF IsMade
<1>1. ASSUME NEW w \in Children(whole, off[i] + n) PROVE w \in Shifted(off[i], Children(seqs[i], n))
  <2>1. w \in Written(whole) /\ Up(whole, w) = off[i] + n
    BY DEF Children
  <2>2. PICK j \in 1..N : \E m \in Written(seqs[j]) : w = off[j] + m
    BY <2>1, MadeOfLines
  <2>3. PICK m \in Written(seqs[j]) : w = off[j] + m
    BY <2>2
  <2>4. Up(whole, w) = IF Up(seqs[j], m) = 0 THEN 0 ELSE off[j] + Up(seqs[j], m)
    BY <1>0, <2>3, UpWithin
  <2>5. off[i] + n # 0
    BY MadeOfLines
  <2>6. off[i] + n = off[j] + Up(seqs[j], m) /\ Up(seqs[j], m) # 0
    BY <2>1, <2>4, <2>5
  <2>7. Up(seqs[j], m) \in Written(seqs[j])
    <3>1. seqs[j] \in Seq(Line) /\ m \in DOMAIN seqs[j]
      BY <1>0 DEF IsPart, Written
    <3> QED
      BY <2>6, <3>1, UpEncloses
  <2>8. i = j /\ n = Up(seqs[j], m)
    BY <2>6, <2>7, MadeApart
  <2> QED
    BY <2>3, <2>8 DEF Children, Shifted
<1>2. ASSUME NEW m \in Children(seqs[i], n) PROVE off[i] + m \in Children(whole, off[i] + n)
  <2>1. m \in Written(seqs[i]) /\ Up(seqs[i], m) = n
    BY DEF Children
  <2>2. n # 0 /\ off[i] + m \in Written(whole)
    <3>1. n \in Nat \ {0}
      BY MadeOfLines
    <3>2. off[i] + m \in Written(whole)
      BY <2>1, MadeOfLines
    <3> QED
      BY <3>1, <3>2
  <2>3. Up(whole, off[i] + m) = off[i] + n
    BY <1>0, <2>1, <2>2, UpWithin
  <2> QED
    BY <2>2, <2>3 DEF Children
<1> QED
  BY <1>1, <1>2 DEF Shifted

LEMMA KindWithin ==
    ASSUME NEW N \in Nat, NEW whole, NEW seqs, NEW off, IsMade(whole, seqs, off, N),
           NEW i \in 1..N, NEW n \in Written(seqs[i])
    PROVE  /\ trails(whole)[off[i] + n] = trails(seqs[i])[n]
           /\ kindOf(whole, off[i] + n) = kindOf(seqs[i], n)
<1> DEFINE t == seqs[i]
           o == off[i]
           w == off[i] + n
<1>0. IsPart(whole, t, o) /\ o \in Nat
  BY DEF IsMade, IsPart
<1>1. \A m \in Written(t) : m \in 1..Len(t) /\ m \in Nat \ {0} /\ o + m \in Written(whole) /\ o + m # 0
  <2>1. \A m \in Written(t) : m \in 1..Len(t)
    BY <1>0 DEF IsPart, Written
  <2>2. \A m \in Written(t) : m \in Nat \ {0} /\ o + m \in Written(whole) /\ o + m \in Nat \ {0}
    BY MadeOfLines
  <2> QED
    BY <2>1, <2>2
<1>2. \A m \in Written(t) : /\ whole[o + m] = t[m] /\ (IsItem(whole, o + m) <=> IsItem(t, m))
                            /\ (IsString(whole, o + m) <=> IsString(t, m))
  BY <1>0, <1>1, PartLines
<1>3. \A m \in Written(t) : Trail(whole, o + m) = Trail(t, m)
  BY <1>0, TrailWithin
<1>4. trails(whole)[w] = trails(t)[n]
  BY <1>1, <1>3 DEF trails
<1>5. \A m \in Written(t) : Children(whole, o + m) = Shifted(o, Children(t, m))
  BY ChildrenWithin
<1>6. Up(whole, w) = IF Up(t, n) = 0 THEN 0 ELSE o + Up(t, n)
  BY <1>0, UpWithin
<1>7. /\ Above(t, n) \subseteq Written(t)
      /\ Above(whole, w) = Shifted(o, Above(t, n))
  BY <1>0, AboveWithin
<1>8. IsScalar(whole, w) <=> IsScalar(t, n)
  BY <1>2, <1>5 DEF IsScalar, Shifted
<1>9. ASSUME NEW s \in Written(t)
      PROVE  /\ (Up(whole, w) = o + s) <=> (Up(t, n) = s)
             /\ (\E m \in Children(whole, o + s) : IsItem(whole, m)) <=> (\E m \in Children(t, s) : IsItem(t, m))
  <2>1. Up(t, n) \in Nat /\ s \in Nat /\ o + s # 0 /\ s # 0
    <3>1. t \in Seq(Line) /\ n \in DOMAIN t
      BY <1>0 DEF IsPart, Written
    <3> QED
      BY <1>1, <3>1, UpEncloses
  <2>2. (Up(whole, w) = o + s) <=> (Up(t, n) = s)
    BY <1>0, <1>6, <2>1
  <2>3. \A m \in Children(t, s) : m \in Written(t)
    BY DEF Children
  <2>4. (\E m \in Children(whole, o + s) : IsItem(whole, m)) <=> (\E m \in Children(t, s) : IsItem(t, m))
    BY <1>2, <1>5, <2>3 DEF Shifted
  <2> QED
    BY <2>2, <2>4
<1> HIDE DEF t, o, w
<1>10. PastObservers(whole, w) <=> PastObservers(t, n)
  <2> DEFINE stops(v, x, s) == /\ v[s].key = Observers /\ Len(Trail(v, s)) > 2
                               /\ \E m \in Children(v, s) : IsItem(v, m)
                               /\ ~(IsItem(v, x) /\ Up(v, x) = s)
  <2>1. IsItem(whole, w) <=> IsItem(t, n)
    BY <1>2 DEF t, o, w
  <2>2. \A s \in Written(t) : stops(whole, w, o + s) <=> stops(t, n, s)
    BY <1>2, <1>3, <1>9, <2>1
  <2>3. /\ PastObservers(whole, w) <=> \E s \in Above(whole, w) : stops(whole, w, s)
        /\ PastObservers(t, n) <=> \E s \in Above(t, n) : stops(t, n, s)
    BY DEF PastObservers
  <2> HIDE DEF stops
  <2> QED
    BY <1>7, <2>2, <2>3 DEF Shifted
<1>11. whole[w] = t[n] /\ (IsString(whole, w) <=> IsString(t, n))
  BY <1>2 DEF t, o, w
<1>12. ParentKey(trails(whole), w) = ParentKey(trails(t), n)
  BY <1>4 DEF ParentKey
<1>13. scrapeExtensionRef(whole, trails(whole), w) = scrapeExtensionRef(t, trails(t), n)
  BY <1>4, <1>10, <1>11, <1>12 DEF scrapeExtensionRef
<1>14. scrapeConnectorPipelineRef(whole, trails(whole), w) <=> scrapeConnectorPipelineRef(t, trails(t), n)
  BY <1>4, <1>11 DEF scrapeConnectorPipelineRef
<1>15. ServiceKind(whole, trails(whole), w) = ServiceKind(t, trails(t), n)
  BY <1>4, <1>8 DEF ServiceKind
<1>16. InConfig(trails(whole), w) <=> InConfig(trails(t), n)
  BY <1>4 DEF InConfig
<1>17. kindOf(whole, w) = kindOf(t, n)
  BY <1>13, <1>14, <1>15, <1>16 DEF kindOf, RefKind
<1> QED
  BY <1>4, <1>17 DEF t, o, w

-----------------------------------------------------------------------------
(* The models of the members and the model of the whole.                   *)

Seqs    == [i \in 1..Members |-> TextOf(i)]
Whole   == FlattenSeq(Seqs)
One     == <<buildModel(Whole)>>
IsOffsetTo(f, k) == f = [i \in 1..k |-> IF i = 1 THEN 0 ELSE f[i - 1] + Len(TextOf(i - 1))]
Offset  == CHOOSE f : IsOffsetTo(f, Members)
move(s) == <<1, Offset[s[1]] + s[2]>>

LEMMA OffsetExists ==
    ASSUME NEW n \in Nat
    PROVE  \E f : IsOffsetTo(f, n)
<1> DEFINE Missing == {k \in Nat : ~ \E f : IsOffsetTo(f, k)}
<1> SUFFICES ASSUME n \in Missing PROVE FALSE
  OBVIOUS
<1>1. PICK k \in Missing : \A j \in Missing : k <= j
  <2>1. Missing \in SUBSET Nat /\ Missing # {}
    OBVIOUS
  <2> HIDE DEF Missing
  <2> QED
    BY <2>1, Smallest
<1>2. k # 0
  <2>1. IsOffsetTo([i \in 1..0 |-> 0], 0)
    BY DEF IsOffsetTo
  <2> QED
    BY <1>1, <2>1
<1>3. k \in Nat \ {0} /\ k - 1 \in Nat /\ k - 1 \notin Missing
  <2>1. k \in Nat \ {0} /\ k - 1 \in Nat /\ ~(k <= k - 1)
    BY <1>1, <1>2
  <2> QED
    BY <1>1, <2>1
<1>4. PICK f : IsOffsetTo(f, k - 1)
  BY <1>3
<1> DEFINE g == [i \in 1..k |-> IF i = k THEN IF k = 1 THEN 0 ELSE f[k - 1] + Len(TextOf(k - 1)) ELSE f[i]]
<1>5. ASSUME NEW i \in 1..k PROVE g[i] = IF i = 1 THEN 0 ELSE g[i - 1] + Len(TextOf(i - 1))
  <2>1. CASE i = k
    <3>1. k # 1 => g[k - 1] = f[k - 1]
      BY <1>3
    <3> QED
      BY <1>3, <2>1, <3>1
  <2>2. CASE i # k
    <3>1. i \in 1..(k - 1) /\ g[i] = f[i]
      BY <1>3, <2>2
    <3>2. i # 1 => g[i - 1] = f[i - 1]
      BY <1>3, <3>1
    <3>3. f[i] = IF i = 1 THEN 0 ELSE f[i - 1] + Len(TextOf(i - 1))
      BY <1>4, <3>1 DEF IsOffsetTo
    <3> QED
      BY <3>1, <3>2, <3>3
  <2> QED
    BY <2>1, <2>2
<1>6. IsOffsetTo(g, k)
  BY <1>5 DEF IsOffsetTo
<1> QED
  BY <1>1, <1>6

LEMMA WholeMade ==
    ASSUME Chosen, Flush
    PROVE  /\ IsMade(Whole, Seqs, Offset, Members) /\ Whole \in Seq(Line)
           /\ Members \in Nat \ {0}
           /\ \A i \in 1..Members : Seqs[i] = TextOf(i) /\ TextOf(i) \in Seq(Line)
<1>1. Members \in Nat \ {0} /\ \A i \in 1..Members : Seqs[i] = TextOf(i) /\ TextOf(i) \in Seq(Line)
  BY MembersAssumption, DocsAre DEF Seqs
<1>2. Seqs \in Seq(Seq(Line)) /\ Len(Seqs) = Members
  <2>1. Seqs \in [1..Members -> Seq(Line)]
    BY <1>1 DEF Seqs
  <2> QED
    BY <1>1, <2>1
<1>3. IsOffsetTo(Offset, Members)
  <2>1. \E f : IsOffsetTo(f, Members)
    BY <1>1, OffsetExists
  <2> QED
    BY <2>1 DEF Offset
<1>4. IsOffset(Seqs, Offset, Members)
  <2> SUFFICES ASSUME NEW i \in 1..Members
               PROVE  Offset[i] = IF i = 1 THEN 0 ELSE Offset[i - 1] + Len(Seqs[i - 1])
    BY DEF IsOffset
  <2>1. Offset[i] = IF i = 1 THEN 0 ELSE Offset[i - 1] + Len(TextOf(i - 1))
    BY <1>3 DEF IsOffsetTo
  <2>2. i # 1 => i - 1 \in 1..Members
    BY <1>1
  <2> QED
    BY <1>1, <2>1, <2>2
<1>5. Holds(Whole, Seqs, Offset, Members)
  BY <1>1, <1>2, <1>4, WholeHolds DEF Whole
<1>6. ASSUME NEW i \in 1..Members PROVE IsPart(Whole, Seqs[i], Offset[i])
  BY <1>1, <1>5 DEF IsPart, Holds, Flush
<1> QED
  BY <1>1, <1>5, <1>6 DEF IsMade, Holds

(* The lines of the whole are the lines of the members, and what one is    *)
(* in its member it is in the whole.                                       *)
LEMMA LinesMoved ==
    ASSUME Chosen, Flush
    PROVE  /\ \A w \in Written(Whole) : \E i \in 1..Members : \E n \in Written(TextOf(i)) : w = Offset[i] + n
           /\ \A i \in 1..Members : \A n \in Written(TextOf(i)) :
                /\ Offset[i] + n \in Written(Whole) /\ Offset[i] + n \in Nat
                /\ Offset[i] \in Nat /\ n \in Nat
                /\ Whole[Offset[i] + n] = TextOf(i)[n]
                /\ trails(Whole)[Offset[i] + n] = trails(TextOf(i))[n]
                /\ kindOf(Whole, Offset[i] + n) = kindOf(TextOf(i), n)
                /\ Children(Whole, Offset[i] + n) = Shifted(Offset[i], Children(TextOf(i), n))
                /\ \A j \in 1..Members : \A m \in Written(TextOf(j)) :
                     /\ i < j => Offset[i] + n < Offset[j] + m
                     /\ Offset[i] + n = Offset[j] + m => i = j /\ n = m
<1>1. /\ IsMade(Whole, Seqs, Offset, Members) /\ Members \in Nat
      /\ \A i \in 1..Members : Seqs[i] = TextOf(i)
  BY WholeMade
<1>2. \A w \in Written(Whole) : \E i \in 1..Members : \E n \in Written(TextOf(i)) : w = Offset[i] + n
  <2>1. \A w \in Written(Whole) : \E i \in 1..Members : \E n \in Written(Seqs[i]) : w = Offset[i] + n
    BY <1>1, MadeOfLines
  <2> QED
    BY <1>1, <2>1
<1>3. ASSUME NEW i \in 1..Members, NEW n \in Written(TextOf(i))
      PROVE  /\ Offset[i] + n \in Written(Whole) /\ Offset[i] + n \in Nat
             /\ Offset[i] \in Nat /\ n \in Nat
             /\ Whole[Offset[i] + n] = TextOf(i)[n]
             /\ trails(Whole)[Offset[i] + n] = trails(TextOf(i))[n]
             /\ kindOf(Whole, Offset[i] + n) = kindOf(TextOf(i), n)
             /\ Children(Whole, Offset[i] + n) = Shifted(Offset[i], Children(TextOf(i), n))
             /\ \A j \in 1..Members : \A m \in Written(TextOf(j)) :
                  /\ i < j => Offset[i] + n < Offset[j] + m
                  /\ Offset[i] + n = Offset[j] + m => i = j /\ n = m
  <2>1. Seqs[i] = TextOf(i) /\ n \in Written(Seqs[i])
    BY <1>1
  <2>2. /\ Offset[i] + n \in Written(Whole) /\ Offset[i] + n \in Nat \ {0} /\ Offset[i] \in Nat /\ n \in Nat \ {0}
    BY <1>1, <2>1, MadeOfLines
  <2>3. Whole[Offset[i] + n] = TextOf(i)[n]
    <3>1. IsPart(Whole, TextOf(i), Offset[i])
      BY <1>1, <2>1 DEF IsMade
    <3>2. n \in 1..Len(TextOf(i))
      BY <3>1 DEF IsPart, Written
    <3> QED
      BY <3>1, <3>2 DEF IsPart
  <2>4. /\ trails(Whole)[Offset[i] + n] = trails(TextOf(i))[n]
        /\ kindOf(Whole, Offset[i] + n) = kindOf(TextOf(i), n)
    BY <1>1, <2>1, KindWithin
  <2>5. Children(Whole, Offset[i] + n) = Shifted(Offset[i], Children(TextOf(i), n))
    BY <1>1, <2>1, ChildrenWithin
  <2>6. ASSUME NEW j \in 1..Members, NEW m \in Written(TextOf(j))
        PROVE  /\ i < j => Offset[i] + n < Offset[j] + m
               /\ Offset[i] + n = Offset[j] + m => i = j /\ n = m
    <3>1. m \in Written(Seqs[j])
      BY <1>1
    <3> QED
      BY <1>1, <2>1, <3>1, MadeApart
  <2> QED
    BY <2>2, <2>3, <2>4, <2>5, <2>6
<1> QED
  BY <1>2, <1>3

-----------------------------------------------------------------------------
(* The merged view of the members and that of the whole.                   *)

moved(x) == [x EXCEPT !.at = move(@)]
placed(x, i) == [x EXCEPT !.at = <<i, @>>]
AreBuilt(docs, ts) == DOMAIN docs = DOMAIN ts /\ \A i \in DOMAIN ts : docs[i] = buildModel(ts[i])

LEMMA OneIs ==
    /\ DOMAIN One = {1} /\ One[1] = buildModel(Whole)
    /\ \A cls \in Classes : One[1].components[cls] = collectComponents(Whole, trails(Whole), cls)
    /\ One[1].pipelines = collectService(Whole, trails(Whole))
    /\ One[1].refs = {refOf(Whole, w) : w \in RefLines(Whole)}
<1>1. DOMAIN One = {1} /\ One[1] = buildModel(Whole)
  BY DEF One
<1> QED
  BY <1>1, Built

(* A reference, and a pipeline, at the place where the merged view has it. *)
refAt(t, n, at) ==
    [kind |-> kindOf(t, n), id |-> resolveRefId(t[n].val), at |-> at,
     pipe |-> IF kindOf(t, n) \in Buckets THEN trails(t)[n][3] ELSE ""]
pipelineAt(t, n, at) == [id |-> t[n].key, at |-> at]
isRead(t, n) ==
    /\ Len(trails(t)[n]) = 3 /\ ~IsItem(t, n) /\ trails(t)[n][1] = "service"
    /\ trails(t)[n][2] = "pipelines" /\ \E c \in Children(t, n) : ~IsItem(t, c)

LEMMA AtOnly ==
    ASSUME NEW t, NEW n, NEW at
    PROVE  /\ refAt(t, n, at).at = at /\ pipelineAt(t, n, at).at = at
           /\ \A x : /\ [refAt(t, n, at) EXCEPT !.at = x] = refAt(t, n, x)
                     /\ [pipelineAt(t, n, at) EXCEPT !.at = x] = pipelineAt(t, n, x)
<1> DEFINE kind == kindOf(t, n)
           id == resolveRefId(t[n].val)
           pipe == IF kindOf(t, n) \in Buckets THEN trails(t)[n][3] ELSE ""
<1>1. \A x : refAt(t, n, x) = [kind |-> kind, id |-> id, at |-> x, pipe |-> pipe]
  BY DEF refAt
<1>2. \A x : pipelineAt(t, n, x) = [id |-> t[n].key, at |-> x]
  BY DEF pipelineAt
<1> HIDE DEF kind, id, pipe
<1> QED
  BY <1>1, <1>2

(* References keep everything but their places.                            *)
LEMMA RefsMoved ==
    ASSUME Chosen, Flush
    PROVE  /\ \A q \in Refs(Docs) : moved(q) \in Refs(One)
           /\ \A r \in Refs(One) : \E q \in Refs(Docs) : r = moved(q)
           /\ \A q \in Refs(Docs) : /\ moved(q).kind = q.kind /\ moved(q).id = q.id /\ moved(q).pipe = q.pipe
                                    /\ moved(q).at = move(q.at)
<1>1. \A r : r \in Refs(One) <=> \E w \in RefLines(Whole) : r = refAt(Whole, w, <<1, w>>)
  <2>1. \A r : r \in Refs(One) <=> \E w \in RefLines(Whole) : r = placed(refOf(Whole, w), 1)
    BY OneIs DEF Refs, placed
  <2>2. ASSUME NEW w PROVE placed(refOf(Whole, w), 1) = refAt(Whole, w, <<1, w>>)
    <3>1. refOf(Whole, w) = refAt(Whole, w, w)
      BY DEF refOf, refAt
    <3> QED
      BY <3>1, AtOnly DEF placed
  <2> QED
    BY <2>1, <2>2
<1>2. ASSUME NEW i \in 1..Members, NEW n \in RefLines(TextOf(i))
      PROVE  Offset[i] + n \in RefLines(Whole)
             /\ refAt(Whole, Offset[i] + n, <<1, Offset[i] + n>>) = moved(RefOf(i, n))
  <2>1. n \in Written(TextOf(i)) /\ kindOf(TextOf(i), n) # "none"
    BY DEF RefLines
  <2> DEFINE w == Offset[i] + n
  <2>2. /\ w \in Written(Whole) /\ Whole[w] = TextOf(i)[n] /\ trails(Whole)[w] = trails(TextOf(i))[n]
        /\ kindOf(Whole, w) = kindOf(TextOf(i), n)
    BY <2>1, LinesMoved
  <2>3. moved(RefOf(i, n)) = refAt(TextOf(i), n, <<1, w>>)
    <3>1. RefOf(i, n) = refAt(TextOf(i), n, <<i, n>>)
      <4>1. refOf(TextOf(i), n) = refAt(TextOf(i), n, n)
        BY DEF refOf, refAt
      <4> QED
        BY <4>1, AtOnly DEF RefOf
    <3>2. moved(refAt(TextOf(i), n, <<i, n>>)) = refAt(TextOf(i), n, move(<<i, n>>))
      BY AtOnly DEF moved
    <3> QED
      BY <3>1, <3>2 DEF move
  <2> HIDE DEF w
  <2>4. refAt(Whole, w, <<1, w>>) = refAt(TextOf(i), n, <<1, w>>)
    BY <2>2 DEF refAt
  <2>6. w \in RefLines(Whole)
    BY <2>1, <2>2 DEF RefLines
  <2> QED
    BY <2>3, <2>4, <2>6 DEF w
<1>3. ASSUME NEW w \in RefLines(Whole)
      PROVE  \E i \in 1..Members : \E n \in RefLines(TextOf(i)) : w = Offset[i] + n
  <2>1. w \in Written(Whole) /\ kindOf(Whole, w) # "none"
    BY DEF RefLines
  <2>2. PICK i \in 1..Members : \E n \in Written(TextOf(i)) : w = Offset[i] + n
    BY <2>1, LinesMoved
  <2>3. PICK n \in Written(TextOf(i)) : w = Offset[i] + n
    BY <2>2
  <2>4. kindOf(TextOf(i), n) # "none"
    BY <2>1, <2>3, LinesMoved
  <2> QED
    BY <2>3, <2>4 DEF RefLines
<1>4. ASSUME NEW q \in Refs(Docs) PROVE moved(q) \in Refs(One)
  <2>1. PICK i \in 1..Members : \E n \in RefLines(TextOf(i)) : q = RefOf(i, n)
    BY RefsAre
  <2>2. PICK n \in RefLines(TextOf(i)) : q = RefOf(i, n)
    BY <2>1
  <2> QED
    BY <1>1, <1>2, <2>2
<1>5. ASSUME NEW r \in Refs(One) PROVE \E q \in Refs(Docs) : r = moved(q)
  <2>1. PICK w \in RefLines(Whole) : r = refAt(Whole, w, <<1, w>>)
    BY <1>1
  <2>2. PICK i \in 1..Members : \E n \in RefLines(TextOf(i)) : w = Offset[i] + n
    BY <1>3
  <2>3. PICK n \in RefLines(TextOf(i)) : w = Offset[i] + n
    BY <2>2
  <2>4. RefOf(i, n) \in Refs(Docs)
    BY RefsAre
  <2> QED
    BY <1>2, <2>1, <2>3, <2>4
<1>6. ASSUME NEW q \in Refs(Docs)
      PROVE  /\ moved(q).kind = q.kind /\ moved(q).id = q.id /\ moved(q).pipe = q.pipe /\ moved(q).at = move(q.at)
  <2>1. PICK i \in 1..Members : \E n \in RefLines(TextOf(i)) : q = RefOf(i, n)
    BY RefsAre
  <2>2. PICK n \in RefLines(TextOf(i)) : q = RefOf(i, n)
    BY <2>1
  <2> QED
    BY <2>2 DEF moved, RefOf, refOf
<1> QED
  BY <1>4, <1>5, <1>6

(* So do pipelines.                                                        *)
readIn(ts, p) ==
    \E i \in DOMAIN ts : \E n \in Written(ts[i]) : isRead(ts[i], n) /\ p = pipelineAt(ts[i], n, <<i, n>>)

LEMMA FragmentsAt ==
    ASSUME NEW docs, NEW ts, AreBuilt(docs, ts), NEW p
    PROVE  p \in Fragments(docs) <=> readIn(ts, p)
<1>1. ASSUME NEW i \in DOMAIN ts
      PROVE  docs[i].pipelines = {pipelineAt(ts[i], n, n) : n \in {m \in Written(ts[i]) : isRead(ts[i], m)}}
  <2>1. docs[i].pipelines = collectService(ts[i], trails(ts[i]))
    BY Built DEF AreBuilt
  <2> QED
    BY <2>1 DEF collectService, trails, isRead, pipelineAt
<1>2. p \in Fragments(docs) <=> \E i \in DOMAIN ts : \E q \in docs[i].pipelines : p = placed(q, i)
  BY DEF Fragments, AreBuilt, placed
<1>3. \A i, v, n : placed(pipelineAt(v, n, n), i) = pipelineAt(v, n, <<i, n>>)
  BY DEF pipelineAt, placed
<1>4. ASSUME NEW i \in DOMAIN ts
      PROVE  (\E q \in docs[i].pipelines : p = placed(q, i))
               <=> \E n \in Written(ts[i]) : isRead(ts[i], n) /\ p = pipelineAt(ts[i], n, <<i, n>>)
  <2>1. ASSUME NEW q \in docs[i].pipelines, p = placed(q, i)
        PROVE  \E n \in Written(ts[i]) : isRead(ts[i], n) /\ p = pipelineAt(ts[i], n, <<i, n>>)
    <3>1. PICK n \in Written(ts[i]) : isRead(ts[i], n) /\ q = pipelineAt(ts[i], n, n)
      BY <1>1
    <3>2. p = pipelineAt(ts[i], n, <<i, n>>)
      BY <1>3, <2>1, <3>1
    <3> QED
      BY <3>1, <3>2
  <2>2. ASSUME NEW n \in Written(ts[i]), isRead(ts[i], n), p = pipelineAt(ts[i], n, <<i, n>>)
        PROVE  \E q \in docs[i].pipelines : p = placed(q, i)
    <3>1. pipelineAt(ts[i], n, n) \in docs[i].pipelines
      BY <1>1, <2>2
    <3> QED
      BY <1>3, <2>2, <3>1
  <2> QED
    BY <2>1, <2>2
<1> QED
  BY <1>2, <1>4 DEF readIn

LEMMA PipelinesMoved ==
    ASSUME Chosen, Flush
    PROVE  /\ \A q \in Fragments(Docs) : moved(q) \in Fragments(One)
           /\ \A p \in Fragments(One) : \E q \in Fragments(Docs) : p = moved(q)
           /\ \A q \in Fragments(Docs) : moved(q).id = q.id /\ moved(q).at = move(q.at)
<1>1. \A p : p \in Fragments(Docs) <=>
               \E i \in 1..Members : \E n \in Written(TextOf(i)) :
                 isRead(TextOf(i), n) /\ p = pipelineAt(TextOf(i), n, <<i, n>>)
  <2>1. AreBuilt(Docs, Seqs)
    BY DocsAre DEF Seqs, AreBuilt
  <2>2. DOMAIN Seqs = 1..Members /\ \A i \in 1..Members : Seqs[i] = TextOf(i)
    BY DEF Seqs
  <2>3. \A p : p \in Fragments(Docs) <=> readIn(Seqs, p)
    BY <2>1, FragmentsAt
  <2>4. \A p : readIn(Seqs, p) <=>
               \E i \in 1..Members : \E n \in Written(TextOf(i)) :
                 isRead(TextOf(i), n) /\ p = pipelineAt(TextOf(i), n, <<i, n>>)
    BY <2>2 DEF readIn
  <2> QED
    BY <2>3, <2>4
<1>2. \A p : p \in Fragments(One) <=>
               \E w \in Written(Whole) : isRead(Whole, w) /\ p = pipelineAt(Whole, w, <<1, w>>)
  <2>1. AreBuilt(One, <<Whole>>)
    BY OneIs DEF AreBuilt
  <2>2. \A p : p \in Fragments(One) <=> readIn(<<Whole>>, p)
    BY <2>1, FragmentsAt
  <2>3. \A p : readIn(<<Whole>>, p) <=>
               \E w \in Written(Whole) : isRead(Whole, w) /\ p = pipelineAt(Whole, w, <<1, w>>)
    BY DEF readIn
  <2> QED
    BY <2>2, <2>3
<1>3. ASSUME NEW i \in 1..Members, NEW n \in Written(TextOf(i))
      PROVE  /\ Offset[i] + n \in Written(Whole)
             /\ isRead(Whole, Offset[i] + n) <=> isRead(TextOf(i), n)
             /\ pipelineAt(Whole, Offset[i] + n, <<1, Offset[i] + n>>) = moved(pipelineAt(TextOf(i), n, <<i, n>>))
  <2> DEFINE w == Offset[i] + n
  <2>1. /\ w \in Written(Whole) /\ Whole[w] = TextOf(i)[n] /\ trails(Whole)[w] = trails(TextOf(i))[n]
        /\ Children(Whole, w) = Shifted(Offset[i], Children(TextOf(i), n))
    BY LinesMoved
  <2>2. \A c \in Children(TextOf(i), n) : IsItem(Whole, Offset[i] + c) <=> IsItem(TextOf(i), c)
    <3>1. \A c \in Children(TextOf(i), n) : c \in Written(TextOf(i))
      BY DEF Children
    <3> QED
      BY <3>1, LinesMoved DEF IsItem
  <2>3. moved(pipelineAt(TextOf(i), n, <<i, n>>)) = pipelineAt(TextOf(i), n, <<1, w>>)
    BY DEF moved, move, pipelineAt
  <2> HIDE DEF w
  <2>4. isRead(Whole, w) <=> isRead(TextOf(i), n)
    <3>1. (\E c \in Children(Whole, w) : ~IsItem(Whole, c)) <=> \E c \in Children(TextOf(i), n) : ~IsItem(TextOf(i), c)
      BY <2>1, <2>2 DEF Shifted
    <3> QED
      BY <2>1, <3>1 DEF isRead, IsItem
  <2>5. pipelineAt(Whole, w, <<1, w>>) = pipelineAt(TextOf(i), n, <<1, w>>)
    BY <2>1 DEF pipelineAt
  <2> QED
    BY <2>1, <2>3, <2>4, <2>5 DEF w
<1>4. \A w \in Written(Whole) : \E i \in 1..Members : \E n \in Written(TextOf(i)) : w = Offset[i] + n
  BY LinesMoved
<1>5. ASSUME NEW q \in Fragments(Docs)
      PROVE  moved(q) \in Fragments(One) /\ moved(q).id = q.id /\ moved(q).at = move(q.at)
  <2>1. PICK i \in 1..Members : \E n \in Written(TextOf(i)) :
               isRead(TextOf(i), n) /\ q = pipelineAt(TextOf(i), n, <<i, n>>)
    BY <1>1
  <2>2. PICK n \in Written(TextOf(i)) : isRead(TextOf(i), n) /\ q = pipelineAt(TextOf(i), n, <<i, n>>)
    BY <2>1
  <2>3. moved(q) \in Fragments(One)
    BY <1>2, <1>3, <2>2
  <2>4. moved(q).id = q.id /\ moved(q).at = move(q.at)
    BY <2>2 DEF moved, pipelineAt
  <2> QED
    BY <2>3, <2>4
<1>6. ASSUME NEW p \in Fragments(One) PROVE \E q \in Fragments(Docs) : p = moved(q)
  <2>1. PICK w \in Written(Whole) : isRead(Whole, w) /\ p = pipelineAt(Whole, w, <<1, w>>)
    BY <1>2
  <2>2. PICK i \in 1..Members : \E n \in Written(TextOf(i)) : w = Offset[i] + n
    BY <1>4
  <2>3. PICK n \in Written(TextOf(i)) : w = Offset[i] + n
    BY <2>2
  <2>4. pipelineAt(TextOf(i), n, <<i, n>>) \in Fragments(Docs)
    BY <1>1, <1>3, <2>1, <2>3
  <2> QED
    BY <1>3, <2>1, <2>3, <2>4
<1> QED
  BY <1>5, <1>6

(* The lines that define components of a class, and the last one of an id. *)
defLines(t, cls) ==
    {n \in Written(t) : /\ Len(trails(t)[n]) = 2 /\ trails(t)[n][2] # Dash
                        /\ trails(t)[n][1] \in DOMAIN CLASS_KEYS /\ CLASS_KEYS[trails(t)[n][1]] = cls}

LEMMA ComponentIs ==
    ASSUME NEW t \in Seq(Line), NEW cls \in Classes, NEW id
    PROVE  LET found == buildModel(t).components[cls]
           IN  /\ id \in DOMAIN found <=> \E n \in defLines(t, cls) : t[n].key = id
               /\ id \in DOMAIN found => /\ found[id] \in defLines(t, cls) /\ t[found[id]].key = id
                                         /\ \A n \in defLines(t, cls) : t[n].key = id => n <= found[id]
<1> DEFINE found == buildModel(t).components[cls]
           same == {n \in defLines(t, cls) : t[n].key = id}
<1>1. found = collectComponents(t, trails(t), cls)
  BY Built
<1>2. found = [k \in {t[n].key : n \in defLines(t, cls)} |-> Max({n \in defLines(t, cls) : t[n].key = k})]
  BY <1>1 DEF collectComponents, trails, defLines
<1>3. id \in DOMAIN found <=> \E n \in defLines(t, cls) : t[n].key = id
  BY <1>2
<1>4. ASSUME id \in DOMAIN found
      PROVE  /\ found[id] \in same /\ \A n \in same : n <= found[id]
  <2>1. found[id] = Max(same)
    BY <1>2, <1>4
  <2>2. /\ same \in SUBSET Nat /\ same # {}
        /\ Len(t) \in Nat /\ \A n \in same : n <= Len(t)
    BY <1>3, <1>4, WrittenLines DEF defLines
  <2> HIDE DEF same, found
  <2>3. PICK g \in same : \A m \in same : m <= g
    BY <2>2, Largest
  <2>4. Max(same) \in same
    BY <2>2, MaxIsLargest
  <2>5. \A m \in same : m <= Max(same)
    <3>1. \E x \in same : \A m \in same : x >= m
      BY <2>2, <2>3
    <3>2. \A m \in same : Max(same) >= m
      BY <3>1 DEF Max
    <3> QED
      BY <2>2, <2>4, <3>2
  <2> QED
    BY <2>1, <2>4, <2>5
<1> QED
  BY <1>3, <1>4

(* No id is defined twice over the members.                                *)
Unique == \A c \in Components(Docs) : ~isDuplicate(Docs, c[1], c[2])

LEMMA UniqueDefinition ==
    ASSUME Chosen, Unique, NEW cls \in Classes, NEW id, NEW s \in Definitions(Docs, cls, id)
    PROVE  Definitions(Docs, cls, id) = {s}
<1> DEFINE D == Definitions(Docs, cls, id)
<1>1. ~isDuplicate(Docs, cls, id)
  <2>1. Has(Docs, cls, id)
    BY DEF Has
  <2>2. <<cls, id>> \in Components(Docs)
    BY <2>1, Have
  <2> QED
    BY <2>2 DEF Unique
<1>2. IsFiniteSet(D) /\ Cardinality(D) \in Nat
  BY DefinitionsFinite, FS_CardinalityType
<1>3. ~(Cardinality(D) > 1)
  BY <1>1 DEF isDuplicate
<1>4. D # {}
  OBVIOUS
<1> HIDE DEF D
<1>5. Cardinality(D) = 1
  BY <1>2, <1>3, <1>4, FS_EmptySet
<1>6. PICK x : D = {x}
  BY <1>2, <1>5, FS_Singleton
<1>7. s \in D
  BY DEF D
<1> QED
  BY <1>6, <1>7 DEF D

(* With no duplicates, a component has one definition, and the whole has   *)
(* it where the member's line is.                                          *)
defined(docs, cls, id) == id \in DOMAIN docs.components[cls]
definition(docs, cls, id) == docs.components[cls][id]

LEMMA DefinedAt ==
    ASSUME NEW t \in Seq(Line), NEW cls \in Classes, NEW id
    PROVE  LET d == buildModel(t)
           IN  /\ defined(d, cls, id) <=> \E n \in defLines(t, cls) : t[n].key = id
               /\ defined(d, cls, id) => /\ definition(d, cls, id) \in defLines(t, cls)
                                         /\ t[definition(d, cls, id)].key = id
                                         /\ \A n \in defLines(t, cls) : t[n].key = id => n <= definition(d, cls, id)
  BY ComponentIs DEF defined, definition

LEMMA DefLinesMoved ==
    ASSUME Chosen, Flush, NEW cls \in Classes
    PROVE  /\ \A i \in 1..Members : \A n \in defLines(TextOf(i), cls) :
                Offset[i] + n \in defLines(Whole, cls) /\ Whole[Offset[i] + n].key = TextOf(i)[n].key
           /\ \A w \in defLines(Whole, cls) :
                \E i \in 1..Members : \E n \in defLines(TextOf(i), cls) :
                  w = Offset[i] + n /\ Whole[w].key = TextOf(i)[n].key
<1>1. ASSUME NEW i \in 1..Members, NEW n \in Written(TextOf(i))
      PROVE  /\ Offset[i] + n \in defLines(Whole, cls) <=> n \in defLines(TextOf(i), cls)
             /\ Whole[Offset[i] + n].key = TextOf(i)[n].key
  <2> DEFINE w == Offset[i] + n
  <2>1. w \in Written(Whole) /\ Whole[w] = TextOf(i)[n] /\ trails(Whole)[w] = trails(TextOf(i))[n]
    BY LinesMoved
  <2> HIDE DEF w
  <2>2. w \in defLines(Whole, cls) <=> n \in defLines(TextOf(i), cls)
    BY <2>1 DEF defLines
  <2> QED
    BY <2>1, <2>2 DEF w
<1>2. ASSUME NEW w \in defLines(Whole, cls)
      PROVE  \E i \in 1..Members : \E n \in defLines(TextOf(i), cls) :
               w = Offset[i] + n /\ Whole[w].key = TextOf(i)[n].key
  <2>1. w \in Written(Whole)
    BY DEF defLines
  <2>2. PICK i \in 1..Members : \E n \in Written(TextOf(i)) : w = Offset[i] + n
    BY <2>1, LinesMoved
  <2>3. PICK n \in Written(TextOf(i)) : w = Offset[i] + n
    BY <2>2
  <2> QED
    BY <1>1, <2>3
<1>3. \A i \in 1..Members : \A n \in defLines(TextOf(i), cls) : n \in Written(TextOf(i))
  BY DEF defLines
<1> QED
  BY <1>1, <1>2, <1>3

LEMMA DefinitionsMoved ==
    ASSUME Chosen, Flush, Unique, NEW cls \in Classes, NEW id
    PROVE  \/ Definitions(Docs, cls, id) = {} /\ Definitions(One, cls, id) = {}
           \/ \E s : Definitions(Docs, cls, id) = {s} /\ Definitions(One, cls, id) = {move(s)}
<1>1. Definitions(One, cls, id) = IF defined(One[1], cls, id) THEN {<<1, definition(One[1], cls, id)>>} ELSE {}
  BY OneIs DEF Definitions, defined, definition
<1>2. One[1] = buildModel(Whole) /\ Whole \in Seq(Line)
  BY OneIs, WholeMade
<1>3. ASSUME NEW i \in 1..Members, defined(Docs[i], cls, id)
      PROVE  /\ definition(Docs[i], cls, id) \in defLines(TextOf(i), cls)
             /\ TextOf(i)[definition(Docs[i], cls, id)].key = id
             /\ defined(One[1], cls, id)
             /\ Definitions(Docs, cls, id) = {<<i, definition(Docs[i], cls, id)>>}
  <2>1. Docs[i] = buildModel(TextOf(i)) /\ TextOf(i) \in Seq(Line)
    BY DocsAre
  <2>2. /\ definition(Docs[i], cls, id) \in defLines(TextOf(i), cls)
        /\ TextOf(i)[definition(Docs[i], cls, id)].key = id
    BY <1>3, <2>1, DefinedAt
  <2>3. \E w \in defLines(Whole, cls) : Whole[w].key = id
    BY <2>2, DefLinesMoved
  <2>4. defined(One[1], cls, id)
    BY <1>2, <2>3, DefinedAt
  <2>5. <<i, definition(Docs[i], cls, id)>> \in Definitions(Docs, cls, id)
    BY <1>3, DocsAre DEF Definitions, defined, definition
  <2> QED
    BY <2>2, <2>4, <2>5, UniqueDefinition
<1>4. CASE defined(One[1], cls, id)
  <2> DEFINE w == definition(One[1], cls, id)
  <2>1. /\ w \in defLines(Whole, cls) /\ Whole[w].key = id
        /\ \A v \in defLines(Whole, cls) : Whole[v].key = id => v <= w
    BY <1>2, <1>4, DefinedAt
  <2> HIDE DEF w
  <2>2. PICK i \in 1..Members : \E n \in defLines(TextOf(i), cls) : w = Offset[i] + n /\ Whole[w].key = TextOf(i)[n].key
    BY <2>1, DefLinesMoved
  <2>3. PICK n \in defLines(TextOf(i), cls) : w = Offset[i] + n /\ TextOf(i)[n].key = id
    BY <2>1, <2>2
  <2>4. Docs[i] = buildModel(TextOf(i)) /\ TextOf(i) \in Seq(Line)
    BY DocsAre
  <2>5. defined(Docs[i], cls, id) /\ n <= definition(Docs[i], cls, id)
    BY <2>3, <2>4, DefinedAt
  <2>6. definition(Docs[i], cls, id) = n
    <3> DEFINE m == definition(Docs[i], cls, id)
    <3>1. m \in defLines(TextOf(i), cls) /\ TextOf(i)[m].key = id
      BY <1>3, <2>5
    <3>2. Offset[i] + m <= w
      BY <2>1, <3>1, DefLinesMoved
    <3>3. m \in Written(TextOf(i)) /\ n \in Written(TextOf(i))
      BY <3>1 DEF defLines
    <3>4. m \in Nat /\ n \in Nat /\ Offset[i] \in Nat
      BY <3>3, LinesMoved
    <3> HIDE DEF m
    <3>5. n <= m
      BY <2>5 DEF m
    <3>6. m = n
      BY <2>3, <3>2, <3>4, <3>5
    <3> QED
      BY <3>6 DEF m
  <2>7. Definitions(Docs, cls, id) = {<<i, n>>}
    BY <1>3, <2>5, <2>6
  <2>8. Definitions(One, cls, id) = {<<1, w>>}
    BY <1>1, <1>4 DEF w
  <2>9. move(<<i, n>>) = <<1, w>>
    BY <2>3 DEF move
  <2> QED
    BY <2>7, <2>8, <2>9
<1>5. CASE ~defined(One[1], cls, id)
  <2>1. Definitions(One, cls, id) = {}
    BY <1>1, <1>5
  <2>2. \A i \in 1..Members : ~defined(Docs[i], cls, id)
    BY <1>3, <1>5
  <2>3. Definitions(Docs, cls, id) = {}
    BY <2>2, DocsAre DEF Definitions, defined
  <2> QED
    BY <2>1, <2>3
<1> QED
  BY <1>4, <1>5

(* Nothing else tells them apart.                                          *)
LEMMA ComponentsAlike ==
    ASSUME Chosen, Flush, Unique
    PROVE  /\ Components(One) = Components(Docs)
           /\ \A cls \in Classes : \A id :
                /\ Has(One, cls, id) <=> Has(Docs, cls, id)
                /\ ~isDuplicate(One, cls, id) /\ ~isDuplicate(Docs, cls, id)
                /\ Has(Docs, cls, id) =>
                     /\ Definitions(Docs, cls, id) = {FirstOf(Definitions(Docs, cls, id))}
                     /\ Definitions(One, cls, id) = {move(FirstOf(Definitions(Docs, cls, id)))}
                     /\ FirstOf(Definitions(One, cls, id)) = move(FirstOf(Definitions(Docs, cls, id)))
<1>1. \A s : FirstOf({s}) = s
  BY DEF FirstOf
<1>2. ASSUME NEW cls \in Classes, NEW id
      PROVE  /\ Has(One, cls, id) <=> Has(Docs, cls, id)
             /\ ~isDuplicate(One, cls, id) /\ ~isDuplicate(Docs, cls, id)
             /\ Has(Docs, cls, id) =>
                  /\ Definitions(Docs, cls, id) = {FirstOf(Definitions(Docs, cls, id))}
                  /\ Definitions(One, cls, id) = {move(FirstOf(Definitions(Docs, cls, id)))}
                  /\ FirstOf(Definitions(One, cls, id)) = move(FirstOf(Definitions(Docs, cls, id)))
  <2> DEFINE D == Definitions(Docs, cls, id)
             E == Definitions(One, cls, id)
  <2>1. (D = {} /\ E = {}) \/ \E s : D = {s} /\ E = {move(s)}
    BY DefinitionsMoved
  <2>2. Has(One, cls, id) <=> E # {}
    BY DEF Has
  <2>3. Has(Docs, cls, id) <=> D # {}
    BY DEF Has
  <2>4. isDuplicate(One, cls, id) <=> Cardinality(E) > 1
    BY DEF isDuplicate
  <2>5. isDuplicate(Docs, cls, id) <=> Cardinality(D) > 1
    BY DEF isDuplicate
  <2> HIDE DEF D, E
  <2>6. CASE D = {} /\ E = {}
    <3>1. Cardinality(D) = 0 /\ Cardinality(E) = 0
      BY <2>6, FS_EmptySet
    <3> QED
      BY <2>2, <2>3, <2>4, <2>5, <2>6, <3>1
  <2>7. ASSUME NEW s, D = {s}, E = {move(s)}
        PROVE  /\ Cardinality(D) = 1 /\ Cardinality(E) = 1 /\ FirstOf(D) = s /\ FirstOf(E) = move(s)
    BY <1>1, <2>7, FS_Singleton
  <2>8. CASE \E s : D = {s} /\ E = {move(s)}
    <3>1. PICK s : D = {s} /\ E = {move(s)}
      BY <2>8
    <3>2. Cardinality(D) = 1 /\ Cardinality(E) = 1 /\ FirstOf(D) = s /\ FirstOf(E) = move(s)
      BY <2>7, <3>1
    <3>3. D # {} /\ E # {} /\ ~(1 > 1)
      BY <3>1
    <3>4. Has(One, cls, id) /\ Has(Docs, cls, id) /\ ~isDuplicate(One, cls, id) /\ ~isDuplicate(Docs, cls, id)
      BY <2>2, <2>3, <2>4, <2>5, <3>2, <3>3
    <3>5. D = {FirstOf(D)} /\ E = {move(FirstOf(D))} /\ FirstOf(E) = move(FirstOf(D))
      BY <3>1, <3>2
    <3> QED
      BY <3>4, <3>5 DEF D, E
  <2> QED
    BY <2>1, <2>6, <2>8
<1>3. ASSUME NEW docs, NEW cls \in Classes, NEW id
      PROVE  <<cls, id>> \in Components(docs) <=> Has(docs, cls, id)
  <2>1. Has(docs, cls, id) => \E i \in DOMAIN docs : id \in DOMAIN docs[i].components[cls]
    BY DEF Has, Definitions
  <2> QED
    BY <2>1 DEF Components
<1>4. \A c : c \in Components(One) => \E cls \in Classes : \E id : c = <<cls, id>>
  BY DEF Components
<1>5. \A c : c \in Components(Docs) => \E cls \in Classes : \E id : c = <<cls, id>>
  BY DEF Components
<1>6. Components(One) = Components(Docs)
  <2>1. \A cls \in Classes : \A id : <<cls, id>> \in Components(One) <=> <<cls, id>> \in Components(Docs)
    BY <1>2, <1>3
  <2> QED
    BY <1>4, <1>5, <2>1
<1> QED
  BY <1>2, <1>6

(* Places keep their order.                                                *)
PlaceOf(s) == \E i \in 1..Members : \E n \in Written(TextOf(i)) : s = <<i, n>>

LEMMA OrderMoved ==
    ASSUME Chosen, Flush, NEW s, PlaceOf(s), NEW u, PlaceOf(u)
    PROVE  /\ Before(s, u) => Before(move(s), move(u))
           /\ s \in Nat \X Nat /\ move(s) \in Nat \X Nat
<1>1. PICK i \in 1..Members : \E n \in Written(TextOf(i)) : s = <<i, n>>
  BY DEF PlaceOf
<1>2. PICK n \in Written(TextOf(i)) : s = <<i, n>>
  BY <1>1
<1>3. PICK j \in 1..Members : \E m \in Written(TextOf(j)) : u = <<j, m>>
  BY DEF PlaceOf
<1>4. PICK m \in Written(TextOf(j)) : u = <<j, m>>
  BY <1>3
<1>5. /\ Offset[i] + n \in Nat /\ Offset[j] + m \in Nat /\ Offset[i] \in Nat /\ Offset[j] \in Nat
      /\ n \in Nat /\ m \in Nat /\ i \in Nat /\ j \in Nat
  <2>1. i \in Nat /\ j \in Nat
    BY MembersAssumption
  <2>2. Offset[i] + n \in Nat /\ Offset[i] \in Nat /\ n \in Nat
    BY LinesMoved
  <2>3. Offset[j] + m \in Nat /\ Offset[j] \in Nat /\ m \in Nat
    BY LinesMoved
  <2> QED
    BY <2>1, <2>2, <2>3
<1>6. i < j => Offset[i] + n < Offset[j] + m
  BY LinesMoved
<1>7. move(s) = <<1, Offset[i] + n>> /\ move(u) = <<1, Offset[j] + m>>
  BY <1>2, <1>4 DEF move
<1>8. Before(s, u) => i < j \/ (i = j /\ n < m)
  BY <1>2, <1>4 DEF Before
<1>9. i = j /\ n < m => Offset[i] + n < Offset[j] + m
  BY <1>5
<1>10. Offset[i] + n < Offset[j] + m => Before(move(s), move(u))
  BY <1>5, <1>7 DEF Before
<1> QED
  BY <1>2, <1>5, <1>6, <1>7, <1>8, <1>9, <1>10

LEMMA LastMoved ==
    ASSUME Chosen, Flush, NEW S, \A s \in S : PlaceOf(s), NEW T,
           \A s \in S : move(s) \in T, \A p \in T : \E s \in S : p = move(s),
           IsLast(S, LastOf(S))
    PROVE  LastOf(T) = move(LastOf(S))
<1> DEFINE s == LastOf(S)
<1>1. s \in S /\ \A x \in S : x = s \/ Before(x, s)
  BY DEF IsLast
<1> HIDE DEF s
<1>2. move(s) \in T /\ \A y \in T : y = move(s) \/ Before(y, move(s))
  <2>1. ASSUME NEW y \in T PROVE y = move(s) \/ Before(y, move(s))
    <3>1. PICK x \in S : y = move(x)
      OBVIOUS
    <3>2. CASE x = s
      BY <3>1, <3>2
    <3>3. CASE Before(x, s)
      BY <1>1, <3>1, <3>3, OrderMoved
    <3> QED
      BY <1>1, <3>2, <3>3
  <2> QED
    BY <1>1, <2>1
<1>3. \A y \in T : y \in Nat \X Nat
  <2>1. ASSUME NEW y \in T PROVE y \in Nat \X Nat
    <3>1. PICK x \in S : y = move(x)
      OBVIOUS
    <3> QED
      BY <3>1, OrderMoved
  <2> QED
    BY <2>1
<1>4. ASSUME NEW y \in T, \A x \in T : x = y \/ Before(x, y) PROVE y = move(s)
  <2>1. y \in Nat \X Nat /\ move(s) \in Nat \X Nat
    BY <1>2, <1>3
  <2>2. move(s) = y \/ Before(move(s), y)
    BY <1>2, <1>4
  <2>3. y = move(s) \/ Before(y, move(s))
    BY <1>2
  <2> QED
    BY <2>1, <2>2, <2>3, BeforeIsTotal
<1>5. LastOf(T) = move(s)
  BY <1>2, <1>4 DEF LastOf
<1> QED
  BY <1>5 DEF s

(* The pipelines of an id, and the last fragment, which stands for it.     *)
LEMMA SitesMoved ==
    ASSUME Chosen, Flush, NEW id
    PROVE  /\ PipelineSites(One, id) = {} <=> PipelineSites(Docs, id) = {}
           /\ PipelineSites(Docs, id) # {} =>
                LastOf(PipelineSites(One, id)) = move(LastOf(PipelineSites(Docs, id)))
<1> DEFINE S == PipelineSites(Docs, id)
           T == PipelineSites(One, id)
<1>1. ASSUME NEW s \in S PROVE move(s) \in T /\ PlaceOf(s)
  <2>1. PICK q \in Fragments(Docs) : q.id = id /\ s = q.at
    BY DEF PipelineSites
  <2>2. moved(q) \in Fragments(One) /\ moved(q).id = id /\ moved(q).at = move(s)
    BY <2>1, PipelinesMoved
  <2>3. move(s) \in T
    BY <2>2 DEF PipelineSites
  <2>4. PlaceOf(s)
    BY <2>1, FragmentsAre DEF PlaceOf
  <2> QED
    BY <2>3, <2>4
<1>2. ASSUME NEW p \in T PROVE \E s \in S : p = move(s)
  <2>1. PICK r \in Fragments(One) : r.id = id /\ p = r.at
    BY DEF PipelineSites
  <2>2. PICK q \in Fragments(Docs) : r = moved(q)
    BY PipelinesMoved
  <2>3. moved(q).id = q.id /\ moved(q).at = move(q.at)
    BY PipelinesMoved
  <2>4. q.id = id /\ p = move(q.at)
    BY <2>1, <2>2, <2>3
  <2>5. q.at \in S
    BY <2>4 DEF PipelineSites
  <2> QED
    BY <2>4, <2>5
<1>3. S # {} => IsLast(S, LastOf(S))
  BY LastPipeline
<1> HIDE DEF S, T
<1>4. S # {} => LastOf(T) = move(LastOf(S))
  BY <1>1, <1>2, <1>3, LastMoved
<1>5. T = {} <=> S = {}
  BY <1>1, <1>2
<1> QED
  BY <1>4, <1>5 DEF S, T

-----------------------------------------------------------------------------
(* The rules, one by one.                                                  *)

diagnostic(at, what) == [at |-> at, what |-> what]

LEMMA DiagnosticMoved ==
    ASSUME NEW at, NEW what
    PROVE  moved(diagnostic(at, what)) = diagnostic(move(at), what)
  BY DEF moved, diagnostic

(* What a rule says of the whole is what it says of the set, moved.        *)
Moves(D, E) == (\A d \in D : moved(d) \in E) /\ \A e \in E : \E d \in D : e = moved(d)

listed(docs, id, bucket) == \E r \in BucketRefs(docs) : r.kind = bucket /\ r.pipe = id
misses(docs, id, what) ==
    /\ \E p \in Fragments(docs) : p.id = id
    /\ \/ SignalOf[id] \notin KnownSignals /\ what = "unknown signal"
       \/ SignalOf[id] \in KnownSignals /\ ~listed(docs, id, "receivers") /\ what = "no receivers"
       \/ SignalOf[id] \in KnownSignals /\ ~listed(docs, id, "exporters") /\ what = "no exporters"

LEMMA SaysStructure ==
    ASSUME NEW docs, NEW d
    PROVE  d \in StructureDiagnostics(docs)
             <=> \E id, what : misses(docs, id, what) /\ d = diagnostic(LastOf(PipelineSites(docs, id)), what)
  BY DEF StructureDiagnostics, misses, listed, diagnostic

LEMMA MissesAlike ==
    ASSUME Chosen, Flush, NEW id, NEW what
    PROVE  misses(One, id, what) <=> misses(Docs, id, what)
<1>1. ASSUME NEW b PROVE listed(One, id, b) <=> listed(Docs, id, b)
  <2>1. ASSUME listed(Docs, id, b) PROVE listed(One, id, b)
    <3>1. PICK q \in Refs(Docs) : q.kind \in Buckets /\ q.kind = b /\ q.pipe = id
      BY <2>1 DEF listed, BucketRefs
    <3>2. moved(q) \in Refs(One) /\ moved(q).kind = q.kind /\ moved(q).pipe = q.pipe
      BY RefsMoved
    <3> QED
      BY <3>1, <3>2 DEF listed, BucketRefs
  <2>2. ASSUME listed(One, id, b) PROVE listed(Docs, id, b)
    <3>1. PICK r \in Refs(One) : r.kind \in Buckets /\ r.kind = b /\ r.pipe = id
      BY <2>2 DEF listed, BucketRefs
    <3>2. PICK q \in Refs(Docs) : r = moved(q)
      BY RefsMoved
    <3>3. moved(q).kind = q.kind /\ moved(q).pipe = q.pipe
      BY RefsMoved
    <3> QED
      BY <3>1, <3>2, <3>3 DEF listed, BucketRefs
  <2> QED
    BY <2>1, <2>2
<1>2. (\E p \in Fragments(One) : p.id = id) <=> \E p \in Fragments(Docs) : p.id = id
  BY PipelinesMoved
<1> QED
  BY <1>1, <1>2 DEF misses

LEMMA StructureMoves ==
    ASSUME Chosen, Flush
    PROVE  Moves(StructureDiagnostics(Docs), StructureDiagnostics(One))
<1>1. ASSUME NEW id, NEW what, misses(Docs, id, what)
      PROVE  diagnostic(LastOf(PipelineSites(One, id)), what)
               = moved(diagnostic(LastOf(PipelineSites(Docs, id)), what))
  <2>1. PipelineSites(Docs, id) # {}
    BY <1>1 DEF misses, PipelineSites
  <2>2. LastOf(PipelineSites(One, id)) = move(LastOf(PipelineSites(Docs, id)))
    BY <2>1, SitesMoved
  <2> QED
    BY <2>2, DiagnosticMoved
<1>2. ASSUME NEW d \in StructureDiagnostics(Docs) PROVE moved(d) \in StructureDiagnostics(One)
  <2>1. PICK id, what : misses(Docs, id, what) /\ d = diagnostic(LastOf(PipelineSites(Docs, id)), what)
    BY SaysStructure
  <2> QED
    BY <1>1, <2>1, MissesAlike, SaysStructure
<1>3. ASSUME NEW e \in StructureDiagnostics(One) PROVE \E d \in StructureDiagnostics(Docs) : e = moved(d)
  <2>1. PICK id, what : misses(One, id, what) /\ e = diagnostic(LastOf(PipelineSites(One, id)), what)
    BY SaysStructure
  <2>2. misses(Docs, id, what)
    BY <2>1, MissesAlike
  <2>3. diagnostic(LastOf(PipelineSites(Docs, id)), what) \in StructureDiagnostics(Docs)
    BY <2>2, SaysStructure
  <2> QED
    BY <1>1, <2>1, <2>2, <2>3
<1> QED
  BY <1>2, <1>3 DEF Moves

(* What references resolve to.                                             *)
LEMMA ResolvedAlike ==
    ASSUME Chosen, Flush, Unique, NEW q \in Refs(Docs)
    PROVE  /\ q.kind \in Buckets => Resolved(One, moved(q)) = Resolved(Docs, q)
           /\ IsDefined(One, moved(q)) <=> IsDefined(Docs, q)
<1>1. moved(q).kind = q.kind /\ moved(q).id = q.id
  BY RefsMoved
<1>2. ASSUME q.kind \in Buckets PROVE Resolved(One, moved(q)) = Resolved(Docs, q)
  <2> DEFINE cls == ClassOf(q.kind)
  <2>1. cls \in Classes /\ "connector" \in Classes
    BY <1>2, ClassOfBucket DEF Classes
  <2> HIDE DEF cls
  <2>2. /\ Has(One, cls, q.id) <=> Has(Docs, cls, q.id)
        /\ ~isDuplicate(One, cls, q.id) /\ ~isDuplicate(Docs, cls, q.id)
    BY <2>1, ComponentsAlike
  <2>3. /\ Has(One, "connector", q.id) <=> Has(Docs, "connector", q.id)
        /\ ~isDuplicate(One, "connector", q.id) /\ ~isDuplicate(Docs, "connector", q.id)
    BY <2>1, ComponentsAlike
  <2>4. Resolved(Docs, q) = {c \in {cls, "connector"} : Has(Docs, c, q.id)}
    BY <2>2, <2>3 DEF Resolved, cls
  <2>5. Resolved(One, moved(q)) = {c \in {cls, "connector"} : Has(One, c, q.id)}
    BY <1>1, <2>2, <2>3 DEF Resolved, cls
  <2> QED
    BY <2>2, <2>3, <2>4, <2>5
<1>3. Has(One, "extension", q.id) <=> Has(Docs, "extension", q.id)
  <2>1. "extension" \in Classes
    BY DEF Classes
  <2> QED
    BY <2>1, ComponentsAlike
<1>4. PipelineSites(One, q.id) = {} <=> PipelineSites(Docs, q.id) = {}
  BY SitesMoved
<1>5. q.kind \in Kinds
  BY AtRef
<1>6. CASE q.kind \in Buckets
  <2>1. q.kind \notin {"service", "strict", "soft"} /\ q.kind # "pipeline"
    BY <1>6, ClassOfBucket
  <2>2. IsDefined(Docs, q) <=> Resolved(Docs, q) # {}
    BY <1>6, <2>1 DEF IsDefined
  <2>3. IsDefined(One, moved(q)) <=> Resolved(One, moved(q)) # {}
    BY <1>1, <1>6, <2>1 DEF IsDefined
  <2> QED
    BY <1>2, <1>6, <2>2, <2>3
<1>7. CASE q.kind \in {"service", "strict", "soft"}
  <2>1. q.kind \notin Buckets
    BY <1>7, ClassOfBucket
  <2>2. IsDefined(Docs, q) <=> Has(Docs, "extension", q.id)
    BY <1>7, <2>1 DEF IsDefined
  <2>3. IsDefined(One, moved(q)) <=> Has(One, "extension", q.id)
    BY <1>1, <1>7, <2>1 DEF IsDefined
  <2> QED
    BY <1>3, <2>1, <2>2, <2>3
<1>8. CASE q.kind = "pipeline"
  <2>1. q.kind \notin Buckets /\ q.kind \notin {"service", "strict", "soft"}
    BY <1>8, ClassOfBucket
  <2>2. IsDefined(Docs, q) <=> PipelineSites(Docs, q.id) # {}
    BY <1>8, <2>1 DEF IsDefined
  <2>3. IsDefined(One, moved(q)) <=> PipelineSites(One, q.id) # {}
    BY <1>1, <1>8, <2>1 DEF IsDefined
  <2> QED
    BY <1>4, <2>1, <2>2, <2>3
<1> QED
  BY <1>5, <1>6, <1>7, <1>8 DEF Kinds

LEMMA CheckedAlike ==
    ASSUME Chosen, Flush
    PROVE  \A q \in Refs(Docs) : /\ moved(q) \in ValidRefs(One) <=> q \in ValidRefs(Docs)
                                 /\ moved(q) \in Checked(One) <=> q \in Checked(Docs)
<1> SUFFICES ASSUME NEW q \in Refs(Docs)
             PROVE  /\ moved(q) \in ValidRefs(One) <=> q \in ValidRefs(Docs)
                    /\ moved(q) \in Checked(One) <=> q \in Checked(Docs)
  OBVIOUS
<1>1. moved(q) \in Refs(One) /\ moved(q).kind = q.kind /\ moved(q).pipe = q.pipe
  BY RefsMoved
<1>2. moved(q) \in ValidRefs(One) <=> q \in ValidRefs(Docs)
  BY <1>1 DEF ValidRefs, BucketRefs
<1> QED
  BY <1>1, <1>2 DEF Checked

SaysOf(docs, r) == r \in Checked(docs) /\ ~IsDefined(docs, r) /\ r.id \notin Substitutions

LEMMA UndefinedMoves ==
    ASSUME Chosen, Flush, Unique
    PROVE  Moves(UndefinedDiagnostics(Docs), UndefinedDiagnostics(One))
<1>1. ASSUME NEW docs, NEW d
      PROVE  d \in UndefinedDiagnostics(docs) <=> \E r \in Refs(docs) : SaysOf(docs, r) /\ d = diagnostic(r.at, "not defined")
  <2>1. Checked(docs) \subseteq Refs(docs)
    BY DEF Checked, ValidRefs, BucketRefs
  <2>2. d \in UndefinedDiagnostics(docs) <=> \E r \in Checked(docs) : SaysOf(docs, r) /\ d = diagnostic(r.at, "not defined")
    BY DEF UndefinedDiagnostics, Checked, SaysOf, diagnostic
  <2> QED
    BY <2>1, <2>2 DEF SaysOf
<1>2. ASSUME NEW q \in Refs(Docs)
      PROVE  /\ SaysOf(One, moved(q)) <=> SaysOf(Docs, q)
             /\ diagnostic(moved(q).at, "not defined") = moved(diagnostic(q.at, "not defined"))
  <2>1. moved(q).id = q.id /\ moved(q).at = move(q.at)
    BY RefsMoved
  <2>2. moved(q) \in Checked(One) <=> q \in Checked(Docs)
    BY CheckedAlike
  <2>3. IsDefined(One, moved(q)) <=> IsDefined(Docs, q)
    BY ResolvedAlike
  <2> QED
    BY <2>1, <2>2, <2>3, DiagnosticMoved DEF SaysOf
<1>3. ASSUME NEW d \in UndefinedDiagnostics(Docs) PROVE moved(d) \in UndefinedDiagnostics(One)
  <2>1. PICK q \in Refs(Docs) : SaysOf(Docs, q) /\ d = diagnostic(q.at, "not defined")
    BY <1>1
  <2>2. moved(q) \in Refs(One)
    BY RefsMoved
  <2> QED
    BY <1>1, <1>2, <2>1, <2>2
<1>4. ASSUME NEW e \in UndefinedDiagnostics(One) PROVE \E d \in UndefinedDiagnostics(Docs) : e = moved(d)
  <2>1. PICK r \in Refs(One) : SaysOf(One, r) /\ e = diagnostic(r.at, "not defined")
    BY <1>1
  <2>2. PICK q \in Refs(Docs) : r = moved(q)
    BY RefsMoved
  <2>3. SaysOf(Docs, q) /\ e = moved(diagnostic(q.at, "not defined"))
    BY <1>2, <2>1, <2>2
  <2> QED
    BY <1>1, <2>3
<1> QED
  BY <1>3, <1>4 DEF Moves

(* Signals.                                                                *)
wrongSignal(found, kind, id, pipe) ==
    LET cls == IF ClassOf(kind) \in found THEN ClassOf(kind) ELSE "connector"
        known == Declared[cls]
    IN  /\ found # {} /\ TypeOf[id] \in DOMAIN known /\ known[TypeOf[id]] # {}
        /\ ~signalMatches(known[TypeOf[id]], SignalOf[pipe], kind, cls = "connector")
WrongIn(docs, r) == r \in ValidRefs(docs) /\ wrongSignal(Resolved(docs, r), r.kind, r.id, r.pipe)

LEMMA SignalMoves ==
    ASSUME Chosen, Flush, Unique
    PROVE  Moves(SignalDiagnostics(Docs), SignalDiagnostics(One))
<1>1. ASSUME NEW docs, NEW d
      PROVE  d \in SignalDiagnostics(docs) <=> \E r \in Refs(docs) : WrongIn(docs, r) /\ d = diagnostic(r.at, "signal")
  <2>1. ValidRefs(docs) \subseteq Refs(docs)
    BY DEF ValidRefs, BucketRefs
  <2>2. d \in SignalDiagnostics(docs) <=> \E r \in ValidRefs(docs) : WrongIn(docs, r) /\ d = diagnostic(r.at, "signal")
    BY DEF SignalDiagnostics, WrongIn, wrongSignal, diagnostic
  <2>3. \A r : WrongIn(docs, r) => r \in ValidRefs(docs)
    BY DEF WrongIn
  <2> QED
    BY <2>1, <2>2, <2>3
<1>2. ASSUME NEW q \in Refs(Docs)
      PROVE  /\ WrongIn(One, moved(q)) <=> WrongIn(Docs, q)
             /\ diagnostic(moved(q).at, "signal") = moved(diagnostic(q.at, "signal"))
  <2>1. q \in ValidRefs(Docs) => q.kind \in Buckets
    BY DEF ValidRefs, BucketRefs
  <2>2. /\ moved(q).kind = q.kind /\ moved(q).id = q.id /\ moved(q).pipe = q.pipe /\ moved(q).at = move(q.at)
        /\ moved(q) \in ValidRefs(One) <=> q \in ValidRefs(Docs)
        /\ q.kind \in Buckets => Resolved(One, moved(q)) = Resolved(Docs, q)
    BY RefsMoved, CheckedAlike, ResolvedAlike
  <2> QED
    BY <2>1, <2>2, DiagnosticMoved DEF WrongIn
<1>3. ASSUME NEW d \in SignalDiagnostics(Docs) PROVE moved(d) \in SignalDiagnostics(One)
  <2>1. PICK q \in Refs(Docs) : WrongIn(Docs, q) /\ d = diagnostic(q.at, "signal")
    BY <1>1
  <2>2. moved(q) \in Refs(One)
    BY RefsMoved
  <2> QED
    BY <1>1, <1>2, <2>1, <2>2
<1>4. ASSUME NEW e \in SignalDiagnostics(One) PROVE \E d \in SignalDiagnostics(Docs) : e = moved(d)
  <2>1. PICK r \in Refs(One) : WrongIn(One, r) /\ e = diagnostic(r.at, "signal")
    BY <1>1
  <2>2. PICK q \in Refs(Docs) : r = moved(q)
    BY RefsMoved
  <2>3. WrongIn(Docs, q) /\ e = moved(diagnostic(q.at, "signal"))
    BY <1>2, <2>1, <2>2
  <2> QED
    BY <1>1, <2>3
<1> QED
  BY <1>3, <1>4 DEF Moves

(* Duplicates: there are none.                                             *)
LEMMA DuplicatesMove ==
    ASSUME Chosen, Flush, Unique
    PROVE  Moves(DuplicateDiagnostics(Docs), DuplicateDiagnostics(One))
<1>1. ASSUME NEW c \in Components(Docs)
      PROVE  /\ Definitions(Docs, c[1], c[2]) \ {FirstOf(Definitions(Docs, c[1], c[2]))} = {}
             /\ Definitions(One, c[1], c[2]) \ {FirstOf(Definitions(One, c[1], c[2]))} = {}
  <2>1. c[1] \in Classes /\ Has(Docs, c[1], c[2])
    BY ComponentsAre
  <2> DEFINE D == Definitions(Docs, c[1], c[2])
             E == Definitions(One, c[1], c[2])
  <2>2. D = {FirstOf(D)} /\ E = {move(FirstOf(D))} /\ FirstOf(E) = move(FirstOf(D))
    BY <2>1, ComponentsAlike
  <2> HIDE DEF D, E
  <2>3. D \ {FirstOf(D)} = {} /\ E \ {FirstOf(E)} = {}
    BY <2>2
  <2> QED
    BY <2>3 DEF D, E
<1>2. DuplicateDiagnostics(Docs) = {}
  BY <1>1 DEF DuplicateDiagnostics
<1>3. DuplicateDiagnostics(One) = {}
  <2>1. Components(One) = Components(Docs)
    BY ComponentsAlike
  <2> QED
    BY <1>1, <2>1 DEF DuplicateDiagnostics
<1> QED
  BY <1>2, <1>3 DEF Moves

(* Components.                                                             *)
refersTo(docs, r, c) ==
    \/ r \in ValidRefs(docs) /\ c[1] \in Resolved(docs, r) /\ c = <<c[1], r.id>>
    \/ r.kind \in {"service", "strict", "soft"} /\ Has(docs, "extension", r.id) /\ c = <<"extension", r.id>>

LEMMA ReferencedAlike ==
    ASSUME Chosen, Flush, Unique, NEW c
    PROVE  c \in Referenced(One) <=> c \in Referenced(Docs)
<1>1. ASSUME NEW docs
      PROVE  c \in Referenced(docs) <=> \E r \in Refs(docs) : refersTo(docs, r, c)
  <2>1. ValidRefs(docs) \subseteq Refs(docs)
    BY DEF ValidRefs, BucketRefs
  <2>2. c \in Referenced(docs) <=>
          \/ \E r \in ValidRefs(docs) : \E k \in Resolved(docs, r) : c = <<k, r.id>>
          \/ \E r \in Refs(docs) : /\ r.kind \in {"service", "strict", "soft"}
                                   /\ Has(docs, "extension", r.id) /\ c = <<"extension", r.id>>
    BY DEF Referenced
  <2>3. \A r : (\E k \in Resolved(docs, r) : c = <<k, r.id>>) <=> c[1] \in Resolved(docs, r) /\ c = <<c[1], r.id>>
    OBVIOUS
  <2> QED
    BY <2>1, <2>2, <2>3 DEF refersTo
<1>2. ASSUME NEW q \in Refs(Docs) PROVE refersTo(One, moved(q), c) <=> refersTo(Docs, q, c)
  <2>1. q \in ValidRefs(Docs) => q.kind \in Buckets
    BY DEF ValidRefs, BucketRefs
  <2>2. /\ moved(q).kind = q.kind /\ moved(q).id = q.id
        /\ moved(q) \in ValidRefs(One) <=> q \in ValidRefs(Docs)
        /\ q.kind \in Buckets => Resolved(One, moved(q)) = Resolved(Docs, q)
    BY RefsMoved, CheckedAlike, ResolvedAlike
  <2>3. Has(One, "extension", q.id) <=> Has(Docs, "extension", q.id)
    <3>1. "extension" \in Classes
      BY DEF Classes
    <3> QED
      BY <3>1, ComponentsAlike
  <2> QED
    BY <2>1, <2>2, <2>3 DEF refersTo
<1>3. \A q \in Refs(Docs) : moved(q) \in Refs(One)
  BY RefsMoved
<1>4. \A r \in Refs(One) : \E q \in Refs(Docs) : r = moved(q)
  BY RefsMoved
<1> QED
  BY <1>1, <1>2, <1>3, <1>4

blames(docs, c, what) ==
    /\ c \in Components(docs) /\ ~isDuplicate(docs, c[1], c[2])
    /\ \/ TypeOf[c[2]] \notin DOMAIN Declared[c[1]] /\ what = "unknown type"
       \/ c[1] # "connector" /\ c \notin Referenced(docs) /\ what = "unused"

LEMMA ComponentsMove ==
    ASSUME Chosen, Flush, Unique
    PROVE  Moves(ComponentDiagnostics(Docs), ComponentDiagnostics(One))
<1>1. ASSUME NEW docs, NEW d
      PROVE  d \in ComponentDiagnostics(docs)
               <=> \E c, what : blames(docs, c, what) /\ d = diagnostic(FirstOf(Definitions(docs, c[1], c[2])), what)
  BY DEF ComponentDiagnostics, blames, diagnostic
<1>2. ASSUME NEW c, NEW what
      PROVE  /\ blames(One, c, what) <=> blames(Docs, c, what)
             /\ blames(Docs, c, what) =>
                  diagnostic(FirstOf(Definitions(One, c[1], c[2])), what)
                    = moved(diagnostic(FirstOf(Definitions(Docs, c[1], c[2])), what))
  <2>1. Components(One) = Components(Docs)
    BY ComponentsAlike
  <2>2. c \in Referenced(One) <=> c \in Referenced(Docs)
    BY ReferencedAlike
  <2>3. ASSUME c \in Components(Docs)
        PROVE  /\ ~isDuplicate(One, c[1], c[2]) /\ ~isDuplicate(Docs, c[1], c[2])
               /\ FirstOf(Definitions(One, c[1], c[2])) = move(FirstOf(Definitions(Docs, c[1], c[2])))
    <3>1. c[1] \in Classes /\ Has(Docs, c[1], c[2])
      BY <2>3, ComponentsAre
    <3> QED
      BY <3>1, ComponentsAlike
  <2>4. blames(One, c, what) <=> blames(Docs, c, what)
    BY <2>1, <2>2, <2>3 DEF blames
  <2>5. blames(Docs, c, what) => c \in Components(Docs)
    BY DEF blames
  <2> QED
    BY <2>3, <2>4, <2>5, DiagnosticMoved
<1>3. ASSUME NEW d \in ComponentDiagnostics(Docs) PROVE moved(d) \in ComponentDiagnostics(One)
  <2>1. PICK c, what : blames(Docs, c, what) /\ d = diagnostic(FirstOf(Definitions(Docs, c[1], c[2])), what)
    BY <1>1
  <2>2. blames(One, c, what) /\ moved(d) = diagnostic(FirstOf(Definitions(One, c[1], c[2])), what)
    BY <1>2, <2>1
  <2> QED
    BY <1>1, <2>2
<1>4. ASSUME NEW e \in ComponentDiagnostics(One) PROVE \E d \in ComponentDiagnostics(Docs) : e = moved(d)
  <2>1. PICK c, what : blames(One, c, what) /\ e = diagnostic(FirstOf(Definitions(One, c[1], c[2])), what)
    BY <1>1
  <2> DEFINE d == diagnostic(FirstOf(Definitions(Docs, c[1], c[2])), what)
  <2>2. blames(Docs, c, what) /\ e = moved(d)
    BY <1>2, <2>1
  <2>3. d \in ComponentDiagnostics(Docs)
    BY <1>1, <2>2
  <2> QED
    BY <2>2, <2>3
<1> QED
  BY <1>3, <1>4 DEF Moves

LEMMA ValidationMoves ==
    ASSUME Chosen, Flush, Unique
    PROVE  {moved(d) : d \in validatePipelines(Docs)} = validatePipelines(One)
<1>1. Moves(StructureDiagnostics(Docs), StructureDiagnostics(One))
  BY StructureMoves
<1>2. Moves(UndefinedDiagnostics(Docs), UndefinedDiagnostics(One))
  BY UndefinedMoves
<1>3. Moves(SignalDiagnostics(Docs), SignalDiagnostics(One))
  BY SignalMoves
<1>4. Moves(DuplicateDiagnostics(Docs), DuplicateDiagnostics(One))
  BY DuplicatesMove
<1>5. Moves(ComponentDiagnostics(Docs), ComponentDiagnostics(One))
  BY ComponentsMove
<1>6. \A D1, D2, E1, E2 : Moves(D1, E1) /\ Moves(D2, E2) => Moves(D1 \cup D2, E1 \cup E2)
  BY DEF Moves
<1>7. Moves(validatePipelines(Docs), validatePipelines(One))
  BY <1>1, <1>2, <1>3, <1>4, <1>5, <1>6 DEF validatePipelines
<1> QED
  BY <1>7 DEF Moves

LEMMA SplittingSame == Chosen => (Flush => SplitMakesNoDifference)
<1> SUFFICES ASSUME Chosen, Flush, Unique
             PROVE  {[d EXCEPT !.at = <<1, Offset[@[1]] + @[2]>>] : d \in validatePipelines(Docs)}
                      = validatePipelines(<<buildModel(Whole)>>)
  BY DEF SplitMakesNoDifference, Offset, IsOffsetTo, Whole, Seqs, Unique
<1> QED
  BY ValidationMoves DEF moved, move, One

(* However a configuration is divided into members, each starting with a   *)
(* key at its first column: without duplicates the rules of pipeline.ts    *)
(* report, of the set, exactly what they report of one file with all the   *)
(* lines, each diagnostic at the line it was.                              *)
THEOREM SplittingMakesNoDifference == Spec => [](Flush => SplitMakesNoDifference)
BY AlwaysChosen, SplittingSame, PTL

-----------------------------------------------------------------------------
(* The lines above a line, one after another.                              *)

(* A line, or the entry that is written on one.                            *)
Entered == {"new"} \cup Buckets
Row == [ind : Nat, key : STRING \cup Entered, val : [form : STRING, raw : STRING, inner : STRING], note : STRING]

LEMMA UpOf ==
    ASSUME NEW t \in Seq(Row), NEW n \in Written(t)
    PROVE  /\ n \in Nat \ {0} /\ n \in 1..Len(t) /\ n \in DOMAIN t /\ t[n].ind \in Nat /\ Len(t) \in Nat
           /\ Up(t, n) \in Nat /\ Up(t, n) < n
           /\ Up(t, n) # 0 => Up(t, n) \in Written(t) /\ encloses(t, Up(t, n), n)
           /\ \A m \in Written(t) : encloses(t, m, n) => m <= Up(t, n)
<1>1. n \in 1..Len(t) /\ n \in DOMAIN t /\ Len(t) \in Nat
  BY WrittenLines
<1>2. t[n] \in Row
  BY <1>1
<1>3. t[n].ind \in Nat /\ n \in Nat \ {0}
  BY <1>1, <1>2 DEF Row
<1> QED
  BY <1>1, <1>3, UpEncloses

LEMMA LeastLine ==
    ASSUME NEW t \in Seq(Row), NEW W, W \subseteq Written(t), W # {}
    PROVE  \E k \in W : \A j \in W : k <= j
<1>1. W \in SUBSET Nat
  BY UpOf
<1> QED
  BY <1>1, Smallest

LEMMA AboveUp ==
    ASSUME NEW t \in Seq(Row), NEW n \in Written(t)
    PROVE  /\ Above(t, n) = IF Up(t, n) = 0 THEN {} ELSE {Up(t, n)} \cup Above(t, Up(t, n))
           /\ \A x \in Above(t, n) : x \in Written(t) /\ x < n
<1>1. n \in 1..Len(t) /\ n \in 0..Len(t) /\ n \in Nat /\ Len(t) \in Nat
  BY UpOf
<1>2. PICK f : /\ Above(t, n) = f[n] \ {0} /\ f[0] = {}
               /\ \A m \in 1..n : f[m] = {Up(t, m)} \cup f[Up(t, m)]
  BY <1>1, AboveIs
<1> DEFINE Fits(m) == Above(t, m) = f[m] \ {0} /\ \A x \in f[m] \ {0} : x \in Written(t) /\ x < m
           Wrong == {m \in Written(t) : m <= n /\ ~Fits(m)}
<1> HIDE DEF Fits
<1>3. Wrong = {}
  <2> SUFFICES ASSUME Wrong # {} PROVE FALSE
    OBVIOUS
  <2>1. PICK k \in Wrong : \A j \in Wrong : k <= j
    <3>1. Wrong \subseteq Written(t)
      OBVIOUS
    <3> HIDE DEF Wrong
    <3> QED
      BY <3>1, LeastLine
  <2>2. k \in Written(t) /\ k <= n /\ ~Fits(k)
    BY <2>1
  <2>3. k \in 1..n /\ k \in 0..Len(t) /\ k \in Nat
    BY <1>1, <2>2, UpOf
  <2>4. PICK g : /\ Above(t, k) = g[k] \ {0} /\ g[0] = {}
                 /\ \A m \in 1..k : g[m] = {Up(t, m)} \cup g[Up(t, m)]
    BY <2>3, AboveIs
  <2> DEFINE Same(m) == g[m] = f[m] /\ \A x \in f[m] \ {0} : x \in Written(t) /\ x < m
             Off == {m \in Written(t) : m <= k /\ ~Same(m)}
  <2> HIDE DEF Same
  <2>5. Off = {}
    <3> SUFFICES ASSUME Off # {} PROVE FALSE
      OBVIOUS
    <3>1. PICK h \in Off : \A j \in Off : h <= j
      <4>1. Off \subseteq Written(t)
        OBVIOUS
      <4> HIDE DEF Off
      <4> QED
        BY <4>1, LeastLine
    <3>2. h \in Written(t) /\ h <= k /\ ~Same(h)
      BY <3>1
    <3> DEFINE u == Up(t, h)
    <3>3. u \in Nat /\ u < h /\ (u # 0 => u \in Written(t)) /\ h \in Nat /\ h \in 1..k /\ h \in 1..n
      BY <1>1, <2>3, <3>2, UpOf
    <3>4. f[h] = {u} \cup f[u] /\ g[h] = {u} \cup g[u]
      BY <1>2, <2>4, <3>3
    <3> HIDE DEF u
    <3>5. CASE u = 0
      <4>1. f[h] = {0} /\ g[h] = {0}
        BY <1>2, <2>4, <3>4, <3>5
      <4> QED
        BY <3>2, <4>1 DEF Same
    <3>6. CASE u # 0
      <4>1. u \in Written(t) /\ u <= k /\ u \notin Off
        <5>1. u <= k /\ ~(h <= u)
          BY <2>3, <3>3
        <5> QED
          BY <3>1, <3>3, <3>6, <5>1
      <4>2. Same(u)
        BY <4>1
      <4>3. \A x \in f[u] \ {0} : x < h
        <5> SUFFICES ASSUME NEW x \in f[u] \ {0} PROVE x < h
          OBVIOUS
        <5>1. x \in Written(t) /\ x < u
          BY <4>2 DEF Same
        <5>2. x \in Nat
          BY <5>1, UpOf
        <5> QED
          BY <3>3, <5>1, <5>2
      <4> QED
        BY <3>2, <3>3, <3>4, <3>6, <4>2, <4>3 DEF Same
    <3> QED
      BY <3>5, <3>6
  <2>6. k \notin Off /\ k <= k
    BY <2>3, <2>5
  <2>7. Same(k)
    BY <2>2, <2>6
  <2> QED
    BY <2>2, <2>4, <2>7 DEF Fits, Same
<1>4. \A m \in Written(t) : m <= n => Fits(m)
  BY <1>3
<1> DEFINE u == Up(t, n)
<1>5. u \in Nat /\ u < n /\ (u # 0 => u \in Written(t))
  BY UpOf
<1>6. f[n] = {u} \cup f[u]
  BY <1>1, <1>2
<1> HIDE DEF u
<1>7. Fits(n) /\ (u # 0 => Fits(u))
  BY <1>1, <1>4, <1>5
<1>8. Above(t, n) = IF u = 0 THEN {} ELSE {u} \cup Above(t, u)
  BY <1>2, <1>6, <1>7 DEF Fits
<1>9. \A x \in Above(t, n) : x \in Written(t) /\ x < n
  BY <1>7 DEF Fits
<1> QED
  BY <1>8, <1>9 DEF u

(* A line above another is no deeper than it, and less deep if the other   *)
(* is a key.                                                               *)
LEMMA AboveIsLess ==
    ASSUME NEW t \in Seq(Row), NEW n \in Written(t), NEW m \in Above(t, n)
    PROVE  /\ m \in Written(t) /\ m < n /\ Above(t, m) \subseteq Above(t, n)
           /\ t[m].ind <= t[n].ind /\ (~IsItem(t, n) => t[m].ind < t[n].ind)
           /\ Up(t, n) # 0 /\ (m = Up(t, n) \/ m \in Above(t, Up(t, n)))
<1> DEFINE Good(k) == \A x \in Above(t, k) : /\ Above(t, x) \subseteq Above(t, k)
                                             /\ t[x].ind <= t[k].ind /\ (~IsItem(t, k) => t[x].ind < t[k].ind)
           Wrong == {k \in Written(t) : ~Good(k)}
<1> HIDE DEF Good
<1>1. Wrong = {}
  <2> SUFFICES ASSUME Wrong # {} PROVE FALSE
    OBVIOUS
  <2>1. PICK k \in Wrong : \A j \in Wrong : k <= j
    <3>1. Wrong \subseteq Written(t)
      OBVIOUS
    <3> HIDE DEF Wrong
    <3> QED
      BY <3>1, LeastLine
  <2>2. k \in Written(t) /\ ~Good(k)
    BY <2>1
  <2>3. PICK x \in Above(t, k) : ~(/\ Above(t, x) \subseteq Above(t, k)
                                   /\ t[x].ind <= t[k].ind /\ (~IsItem(t, k) => t[x].ind < t[k].ind))
    BY <2>2 DEF Good
  <2> DEFINE u == Up(t, k)
  <2>4. u # 0 /\ Above(t, k) = {u} \cup Above(t, u)
    BY <2>2, <2>3, AboveUp
  <2>5. u \in Written(t) /\ u \in Nat /\ k \in Nat /\ u < k /\ encloses(t, u, k) /\ t[u].ind \in Nat /\ t[k].ind \in Nat
    BY <2>2, <2>4, UpOf
  <2> HIDE DEF u
  <2>6. Good(u)
    BY <2>1, <2>5
  <2>7. t[u].ind <= t[k].ind /\ (~IsItem(t, k) => t[u].ind < t[k].ind)
    BY <2>5 DEF encloses
  <2>8. CASE x = u
    BY <2>3, <2>4, <2>7, <2>8
  <2>9. CASE x \in Above(t, u)
    <3>1. x \in Written(t)
      BY <2>5, <2>9, AboveUp
    <3>2. t[x].ind \in Nat
      BY <3>1, UpOf
    <3>3. Above(t, x) \subseteq Above(t, u) /\ t[x].ind <= t[u].ind
      BY <2>6, <2>9 DEF Good
    <3> QED
      BY <2>3, <2>4, <2>5, <2>7, <3>2, <3>3
  <2> QED
    BY <2>3, <2>4, <2>8, <2>9
<1>2. Good(n)
  BY <1>1
<1> QED
  BY <1>2, AboveUp DEF Good

(* A line between another and one above it is below that, too.             *)
LEMMA BelowUp ==
    ASSUME NEW t \in Seq(Row), NEW p \in Written(t), Up(t, p) # 0, NEW n \in Written(t),
           Up(t, p) < n, n < p
    PROVE  Up(t, p) \in Above(t, n)
<1> DEFINE u == Up(t, p)
           Wrong == {k \in Written(t) : u < k /\ k < p /\ u \notin Above(t, k)}
<1>1. /\ u \in Written(t) /\ u \in Nat /\ p \in Nat /\ encloses(t, u, p) /\ t[u].ind \in Nat /\ t[p].ind \in Nat
      /\ \A m \in Written(t) : encloses(t, m, p) => m <= u
  BY UpOf
<1> HIDE DEF u
<1>2. Wrong = {}
  <2> SUFFICES ASSUME Wrong # {} PROVE FALSE
    OBVIOUS
  <2>1. PICK k \in Wrong : \A j \in Wrong : k <= j
    <3>1. Wrong \subseteq Written(t)
      OBVIOUS
    <3> HIDE DEF Wrong
    <3> QED
      BY <3>1, LeastLine
  <2>2. k \in Written(t) /\ u < k /\ k < p /\ u \notin Above(t, k)
    BY <2>1
  <2>3. k \in Nat /\ t[k].ind \in Nat /\ Up(t, k) \in Nat /\ Up(t, k) < k
    BY <2>2, UpOf
  <2>4. ~encloses(t, k, p)
    <3>1. ~(k <= u)
      BY <1>1, <2>2, <2>3
    <3> QED
      BY <1>1, <2>2, <3>1
  <2>5. encloses(t, u, k)
    <3>1. ~(t[k].ind < t[p].ind) /\ ~(t[k].ind = t[p].ind /\ IsItem(t, p) /\ ~IsItem(t, k))
      BY <2>2, <2>4 DEF encloses
    <3>2. t[u].ind < t[p].ind \/ (t[u].ind = t[p].ind /\ IsItem(t, p) /\ ~IsItem(t, u))
      BY <1>1 DEF encloses
    <3>3. t[p].ind <= t[k].ind
      BY <1>1, <2>3, <3>1
    <3>4. CASE t[u].ind < t[k].ind
      BY <2>2, <3>4 DEF encloses
    <3>5. CASE ~(t[u].ind < t[k].ind)
      <4>1. t[u].ind = t[p].ind /\ t[k].ind = t[p].ind
        BY <1>1, <2>3, <3>2, <3>3, <3>5
      <4>2. ~(t[u].ind < t[p].ind)
        BY <1>1, <4>1
      <4>3. IsItem(t, p) /\ ~IsItem(t, u) /\ IsItem(t, k)
        BY <3>1, <3>2, <4>1, <4>2
      <4>4. t[u].ind = t[k].ind
        BY <4>1
      <4> QED
        BY <2>2, <4>3, <4>4 DEF encloses
    <3> QED
      BY <3>4, <3>5
  <2>6. u <= Up(t, k)
    BY <1>1, <2>2, <2>5, UpOf
  <2>7. u # 0
    BY <1>1, UpOf
  <2>8. Up(t, k) # 0 /\ Up(t, k) \in Written(t) /\ Above(t, k) = {Up(t, k)} \cup Above(t, Up(t, k))
    <3>1. Up(t, k) # 0
      BY <1>1, <2>3, <2>6, <2>7
    <3> QED
      BY <2>2, <3>1, AboveUp, UpOf
  <2>9. u # Up(t, k) /\ u \notin Above(t, Up(t, k))
    BY <2>2, <2>8
  <2>10. u < Up(t, k) /\ Up(t, k) < p /\ ~(k <= Up(t, k))
    BY <1>1, <2>2, <2>3, <2>6, <2>9
  <2> QED
    BY <2>1, <2>8, <2>9, <2>10
<1> QED
  BY <1>2 DEF u

LEMMA BelowAbove ==
    ASSUME NEW t \in Seq(Row), NEW n \in Written(t), NEW g \in Above(t, n), NEW k \in Written(t), g < k, k < n
    PROVE  g \in Above(t, k)
<1> DEFINE Wrong == {m \in Written(t) : k < m /\ g \in Above(t, m) /\ g \notin Above(t, k)}
<1>1. Wrong = {}
  <2> SUFFICES ASSUME Wrong # {} PROVE FALSE
    OBVIOUS
  <2>1. PICK m \in Wrong : \A j \in Wrong : m <= j
    <3>1. Wrong \subseteq Written(t)
      OBVIOUS
    <3> HIDE DEF Wrong
    <3> QED
      BY <3>1, LeastLine
  <2>2. m \in Written(t) /\ k < m /\ g \in Above(t, m) /\ g \notin Above(t, k)
    BY <2>1
  <2> DEFINE u == Up(t, m)
  <2>3. u # 0 /\ u \in Written(t) /\ u \in Nat /\ u < m /\ m \in Nat /\ k \in Nat /\ (g = u \/ g \in Above(t, u))
    BY <2>2, AboveIsLess, UpOf
  <2>4. CASE k < u
    <3>1. g \in Above(t, u)
      <4>1. g # u
        <5>1. g \in Nat
          BY <2>2, AboveIsLess, UpOf
        <5> QED
          BY <2>3, <2>4, <5>1
      <4> QED
        BY <2>3, <4>1
    <3>2. ~(m <= u)
      BY <2>3
    <3> HIDE DEF u
    <3> QED
      BY <2>1, <2>2, <2>3, <2>4, <3>1, <3>2
  <2>5. CASE k = u
    <3>1. g # u
      <4>1. g \in Nat
        BY <2>2, AboveIsLess, UpOf
      <4> QED
        BY <2>3, <2>5, <4>1
    <3> QED
      BY <2>2, <2>3, <2>5, <3>1
  <2>6. CASE u < k
    <3>1. u \in Above(t, k)
      BY <2>2, <2>3, <2>6, BelowUp
    <3>2. Above(t, u) \subseteq Above(t, k)
      BY <3>1, AboveIsLess
    <3> QED
      BY <2>2, <2>3, <3>1, <3>2
  <2> QED
    BY <2>3, <2>4, <2>5, <2>6
<1> QED
  BY <1>1

-----------------------------------------------------------------------------
(* The key that holds a line, through lists; 0 is the document.            *)
IsHolder(t, n, g) ==
    /\ g = 0 \/ (g \in Above(t, n) /\ ~IsItem(t, g))
    /\ \A y \in Above(t, n) : g < y => IsItem(t, y)

LEMMA HolderExists ==
    ASSUME NEW t \in Seq(Row), NEW n \in Written(t)
    PROVE  \E g \in Nat : IsHolder(t, n, g)
<1> DEFINE Wrong == {k \in Written(t) : ~ \E g \in Nat : IsHolder(t, k, g)}
<1>1. Wrong = {}
  <2> SUFFICES ASSUME Wrong # {} PROVE FALSE
    OBVIOUS
  <2>1. PICK k \in Wrong : \A j \in Wrong : k <= j
    <3>1. Wrong \subseteq Written(t)
      OBVIOUS
    <3> HIDE DEF Wrong
    <3> QED
      BY <3>1, LeastLine
  <2>2. k \in Written(t) /\ ~ \E g \in Nat : IsHolder(t, k, g)
    BY <2>1
  <2> DEFINE u == Up(t, k)
  <2>3. /\ u \in Nat /\ u < k /\ k \in Nat /\ (u # 0 => u \in Written(t))
        /\ Above(t, k) = IF u = 0 THEN {} ELSE {u} \cup Above(t, u)
    BY <2>2, AboveUp, UpOf
  <2> HIDE DEF u
  <2>4. CASE u = 0
    <3>1. IsHolder(t, k, 0)
      BY <2>3, <2>4 DEF IsHolder
    <3> QED
      BY <2>2, <3>1
  <2>5. CASE u # 0 /\ ~IsItem(t, u)
    <3>1. \A y \in Above(t, u) : ~(u < y)
      <4> SUFFICES ASSUME NEW y \in Above(t, u) PROVE ~(u < y)
        OBVIOUS
      <4>1. y \in Written(t) /\ y < u
        BY <2>3, <2>5, AboveUp
      <4>2. y \in Nat
        BY <4>1, UpOf
      <4> QED
        BY <2>3, <4>1, <4>2
    <3>2. IsHolder(t, k, u)
      BY <2>3, <2>5, <3>1 DEF IsHolder
    <3> QED
      BY <2>2, <2>3, <3>2
  <2>6. CASE u # 0 /\ IsItem(t, u)
    <3>1. ~(k <= u)
      BY <2>3
    <3>2. PICK g \in Nat : IsHolder(t, u, g)
      BY <2>1, <2>3, <2>6, <3>1
    <3>3. IsHolder(t, k, g)
      BY <2>3, <2>6, <3>2 DEF IsHolder
    <3> QED
      BY <2>2, <3>3
  <2> QED
    BY <2>4, <2>5, <2>6
<1> QED
  BY <1>1

(* A line held by g is directly below it, or below an item held by g.      *)
LEMMA HolderUp ==
    ASSUME NEW t \in Seq(Row), NEW n \in Written(t), NEW g \in Nat, IsHolder(t, n, g)
    PROVE  \/ Up(t, n) = g
           \/ /\ Up(t, n) # 0 /\ Up(t, n) \in Written(t) /\ IsItem(t, Up(t, n)) /\ g < Up(t, n)
              /\ IsHolder(t, Up(t, n), g)
<1> DEFINE u == Up(t, n)
<1>1. /\ u \in Nat /\ u < n /\ n \in Nat /\ (u # 0 => u \in Written(t))
      /\ Above(t, n) = IF u = 0 THEN {} ELSE {u} \cup Above(t, u)
  BY AboveUp, UpOf
<1> HIDE DEF u
<1> SUFFICES ASSUME u # g PROVE u # 0 /\ u \in Written(t) /\ IsItem(t, u) /\ g < u /\ IsHolder(t, u, g)
  BY DEF u
<1>2. u # 0
  BY <1>1 DEF IsHolder
<1>3. g = 0 \/ (g \in Above(t, u) /\ ~IsItem(t, g))
  BY <1>1 DEF IsHolder
<1>4. g < u
  <2>1. g \in Above(t, u) => g < u
    BY <1>1, <1>2, AboveUp
  <2> QED
    BY <1>1, <1>2, <1>3, <2>1
<1>5. IsItem(t, u) /\ \A y \in Above(t, u) : g < y => IsItem(t, y)
  BY <1>1, <1>2, <1>4 DEF IsHolder
<1> QED
  BY <1>1, <1>2, <1>3, <1>4, <1>5 DEF IsHolder

(* On the way from a line up to one above it (or to the document) is a     *)
(* line that the latter holds.                                             *)
LEMMA OnTheWay ==
    ASSUME NEW t \in Seq(Row), NEW n \in Written(t), NEW y \in Nat, y = 0 \/ y \in Above(t, n)
    PROVE  \E z \in Written(t) : Up(t, z) = y /\ y < z /\ (z = n \/ z \in Above(t, n))
<1> DEFINE Found(k) == \E z \in Written(t) : Up(t, z) = y /\ y < z /\ (z = k \/ z \in Above(t, k))
           Wrong == {k \in Written(t) : (y = 0 \/ y \in Above(t, k)) /\ ~Found(k)}
<1> HIDE DEF Found
<1>1. Wrong = {}
  <2> SUFFICES ASSUME Wrong # {} PROVE FALSE
    OBVIOUS
  <2>1. PICK k \in Wrong : \A j \in Wrong : k <= j
    <3>1. Wrong \subseteq Written(t)
      OBVIOUS
    <3> HIDE DEF Wrong
    <3> QED
      BY <3>1, LeastLine
  <2>2. k \in Written(t) /\ (y = 0 \/ y \in Above(t, k)) /\ ~Found(k)
    BY <2>1
  <2> DEFINE u == Up(t, k)
  <2>3. /\ u \in Nat /\ u < k /\ k \in Nat /\ (u # 0 => u \in Written(t))
        /\ Above(t, k) = IF u = 0 THEN {} ELSE {u} \cup Above(t, u)
    BY <2>2, AboveUp, UpOf
  <2>4. u # y
    BY <2>2, <2>3 DEF Found
  <2> HIDE DEF u
  <2>5. u # 0 /\ (y = 0 \/ y \in Above(t, u))
    BY <2>2, <2>3, <2>4
  <2>6. ~(k <= u)
    BY <2>3
  <2>7. Found(u)
    BY <2>1, <2>3, <2>5, <2>6
  <2>8. Found(k)
    BY <2>3, <2>5, <2>7 DEF Found
  <2> QED
    BY <2>2, <2>8
<1>2. Found(n)
  BY <1>1
<1> QED
  BY <1>2 DEF Found

(* Two lines held by one key are in like places, or one is in a place like *)
(* that of an item above the other.                                        *)
LEMMA PlacedAlike ==
    ASSUME NEW t \in Seq(Row), NEW N \in Nat, NEW R, LikePlaces(t, N, R),
           NEW g \in Nat, NEW b \in Written(t), b <= N, IsHolder(t, b, g),
           NEW a \in Written(t), a <= N, IsHolder(t, a, g)
    PROVE  \/ <<a, b>> \in R
           \/ \E y \in Above(t, b) : g < y /\ IsItem(t, y) /\ <<a, y>> \in R
           \/ \E y \in Above(t, a) : IsItem(t, y) /\ <<y, b>> \in R
<1> DEFINE Alike(k) == \/ <<k, b>> \in R
                       \/ \E y \in Above(t, b) : g < y /\ IsItem(t, y) /\ <<k, y>> \in R
                       \/ \E y \in Above(t, k) : IsItem(t, y) /\ <<y, b>> \in R
           Wrong == {k \in Written(t) : k <= N /\ IsHolder(t, k, g) /\ ~Alike(k)}
<1> HIDE DEF Alike
<1>0. b \in Nat /\ \A y \in Above(t, b) : y \in Written(t) /\ y \in Nat /\ y < b /\ y <= N
  <2>1. b \in Nat
    BY UpOf
  <2> SUFFICES ASSUME NEW y \in Above(t, b) PROVE y \in Written(t) /\ y \in Nat /\ y < b /\ y <= N
    BY <2>1
  <2>2. y \in Written(t) /\ y < b
    BY AboveUp
  <2>3. y \in Nat
    BY <2>2, UpOf
  <2> QED
    BY <2>1, <2>2, <2>3
<1>1. Wrong = {}
  <2> SUFFICES ASSUME Wrong # {} PROVE FALSE
    OBVIOUS
  <2>1. PICK k \in Wrong : \A j \in Wrong : k <= j
    <3>1. Wrong \subseteq Written(t)
      OBVIOUS
    <3> HIDE DEF Wrong
    <3> QED
      BY <3>1, LeastLine
  <2>2. k \in Written(t) /\ k <= N /\ IsHolder(t, k, g) /\ ~Alike(k)
    BY <2>1
  <2> DEFINE u == Up(t, k)
  <2>3. /\ u \in Nat /\ u < k /\ k \in Nat
        /\ Above(t, k) = IF u = 0 THEN {} ELSE {u} \cup Above(t, u)
    BY <2>2, AboveUp, UpOf
  <2>4. \/ u = g
        \/ u # 0 /\ u \in Written(t) /\ IsItem(t, u) /\ g < u /\ IsHolder(t, u, g)
    BY <2>2, HolderUp
  <2>5. ASSUME NEW z \in Written(t), NEW y \in Nat, Up(t, z) = y, y < z, z = b \/ z \in Above(t, b),
               g <= y, <<k, z>> \in R
        PROVE  FALSE
    <3>1. CASE z = b
      BY <2>2, <2>5, <3>1 DEF Alike
    <3>2. CASE z \in Above(t, b)
      <4>1. g < z
        <5>1. z \in Nat
          BY UpOf
        <5> QED
          BY <2>5, <5>1
      <4>2. IsItem(t, z)
        BY <3>2, <4>1 DEF IsHolder
      <4> QED
        BY <2>2, <2>5, <3>2, <4>1, <4>2 DEF Alike
    <3> QED
      BY <2>5, <3>1, <3>2
  <2>6. CASE u = g
    <3>1. g = 0 \/ g \in Above(t, b)
      BY DEF IsHolder
    <3>2. PICK z \in Written(t) : Up(t, z) = g /\ g < z /\ (z = b \/ z \in Above(t, b))
      BY <3>1, OnTheWay
    <3>3. z <= N
      BY <1>0, <3>2
    <3>4. <<k, z>> \in R
      BY <2>2, <2>6, <3>2, <3>3 DEF LikePlaces
    <3>5. g <= g
      OBVIOUS
    <3> QED
      BY <2>5, <3>2, <3>4, <3>5
  <2>7. CASE u # 0 /\ u \in Written(t) /\ IsItem(t, u) /\ g < u /\ IsHolder(t, u, g)
    <3>1. Alike(u)
      <4>1. u <= N /\ ~(k <= u)
        BY <2>2, <2>3
      <4> QED
        BY <2>1, <2>7, <4>1
    <3>2. CASE <<u, b>> \in R
      BY <2>2, <2>3, <2>7, <3>2 DEF Alike
    <3>3. CASE \E y \in Above(t, u) : IsItem(t, y) /\ <<y, b>> \in R
      BY <2>2, <2>3, <2>7, <3>3 DEF Alike
    <3>4. CASE \E y \in Above(t, b) : g < y /\ IsItem(t, y) /\ <<u, y>> \in R
      <4>1. PICK y \in Above(t, b) : g < y /\ IsItem(t, y) /\ <<u, y>> \in R
        BY <3>4
      <4>2. y \in Written(t) /\ y \in Nat \ {0} /\ y <= N
        BY <1>0, <4>1, UpOf
      <4>3. PICK z \in Written(t) : Up(t, z) = y /\ y < z /\ (z = b \/ z \in Above(t, b))
        BY <4>1, <4>2, OnTheWay
      <4>4. z <= N
        BY <1>0, <4>3
      <4>5. <<k, z>> \in R
        BY <2>2, <2>7, <4>1, <4>2, <4>3, <4>4 DEF LikePlaces
      <4>6. g <= y
        BY <4>1, <4>2
      <4> QED
        BY <2>5, <4>2, <4>3, <4>5, <4>6
    <3> QED
      BY <3>1, <3>2, <3>3, <3>4 DEF Alike
  <2> QED
    BY <2>4, <2>6, <2>7
<1>2. Alike(a)
  BY <1>1
<1> QED
  BY <1>2 DEF Alike

(* Below a key and inside what it holds, a key leads up to one that it     *)
(* holds itself.                                                           *)
LEMMA HeldAbove ==
    ASSUME NEW t \in Seq(Row), NEW n \in Written(t), ~IsItem(t, n),
           NEW g \in Nat, g = 0 \/ (g \in Above(t, n) /\ ~IsItem(t, g))
    PROVE  \E a \in Written(t) : ~IsItem(t, a) /\ IsHolder(t, a, g) /\ (a = n \/ a \in Above(t, n))
<1> DEFINE Found(k) == \E a \in Written(t) : ~IsItem(t, a) /\ IsHolder(t, a, g) /\ (a = k \/ a \in Above(t, k))
           Wrong == {k \in Written(t) : /\ ~IsItem(t, k) /\ (g = 0 \/ (g \in Above(t, k) /\ ~IsItem(t, g)))
                                        /\ ~Found(k)}
<1> HIDE DEF Found
<1>1. Wrong = {}
  <2> SUFFICES ASSUME Wrong # {} PROVE FALSE
    OBVIOUS
  <2>1. PICK k \in Wrong : \A j \in Wrong : k <= j
    <3>1. Wrong \subseteq Written(t)
      OBVIOUS
    <3> HIDE DEF Wrong
    <3> QED
      BY <3>1, LeastLine
  <2>2. k \in Written(t) /\ ~IsItem(t, k) /\ (g = 0 \/ (g \in Above(t, k) /\ ~IsItem(t, g))) /\ ~Found(k)
    BY <2>1
  <2>3. PICK h \in Nat : IsHolder(t, k, h)
    BY <2>2, HolderExists
  <2>4. h # g
    BY <2>2, <2>3 DEF Found
  <2>5. g < h
    <3>1. ~(h < g)
      BY <2>2, <2>3 DEF IsHolder
    <3> QED
      BY <2>4, <3>1
  <2>6. h \in Above(t, k) /\ ~IsItem(t, h)
    BY <2>3, <2>5 DEF IsHolder
  <2>7. h \in Written(t) /\ h < k /\ Above(t, h) \subseteq Above(t, k) /\ k \in Nat
    BY <2>2, <2>6, AboveIsLess, UpOf
  <2>8. g = 0 \/ (g \in Above(t, h) /\ ~IsItem(t, g))
    BY <2>2, <2>5, <2>7, BelowAbove
  <2>9. ~(k <= h)
    BY <2>7
  <2>10. Found(h)
    BY <2>1, <2>6, <2>7, <2>8, <2>9
  <2> QED
    BY <2>2, <2>6, <2>7, <2>10 DEF Found
<1>2. Found(n)
  BY <1>1
<1> QED
  BY <1>2 DEF Found

(* With even indentation, no key between a key and its holder is less deep.*)
LEMMA NoneLessDeep ==
    ASSUME NEW t \in Seq(Row), NEW N \in Nat, NEW R, LikePlaces(t, N, R),
           NEW n \in Written(t), ~IsItem(t, n), n <= N, NEW g \in Nat, IsHolder(t, n, g),
           NEW m \in Written(t), ~IsItem(t, m), g < m, m < n
    PROVE  t[n].ind <= t[m].ind
<1>1. g = 0 \/ (g \in Above(t, m) /\ ~IsItem(t, g))
  BY BelowAbove DEF IsHolder
<1>2. PICK a \in Written(t) : ~IsItem(t, a) /\ IsHolder(t, a, g) /\ (a = m \/ a \in Above(t, m))
  BY <1>1, HeldAbove
<1>3. a \in Nat /\ m \in Nat /\ n \in Nat /\ t[a].ind \in Nat /\ t[m].ind \in Nat /\ t[n].ind \in Nat
  BY <1>2, UpOf
<1>4. t[a].ind <= t[m].ind /\ a <= m
  <2>1. a \in Above(t, m) => t[a].ind <= t[m].ind /\ a < m
    BY AboveIsLess
  <2> QED
    BY <1>2, <1>3, <2>1
<1>5. a <= N
  BY <1>3, <1>4
<1>6. \/ <<a, n>> \in R
      \/ \E y \in Above(t, n) : g < y /\ IsItem(t, y) /\ <<a, y>> \in R
      \/ \E y \in Above(t, a) : IsItem(t, y) /\ <<y, n>> \in R
  BY <1>2, <1>5, PlacedAlike
<1>7. CASE <<a, n>> \in R
  <2>1. t[a].ind = t[n].ind
    BY <1>2, <1>5, <1>7 DEF LikePlaces
  <2> QED
    BY <1>3, <1>4, <2>1
<1>8. CASE \E y \in Above(t, n) : g < y /\ IsItem(t, y) /\ <<a, y>> \in R
  <2>1. PICK y \in Above(t, n) : IsItem(t, y) /\ <<a, y>> \in R
    BY <1>8
  <2>2. y \in Written(t) /\ y < n
    BY AboveUp
  <2>3. y \in Nat
    BY <2>2, UpOf
  <2>4. y <= N
    BY <1>3, <2>2, <2>3
  <2> QED
    BY <1>2, <1>5, <2>1, <2>2, <2>4 DEF LikePlaces
<1>9. CASE \E y \in Above(t, a) : IsItem(t, y) /\ <<y, n>> \in R
  <2>1. PICK y \in Above(t, a) : IsItem(t, y) /\ <<y, n>> \in R
    BY <1>9
  <2>2. y \in Written(t) /\ y < a
    BY <1>2, AboveUp
  <2>3. y \in Nat
    BY <2>2, UpOf
  <2>4. y <= N
    BY <1>3, <1>5, <2>2, <2>3
  <2> QED
    BY <2>1, <2>2, <2>4 DEF LikePlaces
<1> QED
  BY <1>6, <1>7, <1>8, <1>9

(* So the climb from a key finds the keys above it, and no others.         *)
LEMMA ClimbLines ==
    ASSUME NEW t \in Seq(Row), NEW n \in Written(t), ~IsItem(t, n), Even(t, n)
    PROVE  Climb(t, n, t[n].ind) = {m \in Above(t, n) : ~IsItem(t, m)}
<1> DEFINE keys == {m \in Written(t) : m < n /\ ~IsItem(t, m) /\ t[m].ind < t[n].ind}
<1>1. Climb(t, n, t[n].ind) = {m \in keys : \A k \in keys : k > m => t[k].ind > t[m].ind}
  BY DEF Climb
<1>2. n \in Nat /\ t[n].ind \in Nat /\ \A m \in Written(t) : m \in Nat /\ t[m].ind \in Nat
  BY UpOf
<1>3. \A m \in Above(t, n) : m \in Written(t) /\ m \in Nat /\ m < n
  BY <1>2, AboveUp
<1>4. PICK R : LikePlaces(t, n, R)
  BY DEF Even
<1>5. ASSUME NEW m \in Above(t, n), ~IsItem(t, m)
      PROVE  m \in keys /\ \A k \in keys : k > m => t[k].ind > t[m].ind
  <2>1. m \in keys
    BY <1>5, AboveIsLess
  <2> SUFFICES ASSUME NEW k \in keys, k > m PROVE t[k].ind > t[m].ind
    BY <2>1
  <2>2. k \in Written(t) /\ k < n /\ ~IsItem(t, k) /\ m < k
    BY <1>2, <1>3
  <2> HIDE DEF keys
  <2>3. m \in Above(t, k)
    BY <2>2, BelowAbove
  <2>4. t[m].ind < t[k].ind
    BY <2>2, <2>3, AboveIsLess
  <2> QED
    BY <1>2, <1>3, <2>2, <2>4
<1>6. ASSUME NEW m \in keys, \A k \in keys : k > m => t[k].ind > t[m].ind
      PROVE  m \in Above(t, n)
  <2> SUFFICES ASSUME m \notin Above(t, n) PROVE FALSE
    OBVIOUS
  <2> DEFINE After == {k \in Above(t, n) \cup {n} : ~IsItem(t, k) /\ m < k}
  <2>1. m \in Written(t) /\ m \in Nat /\ m < n /\ ~IsItem(t, m) /\ t[m].ind < t[n].ind
    BY <1>2
  <2>2. PICK p \in After : \A j \in After : p <= j
    <3>1. After \subseteq Written(t)
      BY <1>3
    <3>2. n \in After
      BY <2>1
    <3> HIDE DEF After
    <3> QED
      BY <3>1, <3>2, LeastLine
  <2>3. p \in Written(t) /\ p \in Nat /\ p <= n /\ ~IsItem(t, p) /\ m < p /\ (p = n \/ p \in Above(t, n))
    BY <1>2, <1>3, <2>2
  <2>4. PICK g \in Nat : IsHolder(t, p, g)
    BY <2>3, HolderExists
  <2>5. g = 0 \/ (g \in Above(t, n) /\ ~IsItem(t, g) /\ g < p)
    <3>1. g # 0 => g \in Above(t, p) /\ ~IsItem(t, g)
      BY <2>4 DEF IsHolder
    <3>2. g # 0 => g < p
      BY <2>3, <3>1, AboveIsLess
    <3>3. p \in Above(t, n) => Above(t, p) \subseteq Above(t, n)
      BY AboveIsLess
    <3> QED
      BY <2>3, <3>1, <3>2, <3>3
  <2>6. g < m
    <3>1. CASE g = 0
      <4>1. m # 0
        BY <2>1, UpOf
      <4> QED
        BY <2>1, <3>1, <4>1
    <3>2. CASE g \in Above(t, n) /\ ~IsItem(t, g) /\ g < p
      <4>1. g \notin After
        BY <2>2, <2>3, <2>4, <3>2
      <4>2. ~(m < g)
        BY <3>2, <4>1
      <4>3. m # g
        BY <3>2
      <4> QED
        BY <2>1, <2>4, <4>2, <4>3
    <3> QED
      BY <2>5, <3>1, <3>2
  <2> HIDE DEF After
  <2>7. t[p].ind <= t[m].ind
    BY <1>2, <1>4, <2>1, <2>3, <2>4, <2>6, NoneLessDeep
  <2>8. CASE p = n
    BY <1>2, <2>1, <2>7, <2>8
  <2>9. CASE p \in Above(t, n)
    <3>1. p \in keys
      BY <1>5, <2>3, <2>9
    <3>2. t[p].ind > t[m].ind
      BY <1>6, <2>1, <2>3, <3>1
    <3> QED
      BY <1>2, <2>1, <2>3, <2>7, <3>2
  <2> QED
    BY <2>3, <2>8, <2>9
<1> QED
  BY <1>1, <1>5, <1>6

(* The keys of some lines and a later one.                                 *)
LEMMA KeysAppend ==
    ASSUME NEW t \in Seq(Row), NEW S \in SUBSET (1..Len(t)), NEW n \in 1..Len(t), \A m \in S : m < n
    PROVE  KeysOf(t, S \cup {n}) = Append(KeysOf(t, S), t[n].key)
<1> DEFINE T == S \cup {n}
           c == Cardinality(S)
<1>1. Len(t) \in Nat /\ \A m \in 1..Len(t) : t[m].key \in STRING \cup Entered
  <2>1. \A m \in 1..Len(t) : t[m] \in Row
    OBVIOUS
  <2> QED
    BY <2>1 DEF Row
<1>2. S \in SUBSET Nat /\ T \in SUBSET Nat /\ n \in Nat
  BY <1>1
<1>3. IsFiniteSet(S) /\ n \notin S
  <2>1. IsFiniteSet(1..Len(t))
    BY <1>1, FS_Interval
  <2>2. IsFiniteSet(S)
    BY <2>1, FS_Subset
  <2>3. n \notin S
    BY <1>2
  <2> QED
    BY <2>2, <2>3
<1>4. IsFiniteSet(T) /\ Cardinality(T) = c + 1 /\ c \in Nat
  BY <1>3, FS_AddElement, FS_CardinalityType
<1>5. \A v, Q : KeysOf(v, Q) = [i \in 1..Cardinality(Q) |-> v[inOrder(Q)[i]].key]
  BY DEF KeysOf, InOrder, inOrder, lower
<1>6. \A x \in S : lower(T, x) = lower(S, x)
  <2> SUFFICES ASSUME NEW x \in S PROVE lower(T, x) = lower(S, x)
    OBVIOUS
  <2>1. {y \in T : y < x} = {y \in S : y < x}
    BY <1>2
  <2> QED
    BY <2>1 DEF lower
<1>7. lower(T, n) = c
  <2>1. ~(n < n)
    BY <1>2
  <2>2. {y \in T : y < n} = S
    BY <2>1
  <2> QED
    BY <2>2 DEF lower
<1> HIDE DEF T, c
<1>8. /\ \A k \in 1..c + 1 : inOrder(T)[k] \in T /\ lower(T, inOrder(T)[k]) = k - 1
      /\ \A x, y \in T : lower(T, x) = lower(T, y) => x = y
  BY <1>2, <1>4, InOrderIs
<1>9. \A k \in 1..c : inOrder(S)[k] \in S /\ lower(S, inOrder(S)[k]) = k - 1
  BY <1>2, <1>3, InOrderIs DEF c
<1>10. ASSUME NEW k \in 1..c PROVE inOrder(T)[k] = inOrder(S)[k] /\ k \in 1..c + 1
  <2>1. k \in 1..c + 1
    BY <1>4
  <2>2. inOrder(S)[k] \in T /\ lower(T, inOrder(S)[k]) = k - 1
    BY <1>6, <1>9 DEF T
  <2> QED
    BY <1>8, <2>1, <2>2
<1>11. inOrder(T)[c + 1] = n
  <2>1. c + 1 \in 1..c + 1 /\ c + 1 - 1 = c
    BY <1>4
  <2>2. n \in T
    BY DEF T
  <2>3. inOrder(T)[c + 1] \in T /\ lower(T, inOrder(T)[c + 1]) = c
    <3>1. PICK k \in 1..c + 1 : k = c + 1
      BY <2>1
    <3>2. k - 1 = c
      BY <1>4, <3>1
    <3>3. inOrder(T)[k] \in T /\ lower(T, inOrder(T)[k]) = k - 1
      BY <1>8
    <3> QED
      BY <3>1, <3>2, <3>3
  <2> QED
    BY <1>7, <1>8, <2>2, <2>3
<1>12. KeysOf(t, T) = [i \in 1..c + 1 |-> t[inOrder(T)[i]].key]
  BY <1>4, <1>5
<1>13. KeysOf(t, S) = [i \in 1..c |-> t[inOrder(S)[i]].key] /\ \A i \in 1..c : t[inOrder(S)[i]].key \in STRING \cup Entered
  BY <1>1, <1>5, <1>9 DEF c
<1>14. KeysOf(t, S) \in Seq(STRING \cup Entered) /\ Len(KeysOf(t, S)) = c
  BY <1>4, <1>13
<1> DEFINE whole == Append(KeysOf(t, S), t[n].key)
<1>15. /\ whole \in Seq(STRING \cup Entered) /\ Len(whole) = c + 1 /\ whole[c + 1] = t[n].key
       /\ \A i \in 1..c : whole[i] = KeysOf(t, S)[i]
  BY <1>1, <1>4, <1>14
<1>16. whole = [i \in 1..c + 1 |-> whole[i]]
  BY <1>15
<1> HIDE DEF whole
<1>17. ASSUME NEW i \in 1..c + 1 PROVE whole[i] = t[inOrder(T)[i]].key
  <2>1. CASE i \in 1..c
    BY <1>10, <1>13, <1>15, <2>1
  <2>2. CASE i = c + 1
    BY <1>11, <1>15, <2>2
  <2> QED
    BY <1>4, <2>1, <2>2
<1> QED
  BY <1>12, <1>16, <1>17 DEF T, whole

LEMMA KeysAlike ==
    ASSUME NEW t, NEW v, NEW S \in SUBSET Nat, IsFiniteSet(S), \A m \in S : t[m].key = v[m].key
    PROVE  KeysOf(t, S) = KeysOf(v, S)
<1>1. \A w : KeysOf(w, S) = [i \in 1..Cardinality(S) |-> w[inOrder(S)[i]].key]
  BY DEF KeysOf, InOrder, inOrder, lower
<1>2. \A i \in 1..Cardinality(S) : inOrder(S)[i] \in S
  BY InOrderIs
<1>3. \A i \in 1..Cardinality(S) : t[inOrder(S)[i]].key = v[inOrder(S)[i]].key
  BY <1>2
<1> QED
  BY <1>1, <1>3

(* The keys that the climb collects from a key, and the key: those of the  *)
(* tree.                                                                   *)
LEMMA ClimbKeys ==
    ASSUME NEW t \in Seq(Row), NEW n \in Written(t), ~IsItem(t, n), Even(t, n)
    PROVE  EnclosingKeys(t, n) = Append(KeysOf(t, Climb(t, n, t[n].ind)), t[n].key)
<1> DEFINE S == {m \in Above(t, n) : ~IsItem(t, m)}
<1>1. Climb(t, n, t[n].ind) = S
  BY ClimbLines
<1>2. {m \in Above(t, n) \cup {n} : ~IsItem(t, m)} = S \cup {n}
  OBVIOUS
<1>3. n \in 1..Len(t)
  BY UpOf
<1>4. \A m \in S : m \in 1..Len(t) /\ m < n
  <2> SUFFICES ASSUME NEW m \in S PROVE m \in 1..Len(t) /\ m < n
    OBVIOUS
  <2>1. m \in Written(t) /\ m < n
    BY AboveUp
  <2> QED
    BY <2>1, UpOf
<1>5. EnclosingKeys(t, n) = KeysOf(t, S \cup {n})
  BY <1>2 DEF EnclosingKeys
<1> HIDE DEF S
<1>6. S \in SUBSET (1..Len(t))
  BY <1>4
<1> QED
  BY <1>1, <1>3, <1>4, <1>5, <1>6, KeysAppend

LEMMA LineIndented ==
    ASSUME NEW r \in Row, NEW col \in Nat
    PROVE  [r EXCEPT !.ind = col] \in Row /\ [r EXCEPT !.ind = col].ind = col
BY DEF Row

LEMMA LineKeyed ==
    ASSUME NEW r \in Row, NEW key \in STRING \cup Entered
    PROVE  [r EXCEPT !.key = key] \in Row /\ [r EXCEPT !.key = key].key = key /\ [r EXCEPT !.key = key].ind = r.ind
BY DEF Row

(* A text with an entry written on a blank line.                           *)
LEMMA InsertedIs ==
    ASSUME NEW t \in Seq(Row), NEW l \in DOMAIN t, t[l].key = Blank, NEW col \in Nat, NEW key \in Entered
    PROVE  LET v == Inserted(t, l, col, key)
           IN /\ v \in Seq(Row) /\ Len(v) = Len(t) /\ l \in Written(v) /\ ~IsItem(v, l)
              /\ v[l].ind = col /\ v[l].key = key /\ l \in 1..Len(t)
              /\ l \notin Written(t) /\ Written(v) = Written(t) \cup {l}
              /\ \A m \in 1..Len(t) : m # l => v[m] = t[m]
<1> DEFINE v == Inserted(t, l, col, key)
           y == [t[l] EXCEPT !.ind = col]
           x == [y EXCEPT !.key = key]
<1>1. l \in 1..Len(t) /\ DOMAIN t = 1..Len(t) /\ Len(t) \in Nat
  OBVIOUS
<1>2. t[l] \in Row
  BY <1>1
<1>3. x \in Row /\ x.ind = col /\ x.key = key
  <2>1. y \in Row /\ y.ind = col
    BY <1>2, LineIndented
  <2> HIDE DEF y
  <2>2. key \in STRING \cup Entered
    OBVIOUS
  <2> QED
    BY <2>1, <2>2, LineKeyed
<1>4. v = [t EXCEPT ![l] = x]
  BY DEF Inserted
<1> HIDE DEF x
<1>5. v \in Seq(Row) /\ Len(v) = Len(t) /\ v[l] = x /\ \A m \in 1..Len(t) : m # l => v[m] = t[m]
  BY <1>1, <1>3, <1>4
<1>6. DOMAIN v = DOMAIN t
  BY <1>4
<1> HIDE DEF v
<1>7. key \notin {Blank, Comment, Dash}
  BY DEF Entered, Buckets, Blank, Comment, Dash
<1>8. l \notin Written(t) /\ l \in Written(v) /\ ~IsItem(v, l)
  BY <1>1, <1>3, <1>5, <1>6, <1>7 DEF Written, IsItem
<1>9. Written(v) = Written(t) \cup {l}
  BY <1>1, <1>5, <1>6, <1>8 DEF Written
<1> QED
  BY <1>1, <1>3, <1>5, <1>8, <1>9 DEF v

(* The climb does not see the entry.                                       *)
LEMMA PathIs ==
    ASSUME NEW t \in Seq(Row), NEW l \in DOMAIN t, t[l].key = Blank, NEW col \in Nat, CursorIndent(t, l, col) \in Nat
    PROVE  LET v == Inserted(t, l, CursorIndent(t, l, col), "new")
           IN pathAtPosition(t, l, col) = KeysOf(v, Climb(v, l, v[l].ind))
<1> DEFINE ci == CursorIndent(t, l, col)
           v == Inserted(t, l, ci, "new")
<1>1. /\ v \in Seq(Row) /\ l \in Written(v) /\ ~IsItem(v, l) /\ v[l].ind = ci
      /\ l \notin Written(t) /\ Written(v) = Written(t) \cup {l}
      /\ \A m \in 1..Len(t) : m # l => v[m] = t[m]
  <2>1. "new" \in Entered
    BY DEF Entered
  <2>2. ci \in Nat
    OBVIOUS
  <2> HIDE DEF ci
  <2> QED
    BY <2>1, <2>2, InsertedIs
<1>2. pathAtPosition(t, l, col) = KeysOf(t, Climb(t, l, ci))
  BY DEF pathAtPosition
<1> HIDE DEF v, ci
<1>3. \A m \in Written(t) : m \in 1..Len(t) /\ m \in Nat /\ m # l /\ v[m] = t[m]
  BY <1>1, UpOf
<1>4. {m \in Written(t) : m < l /\ ~IsItem(t, m) /\ t[m].ind < ci}
        = {m \in Written(v) : m < l /\ ~IsItem(v, m) /\ v[m].ind < ci}
  <2>1. \A m \in Written(v) : m < l => m \in Written(t)
    BY <1>1
  <2> QED
    BY <1>1, <1>3, <2>1 DEF IsItem
<1> DEFINE keys == {m \in Written(t) : m < l /\ ~IsItem(t, m) /\ t[m].ind < ci}
<1>5. Climb(t, l, ci) = {m \in keys : \A k \in keys : k > m => t[k].ind > t[m].ind}
  BY DEF Climb
<1>6. Climb(v, l, ci) = {m \in keys : \A k \in keys : k > m => v[k].ind > v[m].ind}
  BY <1>4 DEF Climb
<1>7. \A m \in keys : m \in Written(t)
  OBVIOUS
<1> HIDE DEF keys
<1>8. Climb(v, l, ci) = Climb(t, l, ci)
  BY <1>3, <1>5, <1>6, <1>7
<1> DEFINE S == Climb(t, l, ci)
<1>9. S \in SUBSET Nat /\ S \in SUBSET (1..Len(t)) /\ \A m \in S : v[m] = t[m]
  BY <1>3, <1>5, <1>7
<1> HIDE DEF S
<1>10. IsFiniteSet(S)
  <2>1. IsFiniteSet(1..Len(t))
    BY FS_Interval
  <2> QED
    BY <1>9, <2>1, FS_Subset
<1>11. KeysOf(v, S) = KeysOf(t, S)
  BY <1>9, <1>10, KeysAlike
<1> QED
  BY <1>1, <1>2, <1>8, <1>11 DEF v, S, ci

LEMMA PathKeys ==
    ASSUME NEW t \in Seq(Row), NEW l \in DOMAIN t, t[l].key = Blank, NEW col \in Nat,
           Even(Inserted(t, l, col, "new"), l), CursorIndent(t, l, col) = col
    PROVE  Append(pathAtPosition(t, l, col), "new") = EnclosingKeys(Inserted(t, l, col, "new"), l)
<1> DEFINE v == Inserted(t, l, col, "new")
<1>1. v \in Seq(Row) /\ l \in Written(v) /\ ~IsItem(v, l) /\ v[l].ind = col /\ v[l].key = "new"
  <2>1. "new" \in Entered
    BY DEF Entered
  <2> QED
    BY <2>1, InsertedIs
<1>2. Even(v, l)
  OBVIOUS
<1>3. pathAtPosition(t, l, col) = KeysOf(v, Climb(v, l, v[l].ind))
  BY PathIs
<1> HIDE DEF v
<1>4. EnclosingKeys(v, l) = Append(KeysOf(v, Climb(v, l, v[l].ind)), v[l].key)
  BY <1>1, <1>2, ClimbKeys
<1> QED
  BY <1>1, <1>3, <1>4 DEF v

LEMMA LinesAreRows ==
    ASSUME NEW t \in Seq(Line)
    PROVE  t \in Seq(Row)
<1>1. \A x \in Line : x \in Row
  BY DEF Line, Row
<1>2. Len(t) \in Nat /\ \A i \in 1..Len(t) : t[i] \in Line
  OBVIOUS
<1>3. \A i \in 1..Len(t) : t[i] \in Row
  BY <1>1, <1>2
<1>4. t = [i \in 1..Len(t) |-> t[i]]
  OBVIOUS
<1> QED
  BY <1>2, <1>3, <1>4

LEMMA ClimbFinds == Chosen => (Layout => ClimbFindsEnclosingKeys)
<1> SUFFICES ASSUME Chosen, Layout, NEW i \in 1..Members
             PROVE  LET t == TextOf(i) IN
                    /\ \A l \in {n \in DOMAIN t : t[n].key = Blank} : \A col \in EntryColumns(t, l) :
                         LET new == Inserted(t, l, col, "new") IN
                         CursorIndent(t, l, col) = col
                           => Append(pathAtPosition(t, l, col), "new") = EnclosingKeys(new, l)
                    /\ \A n \in Written(t) : ~IsItem(t, n) => valueContextAtPosition(t, n) = EnclosingKeys(t, n)
  BY DEF ClimbFindsEnclosingKeys
<1> DEFINE t == TextOf(i)
<1>1. t \in Seq(Row) /\ Evenly(t)
  <2>1. t \in Seq(Line)
    BY DocsAre
  <2> QED
    BY <2>1, LinesAreRows DEF Layout
<1> HIDE DEF t
<1>2. ASSUME NEW l \in DOMAIN t, t[l].key = Blank, NEW col \in EntryColumns(t, l), CursorIndent(t, l, col) = col
      PROVE  Append(pathAtPosition(t, l, col), "new") = EnclosingKeys(Inserted(t, l, col, "new"), l)
  <2>1. col \in Nat
    BY DEF EntryColumns
  <2>2. Even(Inserted(t, l, col, "new"), l)
    BY <1>1, <1>2 DEF Evenly
  <2> QED
    BY <1>1, <1>2, <2>1, <2>2, PathKeys
<1>3. ASSUME NEW n \in Written(t), ~IsItem(t, n)
      PROVE  valueContextAtPosition(t, n) = EnclosingKeys(t, n)
  <2>1. Even(t, n)
    BY <1>1, <1>3 DEF Evenly
  <2> QED
    BY <1>1, <1>3, <2>1, ClimbKeys DEF valueContextAtPosition
<1> QED
  BY <1>2, <1>3 DEF t

(* In texts that are indented evenly, what the climb over raw lines takes  *)
(* for the keys around a cursor (yaml-model.ts:640-656, 699-708) are the   *)
(* keys that enclose it in the parser's tree, however deep, and whatever   *)
(* lists, comments and blank lines it passes over.                         *)
THEOREM ClimbAlwaysFindsKeys == Spec => [](Layout => ClimbFindsEnclosingKeys)
BY AlwaysChosen, ClimbFinds, PTL

-----------------------------------------------------------------------------
(* The keys of a pipeline around a cursor.                                 *)

(* The keys above a line: those above the line that holds it, and its key. *)
LEMMA KeysStep ==
    ASSUME NEW t \in Seq(Row), NEW n \in Written(t)
    PROVE  /\ KeysOf(t, Above(t, n)) \in Seq(STRING \cup Entered)
           /\ Up(t, n) = 0 => KeysOf(t, Above(t, n)) = <<>>
           /\ Up(t, n) # 0 => KeysOf(t, Above(t, n)) = Append(KeysOf(t, Above(t, Up(t, n))), t[Up(t, n)].key)
<1>1. Len(t) \in Nat /\ \A m \in Written(t) : m \in 1..Len(t) /\ t[m].key \in STRING \cup Entered
  <2>1. \A m \in Written(t) : m \in 1..Len(t) /\ Len(t) \in Nat
    BY UpOf
  <2>2. \A m \in 1..Len(t) : t[m] \in Row
    OBVIOUS
  <2> QED
    BY <2>1, <2>2 DEF Row
<1>2. ASSUME NEW S \in SUBSET Written(t)
      PROVE  KeysOf(t, S) \in Seq(STRING \cup Entered) /\ (S = {} => KeysOf(t, S) = <<>>)
  <2>1. S \in SUBSET Nat /\ IsFiniteSet(S)
    <3>1. S \in SUBSET (1..Len(t)) /\ IsFiniteSet(1..Len(t))
      BY <1>1, FS_Interval
    <3>2. S \in SUBSET Nat
      BY <3>1
    <3> QED
      BY <3>1, <3>2, FS_Subset
  <2>2. KeysOf(t, S) = [i \in 1..Cardinality(S) |-> t[inOrder(S)[i]].key]
    BY DEF KeysOf, InOrder, inOrder, lower
  <2>3. Cardinality(S) \in Nat /\ \A i \in 1..Cardinality(S) : inOrder(S)[i] \in S
    BY <2>1, InOrderIs, FS_CardinalityType
  <2>4. \A i \in 1..Cardinality(S) : t[inOrder(S)[i]].key \in STRING \cup Entered
    BY <1>1, <2>3
  <2>5. KeysOf(t, S) \in Seq(STRING \cup Entered)
    BY <2>2, <2>3, <2>4
  <2>6. S = {} => Cardinality(S) = 0
    BY FS_EmptySet
  <2>7. S = {} => KeysOf(t, S) = <<>>
    BY <2>2, <2>6
  <2> QED
    BY <2>5, <2>7
<1> DEFINE u == Up(t, n)
<1>3. Above(t, n) = IF u = 0 THEN {} ELSE {u} \cup Above(t, u)
  BY AboveUp
<1>4. \A x \in Above(t, n) : x \in Written(t)
  BY AboveUp
<1>5. ASSUME u # 0 PROVE KeysOf(t, Above(t, n)) = Append(KeysOf(t, Above(t, u)), t[u].key)
  <2>1. u \in Written(t)
    BY <1>5, UpOf
  <2> HIDE DEF u
  <2>2. \A x \in Above(t, u) : x \in Written(t) /\ x < u
    BY <2>1, AboveUp
  <2>3. Above(t, u) \in SUBSET (1..Len(t)) /\ u \in 1..Len(t)
    BY <1>1, <2>1, <2>2
  <2>4. Above(t, n) = Above(t, u) \cup {u}
    BY <1>3, <1>5
  <2> QED
    BY <2>2, <2>3, <2>4, KeysAppend
<1> HIDE DEF u
<1>6. KeysOf(t, Above(t, n)) \in Seq(STRING \cup Entered)
  BY <1>2, <1>4
<1>7. u = 0 => KeysOf(t, Above(t, n)) = <<>>
  BY <1>2, <1>3
<1> QED
  BY <1>5, <1>6, <1>7 DEF u

LEMMA AppendLen ==
    ASSUME NEW K, NEW s \in Seq(K), NEW e \in K, NEW r, r = Append(s, e)
    PROVE  /\ Len(s) \in Nat /\ Len(r) = Len(s) + 1 /\ r[Len(s) + 1] = e
           /\ \A i \in 1..Len(s) : r[i] = s[i]
  OBVIOUS

LEMMA OneLess ==
    ASSUME NEW x, x \in Nat, NEW z, z \in Nat, NEW y, y = z + 1, y = x + 1
    PROVE  x = z
  OBVIOUS

keysAbove(t, m) == KeysOf(t, Above(t, m))

ThreeUp(t, n, path, a, b, c) ==
    /\ a \in Above(t, n) /\ b \in Above(t, n) /\ c \in Above(t, n)
    /\ Up(t, n) = c /\ Up(t, c) = b /\ Up(t, b) = a /\ Up(t, a) = 0
    /\ path[1] = t[a].key /\ path[2] = t[b].key /\ path[3] = t[c].key

LEMMA ThreeAbove ==
    ASSUME NEW t \in Seq(Row), NEW n \in Written(t), Len(KeysOf(t, Above(t, n))) = 3
    PROVE  \E a, b, c \in Written(t) : ThreeUp(t, n, KeysOf(t, Above(t, n)), a, b, c)
<1>1. ASSUME NEW m \in Written(t)
      PROVE  /\ keysAbove(t, m) \in Seq(STRING \cup Entered)
             /\ Up(t, m) = 0 => keysAbove(t, m) = <<>>
             /\ Up(t, m) # 0 => /\ Up(t, m) \in Written(t) /\ keysAbove(t, m) = Append(keysAbove(t, Up(t, m)), t[Up(t, m)].key)
                                /\ Above(t, m) = {Up(t, m)} \cup Above(t, Up(t, m))
  BY <1>1, KeysStep, AboveUp, UpOf DEF keysAbove
<1>2. ASSUME NEW m \in Written(t), Len(keysAbove(t, m)) # 0
      PROVE  /\ Up(t, m) # 0 /\ Up(t, m) \in Written(t) /\ t[Up(t, m)].key \in STRING \cup Entered
             /\ keysAbove(t, m) = Append(keysAbove(t, Up(t, m)), t[Up(t, m)].key)
             /\ keysAbove(t, Up(t, m)) \in Seq(STRING \cup Entered)
             /\ Above(t, m) = {Up(t, m)} \cup Above(t, Up(t, m))
  <2>1. Up(t, m) # 0
    <3>1. keysAbove(t, m) # <<>>
      BY <1>2
    <3> QED
      BY <1>1, <3>1
  <2>2. Up(t, m) \in Written(t)
    BY <1>1, <2>1
  <2>3. t[Up(t, m)] \in Row
    BY <2>2, UpOf
  <2> QED
    BY <1>1, <2>1, <2>2, <2>3 DEF Row
<1> DEFINE c == Up(t, n)
           b == Up(t, c)
           a == Up(t, b)
<1>3. /\ c # 0 /\ c \in Written(t) /\ t[c].key \in STRING \cup Entered /\ keysAbove(t, n) = Append(keysAbove(t, c), t[c].key)
      /\ keysAbove(t, c) \in Seq(STRING \cup Entered) /\ Above(t, n) = {c} \cup Above(t, c) /\ Len(keysAbove(t, n)) = 3
  <2>1. Len(keysAbove(t, n)) = 3 /\ Len(keysAbove(t, n)) # 0
    BY DEF keysAbove
  <2>2. /\ Up(t, n) # 0 /\ Up(t, n) \in Written(t) /\ t[Up(t, n)].key \in STRING \cup Entered
        /\ keysAbove(t, n) = Append(keysAbove(t, Up(t, n)), t[Up(t, n)].key)
        /\ keysAbove(t, Up(t, n)) \in Seq(STRING \cup Entered)
        /\ Above(t, n) = {Up(t, n)} \cup Above(t, Up(t, n))
    BY <1>2, <2>1
  <2> QED
    BY <2>1, <2>2
<1>4. Len(keysAbove(t, c)) = 2 /\ keysAbove(t, n)[3] = t[c].key /\ keysAbove(t, n)[1] = keysAbove(t, c)[1] /\ keysAbove(t, n)[2] = keysAbove(t, c)[2]
  <2>1. /\ Len(keysAbove(t, c)) \in Nat /\ Len(keysAbove(t, n)) = Len(keysAbove(t, c)) + 1 /\ keysAbove(t, n)[Len(keysAbove(t, c)) + 1] = t[c].key
        /\ \A i \in 1..Len(keysAbove(t, c)) : keysAbove(t, n)[i] = keysAbove(t, c)[i]
    BY <1>3, AppendLen
  <2>2. Len(keysAbove(t, c)) = 2
    <3>1. Len(keysAbove(t, n)) = 3
      BY <1>3
    <3>2. Len(keysAbove(t, c)) \in Nat /\ Len(keysAbove(t, n)) = Len(keysAbove(t, c)) + 1
      BY <2>1
    <3>3. Len(keysAbove(t, n)) = 2 + 1 /\ 2 \in Nat
      BY <3>1
    <3> QED
      BY <3>2, <3>3, OneLess
  <2> QED
    BY <2>1, <2>2
<1> HIDE DEF c
<1>5. /\ b # 0 /\ b \in Written(t) /\ t[b].key \in STRING \cup Entered /\ keysAbove(t, c) = Append(keysAbove(t, b), t[b].key)
      /\ keysAbove(t, b) \in Seq(STRING \cup Entered) /\ Above(t, c) = {b} \cup Above(t, b)
  BY <1>2, <1>3, <1>4
<1>6. Len(keysAbove(t, b)) = 1 /\ keysAbove(t, c)[2] = t[b].key /\ keysAbove(t, c)[1] = keysAbove(t, b)[1]
  <2>1. /\ Len(keysAbove(t, b)) \in Nat /\ Len(keysAbove(t, c)) = Len(keysAbove(t, b)) + 1 /\ keysAbove(t, c)[Len(keysAbove(t, b)) + 1] = t[b].key
        /\ \A i \in 1..Len(keysAbove(t, b)) : keysAbove(t, c)[i] = keysAbove(t, b)[i]
    BY <1>5, AppendLen
  <2>2. Len(keysAbove(t, b)) = 1
    <3>1. Len(keysAbove(t, c)) = 2
      BY <1>4
    <3>2. Len(keysAbove(t, b)) \in Nat /\ Len(keysAbove(t, c)) = Len(keysAbove(t, b)) + 1
      BY <2>1
    <3>3. Len(keysAbove(t, c)) = 1 + 1 /\ 1 \in Nat
      BY <3>1
    <3> QED
      BY <3>2, <3>3, OneLess
  <2> QED
    BY <2>1, <2>2
<1> HIDE DEF b
<1>7. /\ a # 0 /\ a \in Written(t) /\ t[a].key \in STRING \cup Entered /\ keysAbove(t, b) = Append(keysAbove(t, a), t[a].key)
      /\ keysAbove(t, a) \in Seq(STRING \cup Entered) /\ Above(t, b) = {a} \cup Above(t, a)
  BY <1>2, <1>5, <1>6
<1>8. Len(keysAbove(t, a)) = 0 /\ keysAbove(t, b)[1] = t[a].key
  <2>1. /\ Len(keysAbove(t, a)) \in Nat /\ Len(keysAbove(t, b)) = Len(keysAbove(t, a)) + 1 /\ keysAbove(t, b)[Len(keysAbove(t, a)) + 1] = t[a].key
    BY <1>7, AppendLen
  <2>2. Len(keysAbove(t, a)) = 0
    <3>1. Len(keysAbove(t, b)) = 1
      BY <1>6
    <3>2. Len(keysAbove(t, a)) \in Nat /\ Len(keysAbove(t, b)) = Len(keysAbove(t, a)) + 1
      BY <2>1
    <3>3. Len(keysAbove(t, b)) = 0 + 1 /\ 0 \in Nat
      BY <3>1
    <3> QED
      BY <3>2, <3>3, OneLess
  <2> QED
    BY <2>1, <2>2
<1> HIDE DEF a
<1>9. Up(t, a) = 0
  <2>1. Up(t, a) # 0 => keysAbove(t, a) = Append(keysAbove(t, Up(t, a)), t[Up(t, a)].key) /\ keysAbove(t, Up(t, a)) \in Seq(STRING \cup Entered)
    BY <1>1, <1>7
  <2>2. Up(t, a) # 0 => Len(keysAbove(t, a)) # 0
    BY <2>1
  <2> QED
    BY <1>8, <2>2
<1>10. ThreeUp(t, n, keysAbove(t, n), a, b, c)
  BY <1>3, <1>4, <1>5, <1>6, <1>7, <1>8, <1>9 DEF ThreeUp, a, b, c
<1> QED
  BY <1>3, <1>5, <1>7, <1>10 DEF keysAbove

-----------------------------------------------------------------------------
first(t, n, k) ==
    {m \in Children(t, n) : t[m].key = k /\ \A j \in Children(t, n) : t[j].key = k => m <= j}
IsDescent(t, path, f) ==
    f = [i \in 0..Len(path) |-> IF i = 0 THEN {0} ELSE UNION {first(t, n, path[i]) : n \in f[i - 1]}]

Descends(t, path, a, b, c) ==
    first(t, 0, path[1]) = {a} /\ first(t, a, path[2]) = {b} /\ first(t, b, path[3]) = {c}

(* A path of three keys leads to the map below the third, if none of the   *)
(* keys is repeated.                                                       *)
LEMMA SiblingsAre ==
    ASSUME NEW t, NEW path, Len(path) = 3, NEW a, NEW b, NEW c, Descends(t, path, a, b, c)
    PROVE  siblingKeysAt(t, path) = {t[m].key : m \in Children(t, c)} \ {Dash}
<1> DEFINE f == CHOOSE g : IsDescent(t, path, g)
           h == [i \in 0..3 |-> IF i = 0 THEN {0} ELSE IF i = 1 THEN {a} ELSE IF i = 2 THEN {b} ELSE {c}]
<1>0. first(t, 0, path[1]) = {a} /\ first(t, a, path[2]) = {b} /\ first(t, b, path[3]) = {c}
  BY DEF Descends
<1>1. siblingKeysAt(t, path) = {t[m].key : m \in UNION {Children(t, n) : n \in f[Len(path)]}} \ {Dash}
  BY DEF siblingKeysAt, IsDescent, first
<1>2. ASSUME NEW i \in 0..3
      PROVE  h[i] = IF i = 0 THEN {0} ELSE UNION {first(t, n, path[i]) : n \in h[i - 1]}
  <2>1. CASE i = 0
    BY <2>1
  <2>2. CASE i = 1
    <3>1. h[i] = {a} /\ h[i - 1] = {0}
      BY <2>2
    <3> HIDE DEF h
    <3> QED
      BY <1>0, <2>2, <3>1
  <2>3. CASE i = 2
    <3>1. h[i] = {b} /\ h[i - 1] = {a}
      BY <2>3
    <3> HIDE DEF h
    <3> QED
      BY <1>0, <2>3, <3>1
  <2>4. CASE i = 3
    <3>1. h[i] = {c} /\ h[i - 1] = {b}
      BY <2>4
    <3> HIDE DEF h
    <3> QED
      BY <1>0, <2>4, <3>1
  <2> QED
    BY <2>1, <2>2, <2>3, <2>4
<1>3. h = [i \in 0..3 |-> h[i]]
  OBVIOUS
<1> HIDE DEF h
<1>4. IsDescent(t, path, h)
  BY <1>2, <1>3 DEF IsDescent
<1>5. IsDescent(t, path, f)
  BY <1>4
<1> HIDE DEF f
<1>6. \A i \in 0..3 : f[i] = IF i = 0 THEN {0} ELSE UNION {first(t, n, path[i]) : n \in f[i - 1]}
  BY <1>5 DEF IsDescent
<1>7. f[0] = {0}
  BY <1>6
<1>8. f[1] = UNION {first(t, n, path[1]) : n \in f[0]}
  BY <1>6
<1>9. f[1] = {a}
  BY <1>0, <1>7, <1>8
<1>10. f[2] = UNION {first(t, n, path[2]) : n \in f[1]}
  BY <1>6
<1>11. f[2] = {b}
  BY <1>0, <1>9, <1>10
<1>12. f[3] = UNION {first(t, n, path[3]) : n \in f[2]}
  BY <1>6
<1>13. f[3] = {c}
  BY <1>0, <1>11, <1>12
<1>14. UNION {Children(t, n) : n \in f[Len(path)]} = Children(t, c)
  BY <1>13
<1> QED
  BY <1>1, <1>14

LEMMA FirstIs ==
    ASSUME NEW t \in Seq(Row), NEW n, NEW p \in Children(t, n), \A k \in Children(t, n) : t[k].key = t[p].key => k = p
    PROVE  first(t, n, t[p].key) = {p}
<1>1. p \in Nat
  BY UpOf DEF Children
<1>2. p <= p
  BY <1>1
<1> QED
  BY <1>2 DEF first

(* An entry changes what holds no line before it, and it holds those that  *)
(* something else held.                                                    *)
LEMMA EnteredUp ==
    ASSUME NEW t \in Seq(Row), NEW l \in DOMAIN t, t[l].key = Blank, NEW col \in Nat, NEW key \in Entered
    PROVE  LET v == Inserted(t, l, col, key)
           IN \A m \in Written(t) : m < l \/ Up(v, m) # l => Up(t, m) = Up(v, m)
<1> DEFINE v == Inserted(t, l, col, key)
<1>1. /\ v \in Seq(Row) /\ l \in Written(v) /\ l \notin Written(t) /\ Written(v) = Written(t) \cup {l}
      /\ \A m \in 1..Len(t) : m # l => v[m] = t[m]
  BY InsertedIs
<1> HIDE DEF v
<1>2. \A m \in Written(t) : m \in DOMAIN t /\ m \in Nat /\ m \in Written(v) /\ v[m] = t[m]
  BY <1>1, UpOf
<1> SUFFICES ASSUME NEW m \in Written(t), m < l \/ Up(v, m) # l PROVE Up(t, m) = Up(v, m)
  BY DEF v
<1>3. /\ Up(v, m) \in Nat /\ Up(v, m) < m /\ (Up(v, m) # 0 => Up(v, m) \in Written(v) /\ encloses(v, Up(v, m), m))
      /\ \A k \in Written(v) : encloses(v, k, m) => k <= Up(v, m)
  BY <1>1, <1>2, UpOf
<1>4. Up(v, m) # l
  <2>1. l \in Nat /\ m \in Nat
    BY <1>1, <1>2, UpOf
  <2> QED
    BY <1>3, <2>1
<1>5. \A k \in Written(t) : encloses(t, k, m) <=> encloses(v, k, m)
  BY <1>2 DEF encloses, IsItem
<1>6. Up(v, m) # 0 => Up(v, m) \in Written(t) /\ encloses(t, Up(v, m), m)
  BY <1>1, <1>3, <1>4, <1>5
<1>7. \A k \in Written(t) : encloses(t, k, m) => k <= Up(v, m)
  BY <1>2, <1>3, <1>5
<1> QED
  BY <1>2, <1>3, <1>6, <1>7, UpIs

(* It is held by the same line whatever its key.                           *)
LEMMA EnteredAlike ==
    ASSUME NEW t \in Seq(Row), NEW l \in DOMAIN t, t[l].key = Blank, NEW col \in Nat,
           NEW key \in Entered, NEW other \in Entered
    PROVE  Up(Inserted(t, l, col, key), l) = Up(Inserted(t, l, col, other), l)
<1> DEFINE v == Inserted(t, l, col, key)
           w == Inserted(t, l, col, other)
<1>1. /\ v \in Seq(Row) /\ l \in Written(v) /\ ~IsItem(v, l) /\ v[l].ind = col
      /\ l \notin Written(t) /\ Written(v) = Written(t) \cup {l}
      /\ \A m \in 1..Len(t) : m # l => v[m] = t[m]
  BY InsertedIs
<1>2. /\ w \in Seq(Row) /\ l \in Written(w) /\ ~IsItem(w, l) /\ w[l].ind = col
      /\ Written(w) = Written(t) \cup {l}
      /\ \A m \in 1..Len(t) : m # l => w[m] = t[m]
  BY InsertedIs
<1> HIDE DEF v, w
<1>3. \A m \in Written(t) : m \in 1..Len(t) /\ m # l
  BY <1>1, UpOf
<1>4. \A m \in Written(v) : encloses(v, m, l) <=> encloses(w, m, l)
  <2>1. \A m \in Written(t) : v[m] = w[m]
    BY <1>1, <1>2, <1>3
  <2>2. \A m \in Written(v) : v[m].ind = w[m].ind /\ (IsItem(v, m) <=> IsItem(w, m))
    BY <1>1, <1>2, <2>1 DEF IsItem
  <2> QED
    BY <1>1, <1>2, <2>2 DEF encloses
<1>5. /\ Up(v, l) \in Nat /\ (Up(v, l) # 0 => Up(v, l) \in Written(v) /\ encloses(v, Up(v, l), l))
      /\ \A m \in Written(v) : encloses(v, m, l) => m <= Up(v, l)
  BY <1>1, UpOf
<1>6. l \in DOMAIN w
  BY <1>2, UpOf
<1>7. Up(w, l) = Up(v, l)
  <2>1. Up(v, l) # 0 => Up(v, l) \in Written(w) /\ encloses(w, Up(v, l), l)
    BY <1>1, <1>2, <1>4, <1>5
  <2>2. \A m \in Written(w) : encloses(w, m, l) => m <= Up(v, l)
    BY <1>1, <1>2, <1>4, <1>5
  <2> QED
    BY <1>2, <1>5, <1>6, <2>1, <2>2, UpIs
<1> QED
  BY <1>7 DEF v, w

LEMMA CursorTyped ==
    ASSUME NEW t \in Seq(Line), NEW l \in DOMAIN t, NEW col \in Nat
    PROVE  CursorIndent(t, l, col) \in Nat
<1> DEFINE before == {m \in 1 .. l - 1 : t[m].key # Blank}
<1>1. l \in 1..Len(t) /\ l \in Nat /\ Len(t) \in Nat
  OBVIOUS
<1>2. before # {} => Max(before) \in 1..Len(t)
  <2>1. before \in SUBSET Nat /\ \A m \in before : m <= Len(t) /\ m \in 1..Len(t)
    BY <1>1
  <2> HIDE DEF before
  <2>2. before # {} => Max(before) \in before
    BY <1>1, <2>1, MaxIsLargest
  <2> QED
    BY <2>1, <2>2
<1>3. before # {} => t[Max(before)].ind \in Nat
  <2>1. \A m \in 1..Len(t) : t[m] \in Line
    OBVIOUS
  <2> HIDE DEF before
  <2> QED
    BY <1>2, <2>1 DEF Line
<1>4. CursorIndent(t, l, col) \in {col} \cup (IF before = {} THEN {} ELSE {t[Max(before)].ind + 2, t[Max(before)].ind})
  BY DEF CursorIndent
<1> HIDE DEF before
<1> QED
  BY <1>3, <1>4

(* The keys of the pipeline that a cursor is in are those completion knows.*)
LEMMA PipelineKeys ==
    ASSUME NEW t \in Seq(Line), Singly(t), NEW l \in DOMAIN t, t[l].key = Blank, NEW col \in EntryColumns(t, l),
           InPipeline(pathAtPosition(t, l, col)),
           NEW b \in OfferedBuckets(t, pathAtPosition(t, l, col)),
           NEW m, m \in Children(Inserted(t, l, CursorIndent(t, l, col), b),
                                 Up(Inserted(t, l, CursorIndent(t, l, col), b), l)), m # l
    PROVE  Inserted(t, l, CursorIndent(t, l, col), b)[m].key # b
<1> DEFINE path == pathAtPosition(t, l, col)
           ci == CursorIndent(t, l, col)
           v == Inserted(t, l, ci, "new")
           w == Inserted(t, l, ci, b)
<1>1. t \in Seq(Row) /\ ci \in Nat /\ col \in Nat
  <2>1. col \in Nat
    BY DEF EntryColumns
  <2> QED
    BY <2>1, CursorTyped, LinesAreRows
<1>2. b \in Buckets /\ b \in Entered /\ "new" \in Entered /\ b \notin siblingKeysAt(t, path) /\ b # Dash
  BY DEF OfferedBuckets, Entered, Buckets, Dash
<1>3. /\ Len(path) = 3 /\ Even(v, l)
      /\ \A x \in Above(v, l) :
           ~IsItem(t, x) /\ \A k \in Children(t, Up(t, x)) : t[k].key = t[x].key => k = x
  BY DEF Singly, InPipeline
<1>4. path = KeysOf(v, Climb(v, l, v[l].ind))
  BY <1>1, PathIs
<1> HIDE DEF path, ci
<1>5. /\ v \in Seq(Row) /\ l \in Written(v) /\ ~IsItem(v, l)
      /\ l \notin Written(t) /\ Written(v) = Written(t) \cup {l}
      /\ \A k \in 1..Len(t) : k # l => v[k] = t[k]
  BY <1>1, <1>2, InsertedIs
<1>6. /\ w \in Seq(Row) /\ Written(w) = Written(t) \cup {l}
      /\ \A k \in 1..Len(t) : k # l => w[k] = t[k]
  BY <1>1, <1>2, InsertedIs
<1>7. \A k \in Written(t) : (k < l \/ Up(v, k) # l => Up(t, k) = Up(v, k)) /\ (Up(w, k) # l => Up(t, k) = Up(w, k))
  BY <1>1, <1>2, EnteredUp
<1>8. Up(v, l) = Up(w, l)
  BY <1>1, <1>2, EnteredAlike
<1>9. m \in Written(w) /\ Up(w, m) = Up(w, l)
  BY DEF Children, w, ci
<1>10. SUFFICES w[m].key # b
  BY DEF w, ci
<1> HIDE DEF v, w
<1>11. \A k \in Written(t) : k \in 1..Len(t) /\ k \in Nat
  BY <1>1, UpOf
<1>12. \A x \in Above(v, l) : x \in Written(t) /\ x < l /\ v[x] = t[x] /\ ~IsItem(v, x)
  <2>1. \A x \in Above(v, l) : x \in Written(v) /\ x < l
    BY <1>5, AboveUp
  <2>2. l \in Nat
    BY <1>5, UpOf
  <2> QED
    BY <1>3, <1>5, <1>11, <2>1, <2>2 DEF IsItem
<1>13. Climb(v, l, v[l].ind) = Above(v, l)
  BY <1>3, <1>5, <1>12, ClimbLines
<1>14. PICK p, q, r \in Written(v) : ThreeUp(v, l, path, p, q, r)
  BY <1>3, <1>4, <1>5, <1>13, ThreeAbove
<1>15. /\ p \in Written(t) /\ q \in Written(t) /\ r \in Written(t)
       /\ Up(t, p) = 0 /\ Up(t, q) = p /\ Up(t, r) = q /\ r # l
       /\ path[1] = t[p].key /\ path[2] = t[q].key /\ path[3] = t[r].key
  <2>1. p \in Above(v, l) /\ q \in Above(v, l) /\ r \in Above(v, l)
    BY <1>14 DEF ThreeUp
  <2>2. /\ p \in Written(t) /\ q \in Written(t) /\ r \in Written(t) /\ p < l /\ q < l /\ r < l
        /\ v[p] = t[p] /\ v[q] = t[q] /\ v[r] = t[r]
    BY <1>12, <2>1
  <2>3. Up(t, p) = Up(v, p) /\ Up(t, q) = Up(v, q) /\ Up(t, r) = Up(v, r)
    BY <1>7, <2>2
  <2>4. r # l
    BY <1>5, <2>2
  <2> QED
    BY <1>14, <2>2, <2>3, <2>4 DEF ThreeUp
<1>16. /\ p \in Children(t, 0) /\ q \in Children(t, p) /\ r \in Children(t, q)
       /\ \A k \in Children(t, 0) : t[k].key = t[p].key => k = p
       /\ \A k \in Children(t, p) : t[k].key = t[q].key => k = q
       /\ \A k \in Children(t, q) : t[k].key = t[r].key => k = r
  <2>1. p \in Above(v, l) /\ q \in Above(v, l) /\ r \in Above(v, l)
    BY <1>14 DEF ThreeUp
  <2>2. p \in Children(t, 0) /\ q \in Children(t, p) /\ r \in Children(t, q)
    BY <1>15 DEF Children
  <2> QED
    BY <1>3, <1>15, <2>1, <2>2
<1>17. first(t, 0, t[p].key) = {p}
  BY <1>1, <1>16, FirstIs
<1>18. first(t, p, t[q].key) = {q}
  BY <1>1, <1>16, FirstIs
<1>19. first(t, q, t[r].key) = {r}
  BY <1>1, <1>16, FirstIs
<1>20. siblingKeysAt(t, path) = {t[k].key : k \in Children(t, r)} \ {Dash}
  <2>1. Descends(t, path, p, q, r)
    BY <1>15, <1>17, <1>18, <1>19 DEF Descends
  <2> QED
    BY <1>3, <2>1, SiblingsAre
<1>21. Up(w, l) = r
  BY <1>8, <1>14 DEF ThreeUp
<1>22. m \in Written(t) /\ Up(w, m) = r /\ w[m] = t[m]
  BY <1>6, <1>9, <1>11, <1>21
<1>23. m \in Children(t, r)
  BY <1>7, <1>15, <1>22 DEF Children
<1> QED
  BY <1>2, <1>20, <1>22, <1>23

LEMMA AcceptedAreNew == Chosen => (PipelinesOnce => AcceptedBucketsAreNew)
<1> SUFFICES ASSUME Chosen, PipelinesOnce, NEW i \in 1..Members,
                    NEW l \in {n \in DOMAIN TextOf(i) : TextOf(i)[n].key = Blank}, NEW col \in EntryColumns(TextOf(i), l),
                    InPipeline(pathAtPosition(TextOf(i), l, col)),
                    NEW b \in OfferedBuckets(TextOf(i), pathAtPosition(TextOf(i), l, col)),
                    NEW m \in Children(Inserted(TextOf(i), l, CursorIndent(TextOf(i), l, col), b),
                                       Up(Inserted(TextOf(i), l, CursorIndent(TextOf(i), l, col), b), l)), m # l
             PROVE  Inserted(TextOf(i), l, CursorIndent(TextOf(i), l, col), b)[m].key # b
  BY DEF AcceptedBucketsAreNew
<1> DEFINE t == TextOf(i)
<1>1. t \in Seq(Line) /\ Singly(t)
  BY DocsAre DEF PipelinesOnce
<1>2. l \in DOMAIN t /\ t[l].key = Blank
  OBVIOUS
<1> QED
  BY <1>1, <1>2, PipelineKeys

(* Where the keys around a cursor are not repeated and no list is among    *)
(* them, a bucket that completion offers in a pipeline (completion.ts:     *)
(* 172-193) is no key of that pipeline yet, wherever in it the cursor is.  *)
THEOREM AcceptedAlwaysNew == Spec => [](PipelinesOnce => AcceptedBucketsAreNew)
BY AlwaysChosen, AcceptedAreNew, PTL
=============================================================================
