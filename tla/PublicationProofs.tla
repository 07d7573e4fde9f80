------------------------- MODULE PublicationProofs -------------------------
(***************************************************************************)
(* The diagnostics the client ends up with, for every workspace and every  *)
(* order of edits, file events, timers and late answers: the members of a  *)
(* set agree, and once everything is done an open document shows the       *)
(* diagnostics of its set as it is.                                        *)
(*                                                                         *)
(* Behaviours are excluded by what the client does not do, each in the     *)
(* hypothesis of the theorem that needs it.                                *)
(***************************************************************************)
EXTENDS ServerProofs

(* Every document the client opens is below a workspace folder, so that no *)
(* document brings a root.                                                 *)
NoRootsBrought == \A u \in Uris : isOpen(u) => isCovered(Folders, u)

(* A sidecar lists the anchor it is for.  Where it does not, the anchor's  *)
(* own edits cancel the timer of its set: both have the anchor as key.     *)
AnchorsListed ==
    \A a \in DOMAIN configSetIndex.sets : a \in Members(configSetIndex, a)

----------------------------------------------------------------------------
(* The files of U head for a diagnostic of G: they show one, or a run that *)
(* will give them one is in flight, or one of them is known to be outdated;*)
(* and a run in flight that would show them anything else is overtaken, or *)
(* a newer run will have the last word.                                    *)
Gives(t, U, G) == U \subseteq DOMAIN t.diag.model /\ t.diag \in G
Shows(pub, U, G) == \A u, v \in U : pub[u] \in G /\ pub[u] = pub[v]
Harmless(s, fly, U, G) ==
    \/ U \cap DOMAIN s.diag.model = {}
    \/ Gives(s, U, G)
    \/ U \cap DOMAIN s.diag.model \subseteq s.overtaken
    \/ \E t \in fly : s.tag < t.tag /\ Gives(t, U, G)
HeadsFor(pub, fly, out, U, G) ==
    /\ U \cap out # {} \/ Shows(pub, U, G) \/ \E t \in fly : Gives(t, U, G)
    /\ \A s \in fly : Harmless(s, fly, U, G)

Heading(U, G) == HeadsFor(published, inflight, outdated, U, G)

(* A set whose members are in no other set.                                *)
Unshared(index, a) ==
    a \in DOMAIN index.sets /\ \A m \in Members(index, a) : ~ SharedIn(index, m)

(* Its members head for one model of the set.                              *)
SetDiags(index, a) == { d \in Diags : DOMAIN d.model = Members(index, a) }
AgreeInv ==
    \A a \in Uris :
        Unshared(configSetIndex, a) =>
            Heading(Members(configSetIndex, a), SetDiags(configSetIndex, a))

(* What explains a text that is not the current one.                       *)
Unsettled(m) == eventPending(m) \/ m \in discarded \/ isUnheard(m)
FreshDiags(a) ==
    { d \in SetDiags(configSetIndex, a) :
        /\ d.distribution = settings.distribution
        /\ \A m \in Members(configSetIndex, a) : d.model[m] = currentText(m) \/ Unsettled(m) }

SetTimer(a) == validateTimers[a] # None /\ getSetForUri(configSetIndex, validateTimers[a]) = a

(* An open, served document makes its set head for current diagnostics,    *)
(* member by member, unless the set's timer is set.                        *)
SetsInv ==
    \A a \in Uris :
        /\ Unshared(configSetIndex, a)
        /\ \E u \in Members(configSetIndex, a) : isOpen(u) /\ isServed(u)
        => SetTimer(a) \/ \A m \in Members(configSetIndex, a) : Heading({m}, FreshDiags(a))

(* So does one that is in no set.                                          *)
AloneDiags(u) ==
    { d \in Diags : DOMAIN d.model = {u} /\ d.model[u] = text[u]
                    /\ d.distribution = settings.distribution }
DocsInv ==
    \A u \in Uris :
        isOpen(u) /\ isServed(u) /\ getSetForUri(configSetIndex, u) = None =>
            validateTimers[u] = u \/ Heading({u}, AloneDiags(u))

----------------------------------------------------------------------------
(* Heading, step by step.                                                  *)

(* What is good for G is good for more.                                    *)
LEMMA HeadsMore ==
    ASSUME NEW pub, NEW fly, NEW out, NEW U, NEW G, NEW H, G \subseteq H,
           HeadsFor(pub, fly, out, U, G)
    PROVE  HeadsFor(pub, fly, out, U, H)
  BY DEF HeadsFor, Harmless, Gives, Shows

(* A late answer: it was harmless, so U still heads where it headed.       *)
LEMMA SettleHeads ==
    ASSUME inflight \subseteq Flying, published \in [Uris -> Diags \cup {None}],
           NEW t \in inflight, Settle(t), NEW U \in SUBSET Uris, NEW G,
           HeadsFor(published, inflight, outdated, U, G)
    PROVE  HeadsFor(published', inflight', outdated', U, G)
<1> DEFINE shown == DOMAIN t.diag.model
           after(s) == IF s.tag < t.tag THEN [ s EXCEPT !.overtaken = @ \cup shown ] ELSE s
<1>1. /\ published' = [ u \in Uris |-> IF u \in shown THEN t.diag ELSE published[u] ]
      /\ inflight' = { after(s) : s \in inflight \ {t} }
      /\ outdated' = (outdated \ shown) \cup (shown \cap t.overtaken)
  BY DEF Settle, Settled
<1>2. ASSUME NEW s \in inflight
      PROVE  /\ after(s).tag = s.tag /\ after(s).diag = s.diag
             /\ s.overtaken \subseteq after(s).overtaken
             /\ s.tag < t.tag => after(s).overtaken = s.overtaken \cup shown
  BY DEF Flying
<1> HIDE DEF after
<1>3. ASSUME NEW s \in inflight, s # t, Gives(s, U, G)
      PROVE  after(s) \in inflight' /\ Gives(after(s), U, G)
  BY <1>1, <1>2, <1>3 DEF Gives
<1>4. Harmless(t, inflight, U, G)
  BY DEF HeadsFor
<1>5. \/ U \cap outdated' # {} \/ Shows(published', U, G)
      \/ \E s \in inflight' : Gives(s, U, G)
  <2>1. CASE U \cap shown = {}
    <3>1. U \cap outdated' = U \cap outdated
      BY <1>1, <2>1
    <3>2. \A u \in U : published'[u] = published[u]
      BY <1>1, <2>1
    <3>3. \/ U \cap outdated # {} \/ Shows(published, U, G)
          \/ \E s \in inflight : Gives(s, U, G)
      BY DEF HeadsFor
    <3>4. CASE U \cap outdated # {}
      BY <3>1, <3>4
    <3>5. CASE Shows(published, U, G)
      BY <3>2, <3>5 DEF Shows
    <3>6. ASSUME NEW s \in inflight, Gives(s, U, G)
          PROVE  Shows(published', U, G) \/ \E r \in inflight' : Gives(r, U, G)
      <4>1. CASE s = t
        <5>1. U = {}
          BY <2>1, <3>6, <4>1 DEF Gives
        <5> QED
          BY <5>1 DEF Shows
      <4>2. CASE s # t
        BY <1>3, <3>6, <4>2
      <4> QED
        BY <4>1, <4>2
    <3> QED
      BY <3>3, <3>4, <3>5, <3>6
  <2>2. CASE Gives(t, U, G)
    <3>1. \A u \in U : published'[u] = t.diag /\ t.diag \in G
      BY <1>1, <2>2 DEF Gives
    <3> QED
      BY <3>1 DEF Shows
  <2>3. CASE U \cap shown # {} /\ U \cap shown \subseteq t.overtaken
    BY <1>1, <2>3
  <2>4. ASSUME NEW s \in inflight, t.tag < s.tag, Gives(s, U, G)
        PROVE  \E r \in inflight' : Gives(r, U, G)
    <3>1. s # t
      BY <2>4 DEF Flying, Tags
    <3> QED
      BY <1>3, <2>4, <3>1
  <2> QED
    BY <1>4, <2>1, <2>2, <2>3, <2>4 DEF Harmless
<1>6. ASSUME NEW s \in inflight, s # t
      PROVE  Harmless(after(s), inflight', U, G)
  <2>1. Harmless(s, inflight, U, G)
    BY DEF HeadsFor
  <2>2. CASE U \cap DOMAIN s.diag.model = {} \/ Gives(s, U, G)
    BY <1>2, <2>2 DEF Harmless, Gives
  <2>3. CASE U \cap DOMAIN s.diag.model \subseteq s.overtaken
    <3>1. after(s).diag = s.diag /\ s.overtaken \subseteq after(s).overtaken
      BY <1>2
    <3> QED
      BY <2>3, <3>1 DEF Harmless
  <2>4. ASSUME NEW r \in inflight, s.tag < r.tag, Gives(r, U, G)
        PROVE  Harmless(after(s), inflight', U, G)
    <3>1. CASE r = t
      <4>1. after(s).diag = s.diag /\ after(s).overtaken = s.overtaken \cup shown
        BY <1>2, <2>4, <3>1
      <4> QED
        BY <2>4, <3>1, <4>1 DEF Harmless, Gives
    <3>2. CASE r # t
      <4>1. after(r) \in inflight' /\ Gives(after(r), U, G)
        BY <1>3, <2>4, <3>2
      <4>2. after(s).tag < after(r).tag
        BY <1>2, <2>4
      <4> QED
        BY <4>1, <4>2 DEF Harmless
    <3> QED
      BY <3>1, <3>2
  <2> QED
    BY <2>1, <2>2, <2>3, <2>4 DEF Harmless
<1> QED
  BY <1>1, <1>5, <1>6 DEF HeadsFor

(* A handler's runs are bounded in place, so some run comes last.          *)
Bounded(runs) == \E n \in Nat : \A r \in runs : r.at[1] <= n /\ r.at[2] <= n

LEMMA SomeRunIsLast ==
    ASSUME NEW S, S # {}, S \subseteq { r \in Runs : r.when # "later" }, Bounded(S)
    PROVE  \E r \in S : \A s \in S : notAfter(s, r)
<1> DEFINE first == IF \E r \in S : r.when = "micro" THEN { r \in S : r.when = "micro" } ELSE S
           stages == { r.at[1] : r \in first }
<1>1. PICK n \in Nat : \A r \in S : r.at[1] <= n /\ r.at[2] <= n
  BY DEF Bounded
<1>2. \A r \in S : r.at[1] \in 0..n /\ r.at[2] \in 0..n /\ r.when \in {"now", "micro"}
  BY <1>1 DEF Runs
<1>3. /\ first \subseteq S /\ first # {}
      /\ \A s \in S, r \in first : s \in first \/ (s.when = "now" /\ r.when = "micro")
      /\ \A s, r \in first : s.when = r.when
  BY <1>2
<1> HIDE DEF first
<1>4. PICK k \in stages : \A j \in stages : j <= k
  <2>1. stages \subseteq 0..n /\ stages # {}
    BY <1>2, <1>3
  <2> HIDE DEF stages
  <2> QED
    BY <2>1, Greatest
<1> DEFINE places == { r.at[2] : r \in { s \in first : s.at[1] = k } }
<1>5. PICK m \in places : \A j \in places : j <= m
  <2>1. places \subseteq 0..n /\ places # {}
    <3>1. \A s \in first : s.at[2] \in 0..n
      BY <1>2, <1>3
    <3>2. PICK s \in first : s.at[1] = k
      BY <1>4
    <3> QED
      BY <3>1, <3>2
  <2> HIDE DEF places
  <2> QED
    BY <2>1, Greatest
<1>6. PICK r \in first : r.at[1] = k /\ r.at[2] = m
  BY <1>5
<1>7. ASSUME NEW s \in S PROVE notAfter(s, r)
  <2>1. CASE s \notin first
    BY <1>3, <1>6, <2>1 DEF notAfter
  <2>2. CASE s \in first
    <3>1. s.at[1] <= k /\ (s.at[1] = k => s.at[2] <= m)
      BY <1>4, <1>5, <2>2
    <3>2. s.at[1] \in Nat /\ k \in Nat
      BY <1>2, <1>3, <1>6, <2>2
    <3>3. s.at[1] < r.at[1] \/ (s.at[1] = r.at[1] /\ s.at[2] <= r.at[2])
      BY <1>6, <3>1, <3>2
    <3>4. s.when = r.when
      BY <1>3, <1>6, <2>2
    <3> QED
      BY <3>3, <3>4 DEF notAfter
  <2> QED
    BY <2>1, <2>2
<1>8. r \in S
  BY <1>3
<1> QED
  BY <1>7, <1>8

(* Every run in flight has a tag up to the last.                           *)
LEMMA LastTagIsLast ==
    ASSUME inflight \subseteq Flying
    PROVE  \A t \in inflight : t.tag <= lastTag
<1> DEFINE tags == { t.tag : t \in inflight } \cup {0}
           IsLast(n) == /\ n = 0 \/ \E t \in inflight : t.tag = n
                        /\ \A t \in inflight : t.tag <= n
<1>1. tags \in SUBSET (0..MaxRuns) /\ MaxRuns \in Nat
  BY ServerAssumption DEF Flying, Tags
<1>2. PICK n \in tags : \A m \in tags : m <= n
  <2>1. tags # {}
    OBVIOUS
  <2> HIDE DEF tags
  <2> QED
    BY <1>1, <2>1, Greatest
<1>3. n \in {0} \cup Tags /\ IsLast(n)
  BY <1>1, <1>2 DEF Tags
<1>4. lastTag = CHOOSE k \in {0} \cup Tags : IsLast(k)
  BY DEF lastTag
<1>5. IsLast(lastTag)
  <2> HIDE DEF IsLast
  <2> QED
    BY <1>3, <1>4
<1> QED
  BY <1>5

(* A handler that publishes runs that are each good for G or about other   *)
(* files: U goes on heading for G, and does so from now on if one of the   *)
(* runs is about U.                                                        *)
LEMMA PublishHeads ==
    ASSUME RunsTyped, NEW runs, runs \subseteq Runs, Publish(runs), Bounded(runs),
           NEW U \in SUBSET Uris, NEW G,
           \A r \in runs : U \cap DOMAIN r.diag.model = {} \/ Gives(r, U, G),
           \/ HeadsFor(published, inflight, outdated, U, G)
           \/ \E r \in runs : Gives(r, U, G)
    PROVE  HeadsFor(published', inflight', outdated', U, G)
<1> DEFINE done  == { r \in runs : r.when # "later" }
           later == { r \in runs : r.when = "later" }
           shown == { u \in Uris : \E r \in done : isLastRun(done, u, r) }
           about == { r \in done : Gives(r, U, G) }
           last  == { r \in about : \A s \in about : notAfter(s, r) }
           old(t) == [ t EXCEPT !.overtaken = @ \cup shown ]
           new(r) == [ tag |-> lastTag + 1, at |-> r.at, diag |-> r.diag, overtaken |-> {} ]
<1>1. /\ published' = [ u \in Uris |-> IF u \in shown
                          THEN (CHOOSE r \in done : isLastRun(done, u, r)).diag
                          ELSE published[u] ]
      /\ later # {} => lastTag < MaxRuns
      /\ inflight' = { old(t) : t \in inflight } \cup { new(r) : r \in later }
      /\ outdated' = outdated \ shown
  BY DEF Publish
<1>2. ASSUME NEW t \in inflight
      PROVE  /\ old(t) \in inflight' /\ old(t).tag = t.tag /\ old(t).diag = t.diag
             /\ old(t).overtaken = t.overtaken \cup shown
  <2> HIDE DEF shown
  <2> QED
    BY <1>1 DEF Flying, RunsTyped
<1>3. ASSUME NEW r \in later
      PROVE  /\ new(r) \in inflight' /\ new(r).tag = lastTag + 1 /\ new(r).diag = r.diag
  BY <1>1
<1>4. U = {} => HeadsFor(published', inflight', outdated', U, G)
  BY DEF HeadsFor, Shows, Harmless
<1>5. ASSUME U # {}, NEW u \in U, NEW r \in done
      PROVE  isLastRun(done, u, r) <=> r \in last
  <2>1. \A s \in done : u \in DOMAIN s.diag.model <=> s \in about
    BY <1>5 DEF Gives
  <2> QED
    BY <2>1 DEF isLastRun
<1>6. ASSUME U # {}, last # {}
      PROVE  /\ U \subseteq shown
             /\ Shows(published', U, G)
  <2>1. U \subseteq shown
    BY <1>5, <1>6
  <2>2. PICK u0 \in U : TRUE
    BY <1>6
  <2> DEFINE d == (CHOOSE r \in done : isLastRun(done, u0, r)).diag
  <2>3. ASSUME NEW u \in U
        PROVE  (CHOOSE r \in done : isLastRun(done, u, r))
                  = (CHOOSE r \in done : isLastRun(done, u0, r))
    <3>1. \A r : r \in done /\ isLastRun(done, u, r) <=> r \in done /\ isLastRun(done, u0, r)
      BY <1>5, <1>6
    <3> HIDE DEF done
    <3> QED
      BY <3>1, Zenon
  <2>4. d \in G
    <3>1. (CHOOSE r \in done : isLastRun(done, u0, r)) \in last
      <4>1. \E r \in done : isLastRun(done, u0, r)
        BY <1>5, <1>6
      <4> HIDE DEF done, last
      <4>2. /\ (CHOOSE r \in done : isLastRun(done, u0, r)) \in done
            /\ isLastRun(done, u0, CHOOSE r \in done : isLastRun(done, u0, r))
        BY <4>1
      <4> QED
        BY <1>5, <1>6, <4>2
    <3> QED
      BY <3>1 DEF Gives
  <2>5. \A u \in U : published'[u] = d
    <3> HIDE DEF shown, done
    <3> QED
      BY <1>1, <2>1, <2>3
  <2> HIDE DEF d
  <2> QED
    BY <2>1, <2>4, <2>5 DEF Shows
<1>7. last = {} => about = {}
  <2> SUFFICES ASSUME about # {} PROVE last # {}
    OBVIOUS
  <2>1. about \subseteq { r \in Runs : r.when # "later" } /\ Bounded(about)
    BY DEF Bounded
  <2>2. \E r \in about : \A s \in about : notAfter(s, r)
    <3> HIDE DEF about
    <3> QED
      BY <2>1, SomeRunIsLast
  <2> QED
    BY <2>2
<1>8. ASSUME U # {}, last = {}
      PROVE  /\ U \cap outdated' = U \cap outdated
             /\ \A u \in U : published'[u] = published[u]
  <2>1. U \cap shown = {}
    BY <1>5, <1>8
  <2> HIDE DEF shown
  <2> QED
    BY <1>1, <2>1
<1>9. \A t \in inflight : t.tag < lastTag + 1
  BY LastTagIsLast, LastTagTyped DEF RunsTyped, Flying, Tags
<1> HIDE DEF shown, old, new
<1>10. ASSUME U # {}
       PROVE  \/ U \cap outdated' # {} \/ Shows(published', U, G)
              \/ \E t \in inflight' : Gives(t, U, G)
  <2>1. CASE last # {}
    BY <1>6, <1>10, <2>1
  <2>2. CASE last = {} /\ HeadsFor(published, inflight, outdated, U, G)
    <3>1. \/ U \cap outdated # {} \/ Shows(published, U, G)
          \/ \E t \in inflight : Gives(t, U, G)
      BY <2>2 DEF HeadsFor
    <3>2. Shows(published, U, G) => Shows(published', U, G)
      BY <1>8, <1>10, <2>2 DEF Shows
    <3>3. ASSUME NEW t \in inflight, Gives(t, U, G)
          PROVE  \E r \in inflight' : Gives(r, U, G)
      BY <1>2, <3>3 DEF Gives
    <3> QED
      BY <1>8, <1>10, <2>2, <3>1, <3>2, <3>3
  <2>3. ASSUME last = {}, NEW r \in runs, Gives(r, U, G)
        PROVE  \E t \in inflight' : Gives(t, U, G)
    <3>1. r \in later
      BY <1>7, <2>3
    <3> QED
      BY <1>3, <2>3, <3>1 DEF Gives
  <2> QED
    BY <2>1, <2>2, <2>3
<1>11. ASSUME U # {}, NEW s \in inflight
       PROVE  Harmless(old(s), inflight', U, G)
  <2>1. CASE last # {}
    <3>1. U \subseteq old(s).overtaken
      BY <1>2, <1>6, <1>11, <2>1
    <3> QED
      BY <3>1 DEF Harmless
  <2>2. CASE HeadsFor(published, inflight, outdated, U, G)
    <3>1. Harmless(s, inflight, U, G)
      BY <2>2 DEF HeadsFor
    <3>2. ASSUME NEW t \in inflight, s.tag < t.tag, Gives(t, U, G)
          PROVE  Harmless(old(s), inflight', U, G)
      <4>1. old(s).tag < old(t).tag /\ Gives(old(t), U, G) /\ old(t) \in inflight'
        BY <1>2, <3>2 DEF Gives
      <4> QED
        BY <4>1 DEF Harmless
    <3>3. /\ old(s).diag = s.diag /\ s.overtaken \subseteq old(s).overtaken
      BY <1>2
    <3> QED
      BY <3>1, <3>2, <3>3 DEF Harmless, Gives
  <2>3. ASSUME last = {}, NEW r \in runs, Gives(r, U, G)
        PROVE  Harmless(old(s), inflight', U, G)
    <3>1. r \in later
      BY <1>7, <2>3
    <3>2. new(r) \in inflight' /\ old(s).tag < new(r).tag /\ Gives(new(r), U, G)
      BY <1>2, <1>3, <1>9, <2>3, <3>1 DEF Gives
    <3> QED
      BY <3>2 DEF Harmless
  <2> QED
    BY <2>1, <2>2, <2>3
<1>12. ASSUME NEW r \in later
       PROVE  Harmless(new(r), inflight', U, G)
  BY <1>3 DEF Harmless, Gives
<1> QED
  BY <1>1, <1>4, <1>10, <1>11, <1>12 DEF HeadsFor


----------------------------------------------------------------------------
(* What a validation reads: the model of a set, or one document alone.     *)
ModelOf(index, models, cache, a) ==
    IF models[a] # None THEN models[a]
    ELSE [ m \in Members(index, a) |-> memberText(cache, m) ]

SoundRun(index, models, cache, r) ==
    /\ r.diag.distribution = settings'.distribution
    /\ ~ settings'.ottl => r.when = "now"
    /\ \/ /\ r.anchor \in DOMAIN index.sets
          /\ r.diag.model = ModelOf(index, models, cache, r.anchor)
       \/ /\ r.anchor = None
          /\ \E u \in Uris : /\ text'[u] # None /\ getSetForUri(index, u) = None
                             /\ r.diag.model = [ m \in {u} |-> text'[u] ]

LEMMA DocRunSound ==
    ASSUME NEW index, IndexOK(index), NEW models, NEW cache, NEW at, NEW u \in Uris,
           text'[u] # None
    PROVE  LET r == docRun(at, index, models, cache, u)
           IN  /\ SoundRun(index, models, cache, r)
               /\ r.anchor = getSetForUri(index, u) /\ r.at = at
<1> DEFINE a     == getSetForUri(index, u)
           model == IF a = None THEN [ m \in {u} |-> text'[u] ]
                    ELSE ModelOf(index, models, cache, a)
           when  == IF ~ settings'.ottl THEN "now"
                    ELSE IF hasOttl(model) THEN "later" ELSE "micro"
           r     == docRun(at, index, models, cache, u)
<1>1. r = Run(at, a, model, when)
  BY DEF docRun, ModelOf
<1>2. /\ r.anchor = a /\ r.at = at /\ r.diag.model = model /\ r.when = when
      /\ r.diag.distribution = settings'.distribution
  <2> HIDE DEF a, model, when
  <2> QED
    BY <1>1 DEF Run
<1>3. a # None => a \in DOMAIN index.sets
  BY AnsweringSet
<1> HIDE DEF r
<1>4. SoundRun(index, models, cache, r)
  BY <1>2, <1>3 DEF SoundRun
<1> QED
  BY <1>2, <1>4 DEF r

(* The first open member of a set is one.                                  *)
LEMMA FirstOpenMember ==
    ASSUME NEW index, IndexOK(index), NEW a \in DOMAIN index.sets, firstOpen(index, a) # None
    PROVE  firstOpen(index, a) \in Members(index, a)
<1> DEFINE list == index.sets[a].order
           Chosen(i) == isFirstOpen(index, a, i)
           i0 == CHOOSE i \in DOMAIN list : Chosen(i)
<1>1. firstOpen(index, a) = IF \E i \in DOMAIN list : Chosen(i) THEN list[i0] ELSE None
  BY DEF firstOpen
<1>2. i0 \in DOMAIN list /\ Chosen(i0)
  <2> HIDE DEF Chosen
  <2> QED
    BY <1>1
<1>3. firstOpen(index, a) = list[i0]
  <2> HIDE DEF Chosen, i0
  <2> QED
    BY <1>1
<1> HIDE DEF i0
<1> QED
  BY <1>2, <1>3 DEF isFirstOpen

(* The set that answers for a member of an unshared set is that set.       *)
LEMMA UnsharedAnswers ==
    ASSUME NEW index, IndexOK(index), NEW a, Unshared(index, a), NEW m \in Members(index, a)
    PROVE  m \in Uris /\ getSetForUri(index, m) = a
<1>1. a \in DOMAIN index.sets /\ m \in Uris /\ ~ SharedIn(index, m)
  BY SetsOK DEF Unshared
<1>2. getSetForUri(index, m) # None
  BY <1>1 DEF IndexOK, Members
<1>3. /\ getSetForUri(index, m) \in DOMAIN index.sets
      /\ m \in Members(index, getSetForUri(index, m))
  BY <1>1, <1>2, AnsweringSet
<1> QED
  BY <1>1, <1>3 DEF SharedIn

LEMMA SetRunSound ==
    ASSUME NEW index, IndexOK(index), NEW models, NEW cache, NEW at,
           NEW a \in DOMAIN index.sets
    PROVE  LET r == setRun(at, index, models, cache, a)
           IN  /\ SoundRun(index, models, cache, r) /\ r.at = at
               /\ Unshared(index, a) => r.anchor = a
<1> DEFINE first == firstOpen(index, a)
<1>1. CASE first # None
  <2>1. /\ first \in Uris /\ text'[first] # None
        /\ Unshared(index, a) => getSetForUri(index, first) = a
    BY <1>1, FirstOpenTyped, FirstOpenMember, UnsharedAnswers
  <2>2. setRun(at, index, models, cache, a) = docRun(at, index, models, cache, first)
    BY <1>1 DEF setRun
  <2> DEFINE r == docRun(at, index, models, cache, first)
  <2> HIDE DEF first
  <2>3. /\ SoundRun(index, models, cache, r) /\ r.at = at
        /\ r.anchor = getSetForUri(index, first)
    BY <2>1, DocRunSound
  <2> QED
    BY <2>1, <2>2, <2>3
<1>2. CASE first = None
  <2>1. setRun(at, index, models, cache, a)
          = Run(at, a, ModelOf(index, models, cache, a), "now")
    BY <1>2 DEF setRun, ModelOf
  <2> QED
    BY <2>1 DEF Run, SoundRun
<1> QED
  BY <1>1, <1>2

(* The runs of a handler are sound, and placed no further than the sets    *)
(* and documents go.                                                       *)
LEMMA AllRunsSound ==
    ASSUME Reading, NEW index, IndexOK(index), NEW models, NEW cache, NEW stage \in Nat
    PROVE  /\ \A r \in validateAllSets(stage, index, models, cache) :
                 SoundRun(index, models, cache, r) /\ r.at[1] = stage /\ r.at[2] \in 1..Len(index.met)
           /\ \A r \in validateAllDocs(stage, index, models, cache) :
                 SoundRun(index, models, cache, r) /\ r.at[1] = stage /\ r.at[2] \in 1..Len(order')
<1>1. ASSUME NEW i \in allSets(index)
      PROVE  LET r == setRun(<<stage, i>>, index, models, cache, index.met[i])
             IN  SoundRun(index, models, cache, r) /\ r.at = <<stage, i>> /\ i \in 1..Len(index.met)
  <2>1. index.met[i] \in DOMAIN index.sets /\ i \in 1..Len(index.met)
    BY DEF allSets, IndexOK
  <2> QED
    BY <2>1, SetRunSound
<1>2. ASSUME NEW i \in DOMAIN order'
      PROVE  LET r == docRun(<<stage, i>>, index, models, cache, order'[i])
             IN  SoundRun(index, models, cache, r) /\ r.at = <<stage, i>> /\ i \in 1..Len(order')
  <2>1. order'[i] \in Uris /\ text'[order'[i]] # None /\ i \in 1..Len(order')
    BY DEF Reading
  <2> DEFINE r == docRun(<<stage, i>>, index, models, cache, order'[i])
  <2>2. SoundRun(index, models, cache, r) /\ r.at = <<stage, i>>
    BY <2>1, DocRunSound
  <2> QED
    BY <2>1, <2>2
<1>3. ASSUME NEW r \in validateAllSets(stage, index, models, cache)
      PROVE  /\ SoundRun(index, models, cache, r)
             /\ r.at[1] = stage /\ r.at[2] \in 1..Len(index.met)
  <2>1. PICK i \in allSets(index) : r = setRun(<<stage, i>>, index, models, cache, index.met[i])
    BY DEF validateAllSets
  <2>2. SoundRun(index, models, cache, r) /\ r.at = <<stage, i>> /\ i \in 1..Len(index.met)
    BY <1>1, <2>1, Zenon
  <2> QED
    BY <2>2
<1>4. ASSUME NEW r \in validateAllDocs(stage, index, models, cache)
      PROVE  /\ SoundRun(index, models, cache, r)
             /\ r.at[1] = stage /\ r.at[2] \in 1..Len(order')
  <2>1. PICK i \in DOMAIN order' : r = docRun(<<stage, i>>, index, models, cache, order'[i])
    BY DEF validateAllDocs
  <2> QED
    BY <1>2, <2>1
<1> QED
  BY <1>3, <1>4


LEMMA DocRunAlone ==
    ASSUME NEW index, NEW models, NEW cache, NEW at, NEW u, getSetForUri(index, u) = None
    PROVE  DOMAIN docRun(at, index, models, cache, u).diag.model = {u}
<1> DEFINE when == IF ~ settings'.ottl THEN "now"
                   ELSE IF hasOttl([ m \in {u} |-> text'[u] ]) THEN "later" ELSE "micro"
<1>1. docRun(at, index, models, cache, u) = Run(at, None, [ m \in {u} |-> text'[u] ], when)
  BY DEF docRun
<1> HIDE DEF when
<1> QED
  BY <1>1 DEF Run

(* A model that is cached, or built now, covers its set and explains it.   *)
LEMMA ModelRead ==
    ASSUME file' = file, NEW index, IndexOK(index), NEW models, NEW cache, NEW off,
           Fits(index, models, off), Current(cache, Delivered'), NEW a \in DOMAIN index.sets
    PROVE  LET model == ModelOf(index, models, cache, a)
           IN  /\ DOMAIN model = Members(index, a)
               /\ \A m \in Members(index, a) \ off : model[m] = currentText(m)' \/ Excused(index, m)
<1> DEFINE model == ModelOf(index, models, cache, a)
<1>1. a \in Uris /\ Members(index, a) \in SUBSET Uris
  BY SetsOK
<1>2. CASE models[a] # None
  <2>1. model = models[a]
    BY <1>2 DEF ModelOf
  <2> HIDE DEF model
  <2> QED
    BY <1>1, <1>2, <2>1 DEF Fits, model
<1>3. CASE models[a] = None
  <2>1. model = [ m \in Members(index, a) |-> memberText(cache, m) ]
    BY <1>3 DEF ModelOf
  <2>2. \A m \in Members(index, a) : memberText(cache, m) = currentText(m)' \/ Excused(index, m)
    BY <1>1, TextExplained
  <2> HIDE DEF model
  <2> QED
    BY <2>1, <2>2 DEF model
<1> QED
  BY <1>2, <1>3

(* What a handler's validations have in common: all are sound, and what    *)
(* they read explains itself but for the members that are off.             *)
Validating(index, models, cache, off, runs) ==
    /\ file' = file /\ IndexOK(index) /\ Current(cache, Delivered')
    /\ Fits(index, models, off)
    /\ runs \subseteq Runs /\ Bounded(runs) /\ Publish(runs)
    /\ \A r \in runs : SoundRun(index, models, cache, r)

(* FreshDiags of an index, in the state after a step.                      *)
FreshAfter(index, a) ==
    { d \in SetDiags(index, a) :
        /\ d.distribution = settings'.distribution
        /\ \A m \in Members(index, a) : d.model[m] = currentText(m)' \/ Unsettled(m)' }
AloneAfter(u) ==
    { d \in Diags : DOMAIN d.model = {u} /\ d.model[u] = text'[u]
                    /\ d.distribution = settings'.distribution }

(* A run is about one set, or about one document.                          *)
LEMMA RunAbout ==
    ASSUME NEW index, NEW models, NEW cache, NEW off, NEW runs,
           Validating(index, models, cache, off, runs), NEW r \in runs
    PROVE  /\ \A a : Unshared(index, a) =>
                 IF r.anchor = a
                 THEN DOMAIN r.diag.model = Members(index, a)
                 ELSE Members(index, a) \cap DOMAIN r.diag.model = {}
           /\ \A u \in Uris : getSetForUri(index, u) = None /\ u \in DOMAIN r.diag.model =>
                 r.diag \in AloneAfter(u)
<1>1. /\ IndexOK(index) /\ SoundRun(index, models, cache, r) /\ r.diag \in Diags
      /\ file' = file /\ Current(cache, Delivered') /\ Fits(index, models, off)
  BY DEF Validating, Runs
<1>2. CASE r.anchor \in DOMAIN index.sets /\ r.diag.model = ModelOf(index, models, cache, r.anchor)
  <2>1. DOMAIN r.diag.model = Members(index, r.anchor) /\ Members(index, r.anchor) \in SUBSET Uris
    BY <1>1, <1>2, ModelRead, SetsOK
  <2>2. ASSUME NEW a, Unshared(index, a), r.anchor # a
        PROVE  Members(index, a) \cap DOMAIN r.diag.model = {}
    BY <1>2, <2>1, <2>2 DEF Unshared, SharedIn
  <2>3. \A u \in Uris : getSetForUri(index, u) = None => u \notin DOMAIN r.diag.model
    BY <1>1, <1>2, <2>1 DEF IndexOK, Members
  <2> QED
    BY <2>1, <2>2, <2>3
<1>3. ASSUME r.anchor = None, NEW v \in Uris, text'[v] # None, getSetForUri(index, v) = None,
             r.diag.model = [ m \in {v} |-> text'[v] ]
      PROVE  /\ \A a : Unshared(index, a) =>
                   r.anchor # a /\ Members(index, a) \cap DOMAIN r.diag.model = {}
             /\ \A u \in Uris : u \in DOMAIN r.diag.model => r.diag \in AloneAfter(u)
  <2>1. DOMAIN r.diag.model = {v} /\ r.diag.model[v] = text'[v]
    BY <1>3
  <2>2. ASSUME NEW a, Unshared(index, a)
        PROVE  r.anchor # a /\ v \notin Members(index, a)
    <3>1. a \in DOMAIN index.sets /\ a \in Uris
      BY <1>1, <2>2, SetsOK DEF Unshared
    <3> QED
      BY <1>1, <1>3, <3>1, ContentsAssumption DEF IndexOK, Members
  <2>3. r.diag \in AloneAfter(v)
    BY <1>1, <2>1 DEF AloneAfter, SoundRun
  <2> QED
    BY <2>1, <2>2, <2>3
<1> QED
  BY <1>1, <1>2, <1>3 DEF SoundRun

(* A run about a set of which no member is off is fresh.                   *)
LEMMA RunFresh ==
    ASSUME NEW index, NEW models, NEW cache, NEW off, NEW runs,
           Validating(index, models, cache, off, runs), NEW r \in runs,
           Unshared(index, r.anchor), Members(index, r.anchor) \cap off = {}
    PROVE  r.diag \in FreshAfter(index, r.anchor)
<1> DEFINE a == r.anchor
<1>1. /\ IndexOK(index) /\ SoundRun(index, models, cache, r) /\ r.diag \in Diags
      /\ file' = file /\ Current(cache, Delivered') /\ Fits(index, models, off)
      /\ a \in DOMAIN index.sets
  BY DEF Validating, Runs, Unshared
<1>2. a # None
  BY <1>1, SetsOK, ContentsAssumption
<1>3. r.diag.model = ModelOf(index, models, cache, a)
  BY <1>1, <1>2 DEF SoundRun
<1>4. /\ DOMAIN r.diag.model = Members(index, a)
      /\ \A m \in Members(index, a) : r.diag.model[m] = currentText(m)' \/ Excused(index, m)
  BY <1>1, <1>3, ModelRead
<1>5. \A m \in Members(index, a) : Excused(index, m) => Unsettled(m)'
  BY DEF Unshared, Excused, Unsettled
<1> QED
  BY <1>1, <1>4, <1>5 DEF FreshAfter, SetDiags, SoundRun


(* What a handler's validations do for a set, member by member and as a    *)
(* whole, and for a document that is in none.                              *)
LEMMA ValidatedSet ==
    ASSUME RunsTyped, NEW index, NEW models, NEW cache, NEW off, NEW runs,
           Validating(index, models, cache, off, runs), NEW a, Unshared(index, a),
           Members(index, a) \cap off = {}, NEW m \in Members(index, a),
           \/ \E r \in runs : r.anchor = a
           \/ HeadsFor(published, inflight, outdated, {m}, FreshAfter(index, a))
    PROVE  HeadsFor(published', inflight', outdated', {m}, FreshAfter(index, a))
<1>1. {m} \in SUBSET Uris
  BY SetsOK DEF Validating, Unshared
<1>2. ASSUME NEW r \in runs
      PROVE  IF r.anchor = a THEN Gives(r, {m}, FreshAfter(index, a))
             ELSE {m} \cap DOMAIN r.diag.model = {}
  <2>1. CASE r.anchor = a
    BY <2>1, RunAbout, RunFresh DEF Gives
  <2>2. CASE r.anchor # a
    BY <2>2, RunAbout
  <2> QED
    BY <2>1, <2>2
<1>3. runs \subseteq Runs /\ Publish(runs) /\ Bounded(runs)
  BY DEF Validating
<1>4. \A r \in runs : {m} \cap DOMAIN r.diag.model = {} \/ Gives(r, {m}, FreshAfter(index, a))
  BY <1>2
<1>5. \/ HeadsFor(published, inflight, outdated, {m}, FreshAfter(index, a))
      \/ \E r \in runs : Gives(r, {m}, FreshAfter(index, a))
  BY <1>2
<1> QED
  BY <1>1, <1>3, <1>4, <1>5, PublishHeads

LEMMA ValidatedTogether ==
    ASSUME RunsTyped, NEW index, NEW models, NEW cache, NEW off, NEW runs,
           Validating(index, models, cache, off, runs), NEW a, Unshared(index, a),
           \/ \E r \in runs : r.anchor = a
           \/ HeadsFor(published, inflight, outdated, Members(index, a), SetDiags(index, a))
    PROVE  HeadsFor(published', inflight', outdated', Members(index, a), SetDiags(index, a))
<1> DEFINE U == Members(index, a)
           G == SetDiags(index, a)
<1>1. U \in SUBSET Uris
  BY SetsOK DEF Validating, Unshared
<1>2. ASSUME NEW r \in runs
      PROVE  IF r.anchor = a THEN Gives(r, U, G) ELSE U \cap DOMAIN r.diag.model = {}
  <2>1. r.diag \in Diags
    BY DEF Validating, Runs
  <2>2. CASE r.anchor = a
    BY <2>1, <2>2, RunAbout DEF Gives, SetDiags
  <2>3. CASE r.anchor # a
    BY <2>3, RunAbout
  <2> QED
    BY <2>2, <2>3
<1>3. runs \subseteq Runs /\ Publish(runs) /\ Bounded(runs)
  BY DEF Validating
<1> HIDE DEF U, G
<1>4. \A r \in runs : U \cap DOMAIN r.diag.model = {} \/ Gives(r, U, G)
  BY <1>2
<1>5. HeadsFor(published, inflight, outdated, U, G) \/ \E r \in runs : Gives(r, U, G)
  BY <1>2 DEF U, G
<1>6. HeadsFor(published', inflight', outdated', U, G)
  BY <1>1, <1>3, <1>4, <1>5, PublishHeads
<1> QED
  BY <1>6 DEF U, G

LEMMA ValidatedAlone ==
    ASSUME RunsTyped, NEW index, NEW models, NEW cache, NEW off, NEW runs,
           Validating(index, models, cache, off, runs),
           NEW u \in Uris, getSetForUri(index, u) = None,
           \/ \E r \in runs : u \in DOMAIN r.diag.model
           \/ HeadsFor(published, inflight, outdated, {u}, AloneAfter(u))
    PROVE  HeadsFor(published', inflight', outdated', {u}, AloneAfter(u))
<1>1. {u} \in SUBSET Uris
  OBVIOUS
<1>2. ASSUME NEW r \in runs, u \in DOMAIN r.diag.model
      PROVE  Gives(r, {u}, AloneAfter(u))
  BY <1>2, RunAbout DEF Gives
<1>3. runs \subseteq Runs /\ Publish(runs) /\ Bounded(runs)
  BY DEF Validating
<1>4. \A r \in runs : {u} \cap DOMAIN r.diag.model = {} \/ Gives(r, {u}, AloneAfter(u))
  BY <1>2
<1>5. \/ HeadsFor(published, inflight, outdated, {u}, AloneAfter(u))
      \/ \E r \in runs : Gives(r, {u}, AloneAfter(u))
  BY <1>2
<1> QED
  BY <1>1, <1>3, <1>4, <1>5, PublishHeads


----------------------------------------------------------------------------
(* Every set is met, every member of a set and every open document listed. *)
Lists(seq, u) == \E i \in DOMAIN seq : seq[i] = u
ListsMembers(index) ==
    \A a \in DOMAIN index.sets : \A m \in Members(index, a) : Lists(index.sets[a].order, m)
SetsMet(index) == \A a \in DOMAIN index.sets : Lists(index.met, a)

LEMMA AppendLists ==
    ASSUME NEW S, NEW list \in Seq(S), NEW a
    PROVE  \A m \in ToSet(list) \cup {a} : Lists(Append(list, a), m)
<1> DEFINE n == Len(list)
           longer == Append(list, a)
<1>1. n \in Nat /\ DOMAIN list = 1..n /\ list \in Seq(S \cup {a})
  OBVIOUS
<1>2. DOMAIN longer = 1..(n + 1) /\ longer[n + 1] = a /\ \A i \in 1..n : longer[i] = list[i]
  BY <1>1
<1>3. n + 1 \in 1..(n + 1) /\ \A i \in 1..n : i \in 1..(n + 1)
  BY <1>1
<1>4. \A m \in ToSet(list) : \E i \in 1..n : list[i] = m
  BY <1>1 DEF ToSet
<1> HIDE DEF n, longer
<1> QED
  BY <1>2, <1>3, <1>4 DEF longer, Lists

LEMMA ScanLists ==
    ASSUME file \in Caches, sidecar \in [Dirs -> Sidecars], NEW roots, NEW opts
    PROVE  LET index == Rescan(file, sidecar, roots, opts)
           IN  ListsMembers(index) /\ SetsMet(index)
<1> DEFINE index == Rescan(file, sidecar, roots, opts)
           files == Scanned(index.met)
<1>1. /\ DOMAIN index.sets \subseteq Anchors(file, files)
      /\ \A a \in DOMAIN index.sets : index.sets[a] = buildSetForAnchor(file, sidecar, files, a)
  BY RescanAnchors
<1> HIDE DEF index
<1>2. SetsMet(index)
  BY <1>1 DEF SetsMet, Lists, Anchors, Scanned
<1>3. ASSUME NEW a \in DOMAIN index.sets
      PROVE  LET set == buildSetForAnchor(file, sidecar, files, a)
             IN  \A m \in set.members : Lists(set.order, m)
  <2> DEFINE sc   == sidecar[DirOf[a]]
             dirv == Shape[file[a]].directive
             fragments == { u \in files \ {a} :
                              /\ isFragment(file, u)
                              /\ isUnderDir(u, DirOf[a])
                              /\ ~ ownedByNestedAnchor(u, DirOf[a],
                                      { DirOf[b] : b \in Anchors(file, files) }) }
  <2>1. dirv \in Seq(Uris)
    BY <1>1, ContentsAssumption DEF Anchors, isAnchor, Caches, Scanned, Shapes
  <2>2. fragments \in SUBSET Uris
    BY DEF Scanned
  <2>3. CASE isExplicit(file, sidecar, a) /\ sc.exists /\ sc.valid
    <3>1. Explicit(file, sidecar, files, a) = [ members |-> ToSet(sc.members),
                                                order |-> sc.members, explicit |-> "sidecar" ]
      BY <2>3 DEF Explicit
    <3> QED
      BY <2>3, <3>1 DEF buildSetForAnchor, Lists, ToSet
  <2>4. CASE isExplicit(file, sidecar, a) /\ ~ (sc.exists /\ sc.valid)
    <3>1. Explicit(file, sidecar, files, a) =
             [ members |-> (ToSet(dirv) \cap files) \cup {a},
               order |-> Append(dirv, a), explicit |-> "directive" ]
      BY <2>4 DEF Explicit
    <3> HIDE DEF dirv, sc
    <3>2. \A m \in ToSet(dirv) \cup {a} : Lists(Append(dirv, a), m)
      BY <2>1, AppendLists
    <3> QED
      BY <2>4, <3>1, <3>2 DEF buildSetForAnchor
  <2>5. CASE ~ isExplicit(file, sidecar, a)
    <3>1. Discovered(file, files, a) =
             [ members |-> fragments \cup {a},
               order |-> Append(PathOrder[fragments], a), explicit |-> "none" ]
      BY DEF Discovered
    <3> HIDE DEF fragments
    <3>2. PathOrder[fragments] \in Seq(Uris) /\ ToSet(PathOrder[fragments]) = fragments
      BY <2>2, ListingAssumption
    <3>3. \A m \in fragments \cup {a} : Lists(Append(PathOrder[fragments], a), m)
      BY <3>2, AppendLists
    <3> QED
      BY <2>5, <3>1, <3>3 DEF buildSetForAnchor
  <2> QED
    BY <2>3, <2>4, <2>5
<1>4. ListsMembers(index)
  BY <1>1, <1>3 DEF ListsMembers, Members
<1> QED
  BY <1>2, <1>4 DEF index


(* Every set and every document is covered by its validation.              *)
LEMMA SetsCovered ==
    ASSUME NEW index, IndexOK(index), SetsMet(index), NEW models, NEW cache, NEW stage,
           NEW a, Unshared(index, a)
    PROVE  \E r \in validateAllSets(stage, index, models, cache) : r.anchor = a
<1> DEFINE places == { i \in DOMAIN index.met : index.met[i] = a }
<1>1. a \in DOMAIN index.sets /\ index.met \in Seq(Uris)
  BY DEF Unshared, IndexOK
<1>2. PICK i \in places : \A j \in places : i <= j
  <2>1. places # {} /\ places \in SUBSET Nat
    BY <1>1 DEF SetsMet, Lists
  <2> HIDE DEF places
  <2> QED
    BY <2>1, Least
<1>3. /\ i \in DOMAIN index.met /\ index.met[i] = a
      /\ \A j \in 1..(i - 1) : index.met[j] # index.met[i]
  <2>1. i \in 1..Len(index.met) /\ Len(index.met) \in Nat
    BY <1>1
  <2>2. \A j \in 1..(i - 1) : j \in DOMAIN index.met /\ ~ i <= j
    BY <1>1, <2>1
  <2> QED
    BY <1>2, <2>2
<1>4. i \in allSets(index)
  BY <1>1, <1>3 DEF allSets
<1>5. setRun(<<stage, i>>, index, models, cache, a).anchor = a
  BY <1>1, SetRunSound
<1> QED
  BY <1>3, <1>4, <1>5 DEF validateAllSets

LEMMA DocsCovered ==
    ASSUME Reading, NEW index, IndexOK(index), NEW models, NEW cache, NEW stage,
           NEW u, Lists(order', u)
    PROVE  \E r \in validateAllDocs(stage, index, models, cache) :
              /\ r.anchor = getSetForUri(index, u)
              /\ getSetForUri(index, u) = None => u \in DOMAIN r.diag.model
<1>1. PICK i \in DOMAIN order' : order'[i] = u
  BY DEF Lists
<1>2. u \in Uris /\ text'[u] # None
  BY <1>1 DEF Reading
<1> DEFINE r == docRun(<<stage, i>>, index, models, cache, u)
<1>3. /\ r.anchor = getSetForUri(index, u)
      /\ getSetForUri(index, u) = None => DOMAIN r.diag.model = {u}
  BY <1>2, DocRunSound, DocRunAlone
<1>4. r \in validateAllDocs(stage, index, models, cache)
  BY <1>1 DEF validateAllDocs
<1> QED
  BY <1>3, <1>4

(* A set with an open member is validated from one of them.                *)
LEMMA OpenMember ==
    ASSUME NEW index, IndexOK(index), ListsMembers(index), NEW a \in DOMAIN index.sets,
           NEW m \in Members(index, a), text'[m] # None
    PROVE  firstOpen(index, a) # None
<1> DEFINE list == index.sets[a].order
           Open(j) == list[j] \in Members(index, a) /\ text'[list[j]] # None
           places == { j \in DOMAIN list : Open(j) }
<1>1. list \in Seq(Uris)
  BY SetsOK
<1>2. PICK i \in places : \A j \in places : i <= j
  <2>1. places # {} /\ places \in SUBSET Nat
    BY <1>1 DEF ListsMembers, Lists
  <2> HIDE DEF places
  <2> QED
    BY <2>1, Least
<1>3. \A j \in 1..(i - 1) : ~ Open(j)
  <2>1. i \in 1..Len(list) /\ Len(list) \in Nat
    BY <1>1
  <2>2. \A j \in 1..(i - 1) : j \in DOMAIN list /\ ~ i <= j
    BY <1>1, <2>1
  <2> HIDE DEF list
  <2> QED
    BY <1>2, <2>2
<1>4. isFirstOpen(index, a, i)
  BY <1>2, <1>3 DEF isFirstOpen
<1>5. PICK k \in DOMAIN list : firstOpen(index, a) = list[k]
  <2> DEFINE Chosen(j) == isFirstOpen(index, a, j)
  <2>1. firstOpen(index, a) = IF \E j \in DOMAIN list : Chosen(j)
                              THEN list[CHOOSE j \in DOMAIN list : Chosen(j)] ELSE None
    BY DEF firstOpen
  <2> HIDE DEF Chosen, list
  <2>2. (CHOOSE j \in DOMAIN list : Chosen(j)) \in DOMAIN list
    BY <1>2, <1>4 DEF Chosen
  <2> QED
    BY <1>2, <1>4, <2>1, <2>2 DEF Chosen
<1>6. list[k] \in Uris
  BY <1>1
<1> QED
  BY <1>5, <1>6, ContentsAssumption

----------------------------------------------------------------------------
(* The invariants of the state after a step.                               *)
SomeServed(index, a) == \E u \in Members(index, a) : isOpen(u)' /\ isServed(u)'

LEMMA AgreeAfter ==
    ASSUME \A a \in Uris : Unshared(configSetIndex', a) =>
              HeadsFor(published', inflight', outdated', Members(configSetIndex', a),
                       SetDiags(configSetIndex', a))
    PROVE  AgreeInv'
  BY DEF AgreeInv, Heading, Unshared, SharedIn, SetDiags, Members

LEMMA SetsAfter ==
    ASSUME \A a \in Uris :
              Unshared(configSetIndex', a) /\ SomeServed(configSetIndex', a) =>
                 \/ validateTimers'[a] # None
                       /\ getSetForUri(configSetIndex', validateTimers'[a]) = a
                 \/ \A m \in Members(configSetIndex', a) :
                       HeadsFor(published', inflight', outdated', {m},
                                FreshAfter(configSetIndex', a))
    PROVE  SetsInv'
  BY DEF SetsInv, SomeServed, SetTimer, Heading, Unshared, SharedIn, FreshAfter, FreshDiags,
         SetDiags, Members, getSetForUri

LEMMA DocsAfter ==
    ASSUME \A u \in Uris :
              isOpen(u)' /\ isServed(u)' /\ getSetForUri(configSetIndex', u) = None =>
                 \/ validateTimers'[u] = u
                 \/ HeadsFor(published', inflight', outdated', {u}, AloneAfter(u))
    PROVE  DocsInv'
  BY DEF DocsInv, Heading, AloneAfter, AloneDiags, getSetForUri


(* A handler that validates every set, or every document.                  *)
LEMMA AllSetsValidated ==
    ASSUME RunsTyped, NEW models, NEW cache, NEW runs, NEW stage, SetsMet(configSetIndex'),
           Validating(configSetIndex', models, cache, {}, runs),
           validateAllSets(stage, configSetIndex', models, cache) \subseteq runs
    PROVE  AgreeInv' /\ SetsInv'
<1>1. ASSUME NEW a \in Uris, Unshared(configSetIndex', a)
      PROVE  \E r \in runs : r.anchor = a
  BY <1>1, SetsCovered DEF Validating
<1>2. AgreeInv'
  BY <1>1, ValidatedTogether, AgreeAfter
<1>3. ASSUME NEW a \in Uris, Unshared(configSetIndex', a), NEW m \in Members(configSetIndex', a)
      PROVE  HeadsFor(published', inflight', outdated', {m}, FreshAfter(configSetIndex', a))
  <2>1. Members(configSetIndex', a) \cap {} = {}
    OBVIOUS
  <2> QED
    BY <1>1, <1>3, <2>1, ValidatedSet
<1> QED
  BY <1>2, <1>3, SetsAfter

LEMMA AllDocsValidated ==
    ASSUME RunsTyped, Reading, NEW models, NEW cache, NEW off, NEW runs, NEW stage,
           \A u \in Uris : isOpen(u)' => Lists(order', u),
           Validating(configSetIndex', models, cache, off, runs),
           validateAllDocs(stage, configSetIndex', models, cache) \subseteq runs
    PROVE  DocsInv'
<1>1. ASSUME NEW u \in Uris, isOpen(u)', getSetForUri(configSetIndex', u) = None
      PROVE  HeadsFor(published', inflight', outdated', {u}, AloneAfter(u))
  <2>1. \E r \in runs : u \in DOMAIN r.diag.model
    BY <1>1, DocsCovered DEF Validating
  <2> QED
    BY <1>1, <2>1, ValidatedAlone
<1> QED
  BY <1>1, DocsAfter

(* A step that leaves the sets as they are.  What a set needs to go on as  *)
(* before: its timer and its texts, but for those that something explains. *)
TimerAfter(a) ==
    validateTimers'[a] # None /\ getSetForUri(configSetIndex, validateTimers'[a]) = a
KeptSet(a) ==
    /\ SomeServed(configSetIndex, a) =>
           \E u \in Members(configSetIndex, a) : isOpen(u) /\ isServed(u)
    /\ SetTimer(a) => TimerAfter(a)
    /\ \A m \in Members(configSetIndex, a) :
           \/ Unsettled(m)'
           \/ currentText(m)' = currentText(m) /\ (Unsettled(m) => Unsettled(m)')
KeptDoc(u) ==
    /\ isOpen(u) /\ isServed(u) /\ text'[u] = text[u]
    /\ validateTimers[u] = u => validateTimers'[u] = u

LEMMA KeptSetHeads ==
    ASSUME SetsInv, settings' = settings, NEW a \in Uris, Unshared(configSetIndex, a),
           SomeServed(configSetIndex, a), KeptSet(a), ~ TimerAfter(a),
           NEW m \in Members(configSetIndex, a)
    PROVE  HeadsFor(published, inflight, outdated, {m}, FreshAfter(configSetIndex, a))
<1>1. HeadsFor(published, inflight, outdated, {m}, FreshDiags(a))
  BY DEF SetsInv, KeptSet, Heading
<1>2. FreshDiags(a) \subseteq FreshAfter(configSetIndex, a)
  <2> SUFFICES ASSUME NEW d \in FreshDiags(a) PROVE d \in FreshAfter(configSetIndex, a)
    OBVIOUS
  <2>1. /\ d \in SetDiags(configSetIndex, a) /\ d.distribution = settings'.distribution
        /\ \A n \in Members(configSetIndex, a) : d.model[n] = currentText(n) \/ Unsettled(n)
    BY DEF FreshDiags
  <2>2. \A n \in Members(configSetIndex, a) : d.model[n] = currentText(n)' \/ Unsettled(n)'
    BY <2>1 DEF KeptSet
  <2> QED
    BY <2>1, <2>2 DEF FreshAfter
<1> QED
  BY <1>1, <1>2, HeadsMore

LEMMA KeptDocHeads ==
    ASSUME DocsInv, settings' = settings, NEW u \in Uris, KeptDoc(u),
           getSetForUri(configSetIndex, u) = None, validateTimers'[u] # u
    PROVE  HeadsFor(published, inflight, outdated, {u}, AloneAfter(u))
<1>1. HeadsFor(published, inflight, outdated, {u}, AloneDiags(u))
  BY DEF DocsInv, KeptDoc, Heading
<1>2. AloneDiags(u) = AloneAfter(u)
  BY DEF AloneDiags, AloneAfter, KeptDoc
<1> QED
  BY <1>1, <1>2

(* It publishes the validations of some sets and documents.                *)
LEMMA SomeAgree ==
    ASSUME RunsTyped, AgreeInv, configSetIndex' = configSetIndex,
           NEW models, NEW cache, NEW off, NEW runs,
           Validating(configSetIndex, models, cache, off, runs)
    PROVE  AgreeInv'
<1>1. ASSUME NEW a \in Uris, Unshared(configSetIndex, a)
      PROVE  HeadsFor(published', inflight', outdated', Members(configSetIndex, a),
                      SetDiags(configSetIndex, a))
  <2>1. HeadsFor(published, inflight, outdated, Members(configSetIndex, a),
                 SetDiags(configSetIndex, a))
    BY <1>1 DEF AgreeInv, Heading
  <2> QED
    BY <1>1, <2>1, ValidatedTogether
<1> QED
  BY <1>1, AgreeAfter

LEMMA SomeSets ==
    ASSUME RunsTyped, SetsInv, configSetIndex' = configSetIndex, settings' = settings,
           NEW models, NEW cache, NEW off, NEW runs,
           Validating(configSetIndex, models, cache, off, runs),
           \A a \in Uris : Unshared(configSetIndex, a) /\ SomeServed(configSetIndex, a) =>
              \/ TimerAfter(a)
              \/ /\ Members(configSetIndex, a) \cap off = {}
                 /\ (\E r \in runs : r.anchor = a) \/ KeptSet(a)
    PROVE  SetsInv'
<1>1. ASSUME NEW a \in Uris, Unshared(configSetIndex, a), SomeServed(configSetIndex, a),
             ~ TimerAfter(a), NEW m \in Members(configSetIndex, a)
      PROVE  HeadsFor(published', inflight', outdated', {m}, FreshAfter(configSetIndex, a))
  <2>1. CASE \E r \in runs : r.anchor = a
    BY <1>1, <2>1, ValidatedSet
  <2>2. CASE KeptSet(a)
    BY <1>1, <2>2, KeptSetHeads, ValidatedSet
  <2> QED
    BY <1>1, <2>1, <2>2
<1> QED
  BY <1>1, SetsAfter DEF TimerAfter

LEMMA SomeDocs ==
    ASSUME RunsTyped, DocsInv, configSetIndex' = configSetIndex, settings' = settings,
           NEW models, NEW cache, NEW off, NEW runs,
           Validating(configSetIndex, models, cache, off, runs),
           \A u \in Uris :
              isOpen(u)' /\ isServed(u)' /\ getSetForUri(configSetIndex, u) = None =>
                 \/ validateTimers'[u] = u
                 \/ (\E r \in runs : u \in DOMAIN r.diag.model) \/ KeptDoc(u)
    PROVE  DocsInv'
<1>1. ASSUME NEW u \in Uris, getSetForUri(configSetIndex, u) = None, validateTimers'[u] # u,
             (\E r \in runs : u \in DOMAIN r.diag.model) \/ KeptDoc(u)
      PROVE  HeadsFor(published', inflight', outdated', {u}, AloneAfter(u))
  BY <1>1, KeptDocHeads, ValidatedAlone
<1> QED
  BY <1>1, DocsAfter

(* It publishes nothing, or a late answer.                                 *)
HeadsCarry ==
    \A U \in SUBSET Uris : \A G :
        HeadsFor(published, inflight, outdated, U, G) =>
            HeadsFor(published', inflight', outdated', U, G)

LEMMA QuietAgree ==
    ASSUME IndexOK(configSetIndex), AgreeInv, configSetIndex' = configSetIndex, HeadsCarry
    PROVE  AgreeInv'
<1>1. ASSUME NEW a \in Uris, Unshared(configSetIndex, a)
      PROVE  HeadsFor(published', inflight', outdated', Members(configSetIndex, a),
                      SetDiags(configSetIndex, a))
  <2>1. HeadsFor(published, inflight, outdated, Members(configSetIndex, a),
                 SetDiags(configSetIndex, a))
    BY <1>1 DEF AgreeInv, Heading
  <2>2. Members(configSetIndex, a) \in SUBSET Uris
    BY <1>1, SetsOK DEF Unshared
  <2> QED
    BY <2>1, <2>2 DEF HeadsCarry
<1> QED
  BY <1>1, AgreeAfter

LEMMA QuietSets ==
    ASSUME IndexOK(configSetIndex), SetsInv, configSetIndex' = configSetIndex,
           settings' = settings, HeadsCarry,
           \A a \in Uris : Unshared(configSetIndex, a) /\ SomeServed(configSetIndex, a) =>
              TimerAfter(a) \/ KeptSet(a)
    PROVE  SetsInv'
<1>1. ASSUME NEW a \in Uris, Unshared(configSetIndex, a), SomeServed(configSetIndex, a),
             ~ TimerAfter(a), NEW m \in Members(configSetIndex, a)
      PROVE  HeadsFor(published', inflight', outdated', {m}, FreshAfter(configSetIndex, a))
  <2>1. HeadsFor(published, inflight, outdated, {m}, FreshAfter(configSetIndex, a))
    BY <1>1, KeptSetHeads
  <2>2. {m} \in SUBSET Uris
    BY <1>1, SetsOK DEF Unshared
  <2> QED
    BY <2>1, <2>2 DEF HeadsCarry
<1> QED
  BY <1>1, SetsAfter DEF TimerAfter

LEMMA QuietDocs ==
    ASSUME DocsInv, configSetIndex' = configSetIndex, settings' = settings, HeadsCarry,
           \A u \in Uris :
              isOpen(u)' /\ isServed(u)' /\ getSetForUri(configSetIndex, u) = None =>
                 validateTimers'[u] = u \/ KeptDoc(u)
    PROVE  DocsInv'
<1>1. ASSUME NEW u \in Uris, getSetForUri(configSetIndex, u) = None, validateTimers'[u] # u,
             KeptDoc(u)
      PROVE  HeadsFor(published', inflight', outdated', {u}, AloneAfter(u))
  <2>1. HeadsFor(published, inflight, outdated, {u}, AloneAfter(u)) /\ {u} \in SUBSET Uris
    BY <1>1, KeptDocHeads
  <2> QED
    BY <2>1 DEF HeadsCarry
<1> QED
  BY <1>1, DocsAfter


----------------------------------------------------------------------------
(* The lists stay complete.                                                *)
DocsListed == \A u \in Uris : isOpen(u) => Lists(order, u)
ListedInv == ModelsInv /\ DocsListed /\ ListsMembers(configSetIndex)

LEMMA OpenListed ==
    ASSUME ListedInv, NEW u \in Uris, NEW c, DidOpen(u, c)
    PROVE  DocsListed'
<1>1. /\ text' = [text EXCEPT ![u] = c] /\ text \in Caches
      /\ order' = Append(order, u) /\ order \in Seq(Uris)
  BY InvParts DEF DidOpen, ListedInv
<1>2. \A v \in ToSet(order) \cup {u} : Lists(order', v)
  BY <1>1, AppendLists
<1>3. \A v \in Uris : Lists(order, v) => v \in ToSet(order)
  BY DEF Lists, ToSet
<1>4. \A v \in Uris \ {u} : isOpen(v)' => isOpen(v)
  BY <1>1 DEF isOpen, Caches
<1> QED
  BY <1>2, <1>3, <1>4 DEF DocsListed, ListedInv

LEMMA CloseListed ==
    ASSUME ListedInv, NEW u \in Uris, DidClose(u)
    PROVE  DocsListed'
<1>1. /\ text' = [text EXCEPT ![u] = None] /\ text \in Caches /\ order \in Seq(Uris)
  BY InvParts DEF DidClose, ListedInv
<1>2. PICK i \in DOMAIN order : order[i] = u /\ order' = RemoveAt(order, i)
  BY DEF DidClose
<1>3. i \in 1..Len(order) /\ Len(order) \in Nat
  BY <1>1
<1>4. /\ order' \in Seq(Uris) /\ Len(order') = Len(order) - 1
      /\ \A j \in 1..(Len(order) - 1) : order'[j] = order[IF j < i THEN j ELSE j + 1]
  <2>1. LET left == RemoveAt(order, i)
        IN  /\ left \in Seq(Uris) /\ Len(left) = Len(order) - 1
            /\ \A j \in 1..(Len(order) - 1) : left[j] = order[IF j < i THEN j ELSE j + 1]
    BY <1>1, <1>3, Removed
  <2> QED
    BY <1>2, <2>1
<1>5. DOMAIN order' = 1..(Len(order) - 1)
  BY <1>3, <1>4
<1>6. ASSUME NEW v \in Uris, isOpen(v)'
      PROVE  \E j \in DOMAIN order' : order'[j] = v
  <2>1. v # u /\ isOpen(v)
    BY <1>1, <1>6 DEF isOpen, Caches
  <2>2. PICK k \in DOMAIN order : order[k] = v
    BY <2>1 DEF ListedInv, DocsListed, Lists
  <2>3. k # i /\ k \in 1..Len(order)
    BY <1>1, <1>2, <2>1, <2>2
  <2> DEFINE j == IF k < i THEN k ELSE k - 1
  <2>4. j \in 1..(Len(order) - 1) /\ (IF j < i THEN j ELSE j + 1) = k
    BY <1>3, <2>3
  <2> HIDE DEF j
  <2> QED
    BY <1>4, <1>5, <2>2, <2>4
<1> QED
  BY <1>6 DEF DocsListed, Lists

LEMMA ScansList ==
    ASSUME ListedInv, [Next]_vars
    PROVE  /\ ListsMembers(configSetIndex')
           /\ SetsMet(configSetIndex') \/ configSetIndex' = configSetIndex
<1>0. file \in Caches /\ sidecar \in [Dirs -> Sidecars] /\ ListsMembers(configSetIndex)
  BY InvParts DEF ListedInv
<1>1. \/ \E roots, opts : configSetIndex' = Rescan(file, sidecar, roots, opts)
      \/ configSetIndex' = configSetIndex
  <2>1. ASSUME NEW stg \in SettingsSet, Initialized(stg)
        PROVE  \E roots, opts : configSetIndex' = Rescan(file, sidecar, roots, opts)
    BY <2>1 DEF Initialized
  <2>2. ASSUME NEW stg \in SettingsSet, Configure(stg)
        PROVE  \E roots, opts : configSetIndex' = Rescan(file, sidecar, roots, opts)
    BY <2>2 DEF Configure
  <2>3. ASSUME NEW u \in Uris, NEW c, DidOpen(u, c)
        PROVE  \/ \E roots, opts : configSetIndex' = Rescan(file, sidecar, roots, opts)
               \/ configSetIndex' = configSetIndex
    BY <2>3 DEF DidOpen
  <2>4. ASSUME NEW batch, WatchedFiles(batch)
        PROVE  \/ \E roots, opts : configSetIndex' = Rescan(file, sidecar, roots, opts)
               \/ configSetIndex' = configSetIndex
    BY <2>4 DEF WatchedFiles
  <2>5. CASE \/ \E u \in Uris : \E c \in TextsOf[u] : DidChange(u, c) \/ WriteFile(u, c)
             \/ \E u \in Uris : DidClose(u) \/ Request(u) \/ TimerFires(u)
             \/ \E d \in Dirs : \E sc \in SidecarsOf[d] : WriteSidecar(d, sc)
             \/ \E t \in inflight : Settle(t)
             \/ UNCHANGED vars
    BY <2>5 DEF DidChange, WriteFile, DidClose, Request, TimerFires, WriteSidecar, Settle,
                vars, setVars
  <2> QED
    BY <2>1, <2>2, <2>3, <2>4, <2>5 DEF Next, Handler, Client
<1> QED
  BY <1>0, <1>1, ScanLists

LEMMA NextLists ==
    ASSUME ListedInv, OpenedInsideFolders', [Next]_vars
    PROVE  ListedInv'
<1>1. ModelsInv'
  BY NextFits DEF ListedInv
<1>2. ListsMembers(configSetIndex')
  BY ScansList
<1>3. DocsListed'
  <2>1. ASSUME NEW u \in Uris, NEW c, DidOpen(u, c)
        PROVE  DocsListed'
    BY <2>1, OpenListed
  <2>2. ASSUME NEW u \in Uris, DidClose(u)
        PROVE  DocsListed'
    BY <2>2, CloseListed
  <2>3. ASSUME NEW u \in Uris, NEW c, DidChange(u, c)
        PROVE  DocsListed'
    BY <2>3, InvParts DEF DidChange, ListedInv, DocsListed, isOpen, Caches
  <2>4. ASSUME text' = text, order' = order
        PROVE  DocsListed'
    BY <2>4 DEF ListedInv, DocsListed, isOpen
  <2>5. CASE \/ \E stg \in SettingsSet : Initialized(stg) \/ Configure(stg)
             \/ \E batch : WatchedFiles(batch)
             \/ \E u \in Uris : Request(u) \/ TimerFires(u)
             \/ \E u \in Uris : \E c \in TextsOf[u] : WriteFile(u, c)
             \/ \E d \in Dirs : \E sc \in SidecarsOf[d] : WriteSidecar(d, sc)
             \/ \E t \in inflight : Settle(t)
             \/ UNCHANGED vars
    BY <2>4, <2>5 DEF Initialized, Configure, WatchedFiles, Request, TimerFires, WriteFile,
                      WriteSidecar, Settle, vars, docVars
  <2> QED
    BY <2>1, <2>2, <2>3, <2>5 DEF Next, Handler, Client
<1> QED
  BY <1>1, <1>2, <1>3 DEF ListedInv

LEMMA InitLists == Init => ListedInv
  BY InitFits DEF Init, ListedInv, DocsListed, isOpen, ListsMembers, NoIndex


----------------------------------------------------------------------------
(* The server's handlers.                                                  *)
LEMMA ReadingAfter ==
    ASSUME TypeInv', file' = file
    PROVE  Reading /\ IndexOK(configSetIndex')
  BY DEF TypeInv, TypeOK, OrderOK, Reading, Caches

LEMMA RunsTogether ==
    ASSUME NEW A \in SUBSET Runs, Bounded(A), NEW B \in SUBSET Runs, Bounded(B)
    PROVE  Bounded(A \cup B)
<1>1. PICK m \in Nat : \A r \in A : r.at[1] <= m /\ r.at[2] <= m
  BY DEF Bounded
<1>2. PICK n \in Nat : \A r \in B : r.at[1] <= n /\ r.at[2] <= n
  BY DEF Bounded
<1>3. \A r \in Runs : r.at[1] \in Nat /\ r.at[2] \in Nat
  BY DEF Runs
<1>4. m + n \in Nat
  OBVIOUS
<1>5. \A r \in A \cup B : r.at[1] <= m + n /\ r.at[2] <= m + n
  <2>1. \A r \in A : r.at[1] <= m + n /\ r.at[2] <= m + n
    BY <1>1, <1>3
  <2>2. \A r \in B : r.at[1] <= m + n /\ r.at[2] <= m + n
    BY <1>2, <1>3
  <2> QED
    BY <2>1, <2>2
<1> QED
  BY <1>4, <1>5 DEF Bounded

LEMMA HandlerRuns ==
    ASSUME Reading, NEW index, IndexOK(index), NEW models \in Models, NEW cache \in Caches,
           NEW stage \in Nat
    PROVE  /\ LET runs == validateAllSets(stage, index, models, cache)
              IN  /\ runs \subseteq Runs /\ Bounded(runs)
                  /\ \A r \in runs : SoundRun(index, models, cache, r)
           /\ LET runs == validateAllDocs(stage, index, models, cache)
              IN  /\ runs \subseteq Runs /\ Bounded(runs)
                  /\ \A r \in runs : SoundRun(index, models, cache, r)
<1> DEFINE sets == validateAllSets(stage, index, models, cache)
           docs == validateAllDocs(stage, index, models, cache)
<1>1. sets \subseteq Runs /\ docs \subseteq Runs
  BY AllRunsTyped DEF RunsOf
<1>2. /\ \A r \in sets : /\ SoundRun(index, models, cache, r)
                         /\ r.at[1] = stage /\ r.at[2] \in 1..Len(index.met)
      /\ \A r \in docs : /\ SoundRun(index, models, cache, r)
                         /\ r.at[1] = stage /\ r.at[2] \in 1..Len(order')
  BY AllRunsSound
<1>3. Len(index.met) \in Nat /\ Len(order') \in Nat
  BY DEF IndexOK, Reading
<1> HIDE DEF sets, docs
<1>4. Bounded(sets)
  <2>1. stage + Len(index.met) \in Nat
    BY <1>3
  <2>2. \A r \in sets : /\ r.at[1] <= stage + Len(index.met)
                        /\ r.at[2] <= stage + Len(index.met)
    BY <1>2, <1>3
  <2> QED
    BY <2>1, <2>2 DEF Bounded
<1>5. Bounded(docs)
  <2>1. stage + Len(order') \in Nat
    BY <1>3
  <2>2. \A r \in docs : /\ r.at[1] <= stage + Len(order')
                        /\ r.at[2] <= stage + Len(order')
    BY <1>2, <1>3
  <2> QED
    BY <2>1, <2>2 DEF Bounded
<1> QED
  BY <1>1, <1>2, <1>4, <1>5 DEF sets, docs

LEMMA DocRunAlright ==
    ASSUME Reading, NEW index, IndexOK(index), NEW models \in Models, NEW cache \in Caches,
           NEW u \in Uris, text'[u] # None, NEW stage \in Nat
    PROVE  LET runs == {docRun(<<stage, 1>>, index, models, cache, u)}
           IN  /\ runs \subseteq Runs /\ Bounded(runs)
               /\ \A r \in runs : SoundRun(index, models, cache, r)
<1> DEFINE r == docRun(<<stage, 1>>, index, models, cache, u)
<1>1. r \in Runs
  <2>1. <<stage, 1>> \in Nat \X Nat
    OBVIOUS
  <2> QED
    BY <2>1, DocRunTyped DEF RunsOf
<1>2. SoundRun(index, models, cache, r) /\ r.at = <<stage, 1>>
  BY DocRunSound
<1> HIDE DEF r
<1>3. stage + 1 \in Nat /\ r.at[1] <= stage + 1 /\ r.at[2] <= stage + 1
  BY <1>2
<1>4. Bounded({r})
  BY <1>3 DEF Bounded
<1> QED
  BY <1>1, <1>2, <1>4 DEF r

PubInv == ListedInv /\ AgreeInv /\ SetsInv

LEMMA InvTypes ==
    ASSUME ListedInv
    PROVE  /\ RunsTyped /\ TypeInv /\ IndexOK(configSetIndex) /\ ListsMembers(configSetIndex)
           /\ text \in Caches /\ validateTimers \in [Uris -> Uris \cup {None}]
           /\ setModelCache \in Models /\ diskCache \in Caches
           /\ Current(diskCache, Delivered)
  BY InvParts, TypeParts
     DEF ListedInv, ModelsInv, DiskInv, CacheTyped, RestTyped, DocsTyped, IndexTyped

LEMMA ConfigurePublishes ==
    ASSUME ListedInv, ListedInv', NEW stg \in SettingsSet, Configure(stg)
    PROVE  AgreeInv' /\ SetsInv' /\ DocsInv'
<1> DEFINE index == configSetIndex'
           sets  == validateAllSets(1, index, EmptyCache, diskCache)
           docs  == validateAllDocs(2, index, EmptyCache, diskCache)
<1>1. /\ file' = file /\ watched' = watched /\ unreported' = unreported
      /\ Publish(sets \cup docs)
      /\ \E roots, opts : index = Rescan(file, sidecar, roots, opts)
  BY DEF Configure, diskVars
<1>2. /\ TypeInv' /\ RunsTyped /\ EmptyCache \in Models /\ diskCache \in Caches
      /\ Current(diskCache, Delivered)
  BY InvTypes, CachesDropped DEF ListedInv, ModelsInv, DiskInv
<1>3. Reading /\ IndexOK(index)
  BY <1>1, <1>2, ReadingAfter
<1>4. Delivered' = Delivered
  BY <1>1 DEF Delivered, eventPending
<1>5. SetsMet(index)
  BY <1>1, InvParts, ScanLists DEF ListedInv
<1>6. Validating(index, EmptyCache, diskCache, {}, sets \cup docs)
  <2>1. /\ sets \subseteq Runs /\ Bounded(sets) /\ docs \subseteq Runs /\ Bounded(docs)
        /\ \A r \in sets \cup docs : SoundRun(index, EmptyCache, diskCache, r)
    BY <1>2, <1>3, HandlerRuns
  <2>2. Bounded(sets \cup docs) /\ Fits(index, EmptyCache, {})
    BY <2>1, RunsTogether, EmptyFits
  <2> HIDE DEF sets, docs, index
  <2> QED
    BY <1>1, <1>2, <1>3, <1>4, <2>1, <2>2 DEF Validating
<1>7. AgreeInv' /\ SetsInv'
  BY <1>2, <1>5, <1>6, AllSetsValidated
<1>8. DocsInv'
  <2>1. \A u \in Uris : isOpen(u)' => Lists(order', u)
    BY DEF ListedInv, DocsListed
  <2> QED
    BY <1>2, <1>3, <1>6, <2>1, AllDocsValidated
<1> QED
  BY <1>7, <1>8



(* A step that publishes nothing new and leaves documents as they are.     *)
Unmoved(m) ==
    \/ Unsettled(m)'
    \/ currentText(m)' = currentText(m) /\ (Unsettled(m) => Unsettled(m)')

LEMMA QuietStep ==
    ASSUME ListedInv, AgreeInv, HeadsCarry,
           UNCHANGED <<text, settings, adoptedYamlUris, configSetIndex, validateTimers>>,
           \A m \in Uris : Unmoved(m)
    PROVE  AgreeInv' /\ (SetsInv => SetsInv') /\ (DocsInv => DocsInv')
<1>1. IndexOK(configSetIndex)
  BY InvTypes
<1>2. \A m : (isOpen(m)' <=> isOpen(m)) /\ (isServed(m)' <=> isServed(m))
  BY DEF isOpen, isServed
<1>3. ASSUME NEW a \in Uris, Unshared(configSetIndex, a)
      PROVE  KeptSet(a)
  <2>1. Members(configSetIndex, a) \in SUBSET Uris
    BY <1>1, <1>3, SetsOK DEF Unshared
  <2>2. SomeServed(configSetIndex, a) =>
           \E u \in Members(configSetIndex, a) : isOpen(u) /\ isServed(u)
    BY <1>2 DEF SomeServed
  <2>3. SetTimer(a) => TimerAfter(a)
    BY DEF SetTimer, TimerAfter
  <2>4. \A m \in Members(configSetIndex, a) : Unmoved(m)
    BY <2>1
  <2> QED
    BY <2>2, <2>3, <2>4 DEF KeptSet, Unmoved
<1>4. \A u \in Uris : isOpen(u)' /\ isServed(u)' => KeptDoc(u)
  BY <1>2 DEF KeptDoc
<1> QED
  BY <1>1, <1>3, <1>4, QuietAgree, QuietSets, QuietDocs

LEMMA SameTexts ==
    ASSUME UNCHANGED <<file, text, settings, adoptedYamlUris, discarded, unreported>>,
           watched \subseteq watched'
    PROVE  \A m \in Uris : Unmoved(m)
<1>1. \A m : currentText(m)' = currentText(m)
  BY DEF currentText, isOpen
<1>2. \A m : eventPending(m) => eventPending(m)'
  BY DEF eventPending
<1>3. \A m : isUnheard(m) => isUnheard(m)'
  BY DEF isOpen, isServed, isUnheard
<1> QED
  BY <1>1, <1>2, <1>3 DEF Unmoved, Unsettled

LEMMA SamePublished ==
    ASSUME UNCHANGED <<published, inflight, outdated>>
    PROVE  HeadsCarry
  BY DEF HeadsCarry

LEMMA RequestPublishes ==
    ASSUME ListedInv, AgreeInv, NEW u \in Uris, Request(u)
    PROVE  AgreeInv' /\ (SetsInv => SetsInv') /\ (DocsInv => DocsInv')
<1>1. UNCHANGED <<file, text, settings, adoptedYamlUris, configSetIndex, discarded, watched,
                  unreported, validateTimers, published, inflight, outdated>>
  BY DEF Request, diskVars, docVars, setVars, runVars
<1> QED
  BY <1>1, SameTexts, SamePublished, QuietStep

LEMMA SettlePublishes ==
    ASSUME ListedInv, AgreeInv, NEW t \in inflight, Settle(t)
    PROVE  AgreeInv' /\ (SetsInv => SetsInv') /\ (DocsInv => DocsInv')
<1>1. UNCHANGED <<file, text, settings, adoptedYamlUris, configSetIndex, discarded, watched,
                  unreported, validateTimers>>
  BY DEF Settle, diskVars, docVars, setVars
<1>2. inflight \subseteq Flying /\ published \in [Uris -> Diags \cup {None}]
  BY InvTypes DEF RunsTyped
<1>3. HeadsCarry
  <2> SUFFICES ASSUME NEW U \in SUBSET Uris, NEW G,
                      HeadsFor(published, inflight, outdated, U, G)
               PROVE  HeadsFor(published', inflight', outdated', U, G)
    BY DEF HeadsCarry
  <2> QED
    BY <1>2, SettleHeads
<1> QED
  BY <1>1, <1>3, SameTexts, QuietStep

LEMMA WriteFilePublishes ==
    ASSUME ListedInv, AgreeInv, NEW u \in Uris, NEW c \in Contents \cup {None}, WriteFile(u, c)
    PROVE  AgreeInv' /\ (SetsInv => SetsInv') /\ (DocsInv => DocsInv')
<1>1. /\ UNCHANGED <<text, settings, adoptedYamlUris, configSetIndex, discarded,
                     validateTimers, published, inflight, outdated>>
      /\ file' = [file EXCEPT ![u] = c] /\ file \in Caches
  BY InvParts DEF WriteFile, docVars, setVars, runVars, ListedInv
<1>2. /\ watched \subseteq watched' /\ unreported \subseteq unreported'
      /\ eventPending(u)' \/ u \in unreported'
  BY WriteIsNoted
<1>3. Unsettled(u)' \/ isOpen(u)
  BY <1>1, <1>2 DEF Unsettled, isUnheard, isOpen
<1>4. ASSUME NEW m \in Uris, m # u \/ isOpen(u) PROVE Unmoved(m)
  <2>1. currentText(m)' = currentText(m)
    BY <1>1, <1>4 DEF currentText, isOpen, Caches
  <2>2. Unsettled(m) => Unsettled(m)'
    BY <1>1, <1>2 DEF Unsettled, eventPending, isOpen, isServed, isUnheard
  <2> QED
    BY <2>1, <2>2 DEF Unmoved
<1>5. \A m \in Uris : Unmoved(m)
  BY <1>3, <1>4 DEF Unmoved
<1> QED
  BY <1>1, <1>5, SamePublished, QuietStep

LEMMA OtherPublishes ==
    ASSUME ListedInv, AgreeInv,
           (\E d \in Dirs : \E sc \in SidecarsOf[d] : WriteSidecar(d, sc)) \/ UNCHANGED vars
    PROVE  AgreeInv' /\ (SetsInv => SetsInv') /\ (DocsInv => DocsInv')
<1>1. /\ UNCHANGED <<file, text, settings, adoptedYamlUris, configSetIndex, discarded,
                     unreported, validateTimers, published, inflight, outdated>>
      /\ watched \subseteq watched'
  BY DEF WriteSidecar, vars, diskVars, docVars, setVars, runVars
<1> QED
  BY <1>1, SameTexts, SamePublished, QuietStep

(* A document closes: the set may have lost its last open member; what it  *)
(* shows is what is saved, or the text counts as dropped.                  *)
LEMMA DidClosePublishes ==
    ASSUME ListedInv, AgreeInv, NEW u \in Uris, DidClose(u)
    PROVE  AgreeInv' /\ (SetsInv => SetsInv') /\ (DocsInv => DocsInv')
<1>1. /\ text' = [text EXCEPT ![u] = None] /\ text[u] # None /\ text \in Caches
      /\ discarded' = IF text[u] = file[u] /\ isServed(u) THEN discarded
                                                         ELSE discarded \cup {u}
      /\ UNCHANGED <<file, settings, adoptedYamlUris, configSetIndex, validateTimers,
                     watched, unreported, published, inflight, outdated>>
  BY InvParts DEF DidClose, diskVars, setVars, runVars, ListedInv
<1>2. IndexOK(configSetIndex) /\ HeadsCarry
  BY <1>1, InvTypes, SamePublished
<1>3. ASSUME NEW m \in Uris \ {u}
      PROVE  text'[m] = text[m] /\ (isOpen(m)' <=> isOpen(m)) /\ (isServed(m)' <=> isServed(m))
  BY <1>1 DEF Caches, isOpen, isServed
<1>4. ~ isOpen(u)'
  BY <1>1 DEF Caches, isOpen
<1>5. ASSUME NEW m \in Uris \ {u} PROVE Unmoved(m)
  <2>1. currentText(m)' = currentText(m)
    BY <1>1, <1>3 DEF currentText
  <2>2. Unsettled(m) => Unsettled(m)'
    BY <1>1, <1>3 DEF Unsettled, eventPending, isUnheard
  <2> QED
    BY <2>1, <2>2 DEF Unmoved
<1>6. Unmoved(u)
  <2>1. CASE text[u] = file[u] /\ isServed(u)
    <3>1. currentText(u)' = currentText(u)
      BY <1>1, <1>4, <2>1 DEF currentText, isOpen
    <3>2. Unsettled(u) => Unsettled(u)'
      BY <1>1, <2>1 DEF Unsettled, eventPending, isUnheard, isOpen
    <3> QED
      BY <3>1, <3>2 DEF Unmoved
  <2>2. CASE ~ (text[u] = file[u] /\ isServed(u))
    BY <1>1, <2>2 DEF Unmoved, Unsettled
  <2> QED
    BY <2>1, <2>2
<1>7. ASSUME NEW a \in Uris, Unshared(configSetIndex, a)
      PROVE  KeptSet(a)
  <2>1. Members(configSetIndex, a) \in SUBSET Uris
    BY <1>2, <1>7, SetsOK DEF Unshared
  <2>2. SomeServed(configSetIndex, a) =>
           \E v \in Members(configSetIndex, a) : isOpen(v) /\ isServed(v)
    BY <1>3, <1>4, <2>1 DEF SomeServed
  <2>3. SetTimer(a) => TimerAfter(a)
    BY <1>1 DEF SetTimer, TimerAfter
  <2>4. \A m \in Members(configSetIndex, a) : Unmoved(m)
    BY <1>5, <1>6, <2>1
  <2> QED
    BY <2>2, <2>3, <2>4 DEF KeptSet, Unmoved
<1>8. \A v \in Uris : isOpen(v)' /\ isServed(v)' => KeptDoc(v)
  BY <1>1, <1>3, <1>4 DEF KeptDoc
<1> QED
  BY <1>1, <1>2, <1>7, <1>8, QuietAgree, QuietSets, QuietDocs



(* A document opens or changes: the others stay as they are.               *)
LEMMA OthersStay ==
    ASSUME ListedInv, NEW u \in Uris, NEW c \in Contents, DidOpen(u, c) \/ DidChange(u, c)
    PROVE  /\ \A m \in Uris \ {u} : /\ Unmoved(m) /\ text'[m] = text[m]
                                    /\ (isOpen(m)' <=> isOpen(m)) /\ (isServed(m)' <=> isServed(m))
           /\ isOpen(u)' /\ text'[u] # None
           /\ ~ shouldServe(u, c) => ~ isServed(u)' /\ Unmoved(u)
           /\ file' = file /\ settings' = settings /\ Delivered' = Delivered
<1>1. /\ text' = [text EXCEPT ![u] = c] /\ text \in Caches /\ c # None
      /\ adoptedYamlUris' = adoptedYamlUris \cup adopting(u, c)
      /\ settings' = settings /\ file' = file /\ watched' = watched
      /\ unreported' = unreported /\ discarded' \in {discarded, discarded \ {u}}
  BY InvParts, ContentsAssumption DEF DidOpen, DidChange, diskVars, ListedInv
<1>2. ASSUME NEW m \in Uris \ {u}
      PROVE  text'[m] = text[m] /\ (isOpen(m)' <=> isOpen(m)) /\ (isServed(m)' <=> isServed(m))
  <2>1. text'[m] = text[m]
    BY <1>1 DEF Caches
  <2>2. isServed(m)' <=> isServed(m)
    BY <1>1, ServedOthers
  <2> QED
    BY <2>1, <2>2 DEF isOpen
<1>3. ASSUME NEW m \in Uris \ {u} PROVE Unmoved(m)
  <2>1. currentText(m)' = currentText(m)
    BY <1>1, <1>2 DEF currentText
  <2>2. Unsettled(m) => Unsettled(m)'
    BY <1>1, <1>2 DEF Unsettled, eventPending, isUnheard
  <2> QED
    BY <2>1, <2>2 DEF Unmoved
<1>4. isOpen(u)' /\ text'[u] # None
  BY <1>1 DEF isOpen, Caches
<1>5. ~ shouldServe(u, c) => ~ isServed(u)' /\ Unmoved(u)
  BY <1>1, <1>4, NotServed DEF Unmoved, Unsettled, isUnheard
<1>6. Delivered' = Delivered
  BY <1>1 DEF Delivered, eventPending
<1> QED
  BY <1>1, <1>2, <1>3, <1>4, <1>5, <1>6

LEMMA UnservedPublishes ==
    ASSUME ListedInv, AgreeInv, NEW u \in Uris, NEW c \in Contents,
           DidOpen(u, c) \/ DidChange(u, c), ~ shouldServe(u, c)
    PROVE  AgreeInv' /\ (SetsInv => SetsInv') /\ (DocsInv => DocsInv')
<1>1. UNCHANGED <<configSetIndex, validateTimers, published, inflight, outdated>>
  BY DEF DidOpen, DidChange, runVars
<1>2. IndexOK(configSetIndex) /\ HeadsCarry
  BY <1>1, InvTypes, SamePublished
<1>3. /\ \A m \in Uris \ {u} : /\ Unmoved(m) /\ text'[m] = text[m]
                               /\ (isOpen(m)' <=> isOpen(m)) /\ (isServed(m)' <=> isServed(m))
      /\ ~ isServed(u)' /\ Unmoved(u) /\ settings' = settings
  BY OthersStay
<1>4. ASSUME NEW a \in Uris, Unshared(configSetIndex, a)
      PROVE  KeptSet(a)
  <2>1. Members(configSetIndex, a) \in SUBSET Uris
    BY <1>2, <1>4, SetsOK DEF Unshared
  <2>2. SomeServed(configSetIndex, a) =>
           \E v \in Members(configSetIndex, a) : isOpen(v) /\ isServed(v)
    BY <1>3, <2>1 DEF SomeServed
  <2>3. SetTimer(a) => TimerAfter(a)
    BY <1>1 DEF SetTimer, TimerAfter
  <2>4. \A m \in Members(configSetIndex, a) : Unmoved(m)
    BY <1>3, <2>1
  <2> QED
    BY <2>2, <2>3, <2>4 DEF KeptSet, Unmoved
<1>5. \A v \in Uris : isOpen(v)' /\ isServed(v)' => KeptDoc(v)
  BY <1>1, <1>3 DEF KeptDoc
<1> QED
  BY <1>1, <1>2, <1>3, <1>4, <1>5, QuietAgree, QuietSets, QuietDocs

(* Setting the timer of a document's set, or its own, leaves the timers of *)
(* other sets and of documents in no set.                                  *)
LEMMA TimersApart ==
    ASSUME ListedInv, AnchorsListed, NEW u \in Uris,
           validateTimers' = [validateTimers EXCEPT ![timerKey(configSetIndex, u)] = u]
    PROVE  LET b == getSetForUri(configSetIndex, u)
           IN  /\ b # None => TimerAfter(b)
               /\ b = None => validateTimers'[u] = u
               /\ \A a \in Uris \ {b} : Unshared(configSetIndex, a) =>
                     u \notin Members(configSetIndex, a) /\ validateTimers'[a] = validateTimers[a]
               /\ \A v \in Uris \ {u} : getSetForUri(configSetIndex, v) = None =>
                     validateTimers'[v] = validateTimers[v]
<1> DEFINE b   == getSetForUri(configSetIndex, u)
           key == timerKey(configSetIndex, u)
<1>1. /\ IndexOK(configSetIndex) /\ validateTimers \in [Uris -> Uris \cup {None}] /\ u # None
      /\ key = IF b # None THEN b ELSE u
  BY InvTypes, ContentsAssumption DEF timerKey
<1>2. key \in Uris
  BY <1>1, AnsweringSet
<1>3. validateTimers'[key] = u /\ \A k \in Uris \ {key} : validateTimers'[k] = validateTimers[k]
  BY <1>1, <1>2
<1>4. ASSUME NEW a \in Uris \ {b}, Unshared(configSetIndex, a)
      PROVE  u \notin Members(configSetIndex, a) /\ a # key
  <2>1. u \notin Members(configSetIndex, a)
    BY <1>1, <1>4, UnsharedAnswers
  <2>2. a \in Members(configSetIndex, a)
    BY <1>4 DEF AnchorsListed, Unshared
  <2> QED
    BY <1>1, <2>1, <2>2
<1>5. ASSUME NEW v \in Uris \ {u}, getSetForUri(configSetIndex, v) = None
      PROVE  v # key
  <2>1. ASSUME v = b PROVE FALSE
    <3>1. b \in DOMAIN configSetIndex.sets
      BY <1>1, <2>1, ContentsAssumption, AnsweringSet
    <3>2. v \in Members(configSetIndex, v)
      BY <2>1, <3>1 DEF AnchorsListed
    <3> QED
      BY <1>1, <1>5, <2>1, <3>1, <3>2 DEF IndexOK, Members
  <2> QED
    BY <1>1, <1>5, <2>1
<1> HIDE DEF key
<1> QED
  BY <1>1, <1>3, <1>4, <1>5 DEF TimerAfter

(* What a served document's change or opening leaves of other sets and of  *)
(* other documents.                                                        *)
LEMMA OthersKept ==
    ASSUME ListedInv, AnchorsListed, NEW u \in Uris, NEW c \in Contents,
           DidOpen(u, c) \/ DidChange(u, c),
           validateTimers' = [validateTimers EXCEPT ![timerKey(configSetIndex, u)] = u]
    PROVE  /\ \A a \in Uris : Unshared(configSetIndex, a) =>
                 \/ TimerAfter(a)
                 \/ u \notin Members(configSetIndex, a) /\ KeptSet(a)
           /\ \A v \in Uris :
                 isOpen(v)' /\ isServed(v)' /\ getSetForUri(configSetIndex, v) = None =>
                    validateTimers'[v] = v \/ KeptDoc(v)
<1> DEFINE b == getSetForUri(configSetIndex, u)
<1>1. \A m \in Uris \ {u} : /\ Unmoved(m) /\ text'[m] = text[m]
                            /\ (isOpen(m)' <=> isOpen(m)) /\ (isServed(m)' <=> isServed(m))
  BY OthersStay
<1>2. /\ b # None => TimerAfter(b)
      /\ b = None => validateTimers'[u] = u
      /\ \A a \in Uris \ {b} : Unshared(configSetIndex, a) =>
            u \notin Members(configSetIndex, a) /\ validateTimers'[a] = validateTimers[a]
      /\ \A v \in Uris \ {u} : getSetForUri(configSetIndex, v) = None =>
            validateTimers'[v] = validateTimers[v]
  BY TimersApart
<1>3. ASSUME NEW a \in Uris, Unshared(configSetIndex, a), a # b
      PROVE  u \notin Members(configSetIndex, a) /\ KeptSet(a)
  <2>1. Members(configSetIndex, a) \in SUBSET (Uris \ {u})
    BY <1>2, <1>3, InvTypes, SetsOK DEF Unshared
  <2>2. SomeServed(configSetIndex, a) =>
           \E v \in Members(configSetIndex, a) : isOpen(v) /\ isServed(v)
    BY <1>1, <2>1 DEF SomeServed
  <2>3. SetTimer(a) => TimerAfter(a)
    BY <1>2, <1>3 DEF SetTimer, TimerAfter
  <2>4. \A m \in Members(configSetIndex, a) : Unmoved(m)
    BY <1>1, <2>1
  <2> QED
    BY <2>1, <2>2, <2>3, <2>4 DEF KeptSet, Unmoved
<1>4. \A a \in Uris : a # None
  BY ContentsAssumption
<1>5. ASSUME NEW v \in Uris, v # u, getSetForUri(configSetIndex, v) = None,
             isOpen(v)', isServed(v)'
      PROVE  KeptDoc(v)
  BY <1>1, <1>2, <1>5 DEF KeptDoc
<1> QED
  BY <1>2, <1>3, <1>4, <1>5

LEMMA DidChangePublishes ==
    ASSUME ListedInv, AgreeInv, NEW u \in Uris, NEW c \in Contents, DidChange(u, c)
    PROVE  AgreeInv' /\ (AnchorsListed => (SetsInv => SetsInv') /\ (DocsInv => DocsInv'))
<1>1. UNCHANGED <<configSetIndex, settings, published, inflight, outdated>>
  BY DEF DidChange
<1>2. IndexOK(configSetIndex) /\ HeadsCarry
  BY <1>1, InvTypes, SamePublished
<1>3. AgreeInv'
  BY <1>1, <1>2, QuietAgree
<1>4. CASE ~ shouldServe(u, c)
  BY <1>3, <1>4, UnservedPublishes
<1>5. ASSUME shouldServe(u, c), AnchorsListed
      PROVE  (SetsInv => SetsInv') /\ (DocsInv => DocsInv')
  <2>1. validateTimers' = [validateTimers EXCEPT ![timerKey(configSetIndex, u)] = u]
    BY <1>5 DEF DidChange
  <2>2. \A a \in Uris : Unshared(configSetIndex, a) => TimerAfter(a) \/ KeptSet(a)
    BY <1>5, <2>1, OthersKept
  <2>3. \A v \in Uris :
           isOpen(v)' /\ isServed(v)' /\ getSetForUri(configSetIndex, v) = None =>
              validateTimers'[v] = v \/ KeptDoc(v)
    BY <1>5, <2>1, OthersKept
  <2> QED
    BY <1>1, <1>2, <2>2, <2>3, QuietSets, QuietDocs
<1> QED
  BY <1>3, <1>4, <1>5



LEMMA UnmovedFits ==
    ASSUME ListedInv, NEW off, \A m \in Uris \ off : Unmoved(m)
    PROVE  Fits(configSetIndex, setModelCache, off)
<1>1. ASSUME NEW m \in Uris \ off
      PROVE  \/ Excused(configSetIndex, m)
             \/ /\ currentText(m)' = currentText(m)
                /\ eventPending(m) => eventPending(m)'
                /\ m \in discarded => m \in discarded'
                /\ isUnheard(m) => isUnheard(m)'
  <2>1. Unmoved(m)
    OBVIOUS
  <2>2. Unsettled(m)' => Excused(configSetIndex, m)
    BY DEF Unsettled, Excused
  <2> QED
    BY <2>1, <2>2 DEF Unmoved, Unsettled
<1> QED
  BY <1>1, KeptFits DEF ListedInv

(* A document opens, and brings no root.                                   *)
LEMMA OpenKnownPublishes ==
    ASSUME ListedInv, ListedInv', AgreeInv, NEW u \in Uris, NEW c \in Contents, DidOpen(u, c),
           shouldServe(u, c), ensureRoot(workspaceRoots, u) = workspaceRoots
    PROVE  AgreeInv' /\ (AnchorsListed => (SetsInv => SetsInv') /\ (DocsInv => DocsInv'))
<1> DEFINE index == configSetIndex
           runs  == {docRun(<<2, 1>>, index, setModelCache, diskCache, u)}
<1>1. /\ configSetIndex' = index /\ settings' = settings /\ Publish(runs)
      /\ validateTimers' = [validateTimers EXCEPT ![timerKey(index, u)] = u]
  BY DEF DidOpen, keptAfter
<1>2. /\ RunsTyped /\ IndexOK(index) /\ setModelCache \in Models /\ diskCache \in Caches
      /\ Current(diskCache, Delivered)
  BY InvTypes
<1>3. /\ \A m \in Uris \ {u} : Unmoved(m)
      /\ text'[u] # None /\ file' = file /\ Delivered' = Delivered
  BY OthersStay
<1>4. TypeInv'
  BY DEF ListedInv, ModelsInv, DiskInv
<1>5. Reading
  BY <1>3, <1>4, ReadingAfter
<1>6. Fits(index, setModelCache, {u})
  BY <1>3, UnmovedFits
<1>7. /\ runs \subseteq Runs /\ Bounded(runs)
      /\ \A r \in runs : SoundRun(index, setModelCache, diskCache, r)
  BY <1>2, <1>3, <1>5, DocRunAlright
<1>8. Validating(index, setModelCache, diskCache, {u}, runs)
  <2> HIDE DEF runs
  <2> QED
    BY <1>1, <1>2, <1>3, <1>6, <1>7 DEF Validating
<1> HIDE DEF runs
<1>9. AgreeInv'
  BY <1>1, <1>2, <1>8, SomeAgree
<1>10. ASSUME AnchorsListed PROVE (SetsInv => SetsInv') /\ (DocsInv => DocsInv')
  <2>1. /\ \A a \in Uris : Unshared(index, a) =>
                 \/ TimerAfter(a)
                 \/ u \notin Members(index, a) /\ KeptSet(a)
        /\ \A v \in Uris :
              isOpen(v)' /\ isServed(v)' /\ getSetForUri(index, v) = None =>
                 validateTimers'[v] = v \/ KeptDoc(v)
    BY <1>1, <1>10, OthersKept
  <2>2. SetsInv => SetsInv'
    BY <1>1, <1>2, <1>8, <2>1, SomeSets
  <2>3. DocsInv => DocsInv'
    BY <1>1, <1>2, <1>8, <2>1, SomeDocs
  <2> QED
    BY <2>2, <2>3
<1> QED
  BY <1>9, <1>10

(* A document opens, and brings a root: every set is validated, no other   *)
(* document is.                                                            *)
LEMMA OpenRootPublishes ==
    ASSUME ListedInv, ListedInv', NEW u \in Uris, NEW c \in Contents, DidOpen(u, c),
           shouldServe(u, c), ensureRoot(workspaceRoots, u) # workspaceRoots
    PROVE  AgreeInv' /\ SetsInv'
<1> DEFINE index == configSetIndex'
           doc   == {docRun(<<2, 1>>, index, EmptyCache, diskCache, u)}
           sets  == validateAllSets(1, index, EmptyCache, diskCache)
<1>1. /\ Publish(doc \cup sets)
      /\ \E roots, opts : index = Rescan(file, sidecar, roots, opts)
  BY DEF DidOpen, keptAfter
<1>2. /\ TypeInv' /\ RunsTyped /\ EmptyCache \in Models /\ diskCache \in Caches
      /\ Current(diskCache, Delivered)
  BY InvTypes, CachesDropped DEF ListedInv, ModelsInv, DiskInv
<1>3. text'[u] # None /\ file' = file /\ Delivered' = Delivered
  BY OthersStay
<1>4. Reading /\ IndexOK(index)
  BY <1>2, <1>3, ReadingAfter
<1>5. SetsMet(index)
  BY <1>1, InvParts, ScanLists DEF ListedInv
<1>6. Validating(index, EmptyCache, diskCache, {}, doc \cup sets)
  <2>1. /\ doc \subseteq Runs /\ Bounded(doc)
        /\ \A r \in doc : SoundRun(index, EmptyCache, diskCache, r)
    BY <1>2, <1>3, <1>4, DocRunAlright
  <2>2. /\ sets \subseteq Runs /\ Bounded(sets)
        /\ \A r \in sets : SoundRun(index, EmptyCache, diskCache, r)
    BY <1>2, <1>4, HandlerRuns
  <2> HIDE DEF doc, sets, index
  <2>3. Bounded(doc \cup sets) /\ Fits(index, EmptyCache, {})
    BY <2>1, <2>2, RunsTogether, EmptyFits
  <2> QED
    BY <1>1, <1>2, <1>3, <1>4, <2>1, <2>2, <2>3 DEF Validating
<1>7. sets \subseteq doc \cup sets
  OBVIOUS
<1> HIDE DEF doc
<1> QED
  BY <1>2, <1>5, <1>6, <1>7, AllSetsValidated

LEMMA DidOpenPublishes ==
    ASSUME ListedInv, ListedInv', AgreeInv, NEW u \in Uris, NEW c \in Contents, DidOpen(u, c)
    PROVE  /\ AgreeInv' /\ (AnchorsListed => (SetsInv => SetsInv'))
           /\ AnchorsListed /\ ensureRoot(workspaceRoots, u) = workspaceRoots =>
                 (DocsInv => DocsInv')
<1>1. CASE ~ shouldServe(u, c)
  BY <1>1, UnservedPublishes
<1>2. CASE shouldServe(u, c) /\ ensureRoot(workspaceRoots, u) = workspaceRoots
  BY <1>2, OpenKnownPublishes
<1>3. CASE shouldServe(u, c) /\ ensureRoot(workspaceRoots, u) # workspaceRoots
  BY <1>3, OpenRootPublishes
<1> QED
  BY <1>1, <1>2, <1>3

(* A timer fires: the set, or the document, that it was set for is         *)
(* validated.                                                              *)
LEMMA TimerPublishes ==
    ASSUME ListedInv, ListedInv', AgreeInv, NEW key \in Uris, TimerFires(key)
    PROVE  AgreeInv' /\ (SetsInv => SetsInv') /\ (DocsInv => DocsInv')
<1> DEFINE index == configSetIndex
           u    == validateTimers[key]
           b    == getSetForUri(index, u)
           doc  == IF b # None THEN firstOpen(index, b)
                   ELSE IF text[u] # None THEN u ELSE None
           runs == IF doc = None THEN {}
                   ELSE {docRun(<<1, 1>>, index, setModelCache, diskCache, doc)}
<1>1. /\ Publish(runs) /\ u # None
      /\ validateTimers' = [validateTimers EXCEPT ![key] = None]
      /\ UNCHANGED <<file, text, settings, adoptedYamlUris, configSetIndex, watched, discarded,
                     unreported>>
  BY DEF TimerFires, diskVars, docVars, setVars
<1>2. /\ RunsTyped /\ IndexOK(index) /\ setModelCache \in Models /\ diskCache \in Caches
      /\ Current(diskCache, Delivered) /\ validateTimers \in [Uris -> Uris \cup {None}]
      /\ ListsMembers(index)
  BY InvTypes
<1>3. u \in Uris /\ Delivered' = Delivered
  BY <1>1, <1>2 DEF Delivered, eventPending
<1>4. TypeInv'
  BY DEF ListedInv, ModelsInv, DiskInv
<1>5. Reading
  BY <1>1, <1>4, ReadingAfter
<1>6. /\ \A m \in Uris : Unmoved(m)
      /\ \A m : (isOpen(m)' <=> isOpen(m)) /\ (isServed(m)' <=> isServed(m))
  BY <1>1, SameTexts DEF isOpen, isServed
<1>7. Fits(index, setModelCache, {})
  BY <1>6, UnmovedFits
<1>8. doc # None => doc \in Uris /\ text'[doc] # None
  BY <1>1, <1>2, <1>3, AnsweringSet, FirstOpenTyped
<1>9. ASSUME NEW a \in Uris, Unshared(index, a), SomeServed(index, a), b = a
      PROVE  doc # None /\ getSetForUri(index, doc) = a
  <2>1. PICK m \in Members(index, a) : text'[m] # None
    BY <1>9 DEF SomeServed, isOpen
  <2>2. a \in DOMAIN index.sets /\ a # None
    BY <1>9, ContentsAssumption DEF Unshared
  <2>3. firstOpen(index, a) # None
    BY <1>2, <2>1, <2>2, OpenMember
  <2>4. firstOpen(index, a) \in Members(index, a)
    BY <1>2, <2>2, <2>3, FirstOpenMember
  <2>5. doc = firstOpen(index, a)
    BY <1>9, <2>2
  <2> QED
    BY <1>2, <1>9, <2>3, <2>4, <2>5, UnsharedAnswers
<1>10. ASSUME NEW v \in Uris, getSetForUri(index, v) = None, isOpen(v)', u = v
       PROVE  doc = v
  <2>1. b = None /\ text[u] # None
    BY <1>1, <1>10 DEF isOpen
  <2> QED
    BY <1>10, <2>1
<1> HIDE DEF doc
<1>11. /\ runs \subseteq Runs /\ Bounded(runs)
       /\ \A r \in runs : SoundRun(index, setModelCache, diskCache, r)
  <2>1. CASE doc = None
    <3>1. runs = {} /\ 0 \in Nat
      BY <2>1
    <3> QED
      BY <3>1 DEF Bounded
  <2>2. CASE doc # None
    <3>1. runs = {docRun(<<1, 1>>, index, setModelCache, diskCache, doc)}
      BY <2>2
    <3> QED
      BY <1>2, <1>5, <1>8, <2>2, <3>1, DocRunAlright
  <2> QED
    BY <2>1, <2>2
<1>12. ASSUME doc # None
       PROVE  \E r \in runs : /\ r.anchor = getSetForUri(index, doc)
                              /\ getSetForUri(index, doc) = None => doc \in DOMAIN r.diag.model
  <2> DEFINE r == docRun(<<1, 1>>, index, setModelCache, diskCache, doc)
  <2>1. /\ r.anchor = getSetForUri(index, doc)
        /\ getSetForUri(index, doc) = None => DOMAIN r.diag.model = {doc}
    BY <1>2, <1>8, <1>12, DocRunSound, DocRunAlone
  <2>2. runs = {r}
    BY <1>12
  <2> HIDE DEF runs, r
  <2> QED
    BY <2>1, <2>2
<1> HIDE DEF runs
<1>13. Validating(index, setModelCache, diskCache, {}, runs)
  BY <1>1, <1>2, <1>3, <1>7, <1>11 DEF Validating
<1>14. AgreeInv'
  BY <1>1, <1>2, <1>13, SomeAgree
<1>15. ASSUME NEW a \in Uris, Unshared(index, a), SomeServed(index, a)
       PROVE  TimerAfter(a) \/ (\E r \in runs : r.anchor = a) \/ KeptSet(a)
  <2>1. CASE b = a
    BY <1>9, <1>12, <1>15, <2>1
  <2>2. CASE b # a
    <3>1. Members(index, a) \in SUBSET Uris
      BY <1>2, <1>15, SetsOK DEF Unshared
    <3>2. SomeServed(index, a) => \E v \in Members(index, a) : isOpen(v) /\ isServed(v)
      BY <1>6 DEF SomeServed
    <3>3. SetTimer(a) => TimerAfter(a)
      BY <1>1, <1>2, <2>2 DEF SetTimer, TimerAfter
    <3>4. \A m \in Members(index, a) : Unmoved(m)
      BY <1>6, <3>1
    <3> QED
      BY <3>2, <3>3, <3>4 DEF KeptSet, Unmoved
  <2> QED
    BY <2>1, <2>2
<1>16. SetsInv => SetsInv'
  BY <1>1, <1>2, <1>13, <1>15, SomeSets
<1>17. ASSUME NEW v \in Uris, isOpen(v)', isServed(v)', getSetForUri(index, v) = None
       PROVE  \/ validateTimers'[v] = v
              \/ (\E r \in runs : v \in DOMAIN r.diag.model) \/ KeptDoc(v)
  <2>1. CASE u = v
    BY <1>10, <1>12, <1>17, <2>1, ContentsAssumption
  <2>2. CASE u # v
    <3>1. validateTimers[v] = v => validateTimers'[v] = v
      BY <1>1, <1>2, <2>2
    <3> QED
      BY <1>1, <1>6, <1>17, <3>1 DEF KeptDoc
  <2> QED
    BY <2>1, <2>2
<1>18. DocsInv => DocsInv'
  BY <1>1, <1>2, <1>13, <1>17, SomeDocs
<1> QED
  BY <1>14, <1>16, <1>18



(* File events: every open document is validated, and after a scan every   *)
(* set is.                                                                 *)
LEMMA WatchedPublishes ==
    ASSUME ListedInv, ListedInv', AgreeInv, NEW batch, WatchedFiles(batch)
    PROVE  AgreeInv' /\ (SetsInv => SetsInv') /\ DocsInv'
<1> DEFINE rescan == \E e \in batch : e.kind # "changed"
           gone   == { e.uri : e \in { f \in batch : f.kind # "sidecar" } }
           stale  == { getSetForUri(configSetIndex, u) : u \in gone }
           from   == without(diskCache, gone)
           index  == configSetIndex'
           kept   == keptAfter(rescan, without(setModelCache, stale))
           docs   == validateAllDocs(2, index, kept, from)
           all    == validateAllSets(1, index, kept, from)
           sets   == IF rescan THEN all ELSE {}
<1>1. /\ Publish(docs \cup sets) /\ file' = file /\ settings' = settings
      /\ rescan => \E roots, opts : index = Rescan(file, sidecar, roots, opts)
      /\ ~ rescan => index = configSetIndex
  BY DEF WatchedFiles, diskVars
<1>2. /\ TypeInv' /\ RunsTyped /\ kept \in Models /\ from \in Caches
      /\ IndexOK(configSetIndex)
  BY InvTypes, CachesDropped DEF ListedInv, ModelsInv, DiskInv
<1>3. Reading /\ IndexOK(index)
  BY <1>1, <1>2, ReadingAfter
<1>4. Current(from, Delivered') /\ Fits(index, kept, {})
  BY <1>3, WatchedReads DEF ListedInv
<1>5. rescan => SetsMet(index)
  BY <1>1, InvParts, ScanLists DEF ListedInv
<1>6. \A u \in Uris : isOpen(u)' => Lists(order', u)
  BY DEF ListedInv, DocsListed
<1>7. docs \subseteq docs \cup sets /\ (rescan => all \subseteq docs \cup sets)
  OBVIOUS
<1> HIDE DEF rescan, from, kept
<1>8. /\ docs \subseteq Runs /\ Bounded(docs) /\ all \subseteq Runs /\ Bounded(all)
      /\ \A r \in docs \cup all : SoundRun(index, kept, from, r)
  BY <1>2, <1>3, HandlerRuns
<1> HIDE DEF index, docs, all
<1>9. Validating(index, kept, from, {}, docs \cup sets)
  <2>1. sets \subseteq Runs /\ sets \subseteq all /\ Bounded(sets)
    BY <1>8 DEF Bounded
  <2> HIDE DEF sets
  <2>2. Bounded(docs \cup sets)
    BY <1>8, <2>1, RunsTogether
  <2> QED
    BY <1>1, <1>3, <1>4, <1>8, <2>1, <2>2 DEF Validating
<1> HIDE DEF sets
<1>10. DocsInv'
  BY <1>2, <1>3, <1>6, <1>7, <1>9, AllDocsValidated DEF docs, index
<1>11. CASE rescan
  <2>1. AgreeInv' /\ SetsInv'
    BY <1>2, <1>5, <1>7, <1>9, <1>11, AllSetsValidated DEF all, index
  <2> QED
    BY <1>10, <2>1
<1>12. CASE ~ rescan
  <2>1. configSetIndex' = configSetIndex /\ index = configSetIndex
    BY <1>1, <1>12 DEF index
  <2>2. AgreeInv'
    BY <1>2, <1>9, <2>1, SomeAgree
  <2>3. ASSUME NEW a \in Uris, Unshared(index, a), SomeServed(index, a)
        PROVE  \E r \in docs \cup sets : r.anchor = a
    <3>1. PICK v \in Members(index, a) : isOpen(v)'
      BY <2>3 DEF SomeServed
    <3>2. v \in Uris /\ getSetForUri(index, v) = a
      BY <1>3, <2>3, UnsharedAnswers
    <3>3. \E r \in docs : r.anchor = a
      BY <1>3, <1>6, <3>1, <3>2, DocsCovered DEF docs
    <3> QED
      BY <3>3
  <2>4. \A a \in Uris : Members(index, a) \cap {} = {}
    OBVIOUS
  <2>5. SetsInv => SetsInv'
    BY <1>1, <1>2, <1>9, <2>1, <2>3, <2>4, SomeSets
  <2> QED
    BY <1>10, <2>2, <2>5
<1> QED
  BY <1>11, <1>12

(* Where every open document is below a folder, none brings a root.        *)
LEMMA CoveredAdds ==
    ASSUME NEW u, isCovered(Folders, u)
    PROVE  ensureRoot(Folders, u) = Folders
  BY DEF ensureRoot

LEMMA FoldersStay ==
    ASSUME ListedInv, OpenedInsideFolders, phase = "starting", NEW i \in 0..Len(order)
    PROVE  FoldLeft(ensureRoot, workspaceRoots, SubSeq(order, 1, i)) = Folders
<1> DEFINE list == SubSeq(order, 1, i)
<1>1. workspaceRoots \in {Folders}
  BY DEF ListedInv, ModelsInv, BuffersInv, StartsEmpty
<1>2. order \in Seq(Uris) /\ OrderOK
  BY InvTypes DEF TypeInv, ListedInv, TypeOK
<1>3. list \in Seq(Uris) /\ \A j \in DOMAIN list : j \in DOMAIN order /\ list[j] = order[j]
  BY <1>2
<1>4. \A j \in DOMAIN order : order[j] \in Uris /\ isOpen(order[j])
  BY <1>2 DEF OrderOK, isOpen
<1>5. \A j \in DOMAIN list : isCovered(Folders, list[j])
  BY <1>3, <1>4 DEF OpenedInsideFolders
<1> HIDE DEF list
<1>6. Staying({Folders}, list)
  BY <1>5, CoveredAdds DEF Staying
<1>7. FoldLeft(ensureRoot, workspaceRoots, list) \in {Folders}
  BY <1>1, <1>3, <1>6, RootsStay
<1> QED
  BY <1>7 DEF list

LEMMA InitializedPublishes ==
    ASSUME ListedInv, ListedInv', OpenedInsideFolders, NEW stg \in SettingsSet, Initialized(stg)
    PROVE  AgreeInv' /\ SetsInv' /\ DocsInv' /\ workspaceRoots' = Folders
<1> DEFINE RootsAt(i) == FoldLeft(ensureRoot, workspaceRoots, SubSeq(order, 1, i))
           IndexAt(i) == Rescan(file, sidecar, RootsAt(i), optionsOf(stg))
           added  == { i \in DOMAIN order : RootsAt(i) # RootsAt(i - 1) }
           kept   == keptAfter(added # {}, setModelCache)
           RunsAt(i) == validateAllSets(i, IndexAt(i), EmptyCache, diskCache)
           index  == configSetIndex'
           sets   == validateAllSets(Len(order) + 1, index, kept, diskCache)
           docs   == validateAllDocs(Len(order) + 2, index, kept, diskCache)
<1>1. /\ index = IndexAt(Len(order)) /\ workspaceRoots' = index.roots
      /\ Publish((sets \cup docs) \cup UNION { RunsAt(i) : i \in added })
      /\ file' = file /\ watched' = watched /\ unreported' = unreported /\ phase = "starting"
  BY DEF Initialized, diskVars
<1>2. /\ TypeInv' /\ RunsTyped /\ setModelCache \in Models /\ diskCache \in Caches
      /\ Current(diskCache, Delivered) /\ order \in Seq(Uris)
  BY InvTypes DEF ListedInv, ModelsInv, DiskInv, TypeInv, TypeOK
<1>3. Reading /\ IndexOK(index)
  BY <1>1, <1>2, ReadingAfter
<1>4. Len(order) \in Nat /\ DOMAIN order = 1..Len(order)
  BY <1>2
<1>5. \A i \in 0..Len(order) : RootsAt(i) = Folders
  BY <1>1, FoldersStay
<1>6. added = {}
  <2>1. \A i \in DOMAIN order : i \in 0..Len(order) /\ i - 1 \in 0..Len(order)
    BY <1>4
  <2> HIDE DEF RootsAt
  <2> QED
    BY <1>5, <2>1
<1>7. index.roots = Folders /\ \E roots, opts : index = Rescan(file, sidecar, roots, opts)
  <2>1. RootsAt(Len(order)) = Folders
    BY <1>4, <1>5
  <2> HIDE DEF RootsAt
  <2> QED
    BY <1>1, <2>1, RescanAnchors
<1>8. kept = setModelCache
  BY <1>6 DEF keptAfter
<1>9. Publish(sets \cup docs)
  <2> DEFINE more == UNION { RunsAt(i) : i \in added }
             runs == sets \cup docs
  <2>1. more = {}
    BY <1>6
  <2> HIDE DEF sets, docs, more
  <2>2. runs \cup more = runs
    BY <2>1
  <2>3. Publish(runs \cup more)
    BY <1>1 DEF more
  <2> HIDE DEF runs
  <2>4. Publish(runs)
    BY <2>2, <2>3
  <2> QED
    BY <2>4 DEF runs
<1> HIDE DEF added, kept, RootsAt, IndexAt, RunsAt
<1>10. Fits(index, kept, {}) /\ Delivered' = Delivered
  BY <1>1, <1>8, NothingFits
     DEF Delivered, eventPending, ListedInv, ModelsInv, BuffersInv, StartsEmpty
<1>11. SetsMet(index)
  BY <1>7, InvParts, ScanLists DEF ListedInv
<1>12. /\ sets \subseteq Runs /\ Bounded(sets) /\ docs \subseteq Runs /\ Bounded(docs)
       /\ \A r \in sets \cup docs : SoundRun(index, kept, diskCache, r)
  <2>1. Len(order) + 1 \in Nat /\ Len(order) + 2 \in Nat
    BY <1>4
  <2> QED
    BY <1>2, <1>3, <1>8, <2>1, HandlerRuns
<1>13. sets \subseteq sets \cup docs /\ docs \subseteq sets \cup docs
  OBVIOUS
<1> HIDE DEF sets, docs, index
<1>14. Validating(index, kept, diskCache, {}, sets \cup docs)
  <2>1. Bounded(sets \cup docs)
    BY <1>12, RunsTogether
  <2> QED
    BY <1>1, <1>2, <1>3, <1>9, <1>10, <1>12, <2>1 DEF Validating
<1>15. AgreeInv' /\ SetsInv'
  BY <1>2, <1>11, <1>13, <1>14, AllSetsValidated DEF index, sets
<1>16. DocsInv'
  <2>1. \A u \in Uris : isOpen(u)' => Lists(order', u)
    BY DEF ListedInv, DocsListed
  <2> QED
    BY <1>2, <1>3, <1>13, <1>14, <2>1, AllDocsValidated DEF index, docs
<1> QED
  BY <1>1, <1>7, <1>15, <1>16



RootsKept == workspaceRoots = Folders

LEMMA NextPublishes ==
    ASSUME ListedInv, AgreeInv, OpenedInsideFolders, OpenedInsideFolders', [Next]_vars
    PROVE  /\ ListedInv' /\ AgreeInv' /\ (AnchorsListed /\ SetsInv => SetsInv')
           /\ AnchorsListed /\ RootsKept /\ NoRootsBrought' =>
                 RootsKept' /\ (DocsInv => DocsInv')
<1>1. ListedInv'
  BY NextLists
<1>2. ASSUME NEW u \in Uris, NEW c \in TextsOf[u] PROVE c \in Contents \cup {None}
  BY ServerAssumption
<1>3. CASE \E stg \in SettingsSet : Initialized(stg)
  BY <1>1, <1>3, InitializedPublishes DEF RootsKept
<1>4. CASE \E stg \in SettingsSet : Configure(stg)
  <2>1. workspaceRoots' = workspaceRoots
    BY <1>4 DEF Configure
  <2> QED
    BY <1>1, <1>4, <2>1, ConfigurePublishes DEF RootsKept
<1>5. ASSUME NEW u \in Uris, NEW c \in TextsOf[u] \ {None}, DidOpen(u, c)
      PROVE  /\ AgreeInv' /\ (AnchorsListed /\ SetsInv => SetsInv')
             /\ AnchorsListed /\ RootsKept /\ NoRootsBrought' =>
                   RootsKept' /\ (DocsInv => DocsInv')
  <2>1. c \in Contents
    BY <1>2
  <2>2. ASSUME RootsKept, NoRootsBrought'
        PROVE  ensureRoot(workspaceRoots, u) = workspaceRoots
    <3>1. isOpen(u)'
      BY <1>5, <2>1, OthersStay
    <3>2. isCovered(Folders, u)
      BY <2>2, <3>1 DEF NoRootsBrought, isCovered
    <3> QED
      BY <2>2, <3>2, CoveredAdds DEF RootsKept
  <2>3. workspaceRoots' \in {workspaceRoots, ensureRoot(workspaceRoots, u)}
    BY <1>5 DEF DidOpen
  <2>4. /\ AgreeInv' /\ (AnchorsListed => (SetsInv => SetsInv'))
        /\ AnchorsListed /\ ensureRoot(workspaceRoots, u) = workspaceRoots =>
              (DocsInv => DocsInv')
    BY <1>1, <1>5, <2>1, DidOpenPublishes
  <2> QED
    BY <2>2, <2>3, <2>4 DEF RootsKept
<1>6. ASSUME NEW u \in Uris, NEW c \in TextsOf[u] \ {None}, DidChange(u, c)
      PROVE  /\ AgreeInv' /\ (AnchorsListed => (SetsInv => SetsInv') /\ (DocsInv => DocsInv'))
             /\ workspaceRoots' = workspaceRoots
  BY <1>1, <1>2, <1>6, DidChangePublishes DEF DidChange
<1>7. ASSUME NEW key \in Uris, TimerFires(key)
      PROVE  /\ AgreeInv' /\ (SetsInv => SetsInv') /\ (DocsInv => DocsInv')
             /\ workspaceRoots' = workspaceRoots
  BY <1>1, <1>7, TimerPublishes DEF TimerFires, setVars
<1>8. ASSUME NEW batch, WatchedFiles(batch)
      PROVE  /\ AgreeInv' /\ (SetsInv => SetsInv') /\ (DocsInv => DocsInv')
             /\ workspaceRoots' = workspaceRoots
  BY <1>1, <1>8, WatchedPublishes DEF WatchedFiles
<1>9. ASSUME NEW u \in Uris, Request(u) \/ DidClose(u)
      PROVE  /\ AgreeInv' /\ (SetsInv => SetsInv') /\ (DocsInv => DocsInv')
             /\ workspaceRoots' = workspaceRoots
  BY <1>9, RequestPublishes, DidClosePublishes DEF Request, DidClose, setVars
<1>10. ASSUME NEW u \in Uris, NEW c \in TextsOf[u], WriteFile(u, c)
       PROVE  /\ AgreeInv' /\ (SetsInv => SetsInv') /\ (DocsInv => DocsInv')
              /\ workspaceRoots' = workspaceRoots
  BY <1>2, <1>10, WriteFilePublishes DEF WriteFile, setVars
<1>11. ASSUME NEW t \in inflight, Settle(t)
       PROVE  /\ AgreeInv' /\ (SetsInv => SetsInv') /\ (DocsInv => DocsInv')
              /\ workspaceRoots' = workspaceRoots
  BY <1>11, SettlePublishes DEF Settle, setVars
<1>12. ASSUME (\E d \in Dirs : \E sc \in SidecarsOf[d] : WriteSidecar(d, sc)) \/ UNCHANGED vars
       PROVE  /\ AgreeInv' /\ (SetsInv => SetsInv') /\ (DocsInv => DocsInv')
              /\ workspaceRoots' = workspaceRoots
  BY <1>12, OtherPublishes DEF WriteSidecar, vars, setVars
<1> QED
  BY <1>1, <1>3, <1>4, <1>5, <1>6, <1>7, <1>8, <1>9, <1>10, <1>11, <1>12
     DEF Next, Handler, Client, RootsKept

LEMMA InitPublishes ==
    ASSUME Init
    PROVE  ListedInv /\ AgreeInv /\ SetsInv /\ DocsInv /\ RootsKept
<1>1. ListedInv /\ RootsKept
  BY InitLists DEF Init, RootsKept
<1>2. AgreeInv /\ SetsInv
  BY DEF Init, AgreeInv, SetsInv, Unshared, NoIndex
<1>3. DocsInv
  BY DEF Init, DocsInv, isOpen
<1> QED
  BY <1>1, <1>2, <1>3

----------------------------------------------------------------------------
(* Without the forwarder nothing is ever in flight.                        *)
NothingLate == inflight = {} /\ outdated = {}

LEMMA NowRuns ==
    ASSUME ~ settings'.ottl, NEW index, NEW models, NEW cache
    PROVE  /\ \A at, u : docRun(at, index, models, cache, u).when = "now"
           /\ \A stage : \A r \in validateAllSets(stage, index, models, cache) : r.when = "now"
           /\ \A stage : \A r \in validateAllDocs(stage, index, models, cache) : r.when = "now"
<1>1. ASSUME NEW at, NEW u PROVE docRun(at, index, models, cache, u).when = "now"
  BY DEF docRun, Run
<1>2. ASSUME NEW at, NEW a PROVE setRun(at, index, models, cache, a).when = "now"
  BY <1>1 DEF setRun, Run
<1> QED
  BY <1>1, <1>2 DEF validateAllSets, validateAllDocs

LEMMA NowPublished ==
    ASSUME NothingLate, NEW runs, Publish(runs), \A r \in runs : r.when = "now"
    PROVE  NothingLate'
<1> DEFINE later == { r \in runs : r.when = "later" }
           done  == { r \in runs : r.when # "later" }
           shown == { u \in Uris : \E r \in done : isLastRun(done, u, r) }
<1>1. later = {}
  OBVIOUS
<1>2. /\ inflight' = { [ t EXCEPT !.overtaken = @ \cup shown ] : t \in inflight } \cup
             { [ tag |-> lastTag + 1, at |-> r.at, diag |-> r.diag, overtaken |-> {} ] :
                 r \in later }
      /\ outdated' = outdated \ shown
  BY DEF Publish
<1> HIDE DEF later, shown
<1> QED
  BY <1>1, <1>2 DEF NothingLate

LEMMA NextNow ==
    ASSUME NothingLate, ~ settings'.ottl, [Next]_vars
    PROVE  NothingLate'
<1>1. ASSUME NEW index, NEW models, NEW cache, NEW at, NEW u, NEW i, NEW j, NEW runs,
             Publish(runs),
             runs \subseteq {docRun(at, index, models, cache, u)} \cup
                            (validateAllSets(i, index, models, cache) \cup
                             validateAllDocs(j, index, models, cache))
      PROVE  NothingLate'
  <2>1. \A r \in runs : r.when = "now"
    BY <1>1, NowRuns
  <2> QED
    BY <1>1, <2>1, NowPublished
<1>2. ASSUME NEW stg \in SettingsSet, Initialized(stg) PROVE NothingLate'
  <2> DEFINE RootsAt(k) == FoldLeft(ensureRoot, workspaceRoots, SubSeq(order, 1, k))
             IndexAt(k) == Rescan(file, sidecar, RootsAt(k), optionsOf(stg))
             added  == { k \in DOMAIN order : RootsAt(k) # RootsAt(k - 1) }
             kept   == keptAfter(added # {}, setModelCache)
             RunsAt(k) == validateAllSets(k, IndexAt(k), EmptyCache, diskCache)
             final  == IndexAt(Len(order))
             runs   == validateAllSets(Len(order) + 1, final, kept, diskCache)
                         \cup validateAllDocs(Len(order) + 2, final, kept, diskCache)
             all    == runs \cup UNION { RunsAt(k) : k \in added }
  <2>1. Publish(all)
    BY <1>2 DEF Initialized
  <2> HIDE DEF RootsAt, IndexAt, added, kept, final
  <2>2. \A r \in runs : r.when = "now"
    BY NowRuns
  <2>3. \A k : \A r \in RunsAt(k) : r.when = "now"
    BY NowRuns
  <2>4. \A r \in all : r.when = "now"
    <3> HIDE DEF runs, RunsAt
    <3> QED
      BY <2>2, <2>3
  <2> HIDE DEF all
  <2> QED
    BY <2>1, <2>4, NowPublished
<1>3. ASSUME NEW stg \in SettingsSet, Configure(stg) PROVE NothingLate'
  <2>1. PICK index :
           Publish(validateAllSets(1, index, EmptyCache, diskCache)
                     \cup validateAllDocs(2, index, EmptyCache, diskCache))
    BY <1>3 DEF Configure
  <2> QED
    BY <1>1, <2>1
<1>4. ASSUME NEW u \in Uris, NEW c, DidOpen(u, c) PROVE NothingLate'
  <2>1. CASE ~ shouldServe(u, c)
    BY <1>4, <2>1 DEF DidOpen, runVars, NothingLate
  <2>2. CASE shouldServe(u, c)
    <3> DEFINE isNew == ensureRoot(workspaceRoots, u) # workspaceRoots
               kept  == keptAfter(isNew, setModelCache)
               index == configSetIndex'
               doc   == {docRun(<<2, 1>>, index, kept, diskCache, u)}
               sets  == validateAllSets(1, index, kept, diskCache)
               runs  == doc \cup (IF isNew THEN sets ELSE {})
    <3>1. Publish(runs)
      BY <1>4, <2>2 DEF DidOpen
    <3>2. \A r \in doc \cup sets : r.when = "now"
      BY NowRuns
    <3> HIDE DEF isNew, doc, sets
    <3>3. \A r \in runs : r.when = "now"
      BY <3>2
    <3> HIDE DEF runs
    <3> QED
      BY <3>1, <3>3, NowPublished
  <2> QED
    BY <2>1, <2>2
<1>5. ASSUME NEW key \in Uris, TimerFires(key) PROVE NothingLate'
  <2>1. PICK doc, runs :
           /\ Publish(runs)
           /\ runs \subseteq {docRun(<<1, 1>>, configSetIndex, setModelCache, diskCache, doc)}
    BY <1>5 DEF TimerFires
  <2> QED
    BY <1>1, <2>1
<1>6. ASSUME NEW batch, WatchedFiles(batch) PROVE NothingLate'
  <2> DEFINE rescan == \E e \in batch : e.kind # "changed"
             gone   == { e.uri : e \in { f \in batch : f.kind # "sidecar" } }
             stale  == { getSetForUri(configSetIndex, u) : u \in gone }
             read   == without(diskCache, gone)
             index  == configSetIndex'
             kept   == keptAfter(rescan, without(setModelCache, stale))
             docs   == validateAllDocs(2, index, kept, read)
             sets   == validateAllSets(1, index, kept, read)
             runs   == docs \cup (IF rescan THEN sets ELSE {})
  <2>1. Publish(runs)
    BY <1>6 DEF WatchedFiles
  <2> HIDE DEF index, kept, read
  <2>2. \A r \in docs \cup sets : r.when = "now"
    BY NowRuns
  <2> HIDE DEF rescan, docs, sets
  <2>3. \A r \in runs : r.when = "now"
    BY <2>2
  <2> HIDE DEF runs
  <2> QED
    BY <2>1, <2>3, NowPublished
<1>7. CASE \E t \in inflight : Settle(t)
  BY <1>7 DEF NothingLate
<1>8. CASE \/ \E u \in Uris : Request(u) \/ DidClose(u)
           \/ \E u \in Uris : \E c \in TextsOf[u] : DidChange(u, c) \/ WriteFile(u, c)
           \/ \E d \in Dirs : \E sc \in SidecarsOf[d] : WriteSidecar(d, sc)
           \/ UNCHANGED vars
  BY <1>8 DEF Request, DidClose, DidChange, WriteFile, WriteSidecar, vars, runVars, NothingLate
<1> QED
  BY <1>2, <1>3, <1>4, <1>5, <1>6, <1>7, <1>8 DEF Next, Handler, Client



----------------------------------------------------------------------------
(* What the client shows.                                                  *)
LEMMA ModelIs ==
    ASSUME NEW d \in Diags, NEW S, DOMAIN d.model = S, \A m \in S : d.model[m] = currentText(m),
           d.distribution = settings.distribution
    PROVE  d = [ model |-> [ m \in S |-> currentText(m) ], distribution |-> settings.distribution ]
<1>1. d.model = [ m \in S |-> currentText(m) ]
  <2>1. d.model = [ m \in DOMAIN d.model |-> d.model[m] ]
    BY DEF Diags, Texts
  <2> QED
    BY <2>1
<1>2. d = [ model |-> d.model, distribution |-> d.distribution ]
  BY DEF Diags
<1> QED
  BY <1>1, <1>2

LEMMA AgreedShown ==
    ASSUME ListedInv, AgreeInv
    PROVE  SetMembersAgree
<1> SUFFICES ASSUME inflight = {}, NEW a \in DOMAIN configSetIndex.sets,
                    \A m \in Members(configSetIndex, a) : ~ isShared(m) /\ m \notin outdated,
                    NEW m \in Members(configSetIndex, a), NEW n \in Members(configSetIndex, a)
             PROVE  published[m] # None /\ published[m] = published[n]
  BY DEF SetMembersAgree
<1>1. a \in Uris /\ Unshared(configSetIndex, a)
  BY InvTypes, SetsOK DEF Unshared, isShared, SharedIn
<1>2. HeadsFor(published, inflight, outdated, Members(configSetIndex, a),
               SetDiags(configSetIndex, a))
  BY <1>1 DEF AgreeInv, Heading
<1>3. Shows(published, Members(configSetIndex, a), SetDiags(configSetIndex, a))
  BY <1>2 DEF HeadsFor
<1> QED
  BY <1>3, ServerAssumption DEF Shows, SetDiags

LEMMA FreshShown ==
    ASSUME ListedInv, SetsInv, Quiescent, NEW u \in Uris \ outdated, isOpen(u), isServed(u),
           isPlain(u), getSetForUri(configSetIndex, u) # None
    PROVE  published[u] = currentDiag(u)
<1> DEFINE a == getSetForUri(configSetIndex, u)
           S == Members(configSetIndex, a)
<1>1. a \in DOMAIN configSetIndex.sets /\ a \in Uris /\ u \in S /\ S \in SUBSET Uris
  BY InvTypes, AnsweringSet
<1>2. currentDiag(u) = [ model |-> [ m \in S |-> currentText(m) ],
                         distribution |-> settings.distribution ]
  BY DEF currentDiag
<1>3. DOMAIN currentDiag(u).model = S
  <2> DEFINE now == [ m \in S |-> currentText(m) ]
  <2>1. currentDiag(u).model = now
    BY <1>2
  <2> QED
    BY <2>1
<1>4. \A m \in S : ~ isShared(m) /\ m \notin discarded /\ ~ isUnheard(m)
  <2> HIDE DEF S
  <2> QED
    BY <1>3 DEF isPlain
<1>5. \A m \in S : ~ Unsettled(m)
  BY <1>4 DEF Quiescent, Unsettled, eventPending
<1>6. Unshared(configSetIndex, a)
  BY <1>1, <1>4 DEF Unshared, isShared, SharedIn
<1>7. ~ SetTimer(a)
  BY <1>1 DEF Quiescent, SetTimer
<1> HIDE DEF a
<1>8. HeadsFor(published, inflight, outdated, {u}, FreshDiags(a))
  BY <1>1, <1>6, <1>7 DEF SetsInv, Heading
<1>9. published[u] \in FreshDiags(a)
  BY <1>8 DEF HeadsFor, Shows, Quiescent
<1>10. /\ published[u] \in Diags /\ DOMAIN published[u].model = S
       /\ published[u].distribution = settings.distribution
       /\ \A m \in S : published[u].model[m] = currentText(m)
  BY <1>5, <1>9 DEF FreshDiags, SetDiags
<1> HIDE DEF S
<1> QED
  BY <1>2, <1>10, ModelIs

LEMMA AloneShown ==
    ASSUME ListedInv, DocsInv, Quiescent, NEW u \in Uris \ outdated, isOpen(u), isServed(u),
           getSetForUri(configSetIndex, u) = None
    PROVE  published[u] = currentDiag(u)
<1>1. validateTimers[u] # u
  BY ContentsAssumption DEF Quiescent
<1>2. HeadsFor(published, inflight, outdated, {u}, AloneDiags(u))
  BY <1>1 DEF DocsInv, Heading
<1>3. published[u] \in AloneDiags(u)
  BY <1>2 DEF HeadsFor, Shows, Quiescent
<1>4. /\ published[u] \in Diags /\ DOMAIN published[u].model = {u}
      /\ published[u].distribution = settings.distribution
      /\ \A m \in {u} : published[u].model[m] = currentText(m)
  BY <1>3 DEF AloneDiags, currentText
<1>5. currentDiag(u) = [ model |-> [ m \in {u} |-> currentText(m) ],
                         distribution |-> settings.distribution ]
  BY DEF currentDiag
<1> DEFINE S == {u}
<1> HIDE DEF S
<1>6. published[u] = [ model |-> [ m \in S |-> currentText(m) ],
                       distribution |-> settings.distribution ]
  BY <1>4, ModelIs DEF S
<1> QED
  BY <1>5, <1>6 DEF S

LEMMA BroughtNone == NoRootsBrought => OpenedInsideFolders
  BY DEF NoRootsBrought, OpenedInsideFolders

(* The files of a set show diagnostics of one and the same model, open or  *)
(* not, whatever interleaving of edits, scans, timers and late answers led *)
(* here (validateAllSets, validate, ottl.diagnose), unless a file of the   *)
(* set is in another set as well or shows what an overtaken run computed.  *)
THEOREM MembersAgree ==
    Spec /\ []OpenedInsideFolders => []SetMembersAgree
<1> DEFINE Inv == ListedInv /\ AgreeInv
<1>1. Init => Inv
  BY InitPublishes
<1>2. Inv /\ OpenedInsideFolders /\ OpenedInsideFolders' /\ [Next]_vars => Inv'
  BY NextPublishes
<1>3. Inv => SetMembersAgree
  BY AgreedShown
<1> QED
  BY <1>1, <1>2, <1>3, PTL DEF Spec

(* Once every timer, file event and forwarded run is done, an open, served *)
(* document of a set shows the diagnostics of the set as it is, however    *)
(* the roots and sets changed on the way (onDidChangeContent,              *)
(* onDidChangeWatchedFiles, validateMembersOfSetContaining): the forwarder *)
(* is off, and every set lists its anchor.                                 *)
THEOREM SettledSets ==
    Spec /\ []OpenedInsideFolders /\ []AnchorsListed /\ [](~ settings.ottl)
      => []SettledSetsAreCurrent
<1> DEFINE Inv == ListedInv /\ AgreeInv /\ SetsInv /\ NothingLate
<1>1. Init => Inv
  BY InitPublishes DEF Init, NothingLate
<1>2. /\ Inv /\ OpenedInsideFolders /\ OpenedInsideFolders' /\ AnchorsListed
      /\ (~ settings.ottl)' /\ [Next]_vars
      => Inv'
  BY NextPublishes, NextNow
<1>3. Inv => SettledSetsAreCurrent
  BY FreshShown DEF SettledSetsAreCurrent, NothingLate
<1> QED
  BY <1>1, <1>2, <1>3, PTL DEF Spec

(* The same for every open, served document, where no document brings a    *)
(* root, and with the forwarder: what is shown is current unless an        *)
(* overtaken run came in last.                                             *)
THEOREM ForwardedSettles ==
    Spec /\ []NoRootsBrought /\ []AnchorsListed => []ForwardedDiagnosticsAreCurrent
<1> DEFINE Inv == ListedInv /\ AgreeInv /\ SetsInv /\ DocsInv /\ RootsKept
<1>1. Init => Inv
  BY InitPublishes
<1>2. Inv /\ NoRootsBrought /\ NoRootsBrought' /\ AnchorsListed /\ [Next]_vars => Inv'
  BY NextPublishes, BroughtNone DEF NoRootsBrought, OpenedInsideFolders
<1>3. Inv => ForwardedDiagnosticsAreCurrent
  BY FreshShown, AloneShown DEF ForwardedDiagnosticsAreCurrent
<1> QED
  BY <1>1, <1>2, <1>3, PTL DEF Spec

(* Without the forwarder no edit, save, scan or change of settings leaves  *)
(* a squiggle of an older text behind in any open, served document.        *)
THEOREM DiagnosticsSettle ==
    Spec /\ []NoRootsBrought /\ []AnchorsListed /\ [](~ settings.ottl)
      => []SettledDiagnosticsAreCurrent
<1>1. Init => NothingLate
  BY DEF Init, NothingLate
<1>2. NothingLate /\ (~ settings.ottl)' /\ [Next]_vars => NothingLate'
  BY NextNow
<1>3. NothingLate /\ ForwardedDiagnosticsAreCurrent => SettledDiagnosticsAreCurrent
  BY DEF NothingLate, ForwardedDiagnosticsAreCurrent, SettledDiagnosticsAreCurrent
<1> QED
  BY <1>1, <1>2, <1>3, ForwardedSettles, PTL DEF Spec
=============================================================================
