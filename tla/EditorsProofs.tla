--------------------------- MODULE EditorsProofs ---------------------------
(***************************************************************************)
(* The safety of the three editors' parts, for any number of rebuilds,     *)
(* restarts, projects, bundles, sessions and versions.                     *)
(*                                                                         *)
(* The argument about the extractions: a file that some project has passed *)
(* is complete, or a project is still about to make it so; and of the      *)
(* projects that extract, the one that is furthest ahead cannot be stopped *)
(* by a file that another one has created. So as long as no extraction is  *)
(* cut off, one of them comes to its end, and when one does, all files are *)
(* complete or still looked after.                                         *)
(***************************************************************************)
EXTENDS Editors, NaturalsInduction, WellFoundedInduction, TLAPS

(* The flags, the counters, and the server of the latest build or what     *)
(* will start it.                                                          *)
WatchFlags ==
    /\ whole \in BOOLEAN /\ touched \in BOOLEAN /\ debounce \in BOOLEAN
    /\ restarting \in BOOLEAN /\ excused \in BOOLEAN
WatchCounts ==
    /\ editor \in {"vscode", "jetbrains"}
    /\ built \in 1..(MaxBuilds + 1) /\ running \in {NoServer} \cup 1..built
    /\ stopping \in Nat /\ starting \in Nat /\ UnderWay <= MaxRestarts
OneRestart ==
    /\ editor = "jetbrains" => ~restarting
    /\ editor = "vscode" => IF restarting THEN UnderWay = 1 ELSE UnderWay = 0
WillRun ==
    (whole /\ ~touched /\ ~debounce /\ ~excused) =>
        \/ stopping > 0
        \/ running = built
        \/ running = NoServer /\ starting > 0
WatchInv == WatchFlags /\ WatchCounts /\ OneRestart /\ WillRun

(* An extraction is at a file of the installed bundle, or at the stamp.    *)
FileStates == {Absent} \cup { WrittenBy(p) : p \in Projects } \cup { FileOf(b) : b \in Bundles }
Steps == {"idle", "started", "delete", "create", "write", "stamp"}
AtFile(p) == at[p][1] \in {"delete", "create", "write"}
BundleTypes ==
    /\ bundle \in Bundles /\ stamp \in Bundles \cup {NoStamp} /\ doubted \subseteq Bundles
    /\ sessions \in 1..MaxSessions
    /\ disk \in [Names -> FileStates]
    /\ at \in [Projects -> Steps \X Nat]
    /\ \A p \in Projects :
         \/ at[p] \in {Idle, Started, <<"stamp", 1>>, <<"stamp", 2>>}
         \/ AtFile(p) /\ at[p][2] \in DOMAIN Manifest[bundle]

(* Project p has deleted file i, or more.                                  *)
Reached(p, i) ==
    \/ at[p] \in {<<"create", i>>, <<"write", i>>, <<"stamp", 1>>, <<"stamp", 2>>}
    \/ AtFile(p) /\ at[p][2] > i

(* Project p has created file i, or more, and the old stamp stands.        *)
Past(p, i) ==
    \/ at[p] \in {<<"write", i>>, <<"stamp", 1>>}
    \/ AtFile(p) /\ at[p][2] > i

(* File i is of the bundle, or a project is about to make it so.           *)
Covered(i) ==
    LET name == Manifest[bundle][i]
    IN  \/ disk[name] = FileOf(bundle)
        \/ \E p \in Projects : /\ at[p] = <<"create", i>>
                               /\ disk[name] = Absent
        \/ \E p \in Projects : /\ at[p] = <<"write", i>>
                               /\ disk[name] = WrittenBy(p)

(* Every file is of bundle b.                                              *)
Whole(b) == \A i \in DOMAIN Manifest[b] : disk[Manifest[b][i]] = FileOf(b)

(* While nothing was cut off, what a project has deleted is looked after.  *)
FilesCovered ==
    bundle \notin doubted =>
        \A i \in DOMAIN Manifest[bundle] :
            (stamp = bundle \/ \E p \in Projects : Reached(p, i)) => Covered(i)
(* A server was started on a stamp, which is at most being rewritten.       *)
StartedIsStamped ==
    (\E p \in Projects : at[p] = Started) =>
        stamp = bundle \/ \E p \in Projects : at[p] = <<"stamp", 2>>
(* Another bundle's stamp tells what is there until it is extracted over.  *)
OldStampWhole ==
    (stamp \in Bundles \ {bundle} /\ stamp \notin doubted) =>
        Whole(stamp) \/ \E p \in Projects : Extracting(p)
(* A file in the way was created by a project that is ahead.               *)
OneIsAhead ==
    (stamp \in Bundles \ {bundle} /\ stamp \notin doubted) =>
        \A p \in Projects, i \in DOMAIN Manifest[bundle] :
            (at[p] = <<"create", i>> /\ disk[Manifest[bundle][i]] # Absent) =>
                \E q \in Projects : Past(q, i)
BundleInv == BundleTypes /\ FilesCovered /\ StartedIsStamped /\ OldStampWhole /\ OneIsAhead

(* A copy is there when node is looked for; no question has failed so far. *)
ZedInv == /\ ZedTypeOK
          /\ UsableVersionStarts
          /\ step = "node" => installed # NotInstalled /\ status = "none"
          /\ step # "returned" => ~hostFailed

-----------------------------------------------------------------------------

USE WatchAssumption, StampAssumption, VersionsAssumption

LEMMA WatchInit_Inv == WatchInit => WatchInv
<1> SUFFICES ASSUME WatchInit PROVE WatchInv
  OBVIOUS
<1>1. WatchFlags /\ ~debounce /\ ~restarting
  BY Zenon DEF WatchInit, WatchFlags
<1>2. WatchCounts
  BY DEF WatchInit, WatchCounts, UnderWay, NoServer
<1>3. OneRestart /\ WillRun
  BY <1>1 DEF WatchInit, OneRestart, WillRun, UnderWay
<1> QED
  BY <1>1, <1>2, <1>3 DEF WatchInv

LEMMA WatchFlags_Step == WatchFlags /\ WatchNext => WatchFlags'
<1> SUFFICES ASSUME WatchFlags, WatchNext PROVE WatchFlags'
  OBVIOUS
<1> USE DEF WatchFlags
<1>1. CASE Rebuild
  BY <1>1, Zenon DEF Rebuild
<1>2. CASE runWatcher
  BY <1>2, Zenon DEF runWatcher
<1>3. CASE delayed
  BY <1>3, Zenon DEF delayed
<1>4. CASE actionPerformed
  BY <1>4, Zenon DEF actionPerformed
<1>5. CASE trigger
  BY <1>5, Zenon DEF trigger
<1>6. CASE timerFires
  <2>1. excused' = TRUE \/ excused' = FALSE
    <3>1. CASE UnderWay > 0
      BY <1>6, <3>1, Zenon DEF timerFires
    <3>2. CASE ~(UnderWay > 0)
      <4>1. excused' = (UnderWay > 0)
        BY <1>6, Zenon DEF timerFires
      <4>2. (UnderWay > 0) = FALSE
        BY <3>2, SMT
      <4> QED
        BY <4>1, <4>2, Zenon
    <3> QED
      BY <3>1, <3>2
  <2>2. whole' \in BOOLEAN /\ touched' \in BOOLEAN /\ debounce' \in BOOLEAN /\ restarting' \in BOOLEAN
    BY <1>6, Zenon DEF timerFires
  <2> QED
    BY <2>1, <2>2, Zenon
<1>7. CASE stopServer
  BY <1>7, Zenon DEF stopServer
<1>8. CASE startServer
  BY <1>8, Zenon DEF startServer, settled
<1>9. CASE restartFails
  BY <1>9, Zenon DEF restartFails, settled
<1> QED
  BY <1>1, <1>2, <1>3, <1>4, <1>5, <1>6, <1>7, <1>8, <1>9, Zenon DEF WatchNext

LEMMA WatchNext_Inv == WatchInv /\ WatchNext => WatchInv'
<1> SUFFICES ASSUME WatchInv, WatchNext PROVE WatchCounts' /\ OneRestart' /\ WillRun'
  BY WatchFlags_Step DEF WatchInv
<1>0. WatchFlags /\ WatchCounts /\ OneRestart /\ WillRun /\ WatchFlags'
  BY WatchFlags_Step DEF WatchInv
<1> USE DEF WatchCounts, OneRestart, WillRun, UnderWay, NoServer
<1>1. CASE Rebuild
  <2>1. touched' /\ (restarting' <=> restarting)
    BY <1>1, Zenon DEF Rebuild
  <2>2. /\ built' \in {built, built + 1} /\ (built' # built => built <= MaxBuilds)
        /\ UNCHANGED <<editor, stopping, starting, running>>
    BY <1>1, Zenon DEF Rebuild
  <2> QED
    BY <1>0, <2>1, <2>2
<1>2. CASE runWatcher
  BY <1>0, <1>2 DEF runWatcher
<1>3. CASE delayed
  <2>1. /\ editor = "jetbrains" /\ UnderWay < MaxRestarts /\ stopping' = stopping + 1
        /\ UNCHANGED <<editor, built, starting, running>> /\ (restarting' <=> restarting)
    BY <1>3, Zenon DEF delayed
  <2> QED
    BY <1>0, <2>1
<1>4. CASE actionPerformed
  BY <1>0, <1>4 DEF actionPerformed
<1>5. CASE trigger
  BY <1>0, <1>5 DEF trigger
<1>6. CASE timerFires
  <2>1. UNCHANGED <<editor, built, starting, running>> /\ editor = "vscode"
    BY <1>6, Zenon DEF timerFires
  <2>2. CASE restarting
    <3>1. restarting' /\ stopping' = stopping
      BY <1>6, <2>2, Zenon DEF timerFires
    <3>2. UnderWay > 0
      BY <1>0, <2>1, <2>2
    <3>3. excused' = TRUE
      BY <1>6, <3>2, Zenon DEF timerFires
    <3> QED
      BY <1>0, <2>1, <2>2, <3>1, <3>2, <3>3
  <2>3. CASE ~restarting
    <3>1. restarting' /\ stopping' = stopping + 1
      BY <1>6, <2>3, Zenon DEF timerFires
    <3> QED
      BY <1>0, <2>1, <2>3, <3>1
  <2> QED
    BY <2>2, <2>3
<1>7. CASE stopServer
  BY <1>0, <1>7 DEF stopServer
<1>8. CASE startServer
  <2>1. /\ ~restarting' /\ (whole' <=> whole) /\ (touched' <=> touched)
        /\ (debounce' <=> debounce) /\ (excused' <=> excused)
        /\ UNCHANGED <<editor, built, stopping>> /\ starting > 0 /\ starting' = starting - 1
    BY <1>8, Zenon DEF startServer, settled
  <2>2. IF running # NoServer THEN running' = running
        ELSE IF whole THEN running' = built ELSE running' = NoServer
    BY <1>8, Zenon DEF startServer
  <2> QED
    BY <1>0, <2>1, <2>2
<1>9. CASE restartFails
  <2>1. ~restarting' /\ excused' /\ UNCHANGED <<editor, built, running>>
    BY <1>9, Zenon DEF restartFails, settled
  <2>2. \/ stopping > 0 /\ stopping' = stopping - 1 /\ UNCHANGED starting
        \/ starting > 0 /\ starting' = starting - 1 /\ UNCHANGED stopping
    BY <1>9, Zenon DEF restartFails
  <2> QED
    BY <1>0, <2>1, <2>2
<1> QED
  BY <1>1, <1>2, <1>3, <1>4, <1>5, <1>6, <1>7, <1>8, <1>9 DEF WatchNext

(* npm's latest version is one of the published.                           *)
LEMMA MaxIsMember == ASSUME NEW S \in SUBSET Versions, S # {} PROVE Max(S) \in S
<1> DEFINE Bounds == { n \in Nat : \A v \in S : v <= n }
<1>1. MaxVersion \in Bounds
  BY DEF Versions
<1>2. PICK m \in Bounds : \A n \in Bounds : ~(n < m)
  <2>1. IsWellFoundedOn(OpToRel(<, Nat), Nat)
    BY NatLessThanWellFounded
  <2>2. PICK m \in Bounds : \A n \in Bounds : <<n, m>> \notin OpToRel(<, Nat)
    BY <1>1, <2>1, WFMin, Zenon
  <2> QED
    BY <2>2 DEF OpToRel
<1>3. m \in S
  <2> SUFFICES ASSUME m \notin S PROVE FALSE
    OBVIOUS
  <2>1. PICK v \in S : v \in 1..MaxVersion
    BY DEF Versions
  <2>2. m - 1 \in Bounds
    BY <1>2, <2>1 DEF Versions
  <2> QED
    BY <1>2, <2>2
<1>4. \A v \in S : m >= v
  BY <1>2 DEF Versions
<1> QED
  BY <1>3, <1>4 DEF Max

LEMMA ZedInit_Inv == ZedInit => ZedInv
<1> SUFFICES ASSUME ZedInit PROVE ZedInv
  OBVIOUS
<1>1. hostFailed \in BOOLEAN /\ ~hostFailed
  BY Zenon DEF ZedInit
<1> QED
  BY <1>1 DEF ZedInit, ZedInv, ZedTypeOK, UsableVersionStarts, NotInstalled, Versions

LEMMA ZedNext_Inv == ZedInv /\ ZedNext => ZedInv'
<1> SUFFICES ASSUME ZedInv, ZedNext PROVE ZedInv'
  OBVIOUS
<1> USE DEF ZedInv, ZedTypeOK, UsableVersionStarts, NotInstalled, returns
<1>0. NotInstalled \notin Versions /\ Versions \subseteq Nat
  BY DEF Versions
<1>1. CASE language_server_command
  <2>1. hostFailed' \in BOOLEAN
    BY <1>1, Zenon DEF language_server_command
  <2>2. CASE returns("other", FALSE) /\ UNCHANGED status
    BY <1>1, <2>1, <2>2 DEF language_server_command
  <2>3. CASE returns("error", TRUE) /\ UNCHANGED status
    <3>1. hostFailed'
      BY <2>3, Zenon
    <3> QED
      BY <1>1, <2>1, <2>3, <3>1 DEF language_server_command
  <2>4. CASE step' = "check" /\ status' = "checking" /\ hostFailed' = FALSE /\ UNCHANGED result
    <3>1. ~hostFailed'
      BY <2>4, Zenon
    <3> QED
      BY <1>1, <2>1, <2>4, <3>1 DEF language_server_command
  <2> QED
    BY <1>1, <2>2, <2>3, <2>4, Zenon DEF language_server_command
<1>2. CASE checkInstalled
  <2>1. CASE returns("error", TRUE) /\ UNCHANGED status
    <3>1. hostFailed' /\ hostFailed' \in BOOLEAN
      BY <2>1, Zenon
    <3> QED
      BY <1>2, <2>1, <3>1 DEF checkInstalled
  <2>2. CASE ~(returns("error", TRUE) /\ UNCHANGED status)
    BY <1>0, <1>2, <2>2 DEF checkInstalled
  <2> QED
    BY <2>1, <2>2
<1>3. CASE installWanted
  BY <1>0, <1>3 DEF installWanted, npmInstalls, npmFails
<1>4. CASE installLatest
  BY <1>0, <1>4, MaxIsMember DEF installLatest, npmInstalls, npmFails
<1>5. CASE keepInstalled
  <2>1. CASE returns("error", TRUE) /\ UNCHANGED status
    <3>1. hostFailed' /\ hostFailed' \in BOOLEAN
      BY <2>1, Zenon
    <3> QED
      BY <1>5, <2>1, <3>1 DEF keepInstalled
  <2>2. CASE installed = NotInstalled /\ returns("error", FALSE) /\ status' = "failed"
    <3>1. ~hostFailed' /\ hostFailed' \in BOOLEAN
      BY <2>2, Zenon
    <3> QED
      BY <1>5, <2>2, <3>1 DEF keepInstalled
  <2>3. CASE /\ installed # NotInstalled
             /\ step' = "node" /\ status' = "none"
             /\ UNCHANGED <<result, hostFailed>>
    BY <1>5, <2>3 DEF keepInstalled
  <2> QED
    BY <1>5, <2>1, <2>2, <2>3, Zenon DEF keepInstalled
<1>6. CASE findNode
  BY <1>6 DEF findNode
<1>7. ASSUME NEW version \in Versions, publish(version) PROVE ZedInv'
  BY <1>7 DEF publish
<1>8. ASSUME NEW version \in Versions, update(version) PROVE ZedInv'
  BY <1>8 DEF update
<1> QED
  BY <1>1, <1>2, <1>3, <1>4, <1>5, <1>6, <1>7, <1>8 DEF ZedNext

-----------------------------------------------------------------------------
LEMMA Manifests ==
    ASSUME NEW b \in Bundles
    PROVE  /\ Len(Manifest[b]) \in Nat \ {0} /\ DOMAIN Manifest[b] = 1..Len(Manifest[b])
           /\ \A i \in DOMAIN Manifest[b] : Manifest[b][i] \in Names
           /\ \A i, j \in DOMAIN Manifest[b] : Manifest[b][i] = Manifest[b][j] => i = j
  BY ManifestAssumption DEF IsInjective, Names

LEMMA States ==
    /\ Absent \in FileStates
    /\ \A p \in Projects : WrittenBy(p) \in FileStates /\ WrittenBy(p) # Absent
    /\ \A b \in Bundles : FileOf(b) \in FileStates /\ FileOf(b) # Absent
    /\ \A p, q \in Projects : WrittenBy(p) = WrittenBy(q) => p = q
    /\ \A p \in Projects, b \in Bundles : WrittenBy(p) # FileOf(b)
<1>1. \A p, q \in Projects : WrittenBy(p) = WrittenBy(q) => p = q
  <2> SUFFICES ASSUME NEW p \in Projects, NEW q \in Projects, WrittenBy(p) = WrittenBy(q) PROVE p = q
    OBVIOUS
  <2>1. WrittenBy(p).by = p /\ WrittenBy(q).by = q
    BY DEF WrittenBy
  <2> QED
    BY <2>1
<1>2. /\ Absent.state = "absent" /\ \A p \in Projects : WrittenBy(p).state = "written"
      /\ \A b \in Bundles : FileOf(b).state = "complete"
  BY DEF Absent, WrittenBy, FileOf
<1>3. \A p \in Projects, b \in Bundles : WrittenBy(p) # FileOf(b) /\ WrittenBy(p) # Absent /\ FileOf(b) # Absent
  BY <1>2
<1>4. /\ \A p \in Projects : WrittenBy(p) # Absent
      /\ \A b \in Bundles : FileOf(b) # Absent
  BY <1>2
<1>5. /\ Absent \in FileStates
      /\ \A p \in Projects : WrittenBy(p) \in FileStates
      /\ \A b \in Bundles : FileOf(b) \in FileStates
  BY Zenon DEF FileStates
<1> QED
  BY <1>1, <1>3, <1>4, <1>5

LEMMA BundleInit_Inv == BundleInit => BundleInv
<1> SUFFICES ASSUME BundleInit PROVE BundleInv
  OBVIOUS
<1>1. at \in [Projects -> Steps \X Nat] /\ \A p \in Projects : at[p] = Idle
  BY DEF BundleInit, Steps, Idle
<1>2. BundleTypes
  BY <1>1, States DEF BundleInit, BundleTypes
<1>3. \A p \in Projects : ~AtFile(p) /\ at[p] \notin {Started, <<"stamp", 1>>, <<"stamp", 2>>}
  BY <1>1 DEF Idle, Started, AtFile
<1>4. stamp = NoStamp /\ stamp \notin Bundles /\ stamp # bundle
  BY <1>2 DEF BundleInit, BundleTypes
<1>5. \A p \in Projects, i \in DOMAIN Manifest[bundle] : ~Reached(p, i)
  BY <1>1, <1>3 DEF Reached, Idle
<1> QED
  BY <1>2, <1>3, <1>4, <1>5 DEF BundleInv, FilesCovered, StartedIsStamped, OldStampWhole, OneIsAhead

LEMMA LeftBehind ==
    ASSUME BundleTypes, NEW cutOff \in SUBSET Projects
    PROVE  /\ leftBehind(cutOff) \subseteq Bundles
           /\ cutOff # {} /\ stamp \in Bundles => stamp \in leftBehind(cutOff)
           /\ (cutOff # {} /\ \E p \in Projects \ cutOff : Extracting(p)) => bundle \in leftBehind(cutOff)
  BY DEF leftBehind, BundleTypes

LEMMA BundleTypes_Step == BundleTypes /\ BundleNext => BundleTypes'
<1> SUFFICES ASSUME BundleTypes, BundleNext PROVE BundleTypes'
  OBVIOUS
<1> USE DEF BundleTypes, Goes, Idle, Started, Steps, AtFile
<1>1. ASSUME NEW p \in Projects, extractBundledServer(p) PROVE BundleTypes'
  <2>1. 1 \in DOMAIN Manifest[bundle]
    BY Manifests
  <2> QED
    BY <1>1, <2>1 DEF extractBundledServer
<1>2. ASSUME NEW p \in Projects, extractTo(p) PROVE BundleTypes'
  <2>1. at[p][2] \in DOMAIN Manifest[bundle] /\ Manifest[bundle][at[p][2]] \in Names
    BY <1>2, Manifests DEF extractTo
  <2>2. disk' \in [Names -> FileStates]
    BY <1>2, <2>1, States DEF extractTo
  <2>3. /\ at' \in [Projects -> Steps \X Nat]
        /\ \A q \in Projects : q # p => at'[q] = at[q]
        /\ \/ at'[p] = <<"stamp", 1>>
           \/ at'[p][1] \in {"delete", "create", "write"} /\ at'[p][2] \in DOMAIN Manifest[bundle]
    BY <1>2, <2>1, Manifests DEF extractTo
  <2> QED
    BY <1>2, <2>2, <2>3 DEF extractTo
<1>3. ASSUME NEW p \in Projects, writeStamp(p) PROVE BundleTypes'
  BY <1>3 DEF writeStamp
<1>4. ASSUME NEW p \in Projects, alreadyExists(p) PROVE BundleTypes'
  BY <1>4 DEF alreadyExists
<1>5. ASSUME NEW p \in Projects, copyThrows(p) PROVE BundleTypes'
  BY <1>5, LeftBehind DEF copyThrows
<1>6. ASSUME NEW b \in Bundles, restartIde(b) PROVE BundleTypes'
  <2>1. doubted' \subseteq Bundles
    BY <1>6, LeftBehind DEF restartIde
  <2> QED
    BY <1>6, <2>1 DEF restartIde
<1> QED
  BY <1>1, <1>2, <1>3, <1>4, <1>5, <1>6 DEF BundleNext

(* A step of an extraction that does not end it by an error of the disk.   *)
Proceeds(p) == extractBundledServer(p) \/ extractTo(p) \/ writeStamp(p) \/ alreadyExists(p)

(* Only project p moves.                                                   *)
LEMMA OnlyOneMoves ==
    ASSUME BundleTypes, NEW p \in Projects, Proceeds(p) \/ copyThrows(p)
    PROVE  \A q \in Projects : q # p => at'[q] = at[q]
  BY DEF BundleTypes, Proceeds, Goes, extractBundledServer, extractTo, writeStamp, alreadyExists, copyThrows

(* A step of extractTo, spelled out.                                       *)
LEMMA Copies ==
    ASSUME BundleTypes, NEW p \in Projects, extractTo(p), NEW i, i = at[p][2]
    PROVE  /\ i \in DOMAIN Manifest[bundle]
           /\ \/ /\ at[p] = <<"delete", i>> /\ at'[p] = <<"create", i>>
                 /\ disk' = [ disk EXCEPT ![Manifest[bundle][i]] = Absent ]
              \/ /\ at[p] = <<"create", i>> /\ at'[p] = <<"write", i>>
                 /\ disk[Manifest[bundle][i]] = Absent
                 /\ disk' = [ disk EXCEPT ![Manifest[bundle][i]] = WrittenBy(p) ]
              \/ /\ at[p] = <<"write", i>>
                 /\ \/ i < Len(Manifest[bundle]) /\ at'[p] = <<"delete", i + 1>>
                    \/ ~(i < Len(Manifest[bundle])) /\ at'[p] = <<"stamp", 1>>
                 /\ disk' = IF disk[Manifest[bundle][i]] = WrittenBy(p)
                            THEN [ disk EXCEPT ![Manifest[bundle][i]] = FileOf(bundle) ] ELSE disk
           /\ UNCHANGED <<bundle, stamp, sessions, doubted>>
  BY DEF BundleTypes, extractTo, Goes, AtFile, Steps, Idle, Started

(* A file that is covered stays so.                                        *)
LEMMA Covered_Step ==
    ASSUME BundleTypes, NEW p \in Projects, Proceeds(p),
           NEW i \in DOMAIN Manifest[bundle], Covered(i)
    PROVE  Covered(i)'
<1> DEFINE name == Manifest[bundle][i]
<1>0. name \in Names /\ bundle' = bundle
  BY Manifests DEF BundleTypes, Proceeds, extractBundledServer, extractTo, writeStamp, alreadyExists
<1>1. CASE extractTo(p)
  <2> DEFINE j == at[p][2]
  <2>1. CASE j # i
    <3>1. disk'[name] = disk[name]
      BY <1>0, <1>1, <2>1, Copies, Manifests DEF BundleTypes
    <3>2. \A q \in Projects : at[q] \in {<<"create", i>>, <<"write", i>>} => q # p
      BY <2>1
    <3> QED
      BY <1>0, <3>1, <3>2, OnlyOneMoves DEF Covered, Proceeds
  <2>2. CASE j = i
    <3>1. CASE at[p] = <<"delete", i>>
      BY <1>0, <1>1, <2>2, <3>1, Copies DEF Covered, BundleTypes
    <3>2. CASE at[p] = <<"create", i>>
      BY <1>0, <1>1, <2>2, <3>2, Copies DEF Covered, BundleTypes
    <3>3. CASE at[p] = <<"write", i>>
      <4>1. CASE disk[name] = WrittenBy(p)
        BY <1>0, <1>1, <2>2, <3>3, <4>1, Copies DEF Covered, BundleTypes
      <4>2. CASE disk[name] # WrittenBy(p)
        <5>1. disk' = disk
          BY <1>0, <1>1, <2>2, <3>3, <4>2, Copies
        <5> QED
          BY <1>0, <3>3, <4>2, <5>1, OnlyOneMoves DEF Covered, Proceeds
      <4> QED
        BY <4>1, <4>2
    <3> QED
      BY <1>1, <2>2, <3>1, <3>2, <3>3, Copies
  <2> QED
    BY <2>1, <2>2
<1>2. CASE extractBundledServer(p) \/ writeStamp(p) \/ alreadyExists(p)
  <2>1. disk' = disk
    BY <1>2 DEF extractBundledServer, writeStamp, alreadyExists
  <2>2. ~(at[p] = <<"write", i>>)
    BY <1>2 DEF extractBundledServer, writeStamp, alreadyExists, Extracting, Idle, Started
  <2>3. ~(at[p] = <<"create", i>> /\ disk[name] = Absent)
    BY <1>2 DEF extractBundledServer, writeStamp, alreadyExists, Extracting, Idle, Started
  <2> QED
    BY <1>0, <2>1, <2>2, <2>3, OnlyOneMoves DEF Covered
<1> QED
  BY <1>1, <1>2 DEF Proceeds

(* A file that a project newly reaches is covered.                         *)
LEMMA Reached_Step ==
    ASSUME BundleTypes, NEW p \in Projects, Proceeds(p), NEW q \in Projects,
           NEW i \in DOMAIN Manifest[bundle], Reached(q, i)'
    PROVE  Reached(q, i) \/ Covered(i)'
<1>0. i \in Nat \ {0} /\ i <= Len(Manifest[bundle]) /\ Len(Manifest[bundle]) \in Nat
  BY Manifests DEF BundleTypes
<1>1. CASE q # p
  BY <1>1, OnlyOneMoves DEF Reached, AtFile
<1>2. CASE q = p /\ extractTo(p)
  <2>1. CASE at[p] = <<"delete", i>>
    <3>1. at'[p] = <<"create", i>> /\ disk'[Manifest[bundle][i]] = Absent /\ bundle' = bundle
      BY <1>2, <2>1, Copies, Manifests DEF BundleTypes
    <3> QED
      BY <3>1 DEF Covered
  <2>2. CASE at[p] # <<"delete", i>>
    <3>1. at[p][2] \in Nat
      BY DEF BundleTypes
    <3>2. CASE at[p][1] = "delete"
      BY <1>0, <1>2, <2>2, <3>1, <3>2, Copies DEF Reached, AtFile
    <3>3. CASE at[p][1] = "create"
      BY <1>0, <1>2, <3>1, <3>3, Copies DEF Reached, AtFile
    <3>4. CASE at[p][1] = "write"
      <4> DEFINE j == at[p][2]
      <4>1. at[p] = <<"write", j>> /\ j \in DOMAIN Manifest[bundle]
        BY <1>2, <3>4, Copies
      <4>2. j >= i
        <5>1. CASE at'[p] = <<"delete", j + 1>>
          BY <1>0, <1>2, <3>1, <5>1 DEF Reached, AtFile
        <5>2. CASE ~(j < Len(Manifest[bundle]))
          BY <1>0, <3>1, <5>2
        <5> QED
          BY <1>2, <3>4, <5>1, <5>2, Copies
      <4> QED
        <5>1. CASE j = i
          BY <1>2, <4>1, <5>1 DEF Reached
        <5>2. CASE j > i
          BY <1>2, <3>4, <5>2 DEF Reached, AtFile
        <5> QED
          BY <1>0, <3>1, <4>2, <5>1, <5>2
    <3> QED
      BY <1>2, <3>2, <3>3, <3>4, Copies
  <2> QED
    BY <2>1, <2>2
<1>3. CASE q = p /\ extractBundledServer(p)
  BY <1>0, <1>3 DEF extractBundledServer, Goes, Reached, AtFile, BundleTypes, Idle, Started, Extracting
<1>4. CASE q = p /\ writeStamp(p)
  BY <1>4 DEF writeStamp, Goes, Reached, AtFile, BundleTypes, Idle, Started
<1>5. CASE q = p /\ alreadyExists(p)
  BY <1>5 DEF alreadyExists, Goes, Reached, AtFile, BundleTypes, Idle, Started
<1> QED
  BY <1>1, <1>2, <1>3, <1>4, <1>5 DEF Proceeds

(* Likewise for a project that was ahead of file i.                        *)
LEMMA Past_Step ==
    ASSUME BundleTypes, NEW p \in Projects, extractTo(p), NEW q \in Projects,
           NEW i \in DOMAIN Manifest[bundle], Past(q, i)
    PROVE  Past(q, i)'
<1>0. i \in Nat
  BY Manifests DEF BundleTypes
<1>1. CASE q # p
  BY <1>1, OnlyOneMoves DEF Past, AtFile, Proceeds
<1>2. CASE q = p
  <2>1. at[p][2] \in Nat
    BY DEF BundleTypes
  <2>2. CASE at[p][1] = "delete"
    BY <1>0, <1>2, <2>1, <2>2, Copies DEF Past, AtFile
  <2>3. CASE at[p][1] = "create"
    BY <1>0, <1>2, <2>1, <2>3, Copies DEF Past, AtFile
  <2>4. CASE at[p][1] = "write"
    <3>1. at[p] = <<"write", at[p][2]>> /\ at[p][2] >= i
      BY <1>0, <1>2, <2>1, <2>4, Copies DEF Past, AtFile
    <3>2. CASE at'[p] = <<"delete", at[p][2] + 1>>
      BY <1>0, <1>2, <2>1, <3>1, <3>2 DEF Past, AtFile
    <3>3. CASE at'[p] = <<"stamp", 1>>
      BY <1>2, <3>3 DEF Past
    <3> QED
      BY <3>1, <3>2, <3>3, Copies
  <2> QED
    BY <2>2, <2>3, <2>4, Copies
<1> QED
  BY <1>1, <1>2

(* The steps that leave bundle and doubted alone.                          *)
LEMMA Proceeds_FilesCovered ==
    ASSUME BundleInv, NEW p \in Projects, Proceeds(p)
    PROVE  FilesCovered'
<1>0. BundleTypes /\ FilesCovered /\ UNCHANGED <<bundle, doubted>>
  BY DEF BundleInv, Proceeds, extractBundledServer, extractTo, writeStamp, alreadyExists
<1> SUFFICES ASSUME bundle \notin doubted, NEW i \in DOMAIN Manifest[bundle],
                    stamp' = bundle \/ \E q \in Projects : Reached(q, i)'
             PROVE  Covered(i)'
  BY <1>0 DEF FilesCovered
<1>1. CASE stamp' = bundle /\ stamp # bundle
  <2>1. Reached(p, i)
    <3>1. writeStamp(p) /\ at[p][2] = 2
      BY <1>0, <1>1 DEF Proceeds, BundleTypes, extractBundledServer, extractTo, writeStamp, alreadyExists
    <3> QED
      BY <1>0, <3>1 DEF writeStamp, BundleTypes, Reached, AtFile, Idle, Started
  <2> QED
    BY <1>0, <2>1, Covered_Step DEF FilesCovered
<1>2. CASE stamp = bundle
  BY <1>0, <1>2, Covered_Step DEF FilesCovered
<1>3. ASSUME NEW q \in Projects, Reached(q, i)' PROVE Covered(i)'
  <2>1. CASE Reached(q, i)
    BY <1>0, <2>1, Covered_Step DEF FilesCovered
  <2>2. CASE ~Reached(q, i)
    BY <1>0, <1>3, <2>2, Reached_Step
  <2> QED
    BY <2>1, <2>2
<1> QED
  BY <1>1, <1>2, <1>3

LEMMA Proceeds_StartedIsStamped ==
    ASSUME BundleInv, NEW p \in Projects, Proceeds(p)
    PROVE  StartedIsStamped'
<1>0. BundleTypes /\ StartedIsStamped
  BY DEF BundleInv
<1> SUFFICES ASSUME NEW q \in Projects, at'[q] = Started
             PROVE  stamp' = bundle' \/ \E r \in Projects : at'[r] = <<"stamp", 2>>
  BY DEF StartedIsStamped
<1>1. CASE extractBundledServer(p)
  <2>1. at[p] # <<"stamp", 2>>
    BY <1>1 DEF extractBundledServer, Extracting, Idle, Started
  <2>2. CASE q = p
    BY <1>0, <1>1, <2>2 DEF extractBundledServer, reuses, Goes, Started, BundleTypes
  <2>3. CASE q # p
    BY <1>0, <1>1, <2>1, <2>3, OnlyOneMoves DEF Proceeds, extractBundledServer, StartedIsStamped
  <2> QED
    BY <2>2, <2>3
<1>2. CASE extractTo(p)
  <2>1. at[p] # <<"stamp", 2>> /\ at'[p] # Started /\ UNCHANGED <<bundle, stamp>>
    BY <1>0, <1>2, Copies DEF Started
  <2> QED
    BY <1>0, <1>2, <2>1, OnlyOneMoves DEF Proceeds, StartedIsStamped
<1>3. CASE writeStamp(p)
  BY <1>0, <1>3 DEF writeStamp, Goes, BundleTypes
<1>4. CASE alreadyExists(p)
  <2>1. at[p] # <<"stamp", 2>> /\ at'[p] # Started /\ UNCHANGED <<bundle, stamp>>
    BY <1>0, <1>4 DEF alreadyExists, Goes, BundleTypes, Idle, Started
  <2> QED
    BY <1>0, <1>4, <2>1, OnlyOneMoves DEF Proceeds, StartedIsStamped
<1> QED
  BY <1>1, <1>2, <1>3, <1>4 DEF Proceeds

LEMMA AheadExtracts ==
    ASSUME NEW p \in Projects, NEW i, Past(p, i) \/ Reached(p, i) \/ at[p] = <<"stamp", 2>>
    PROVE  Extracting(p)
  BY DEF Past, Reached, AtFile, Extracting, Idle, Started

(* Who ends because its file is there has another project ahead of it.     *)
LEMMA AnotherIsAhead ==
    ASSUME BundleInv, stamp \in Bundles \ {bundle}, stamp \notin doubted,
           NEW p \in Projects, alreadyExists(p), NEW i \in Nat,
           Past(p, i) \/ i = at[p][2]
    PROVE  \E q \in Projects \ {p} : Past(q, i)
<1> DEFINE j == at[p][2]
<1>1. at[p] = <<"create", j>> /\ j \in Nat /\ j \in DOMAIN Manifest[bundle]
  BY DEF alreadyExists, BundleInv, BundleTypes, Idle, Started
<1>2. PICK q \in Projects : Past(q, j)
  BY <1>1 DEF alreadyExists, BundleInv, OneIsAhead
<1>3. q # p
  BY <1>1, <1>2 DEF Past
<1>4. i <= j
  BY <1>1 DEF Past
<1>5. CASE i = j
  BY <1>2, <1>3, <1>5
<1>6. CASE i < j
  <2>1. CASE at[q] \in {<<"write", j>>, <<"stamp", 1>>}
    BY <1>3, <1>6, <2>1 DEF Past, AtFile
  <2>2. CASE AtFile(q) /\ at[q][2] > j
    <3>1. at[q][2] \in Nat
      BY DEF BundleInv, BundleTypes
    <3> QED
      BY <1>1, <1>3, <1>6, <2>2, <3>1 DEF Past
  <2> QED
    BY <1>2, <2>1, <2>2 DEF Past
<1> QED
  BY <1>1, <1>4, <1>5, <1>6

LEMMA Proceeds_OneIsAhead ==
    ASSUME BundleInv, NEW p \in Projects, Proceeds(p)
    PROVE  OneIsAhead'
<1>0. BundleTypes /\ OneIsAhead /\ UNCHANGED <<bundle, doubted>>
  BY DEF BundleInv, Proceeds, extractBundledServer, extractTo, writeStamp, alreadyExists
<1> SUFFICES ASSUME stamp' \in Bundles \ {bundle}, stamp' \notin doubted,
                    NEW r \in Projects, NEW i \in DOMAIN Manifest[bundle],
                    at'[r] = <<"create", i>>, disk'[Manifest[bundle][i]] # Absent
             PROVE  \E q \in Projects : Past(q, i)'
  BY <1>0 DEF OneIsAhead
<1>1. ~writeStamp(p)
  BY StampAssumption DEF writeStamp
<1>2. stamp' = stamp
  BY <1>1 DEF Proceeds, extractBundledServer, extractTo, alreadyExists
<1>3. Manifest[bundle][i] \in Names /\ i \in Nat
  BY <1>0, Manifests DEF BundleTypes
<1>4. CASE extractTo(p)
  <2> DEFINE j == at[p][2]
  <2>1. CASE at[p] = <<"create", j>> /\ i = j
    <3>1. at'[p] = <<"write", i>>
      BY <1>0, <1>4, <2>1, Copies
    <3> QED
      BY <3>1 DEF Past
  <2>2. CASE ~(at[p] = <<"create", j>> /\ i = j)
    <3>1. r # p
      <4>1. CASE at[p] = <<"delete", j>>
        BY <1>0, <1>3, <1>4, <4>1, Copies DEF BundleTypes
      <4>2. CASE at[p] # <<"delete", j>>
        BY <1>0, <1>4, <4>2, Copies
      <4> QED
        BY <4>1, <4>2
    <3>2. disk[Manifest[bundle][i]] # Absent
      BY <1>0, <1>3, <1>4, <2>2, Copies, Manifests, States DEF BundleTypes
    <3>3. at[r] = <<"create", i>>
      BY <1>0, <1>4, <3>1, OnlyOneMoves DEF Proceeds
    <3>4. PICK q \in Projects : Past(q, i)
      BY <1>0, <1>2, <3>2, <3>3 DEF OneIsAhead
    <3> QED
      BY <1>0, <1>4, <3>4, Past_Step
  <2> QED
    BY <2>1, <2>2
<1>5. CASE extractBundledServer(p) \/ alreadyExists(p)
  <2>1. disk' = disk /\ r # p
    BY <1>0, <1>5 DEF extractBundledServer, alreadyExists, Goes, BundleTypes, Idle, Started
  <2>2. at[r] = <<"create", i>>
    BY <1>0, <2>1, OnlyOneMoves
  <2>3. PICK q \in Projects : Past(q, i)
    BY <1>0, <1>2, <2>1, <2>2 DEF OneIsAhead
  <2>4. \E s \in Projects \ {p} : Past(s, i)
    <3>1. CASE extractBundledServer(p)
      BY <2>3, <3>1, AheadExtracts DEF extractBundledServer
    <3>2. CASE alreadyExists(p)
      BY <1>2, <1>3, <2>3, <3>2, AnotherIsAhead, <1>0
    <3> QED
      BY <1>5, <3>1, <3>2
  <2> QED
    BY <1>0, <2>4, OnlyOneMoves DEF Past, AtFile
<1> QED
  BY <1>1, <1>4, <1>5 DEF Proceeds

LEMMA Proceeds_OldStampWhole ==
    ASSUME BundleInv, NEW p \in Projects, Proceeds(p)
    PROVE  OldStampWhole'
<1>0. BundleTypes /\ UNCHANGED <<bundle, doubted>>
  BY DEF BundleInv, Proceeds, extractBundledServer, extractTo, writeStamp, alreadyExists
<1> SUFFICES ASSUME stamp' \in Bundles \ {bundle}, stamp' \notin doubted
             PROVE  \E q \in Projects : Extracting(q)'
  BY <1>0 DEF OldStampWhole
<1>1. ~writeStamp(p)
  BY StampAssumption DEF writeStamp
<1>2. stamp' = stamp
  BY <1>1 DEF Proceeds, extractBundledServer, extractTo, alreadyExists
<1>3. CASE extractTo(p)
  BY <1>0, <1>3, Copies DEF Extracting, Idle, Started
<1>4. CASE extractBundledServer(p)
  <2>1. at'[p] = <<"delete", 1>>
    BY <1>0, <1>2, <1>4 DEF extractBundledServer, reuses, Goes, BundleTypes
  <2> QED
    BY <2>1 DEF Extracting, Idle, Started
<1>5. CASE alreadyExists(p)
  <2>1. at[p][2] \in Nat
    BY <1>0 DEF BundleTypes
  <2>2. PICK q \in Projects \ {p} : Past(q, at[p][2])
    BY <1>0, <1>2, <1>5, <2>1, AnotherIsAhead
  <2>3. Extracting(q) /\ at'[q] = at[q]
    BY <1>0, <1>5, <2>2, AheadExtracts, OnlyOneMoves DEF Proceeds
  <2> QED
    BY <2>3 DEF Extracting
<1> QED
  BY <1>1, <1>3, <1>4, <1>5 DEF Proceeds

(* A stamp that stands, and is not in doubt, tells what is on the disk.    *)
LEMMA QuietIsWhole ==
    ASSUME BundleInv, \A p \in Projects : ~Extracting(p),
           stamp \in Bundles, stamp \notin doubted
    PROVE  Whole(stamp)
<1>1. CASE stamp = bundle
  <2> SUFFICES ASSUME NEW i \in DOMAIN Manifest[bundle]
               PROVE  disk[Manifest[bundle][i]] = FileOf(bundle)
    BY <1>1 DEF Whole
  <2>1. \A p \in Projects : at[p] # <<"create", i>> /\ at[p] # <<"write", i>>
    BY DEF Extracting, Idle, Started
  <2>2. Covered(i)
    BY <1>1 DEF BundleInv, FilesCovered
  <2> QED
    BY <2>1, <2>2 DEF Covered
<1>2. CASE stamp # bundle
  BY <1>2 DEF BundleInv, OldStampWhole
<1> QED
  BY <1>1, <1>2

LEMMA BundleNext_Inv == BundleInv /\ BundleNext => BundleInv'
<1> SUFFICES ASSUME BundleInv, BundleNext PROVE BundleInv'
  OBVIOUS
<1>0. BundleTypes /\ BundleTypes'
  BY BundleTypes_Step DEF BundleInv
<1>1. ASSUME NEW p \in Projects, Proceeds(p) PROVE BundleInv'
  BY <1>0, <1>1, Proceeds_FilesCovered, Proceeds_StartedIsStamped,
     Proceeds_OneIsAhead, Proceeds_OldStampWhole DEF BundleInv
<1>2. ASSUME NEW p \in Projects, copyThrows(p) PROVE BundleInv'
  <2>1. /\ UNCHANGED <<bundle, stamp, disk>> /\ at'[p] = Idle
        /\ stamp \in Bundles => stamp \in doubted'
        /\ (\E q \in Projects \ {p} : Extracting(q)) => bundle \in doubted'
    BY <1>0, <1>2, LeftBehind DEF copyThrows, Goes, BundleTypes
  <2>2. \A q \in Projects \ {p} : at'[q] = at[q]
    BY <1>0, <1>2, OnlyOneMoves
  <2>3. OldStampWhole' /\ OneIsAhead'
    BY <2>1 DEF OldStampWhole, OneIsAhead
  <2>4. StartedIsStamped'
    <3>1. at[p] # <<"stamp", 2>>
      BY <1>2 DEF copyThrows
    <3> QED
      BY <2>1, <2>2, <3>1 DEF BundleInv, StartedIsStamped, Idle, Started
  <2>5. FilesCovered'
    <3> SUFFICES ASSUME bundle \notin doubted', NEW q \in Projects, NEW i, Reached(q, i)' PROVE FALSE
      BY <1>0, <2>1 DEF FilesCovered, BundleTypes
    <3>1. CASE q = p
      BY <2>1, <3>1 DEF Reached, AtFile, Idle
    <3>2. CASE q # p
      <4>1. Reached(q, i)
        BY <2>2, <3>2 DEF Reached, AtFile
      <4> QED
        BY <2>1, <3>2, <4>1, AheadExtracts
    <3> QED
      BY <3>1, <3>2
  <2> QED
    BY <1>0, <2>3, <2>4, <2>5 DEF BundleInv
<1>3. ASSUME NEW b \in Bundles, restartIde(b) PROVE BundleInv'
  <2>1. UNCHANGED <<disk, stamp>> /\ bundle' = b /\ \A p \in Projects : at'[p] = Idle
    BY <1>3 DEF restartIde
  <2>2. (stamp \in Bundles /\ stamp \notin doubted') => Whole(stamp)
    <3>1. (\E p \in Projects : Extracting(p)) /\ stamp \in Bundles => stamp \in doubted'
      BY <1>0, <1>3, LeftBehind DEF restartIde
    <3>2. stamp \notin doubted' => stamp \notin doubted
      BY <1>3 DEF restartIde
    <3> QED
      BY <3>1, <3>2, QuietIsWhole
  <2>3. \A p \in Projects : ~AtFile(p)' /\ at'[p] \notin {Started, <<"stamp", 1>>, <<"stamp", 2>>}
    BY <2>1 DEF AtFile, Idle, Started
  <2>4. StartedIsStamped' /\ OneIsAhead'
    BY <2>3 DEF StartedIsStamped, OneIsAhead, AtFile
  <2>5. OldStampWhole'
    BY <2>1, <2>2 DEF OldStampWhole, Whole
  <2>6. FilesCovered'
    <3>1. \A p \in Projects, i \in DOMAIN Manifest[b] : ~Reached(p, i)'
      BY <2>1 DEF Reached, AtFile, Idle
    <3> QED
      BY <2>1, <2>2, <3>1 DEF FilesCovered, Covered, Whole
  <2> QED
    BY <1>0, <2>4, <2>5, <2>6 DEF BundleInv
<1> QED
  BY <1>1, <1>2, <1>3 DEF BundleNext, Proceeds

-----------------------------------------------------------------------------

(* The inductive invariant.                                                *)
IInv == part \in {"watch", "bundle", "zed"} /\ WatchInv /\ BundleInv /\ ZedInv

(* The invariant is inductive.                                             *)
LEMMA Invariance == Spec => []IInv
<1>1. Init => IInv
  BY WatchInit_Inv, BundleInit_Inv, ZedInit_Inv DEF Init, IInv
<1>2. IInv /\ [Next]_<<part, watchVars, bundleVars, zedVars>> => IInv'
  <2> SUFFICES ASSUME IInv, [Next]_<<part, watchVars, bundleVars, zedVars>> PROVE IInv'
    OBVIOUS
  <2>1. UNCHANGED watchVars => WatchInv'
    BY DEF IInv, WatchInv, WatchFlags, WatchCounts, OneRestart, WillRun, UnderWay, watchVars
  <2>2. UNCHANGED bundleVars => BundleInv'
    BY DEF IInv, BundleInv, BundleTypes, FilesCovered, StartedIsStamped, OldStampWhole, OneIsAhead,
           Covered, Reached, Past, Whole, AtFile, Extracting, bundleVars
  <2>3. UNCHANGED zedVars => ZedInv'
    BY DEF IInv, ZedInv, ZedTypeOK, UsableVersionStarts, zedVars
  <2>4. CASE part = "watch" /\ WatchNext /\ UNCHANGED <<part, bundleVars, zedVars>>
    BY <2>2, <2>3, <2>4, WatchNext_Inv DEF IInv
  <2>5. CASE part = "bundle" /\ BundleNext /\ UNCHANGED <<part, watchVars, zedVars>>
    BY <2>1, <2>3, <2>5, BundleNext_Inv DEF IInv
  <2>6. CASE part = "zed" /\ ZedNext /\ UNCHANGED <<part, watchVars, bundleVars>>
    BY <2>1, <2>2, <2>6, ZedNext_Inv DEF IInv
  <2>7. CASE UNCHANGED <<part, watchVars, bundleVars, zedVars>>
    BY <2>1, <2>2, <2>3, <2>7 DEF IInv
  <2> QED
    BY <2>4, <2>5, <2>6, <2>7 DEF Next
<1> QED
  BY <1>1, <1>2, PTL DEF Spec

(* The types of the three parts.                                           *)
THEOREM EditorsTypes == Spec => []TypeOK
<1>1. WatchInv => WatchTypeOK
  <2> SUFFICES ASSUME WatchInv PROVE WatchTypeOK
    OBVIOUS
  <2>1. WatchFlags
    BY Zenon DEF WatchInv
  <2>2. stopping \in 0..MaxRestarts /\ starting \in 0..MaxRestarts
    BY DEF WatchInv, WatchCounts, UnderWay
  <2>3. editor = "vscode" => UnderWay = IF restarting THEN 1 ELSE 0
    BY DEF WatchInv, OneRestart
  <2> QED
    BY <2>1, <2>2, <2>3, Zenon DEF WatchInv, WatchCounts, WatchFlags, WatchTypeOK
<1>2. BundleInv => BundleTypeOK
  <2> SUFFICES ASSUME BundleInv PROVE BundleTypeOK
    OBVIOUS
  <2>1. \A name \in Names :
          disk[name] \in {Absent} \cup { WrittenBy(p) : p \in Projects } \cup { FileOf(b) : b \in Bundles }
    BY Zenon DEF BundleInv, BundleTypes, FileStates
  <2>2. ASSUME NEW p \in Projects, Extracting(p)
        PROVE  /\ at[p][1] \in {"delete", "create", "write", "stamp"}
               /\ at[p][2] \in 1..(Len(Manifest[bundle]) + 1)
    BY <2>2, Manifests DEF BundleInv, BundleTypes, Extracting, AtFile
  <2> QED
    BY <2>1, <2>2 DEF BundleInv, BundleTypes, BundleTypeOK
<1>3. ZedInv => ZedTypeOK
  BY DEF ZedInv
<1>4. IInv => TypeOK
  BY <1>1, <1>2, <1>3 DEF IInv, TypeOK
<1> QED
  BY <1>4, Invariance, PTL

(* A rebuild of server.js is never lost: extension.ts:149-172 and
   OtelcolDevWatcher.kt, for any number of rebuilds and restarts.          *)
THEOREM LatestBuild == Spec => []LatestBuildRuns
<1>1. IInv => LatestBuildRuns
  BY DEF IInv, WatchInv, WatchCounts, WillRun, LatestBuildRuns, UnderWay
<1> QED
  BY <1>1, Invariance, PTL

(* The server that is started is of the installed bundle, complete, for
   any bundles, projects, crashes and upgrades (extractBundledServer).     *)
THEOREM BundleStarts == Spec => []StartedServerIsBundled
<1>1. IInv => StartedServerIsBundled
  <2> SUFFICES ASSUME BundleInv, \A p \in Projects : ~Extracting(p), bundle \notin doubted,
                      NEW p \in Projects, at[p] = Started
               PROVE  Whole(bundle)
    BY DEF IInv, StartedServerIsBundled, Whole
  <2>1. stamp = bundle
    BY AheadExtracts DEF BundleInv, StartedIsStamped
  <2> QED
    BY <2>1, QuietIsWhole DEF BundleInv, BundleTypes
<1> QED
  BY <1>1, Invariance, PTL

(* Zed starts the copy that is there, whatever fails in npm (otelcol.rs),
   for any versions and any number of starts.                              *)
THEOREM UsableStarts == Spec => []UsableVersionStarts
<1>1. IInv => UsableVersionStarts
  BY DEF IInv, ZedInv
<1> QED
  BY <1>1, Invariance, PTL
=============================================================================
