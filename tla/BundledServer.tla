---------------------------- MODULE BundledServer ----------------------------
(***************************************************************************)
(* The server bundled with the JetBrains plugin                            *)
(* (OtelcolLspServerFactory.kt:81-110): extracted file by file into a      *)
(* directory that outlives the plugin's builds, beside a stamp with the    *)
(* hash of the bundle. Each project of the IDE does so when it starts its  *)
(* server, on a thread of its own. The IDE may end at any moment, and may  *)
(* come back with another bundle of the same plugin version.               *)
(***************************************************************************)
EXTENDS Integers, Sequences, Functions

CONSTANTS
    Bundles,      \* the builds of the plugin, by the hash of their bundle
    Manifest,     \* [Bundles -> Seq(names)]: their files, in order
    ServerJs,     \* the file that the server is started with
    Projects,     \* projects of the IDE
    MaxSessions   \* how often the IDE is started

(* A manifest lists a file tree: no file twice, and server.js is there.    *)
ASSUME ManifestAssumption ==
    \A b \in Bundles : /\ DOMAIN Manifest[b] = 1..Len(Manifest[b]) /\ Len(Manifest[b]) \in Nat
                      /\ IsInjective(Manifest[b])
                      /\ \E i \in DOMAIN Manifest[b] : Manifest[b][i] = ServerJs

VARIABLES
    bundle,     \* the bundle of the plugin that is installed
    disk,       \* file -> the bundle it is of; Absent; or who writes it
    stamp,      \* .content.sha256, NoStamp if absent or empty
    at,         \* project -> where its extraction is
    sessions,   \* starts of the IDE so far
    doubted     \* history: see StartedServerIsBundled
bundleVars == <<bundle, disk, stamp, at, sessions, doubted>>

Absent == [state |-> "absent"]
WrittenBy(p) == [state |-> "written", by |-> p]
FileOf(b) == [state |-> "complete", of |-> b]
NoStamp == "no stamp"
ASSUME StampAssumption == NoStamp \notin Bundles /\ MaxSessions \in Nat \ {0}
Idle == <<"idle", 0>>
Started == <<"started", 0>>
Extracting(p) == at[p] \notin {Idle, Started}
Names == UNION { { Manifest[b][i] : i \in DOMAIN Manifest[b] } : b \in Bundles }

BundleTypeOK ==
    /\ bundle \in Bundles /\ stamp \in Bundles \cup {NoStamp} /\ doubted \subseteq Bundles
    /\ \A name \in Names :
         disk[name] \in {Absent} \cup { WrittenBy(p) : p \in Projects } \cup { FileOf(b) : b \in Bundles }
    /\ \A p \in Projects : Extracting(p) =>
         /\ at[p][1] \in {"delete", "create", "write", "stamp"}
         /\ at[p][2] \in 1..(Len(Manifest[bundle]) + 1)
    /\ sessions \in 1..MaxSessions

BundleInit ==
    /\ bundle \in Bundles
    /\ disk = [ name \in Names |-> Absent ] /\ stamp = NoStamp
    /\ at = [ p \in Projects |-> Idle ]
    /\ sessions = 1 /\ doubted = {}

Goes(p, where) == at' = [ at EXCEPT ![p] = where ]

(* Mutant of reuses: an extraction that is there is taken.                 *)
reusesAny == disk[ServerJs] # Absent /\ stamp # NoStamp

(* Whether the extraction on the disk is taken for the bundle's.           *)
reuses == disk[ServerJs] # Absent /\ stamp = bundle

extractBundledServer(p) ==
    /\ ~Extracting(p)
    /\ Goes(p, IF reuses THEN Started ELSE <<"delete", 1>>)
    /\ UNCHANGED <<bundle, disk, stamp, sessions, doubted>>

(* Files.copy with REPLACE_EXISTING, for one file of the manifest: what is *)
(* there is deleted, a new file is created, and written. A file deleted    *)
(* meanwhile by another project is written in vain.                        *)
extractTo(p) ==
    LET name == Manifest[bundle][at[p][2]]
    IN  /\ \/ /\ at[p][1] = "delete"
              /\ disk' = [ disk EXCEPT ![name] = Absent ]
              /\ Goes(p, <<"create", at[p][2]>>)
           \/ /\ at[p][1] = "create" /\ disk[name] = Absent
              /\ disk' = [ disk EXCEPT ![name] = WrittenBy(p) ]
              /\ Goes(p, <<"write", at[p][2]>>)
           \/ /\ at[p][1] = "write"
              /\ disk' = IF disk[name] = WrittenBy(p) THEN [ disk EXCEPT ![name] = FileOf(bundle) ] ELSE disk
              /\ Goes(p, IF at[p][2] < Len(Manifest[bundle]) THEN <<"delete", at[p][2] + 1>>
                                                             ELSE <<"stamp", 1>>)
        /\ UNCHANGED <<bundle, stamp, sessions, doubted>>

(* Files.writeString: the stamp is emptied, then written.                  *)
writeStamp(p) ==
    /\ at[p][1] = "stamp"
    /\ \/ at[p][2] = 1 /\ stamp' = NoStamp /\ Goes(p, <<"stamp", 2>>)
       \/ at[p][2] = 2 /\ stamp' = bundle /\ Goes(p, Started)
    /\ UNCHANGED <<bundle, disk, sessions, doubted>>

(* The file was created by another project between the deletion and the    *)
(* creation: the copy throws, and this project gets no server.             *)
alreadyExists(p) ==
    /\ at[p][1] = "create" /\ disk[Manifest[bundle][at[p][2]]] # Absent
    /\ Goes(p, Idle)
    /\ UNCHANGED <<bundle, disk, stamp, sessions, doubted>>

(* What is left when extractions are cut off: a stamp that stands in its   *)
(* place, and one that another project will still write.                   *)
leftBehind(cutOff) ==
    IF cutOff = {} THEN {}
    ELSE ({stamp} \ {NoStamp}) \cup (IF \E p \in Projects \ cutOff : Extracting(p) THEN {bundle} ELSE {})

(* The disk is full, or the file cannot be written.                        *)
copyThrows(p) ==
    /\ at[p][1] \in {"create", "write"}
    /\ Goes(p, Idle)
    /\ doubted' = doubted \cup leftBehind({p})
    /\ UNCHANGED <<bundle, disk, stamp, sessions>>

(* The IDE ends, at any point, and starts with the same or another bundle. *)
restartIde(b) ==
    /\ sessions < MaxSessions
    /\ bundle' = b
    /\ at' = [ p \in Projects |-> Idle ]
    /\ sessions' = sessions + 1
    /\ doubted' = doubted \cup leftBehind({ p \in Projects : Extracting(p) })
    /\ UNCHANGED <<disk, stamp>>

BundleNext == \/ \E p \in Projects : \/ extractBundledServer(p) \/ extractTo(p) \/ writeStamp(p)
                                     \/ alreadyExists(p) \/ copyThrows(p)
              \/ \E b \in Bundles : restartIde(b)

(* Once no project extracts, a server that was started has every file of   *)
(* the installed bundle, complete: after crashes, failed writes, upgrades  *)
(* and two projects extracting over each other. There are two exceptions,  *)
(* kept in `doubted': a stamp that still stood when the extraction of      *)
(* another bundle over its files was cut off, if the IDE goes back to that *)
(* bundle; and an extraction cut off while another project's went on.      *)
StartedServerIsBundled ==
    ((\A p \in Projects : ~Extracting(p)) /\ (\E p \in Projects : at[p] = Started) /\ bundle \notin doubted)
        => \A i \in DOMAIN Manifest[bundle] : disk[Manifest[bundle][i]] = FileOf(bundle)
=============================================================================
