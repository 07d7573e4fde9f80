---------------------------- MODULE ServerProofs ----------------------------
(***************************************************************************)
(* The cached model that answers for an open, served document holds the    *)
(* text in its buffer: for every workspace, every configuration and every  *)
(* interleaving of the server's handlers.                                  *)
(*                                                                         *)
(* One behaviour is excluded: a file outside the folders that is opened    *)
(* before the server has initialized brings a first scan, whose models     *)
(* onInitialized keeps for sets that its own scan may find changed.        *)
(*                                                                         *)
(* And what the server's variables hold: the diagnostics in flight and     *)
(* shown are of files of the workspace, every root is a directory, and     *)
(* every member of a set finds a set that answers for it.                  *)
(*                                                                         *)
(* And the two caches explained: why an entry of the disk cache, or a text *)
(* in a cached model, may differ from what it stands for, and that there   *)
(* is no other way to it.                                                  *)
(***************************************************************************)
EXTENDS Server, ConfigSetsProofs

(* What the theorem assumes of the client: until the server has            *)
(* initialized, the documents it opens are below the workspace folders.    *)
OpenedInsideFolders ==
    phase = "starting" => \A u \in Uris : isOpen(u) => isCovered(Folders, u)

(* The index answers only with sets that list the file.                    *)
Answers(index) ==
    /\ DOMAIN index.sets \subseteq Uris
    /\ \A u \in Uris : getSetForUri(index, u) # None =>
        /\ getSetForUri(index, u) \in DOMAIN index.sets
        /\ u \in Members(index, getSetForUri(index, u))

(* Before initialization nothing has been found and nothing is cached.     *)
NothingFound(index) ==
    /\ index.roots = <<>> /\ DOMAIN index.sets = {}
    /\ \A u \in Uris : getSetForUri(index, u) = None
NothingCached(models) == \A a \in Uris : models[a] = None

StartsEmpty ==
    phase = "starting" =>
        /\ workspaceRoots = Folders
        /\ NothingFound(configSetIndex)
        /\ NothingCached(setModelCache)

ShapesOK ==
    /\ phase \in {"starting", "running"}
    /\ text \in [Uris -> Contents \cup {None}]
    /\ order \in Seq(Uris)
    /\ validateTimers \in [Uris -> Uris \cup {None}]
    /\ configSetIndex.opts \in Options

BuffersInv ==
    /\ ShapesOK
    /\ Answers(configSetIndex)
    /\ StartsEmpty
    /\ CachedModelsHoldBuffers

(* A cache holds the buffers of the documents that ok selects.             *)
Holds(index, models, ok) ==
    \A u \in ok : LET a == getSetForUri(index, u)
                  IN  a # None /\ models[a] # None =>
                        u \in DOMAIN models[a] /\ models[a][u] = text'[u]

Served == { u \in Uris : isOpen(u) /\ isServed(u) }

----------------------------------------------------------------------------
(* Building the models that validations use keeps a cache that holds the   *)
(* buffers holding them: what is built now reads the buffers as they are.  *)
LEMMA WarmHolds ==
    ASSUME NEW index, Answers(index), NEW models, NEW cache, NEW used,
           NEW ok \in SUBSET Uris, \A u \in ok : text'[u] # None,
           Holds(index, models, ok)
    PROVE  Holds(index, warmModels(index, models, cache, used), ok)
<1> DEFINE warm == warmModels(index, models, cache, used)
<1> SUFFICES ASSUME NEW u \in ok, getSetForUri(index, u) # None,
                    warm[getSetForUri(index, u)] # None
             PROVE  /\ u \in DOMAIN warm[getSetForUri(index, u)]
                    /\ warm[getSetForUri(index, u)][u] = text'[u]
  BY DEF Holds
<1> DEFINE a == getSetForUri(index, u)
<1>1. a \in Uris /\ u \in Members(index, a)
  BY DEF Answers
<1>2. CASE models[a] = None /\ a \in used
  <2>1. warm[a] = [ m \in Members(index, a) |-> memberText(cache, m) ]
    BY <1>1, <1>2 DEF warmModels
  <2>2. memberText(cache, u) = text'[u]
    BY DEF memberText
  <2> QED
    BY <1>1, <2>1, <2>2
<1>3. CASE ~ (models[a] = None /\ a \in used)
  <2>1. warm[a] = models[a]
    BY <1>1, <1>3 DEF warmModels
  <2> QED
    BY <2>1 DEF Holds
<1> QED
  BY <1>2, <1>3

(* An empty cache holds every buffer.                                      *)
LEMMA EmptyHolds ==
    ASSUME NEW index, Answers(index), NEW ok \in SUBSET Uris
    PROVE  Holds(index, EmptyCache, ok)
  BY DEF Holds, EmptyCache, Answers

(* So does a cache from which something is dropped, if it held them.       *)
LEMMA WithoutHolds ==
    ASSUME NEW index, Answers(index), NEW models, NEW keys, NEW ok \in SUBSET Uris,
           Holds(index, models, ok)
    PROVE  Holds(index, without(models, keys), ok)
  BY DEF Holds, without, Answers

(* A scan's index answers soundly; without a root it finds nothing.        *)
LEMMA ScanAnswers ==
    ASSUME NEW roots, NEW opts
    PROVE  LET index == Rescan(file, sidecar, roots, opts)
           IN  /\ Answers(index)
               /\ index.opts = opts
               /\ roots = <<>> /\ opts \in Options => NothingFound(index)
<1> DEFINE index == Rescan(file, sidecar, roots, opts)
<1>1. Answers(index)
  BY RescanSound, RescanAnchors DEF Answers, getSetForUri, Members
<1>2. index.opts = opts
  BY DEF Rescan
<1>3. ASSUME roots = <<>>, opts \in Options PROVE NothingFound(index)
  <2>1. opts.maxFilesScanned \in Nat
    BY <1>3 DEF Options
  <2> QED
    BY <1>3, <2>1, RescanNothing, RescanAnchors DEF NothingFound, getSetForUri
<1> QED
  BY <1>1, <1>2, <1>3

(* Where nothing has been found no validation uses a model.                *)
LEMMA NothingUsed ==
    ASSUME NEW index, NothingFound(index), NEW models, NEW cache
    PROVE  /\ \A stage : anchorsOf(validateAllSets(stage, index, models, cache)) = {}
           /\ \A at, u : u \in Uris => docRun(at, index, models, cache, u).anchor = None
           /\ order' \in Seq(Uris) => \A stage :
                 anchorsOf(validateAllDocs(stage, index, models, cache)) = {}
<1>1. allSets(index) = {}
  BY DEF allSets, NothingFound
<1>2. ASSUME NEW stage PROVE anchorsOf(validateAllSets(stage, index, models, cache)) = {}
  BY <1>1 DEF validateAllSets, anchorsOf
<1>3. ASSUME NEW at, NEW u \in Uris
      PROVE  docRun(at, index, models, cache, u).anchor = None
  BY DEF docRun, Run, NothingFound
<1>4. ASSUME order' \in Seq(Uris), NEW stage
      PROVE  anchorsOf(validateAllDocs(stage, index, models, cache)) = {}
  <2>1. \A i \in DOMAIN order' : order'[i] \in Uris
    BY <1>4
  <2> QED
    BY <1>3, <2>1 DEF validateAllDocs, anchorsOf
<1> QED
  BY <1>2, <1>3, <1>4

LEMMA UsedTogether ==
    ASSUME NEW runs, NEW more
    PROVE  anchorsOf(runs \cup more) = anchorsOf(runs) \cup anchorsOf(more)
  BY DEF anchorsOf

(* What an empty use builds from an empty cache is empty.                  *)
LEMMA NothingWarmed ==
    ASSUME NEW index, NEW models, NothingCached(models), NEW cache
    PROVE  NothingCached(warmModels(index, models, cache, {}))
  BY DEF NothingCached, warmModels

(* The cache of a step's first state, seen from its second.                *)
LEMMA HeldBefore ==
    ASSUME CachedModelsHoldBuffers, NEW ok \in SUBSET Served,
           \A u \in ok : text'[u] = text[u]
    PROVE  Holds(configSetIndex, setModelCache, ok)
  BY DEF Holds, CachedModelsHoldBuffers, Cached, Served

LEMMA HeldAfter ==
    ASSUME Holds(configSetIndex', setModelCache', Served')
    PROVE  CachedModelsHoldBuffers'
  BY DEF Holds, CachedModelsHoldBuffers, Cached, Served

----------------------------------------------------------------------------
LEMMA InitBuffers == Init => BuffersInv
<1> SUFFICES ASSUME Init PROVE BuffersInv
  OBVIOUS
<1>1. ShapesOK
  BY ServerAssumption DEF Init, ShapesOK, NoIndex, optionsOf, Options, Settings
<1>2. Answers(configSetIndex) /\ StartsEmpty
  BY DEF Init, Answers, StartsEmpty, NothingFound, NothingCached, NoIndex, getSetForUri,
         EmptyCache
<1>3. CachedModelsHoldBuffers
  BY DEF Init, CachedModelsHoldBuffers, isOpen
<1> QED
  BY <1>1, <1>2, <1>3 DEF BuffersInv

(* onInitialized: whatever it found, it builds its models from buffers.    *)
LEMMA InitializedBuffers ==
    ASSUME BuffersInv, NEW stg \in SettingsSet, Initialized(stg)
    PROVE  BuffersInv'
<1>1. PICK roots, added, runs :
        LET final == Rescan(file, sidecar, roots, optionsOf(stg))
            kept  == keptAfter(added, setModelCache)
        IN  /\ configSetIndex' = final
            /\ setModelCache' = warmModels(final, kept, diskCache, anchorsOf(runs))
  BY DEF Initialized
<1> DEFINE final == Rescan(file, sidecar, roots, optionsOf(stg))
           kept  == keptAfter(added, setModelCache)
<1>2. Answers(final) /\ final.opts = optionsOf(stg)
  BY ScanAnswers
<1>3. NothingCached(kept)
  BY DEF BuffersInv, StartsEmpty, Initialized, keptAfter, EmptyCache, NothingCached
<1>4. Holds(final, kept, Served')
  BY <1>2, <1>3 DEF Holds, NothingCached, Answers, Served
<1>5. Holds(configSetIndex', setModelCache', Served')
  <2>1. \A u \in Served' : text'[u] # None
    BY DEF Served, isOpen
  <2>2. Served' \in SUBSET Uris
    BY DEF Served
  <2> HIDE DEF final, kept
  <2> QED
    BY <1>1, <1>2, <1>4, <2>1, <2>2, WarmHolds DEF final, kept
<1>6. ShapesOK'
  BY <1>1, <1>2, ServerAssumption
     DEF Initialized, BuffersInv, ShapesOK, docVars, optionsOf, Options, Settings
<1>7. StartsEmpty'
  BY DEF Initialized, StartsEmpty
<1> QED
  BY <1>1, <1>2, <1>5, <1>6, <1>7, HeldAfter DEF BuffersInv

(* onDidChangeConfiguration scans anew and starts from an empty cache.     *)
LEMMA ConfigureBuffers ==
    ASSUME BuffersInv, NEW stg \in SettingsSet, Configure(stg)
    PROVE  BuffersInv'
<1> DEFINE index == Rescan(file, sidecar, configSetIndex.roots, optionsOf(stg))
           used  == anchorsOf(validateAllSets(1, index, EmptyCache, diskCache)
                               \cup validateAllDocs(2, index, EmptyCache, diskCache))
<1>1. /\ configSetIndex' = index
      /\ setModelCache' = warmModels(index, EmptyCache, diskCache, used)
  BY DEF Configure
<1>2. optionsOf(stg) \in Options
  BY ServerAssumption DEF optionsOf, Options, Settings
<1>3. /\ Answers(index) /\ index.opts = optionsOf(stg)
      /\ configSetIndex.roots = <<>> => NothingFound(index)
  BY <1>2, ScanAnswers
<1>4. ShapesOK'
  BY <1>1, <1>2, <1>3 DEF Configure, BuffersInv, ShapesOK, docVars
<1>5. Holds(configSetIndex', setModelCache', Served')
  <2>1. Served' \in SUBSET Uris /\ \A u \in Served' : text'[u] # None
    BY DEF Served, isOpen
  <2> HIDE DEF index, used
  <2>2. Holds(index, EmptyCache, Served')
    BY <1>3, <2>1, EmptyHolds
  <2> QED
    BY <1>1, <1>3, <2>1, <2>2, WarmHolds
<1>6. StartsEmpty'
  <2> SUFFICES ASSUME phase' = "starting"
               PROVE  /\ workspaceRoots' = Folders
                      /\ NothingFound(configSetIndex') /\ NothingCached(setModelCache')
    BY DEF StartsEmpty
  <2>1. StartsEmpty /\ phase = "starting" /\ workspaceRoots' = Folders
    BY DEF Configure, BuffersInv, StartsEmpty
  <2>2. NothingFound(index)
    BY <1>3, <2>1 DEF StartsEmpty, NothingFound
  <2>3. used = {}
    <3>1. order' \in Seq(Uris)
      BY DEF Configure, docVars, BuffersInv, ShapesOK
    <3> HIDE DEF index
    <3>2. /\ anchorsOf(validateAllSets(1, index, EmptyCache, diskCache)) = {}
          /\ anchorsOf(validateAllDocs(2, index, EmptyCache, diskCache)) = {}
      BY <2>2, <3>1, NothingUsed
    <3> QED
      BY <3>2, UsedTogether
  <2>4. NothingCached(setModelCache')
    <3> HIDE DEF index, used
    <3>1. NothingCached(EmptyCache)
      BY DEF NothingCached, EmptyCache
    <3> QED
      BY <1>1, <2>3, <3>1, NothingWarmed
  <2> QED
    BY <1>1, <2>1, <2>2, <2>4
<1> QED
  BY <1>1, <1>3, <1>4, <1>5, <1>6, HeldAfter DEF BuffersInv

(* A document that is not served when it opens or changes is not served    *)
(* after.                                                                  *)
LEMMA NotServed ==
    ASSUME NEW u, NEW c, ~ shouldServe(u, c), UNCHANGED settings,
           adoptedYamlUris' = adoptedYamlUris \cup adopting(u, c)
    PROVE  ~ isServed(u)'
  BY DEF shouldServe, isServed, adopting

(* Other documents are served as before.                                   *)
LEMMA ServedOthers ==
    ASSUME NEW u, NEW c, NEW v, v # u, UNCHANGED settings,
           adoptedYamlUris' = adoptedYamlUris \cup adopting(u, c)
    PROVE  isServed(v)' <=> isServed(v)
  BY DEF isServed, adopting

(* Dropping the model of u's set leaves nothing of u's old text.           *)
LEMMA DroppedHolds ==
    ASSUME NEW index, Answers(index), NEW models, NEW ok \in SUBSET Uris, NEW u \in Uris,
           Holds(index, models, ok \ {u})
    PROVE  Holds(index, without(models, {getSetForUri(index, u)}), ok)
<1> DEFINE left == without(models, {getSetForUri(index, u)})
<1>1. Holds(index, left, ok \ {u})
  BY WithoutHolds
<1>2. getSetForUri(index, u) # None => left[getSetForUri(index, u)] = None
  BY DEF without, Answers
<1> QED
  BY <1>1, <1>2 DEF Holds

(* A document opens: the set that answers for it is dropped after the      *)
(* validation, the other models are of a new scan or hold what they held.  *)
LEMMA DidOpenBuffers ==
    ASSUME BuffersInv, OpenedInsideFolders', NEW u \in Uris, NEW c \in Contents, DidOpen(u, c)
    PROVE  BuffersInv'
<1>1. /\ c # None /\ text' = [text EXCEPT ![u] = c] /\ order' = Append(order, u)
      /\ text \in [Uris -> Contents \cup {None}] /\ order \in Seq(Uris)
      /\ adoptedYamlUris' = adoptedYamlUris \cup adopting(u, c)
      /\ UNCHANGED <<phase, settings>>
  BY ContentsAssumption DEF DidOpen, BuffersInv, ShapesOK
<1>2. \A v \in Served' \ {u} : v \in Served /\ text'[v] = text[v]
  BY <1>1, ServedOthers DEF Served, isOpen
<1>3. /\ Served' \in SUBSET Uris /\ Served' \ {u} \in SUBSET Served
      /\ Served' \ {u} \in SUBSET Uris
  BY <1>2 DEF Served
<1>4. Holds(configSetIndex, setModelCache, Served' \ {u})
  BY <1>2, <1>3, HeldBefore DEF BuffersInv
<1>5. CASE ~ shouldServe(u, c)
  <2>1. UNCHANGED <<workspaceRoots, configSetIndex, setModelCache, validateTimers>>
    BY <1>5 DEF DidOpen, cacheVars, runVars
  <2>2. u \notin Served'
    BY <1>1, <1>5, NotServed DEF Served
  <2>3. CachedModelsHoldBuffers'
    <3>1. Served' \ {u} = Served'
      BY <2>2
    <3> QED
      BY <1>4, <2>1, <3>1, HeldAfter
  <2>4. ShapesOK'
    BY <1>1, <2>1 DEF BuffersInv, ShapesOK
  <2> QED
    BY <1>1, <2>1, <2>3, <2>4 DEF BuffersInv, StartsEmpty
<1>6. CASE shouldServe(u, c)
  <2> DEFINE roots == ensureRoot(workspaceRoots, u)
             isNew == roots # workspaceRoots
             kept  == keptAfter(isNew, setModelCache)
             index == IF isNew THEN Rescan(file, sidecar, roots, configSetIndex.opts)
                               ELSE configSetIndex
             runs  == {docRun(<<2, 1>>, index, kept, diskCache, u)} \cup
                      (IF isNew THEN validateAllSets(1, index, kept, diskCache) ELSE {})
             warm  == warmModels(index, kept, diskCache, anchorsOf(runs))
  <2>1. /\ workspaceRoots' = roots /\ configSetIndex' = index
        /\ setModelCache' = without(warm, {getSetForUri(index, u)})
        /\ validateTimers' = [validateTimers EXCEPT ![timerKey(index, u)] = u]
    BY <1>6 DEF DidOpen
  <2>2. Answers(index) /\ index.opts = configSetIndex.opts
    BY ScanAnswers DEF BuffersInv
  <2>3. Holds(index, kept, Served' \ {u})
    BY <1>3, <1>4, <2>2, EmptyHolds DEF keptAfter
  <2>4. Holds(configSetIndex', setModelCache', Served')
    <3>1. \A v \in Served' \ {u} : text'[v] # None
      BY DEF Served, isOpen
    <3> HIDE DEF index, kept, runs
    <3>2. Holds(index, warm, Served' \ {u})
      BY <1>3, <2>2, <2>3, <3>1, WarmHolds
    <3> HIDE DEF warm
    <3> QED
      BY <1>3, <2>1, <2>2, <3>2, DroppedHolds
  <2>5. ShapesOK'
    <3>1. timerKey(index, u) \in Uris
      BY <2>2 DEF timerKey, Answers
    <3> HIDE DEF index
    <3> QED
      BY <1>1, <2>1, <2>2, <3>1 DEF BuffersInv, ShapesOK
  <2>6. StartsEmpty'
    <3> SUFFICES ASSUME phase' = "starting"
                 PROVE  /\ workspaceRoots' = Folders
                        /\ NothingFound(configSetIndex') /\ NothingCached(setModelCache')
      BY DEF StartsEmpty
    <3>1. /\ phase = "starting" /\ workspaceRoots = Folders
          /\ NothingFound(configSetIndex) /\ NothingCached(setModelCache)
      BY <1>1 DEF BuffersInv, StartsEmpty
    <3>2. isCovered(Folders, u)
      BY <1>1 DEF OpenedInsideFolders, isOpen
    <3>3. roots = Folders /\ ~ isNew
      BY <3>1, <3>2 DEF ensureRoot
    <3>4. index = configSetIndex /\ kept = setModelCache
      BY <3>3 DEF keptAfter
    <3>5. anchorsOf(runs) = {}
      <4>1. runs = {docRun(<<2, 1>>, configSetIndex, setModelCache, diskCache, u)}
        BY <3>3, <3>4
      <4>2. docRun(<<2, 1>>, configSetIndex, setModelCache, diskCache, u).anchor = None
        BY <3>1, NothingUsed
      <4> HIDE DEF runs
      <4> QED
        BY <4>1, <4>2 DEF anchorsOf
    <3>6. NothingCached(warm)
      <4> HIDE DEF index, kept, runs
      <4> QED
        BY <3>1, <3>4, <3>5, NothingWarmed
    <3>7. NothingCached(setModelCache')
      <4> HIDE DEF index, warm
      <4> QED
        BY <2>1, <3>6 DEF NothingCached, without
    <3> QED
      BY <2>1, <3>1, <3>3, <3>4, <3>7
  <2> QED
    BY <2>1, <2>2, <2>4, <2>5, <2>6, HeldAfter DEF BuffersInv
<1> QED
  BY <1>5, <1>6

(* A document changes: the set that answers for it is dropped.             *)
LEMMA DidChangeBuffers ==
    ASSUME BuffersInv, NEW u \in Uris, NEW c \in Contents, DidChange(u, c)
    PROVE  BuffersInv'
<1>1. /\ text' = [text EXCEPT ![u] = c] /\ text \in [Uris -> Contents \cup {None}]
      /\ adoptedYamlUris' = adoptedYamlUris \cup adopting(u, c)
      /\ UNCHANGED <<phase, order, settings, workspaceRoots, configSetIndex>>
  BY DEF DidChange, BuffersInv, ShapesOK
<1>2. \A v \in Served' \ {u} : v \in Served /\ text'[v] = text[v]
  BY <1>1, ServedOthers DEF Served, isOpen
<1>3. /\ Served' \in SUBSET Uris /\ Served' \ {u} \in SUBSET Served
  BY <1>2 DEF Served
<1>4. Holds(configSetIndex, setModelCache, Served' \ {u})
  BY <1>2, <1>3, HeldBefore DEF BuffersInv
<1>5. CASE ~ shouldServe(u, c)
  <2>1. UNCHANGED <<setModelCache, validateTimers>>
    BY <1>5 DEF DidChange
  <2>2. u \notin Served'
    BY <1>1, <1>5, NotServed DEF Served
  <2>3. Served' \ {u} = Served'
    BY <2>2
  <2> QED
    BY <1>1, <1>4, <2>1, <2>3, HeldAfter DEF BuffersInv, ShapesOK, StartsEmpty
<1>6. CASE shouldServe(u, c)
  <2>1. /\ setModelCache' = without(setModelCache, {getSetForUri(configSetIndex, u)})
        /\ validateTimers' = [validateTimers EXCEPT ![timerKey(configSetIndex, u)] = u]
    BY <1>6 DEF DidChange
  <2>2. Holds(configSetIndex', setModelCache', Served')
    BY <1>1, <1>3, <1>4, <2>1, DroppedHolds DEF BuffersInv
  <2>3. ShapesOK'
    BY <1>1, <2>1 DEF BuffersInv, ShapesOK, Answers, timerKey
  <2>4. StartsEmpty'
    BY <1>1, <2>1 DEF BuffersInv, StartsEmpty, NothingCached, without
  <2> QED
    BY <1>1, <2>2, <2>3, <2>4, HeldAfter DEF BuffersInv
<1> QED
  BY <1>5, <1>6

(* A step that changes neither a document nor the index, and that only     *)
(* builds models, keeps the invariant: of timers and of requests.          *)
LEMMA WarmingBuffers ==
    ASSUME BuffersInv, UNCHANGED <<phase, docVars, setVars>>, NEW cache, NEW used,
           setModelCache' = warmModels(configSetIndex, setModelCache, cache, used),
           validateTimers' \in [Uris -> Uris \cup {None}],
           phase = "starting" => used = {}
    PROVE  BuffersInv'
<1>1. UNCHANGED <<phase, text, order, settings, workspaceRoots, adoptedYamlUris,
                  configSetIndex>>
  BY DEF docVars, setVars
<1>2. Served' = Served
  BY <1>1 DEF Served, isOpen, isServed
<1>3. /\ Served \in SUBSET Uris /\ \A u \in Served : text'[u] # None
      /\ \A u \in Served : text'[u] = text[u]
  BY <1>1 DEF Served, isOpen
<1>4. Holds(configSetIndex, setModelCache, Served)
  BY <1>3, HeldBefore DEF BuffersInv
<1>5. Holds(configSetIndex', setModelCache', Served')
  BY <1>1, <1>2, <1>3, <1>4, WarmHolds DEF BuffersInv
<1>6. StartsEmpty'
  BY <1>1, NothingWarmed DEF BuffersInv, StartsEmpty
<1> QED
  BY <1>1, <1>5, <1>6, HeldAfter DEF BuffersInv, ShapesOK

LEMMA TimerBuffers ==
    ASSUME BuffersInv, NEW key \in Uris, TimerFires(key)
    PROVE  BuffersInv'
<1> DEFINE u    == validateTimers[key]
           a    == getSetForUri(configSetIndex, u)
           doc  == IF a # None THEN firstOpen(configSetIndex, a)
                   ELSE IF text[u] # None THEN u ELSE None
           runs == IF doc = None THEN {}
                   ELSE {docRun(<<1, 1>>, configSetIndex, setModelCache, diskCache, doc)}
<1>1. /\ u \in Uris
      /\ validateTimers' \in [Uris -> Uris \cup {None}]
      /\ UNCHANGED <<phase, docVars, setVars>>
      /\ setModelCache' = warmModels(configSetIndex, setModelCache, diskCache, anchorsOf(runs))
  BY DEF TimerFires, BuffersInv, ShapesOK
<1>2. ASSUME phase = "starting" PROVE anchorsOf(runs) = {}
  <2>1. NothingFound(configSetIndex)
    BY <1>2 DEF BuffersInv, StartsEmpty
  <2>2. a = None
    BY <1>1, <2>1 DEF NothingFound
  <2>3. docRun(<<1, 1>>, configSetIndex, setModelCache, diskCache, u).anchor = None
    BY <1>1, <2>1, NothingUsed
  <2>4. runs = {} \/ runs = {docRun(<<1, 1>>, configSetIndex, setModelCache, diskCache, u)}
    BY <2>2
  <2> HIDE DEF runs
  <2> QED
    BY <2>3, <2>4 DEF anchorsOf
<1> HIDE DEF runs
<1> QED
  BY <1>1, <1>2, WarmingBuffers

LEMMA RequestBuffers ==
    ASSUME BuffersInv, NEW u \in Uris, Request(u)
    PROVE  BuffersInv'
<1>1. /\ UNCHANGED <<phase, docVars, setVars, validateTimers>>
      /\ setModelCache' = warmModels(configSetIndex, setModelCache, diskCache,
                                     {getSetForUri(configSetIndex, u)})
      /\ getSetForUri(configSetIndex, u) # None
  BY DEF Request, runVars
<1>2. phase # "starting"
  BY <1>1 DEF BuffersInv, StartsEmpty, NothingFound
<1> QED
  BY <1>1, <1>2, WarmingBuffers DEF BuffersInv, ShapesOK

(* A batch of file events: the models that remain held the buffers before. *)
LEMMA WatchedBuffers ==
    ASSUME BuffersInv, NEW batch, WatchedFiles(batch)
    PROVE  BuffersInv'
<1> DEFINE rescan == \E e \in batch : e.kind # "changed"
           gone   == { e.uri : e \in { f \in batch : f.kind # "sidecar" } }
           stale  == { getSetForUri(configSetIndex, u) : u \in gone }
           read   == without(diskCache, gone)
           index  == IF rescan THEN Rescan(file, sidecar, configSetIndex.roots,
                                           configSetIndex.opts)
                               ELSE configSetIndex
           kept   == keptAfter(rescan, without(setModelCache, stale))
           runs   == validateAllDocs(2, index, kept, read) \cup
                     (IF rescan THEN validateAllSets(1, index, kept, read) ELSE {})
<1>1. /\ configSetIndex' = index
      /\ setModelCache' = warmModels(index, kept, read, anchorsOf(runs))
      /\ UNCHANGED <<phase, text, order, settings, workspaceRoots, adoptedYamlUris,
                     validateTimers>>
  BY DEF WatchedFiles, docVars
<1>2. Served' = Served
  BY <1>1 DEF Served, isOpen, isServed
<1>3. /\ Served \in SUBSET Uris /\ \A u \in Served : text'[u] # None
      /\ \A u \in Served : text'[u] = text[u]
  BY <1>1 DEF Served, isOpen
<1>4. /\ Answers(index) /\ index.opts = configSetIndex.opts
      /\ NothingFound(configSetIndex) => NothingFound(index)
  BY ScanAnswers DEF BuffersInv, ShapesOK, NothingFound
<1>5. Holds(index, kept, Served)
  <2>1. Holds(configSetIndex, setModelCache, Served)
    BY <1>3, HeldBefore DEF BuffersInv
  <2>2. Holds(configSetIndex, without(setModelCache, stale), Served)
    BY <1>3, <2>1, WithoutHolds DEF BuffersInv
  <2>3. Holds(index, EmptyCache, Served)
    BY <1>3, <1>4, EmptyHolds
  <2> QED
    BY <2>2, <2>3 DEF keptAfter
<1>6. Holds(configSetIndex', setModelCache', Served')
  <2> HIDE DEF index, kept, read, runs
  <2> QED
    BY <1>1, <1>2, <1>3, <1>4, <1>5, WarmHolds
<1>7. StartsEmpty'
  <2> SUFFICES ASSUME phase' = "starting"
               PROVE  /\ workspaceRoots' = Folders
                      /\ NothingFound(configSetIndex') /\ NothingCached(setModelCache')
    BY DEF StartsEmpty
  <2>1. /\ workspaceRoots' = Folders /\ NothingFound(index) /\ NothingCached(setModelCache)
    BY <1>1, <1>4 DEF BuffersInv, StartsEmpty
  <2>2. NothingCached(kept)
    BY <2>1 DEF NothingCached, keptAfter, without, EmptyCache
  <2>3. anchorsOf(runs) = {}
    <3>1. order' \in Seq(Uris)
      BY <1>1 DEF BuffersInv, ShapesOK
    <3> HIDE DEF index, kept, read, rescan
    <3>2. /\ anchorsOf(validateAllDocs(2, index, kept, read)) = {}
          /\ anchorsOf(validateAllSets(1, index, kept, read)) = {}
          /\ anchorsOf({}) = {}
      BY <2>1, <3>1, NothingUsed DEF anchorsOf
    <3> QED
      BY <3>2, UsedTogether
  <2> HIDE DEF index, kept, read, runs
  <2> QED
    BY <1>1, <2>1, <2>2, <2>3, NothingWarmed
<1>8. ShapesOK'
  BY <1>1, <1>4 DEF BuffersInv, ShapesOK
<1> QED
  BY <1>1, <1>4, <1>6, <1>7, <1>8, HeldAfter DEF BuffersInv

(* Closing a document, and writing to the disk, touch no cache and no set. *)
LEMMA OtherBuffers ==
    ASSUME BuffersInv,
           \/ \E u \in Uris : DidClose(u)
           \/ \E u \in Uris, c \in Contents \cup {None} : WriteFile(u, c)
           \/ \E d \in Dirs : \E sc \in SidecarsOf[d] : WriteSidecar(d, sc)
           \/ \E t \in inflight : Settle(t)
           \/ UNCHANGED vars
    PROVE  BuffersInv'
<1>1. UNCHANGED <<phase, setVars, setModelCache, validateTimers>>
  BY DEF DidClose, WriteFile, WriteSidecar, Settle, vars, diskVars, docVars, setVars,
         cacheVars, runVars
<1>2. UNCHANGED <<phase, settings, workspaceRoots, adoptedYamlUris, configSetIndex,
                  setModelCache, validateTimers>>
  BY <1>1 DEF setVars
<1>3. /\ text' \in [Uris -> Contents \cup {None}] /\ order' \in Seq(Uris)
      /\ \A u \in Uris : text'[u] # None => text'[u] = text[u]
  <2>1. CASE UNCHANGED docVars
    BY <2>1 DEF docVars, BuffersInv, ShapesOK
  <2>2. ASSUME NEW u \in Uris, DidClose(u)
        PROVE  /\ text' = [text EXCEPT ![u] = None]
               /\ \E i \in DOMAIN order : order' = RemoveAt(order, i)
    BY <2>2 DEF DidClose
  <2>3. ASSUME NEW i \in DOMAIN order PROVE RemoveAt(order, i) \in Seq(Uris)
    BY DEF RemoveAt, BuffersInv, ShapesOK
  <2>4. UNCHANGED docVars \/ \E u \in Uris : DidClose(u)
    BY DEF WriteFile, WriteSidecar, Settle, vars
  <2> QED
    BY <2>1, <2>2, <2>3, <2>4 DEF BuffersInv, ShapesOK
<1>4. CachedModelsHoldBuffers'
  BY <1>2, <1>3 DEF BuffersInv, CachedModelsHoldBuffers, isOpen, isServed, Cached
<1> QED
  BY <1>2, <1>3, <1>4 DEF BuffersInv, ShapesOK, StartsEmpty

----------------------------------------------------------------------------
(* Every step keeps the invariant.                                         *)
LEMMA NextBuffers ==
    ASSUME BuffersInv, OpenedInsideFolders', [Next]_vars
    PROVE  BuffersInv'
<1>1. ASSUME NEW u \in Uris, NEW c \in TextsOf[u] PROVE c \in Contents \cup {None}
  BY ServerAssumption
<1>2. CASE \E stg \in SettingsSet : Initialized(stg) \/ Configure(stg)
  BY <1>2, InitializedBuffers, ConfigureBuffers
<1>3. CASE \E u \in Uris : \E c \in TextsOf[u] \ {None} : DidOpen(u, c) \/ DidChange(u, c)
  BY <1>1, <1>3, DidOpenBuffers, DidChangeBuffers
<1>4. CASE \E key \in Uris : TimerFires(key)
  BY <1>4, TimerBuffers
<1>5. CASE \E batch \in SUBSET watched : WatchedFiles(batch)
  BY <1>5, WatchedBuffers
<1>6. CASE \E u \in Uris : Request(u)
  BY <1>6, RequestBuffers
<1>7. CASE \/ \E u \in Uris : DidClose(u)
           \/ \E u \in Uris, c \in Contents \cup {None} : WriteFile(u, c)
           \/ \E d \in Dirs : \E sc \in SidecarsOf[d] : WriteSidecar(d, sc)
           \/ \E t \in inflight : Settle(t)
           \/ UNCHANGED vars
  BY <1>7, OtherBuffers
<1> QED
  BY <1>1, <1>2, <1>3, <1>4, <1>5, <1>6, <1>7 DEF Next, Handler, Client

(* The cached model of the set that answers for an open, served document   *)
(* holds the text in its buffer, always: the cache needs no fingerprints   *)
(* (buildOrReuseSetModel, invalidateSetFor, the clearing after a rescan).  *)
THEOREM ModelsHoldBuffers ==
    Spec /\ []OpenedInsideFolders => []CachedModelsHoldBuffers
<1>1. BuffersInv /\ OpenedInsideFolders' /\ [Next]_vars => BuffersInv'
  BY NextBuffers
<1>2. BuffersInv => CachedModelsHoldBuffers
  BY DEF BuffersInv
<1> QED
  BY <1>1, <1>2, InitBuffers, PTL DEF Spec

----------------------------------------------------------------------------
(* The roots.                                                              *)

(* findDiscoveryRoot finds a directory.                                    *)
LEMMA RootTyped ==
    ASSUME NEW u \in Uris
    PROVE  findDiscoveryRoot(u) \in Dirs
<1> DEFINE own    == DirOf[u]
           marked == { n \in 0..Len(own) : /\ Len(own) - n < 6
                                           /\ dirContainsSidecarOrAnchor(SubSeq(own, 1, n)) }
<1>0. own \in Seq(STRING)
  BY DirAssumption
<1>1. \A n \in 0..Len(own) : SubSeq(own, 1, n) \in Dirs
  BY DEF Dirs
<1>2. own \in Dirs
  <2>1. own = SubSeq(own, 1, Len(own)) /\ Len(own) \in 0..Len(own)
    BY <1>0
  <2> QED
    BY <1>1, <2>1
<1>3. ASSUME marked # {}
      PROVE  SubSeq(own, 1, CHOOSE n \in marked : \A m \in marked : n <= m) \in Dirs
  <2>1. \E n \in marked : \A m \in marked : n <= m
    <3>1. marked \in SUBSET Nat
      BY <1>0
    <3> HIDE DEF marked
    <3> QED
      BY <1>3, <3>1, Least
  <2>2. (CHOOSE n \in marked : \A m \in marked : n <= m) \in 0..Len(own)
    BY <2>1
  <2> QED
    BY <1>1, <2>2
<1> QED
  BY <1>2, <1>3 DEF findDiscoveryRoot

LEMMA RootAdded ==
    ASSUME NEW roots \in Seq(Dirs), NEW u \in Uris
    PROVE  ensureRoot(roots, u) \in Seq(Dirs)
  BY RootTyped DEF ensureRoot

LEMMA MaxIsGreatest ==
    ASSUME NEW n \in Nat, NEW s \in SUBSET (1..n), s # {}
    PROVE  Max(s) \in s /\ \A i \in s : i <= Max(s)
<1>1. \E m \in s : \A i \in s : m >= i
  <2>1. s \in SUBSET (0..n)
    OBVIOUS
  <2>2. PICK m \in s : \A i \in s : i <= m
    BY <2>1, Greatest
  <2> QED
    BY <2>2
<1>2. Max(s) \in s /\ \A i \in s : Max(s) >= i
  BY <1>1 DEF Max
<1> QED
  BY <1>2

(* What holds of the roots, and goes on holding when a document's is added,*)
(* holds once those of all documents of a list are.                        *)
Staying(S, list) == \A r \in S : \A i \in DOMAIN list : ensureRoot(r, list[i]) \in S

LEMMA RootsStay ==
    ASSUME NEW S, NEW roots \in S, NEW list \in Seq(Uris), Staying(S, list)
    PROVE  FoldLeft(ensureRoot, roots, list) \in S
<1> DEFINE n == Len(list)
           Fold(f, s) == IF s = {} THEN roots ELSE ensureRoot(f[s \ {Max(s)}], list[Max(s)])
           IsFold(f, k) == f = [ s \in SUBSET (1..k) |-> Fold(f, s) ]
           fold == CHOOSE f : IsFold(f, n)
           Missing == { k \in 0..n : ~ \E f : IsFold(f, k) }
<1>0. n \in Nat /\ DOMAIN list = 1..n
  OBVIOUS
<1>1. FoldLeft(ensureRoot, roots, list) = fold[1..n]
  BY <1>0 DEF FoldLeft, MapThenFoldSet
<1>2. Missing = {}
  <2> SUFFICES ASSUME Missing # {} PROVE FALSE
    OBVIOUS
  <2>1. PICK k \in Missing : \A j \in Missing : k <= j
    <3> HIDE DEF IsFold, n
    <3>1. Missing \in SUBSET Nat
      BY <1>0
    <3> HIDE DEF Missing
    <3> QED
      BY <3>1, Least
  <2>2. k # 0
    <3>1. IsFold([ s \in SUBSET (1..0) |-> roots ], 0)
      <4>1. \A s \in SUBSET (1..0) : s = {}
        OBVIOUS
      <4> QED
        BY <4>1
    <3> QED
      BY <3>1
  <2>3. k \in 1..n /\ k - 1 \in 0..n /\ k - 1 \notin Missing
    <3> HIDE DEF IsFold, n
    <3> QED
      BY <1>0, <2>1, <2>2
  <2>4. PICK f : IsFold(f, k - 1)
    BY <2>3
  <2> DEFINE g == [ s \in SUBSET (1..k) |-> IF k \notin s THEN f[s]
                                            ELSE ensureRoot(f[s \ {k}], list[k]) ]
  <2>5. IsFold(g, k)
    <3>1. ASSUME NEW s \in SUBSET (1..k) PROVE g[s] = Fold(g, s)
      <4>0. k \in Nat \ {0}
        BY <1>0, <2>3
      <4>1. CASE k \notin s
        <5>1. s \in SUBSET (1..(k - 1)) /\ g[s] = f[s]
          BY <4>0, <4>1
        <5>2. f[s] = Fold(f, s)
          BY <2>4, <5>1
        <5>3. s # {} => g[s \ {Max(s)}] = f[s \ {Max(s)}]
          BY <4>1
        <5> QED
          BY <5>1, <5>2, <5>3
      <4>2. CASE k \in s
        <5>1. Max(s) \in s /\ k <= Max(s)
          BY <4>0, <4>2, MaxIsGreatest
        <5>2. Max(s) = k
          <6>1. Max(s) \in 1..k
            BY <5>1
          <6> HIDE DEF n
          <6> QED
            BY <4>0, <5>1, <6>1
        <5>3. g[s \ {k}] = f[s \ {k}] /\ g[s] = ensureRoot(f[s \ {k}], list[k])
          BY <4>2
        <5> QED
          BY <4>2, <5>2, <5>3
      <4> QED
        BY <4>1, <4>2
    <3> HIDE DEF Fold
    <3> QED
      BY <3>1
  <2> QED
    BY <2>1, <2>5
<1>3. IsFold(fold, n)
  <2>1. \E f : IsFold(f, n)
    <3>1. n \in 0..n
      BY <1>0
    <3> HIDE DEF IsFold, n
    <3> QED
      BY <1>2, <3>1
  <2> QED
    BY <2>1
<1> HIDE DEF fold
<1> DEFINE Wrong == { k \in 0..n : fold[1..k] \notin S }
<1>4. Wrong = {}
  <2> SUFFICES ASSUME Wrong # {} PROVE FALSE
    OBVIOUS
  <2>1. PICK k \in Wrong : \A j \in Wrong : k <= j
    <3>1. Wrong \in SUBSET Nat
      BY <1>0
    <3> HIDE DEF Wrong
    <3> QED
      BY <3>1, Least
  <2>2. fold[1..k] = Fold(fold, 1..k)
    <3>1. 1..k \in SUBSET (1..n)
      BY <1>0
    <3> HIDE DEF Fold
    <3> QED
      BY <1>3, <3>1
  <2>3. k # 0
    <3>1. 1..0 = {}
      OBVIOUS
    <3> QED
      BY <2>1, <2>2, <3>1
  <2>4. k \in 1..n /\ k - 1 \in 0..n /\ k - 1 \notin Wrong
    BY <1>0, <2>1, <2>3
  <2>5. Max(1..k) = k
    <3>0. k \in Nat \ {0}
      <4> HIDE DEF n
      <4> QED
        BY <1>0, <2>4
    <3> HIDE DEF n
    <3>1. 1..k \in SUBSET (1..k) /\ 1..k # {} /\ k \in 1..k /\ k \in Nat
      BY <3>0
    <3>2. Max(1..k) \in 1..k /\ k <= Max(1..k)
      BY <3>1, MaxIsGreatest
    <3> QED
      BY <3>1, <3>2
  <2>6. (1..k) \ {k} = 1..(k - 1) /\ 1..k # {}
    <3>0. k \in Nat \ {0}
      <4> HIDE DEF n
      <4> QED
        BY <1>0, <2>4
    <3>1. \A x : x \in (1..k) \ {k} <=> x \in 1..(k - 1)
      BY <3>0
    <3>2. (1..k) \ {k} = 1..(k - 1)
      BY <3>1, Zenon
    <3>3. k \in 1..k
      BY <3>0
    <3> QED
      BY <3>2, <3>3
  <2>7. fold[1..k] = ensureRoot(fold[1..(k - 1)], list[k])
    BY <2>2, <2>5, <2>6
  <2>8. fold[1..(k - 1)] \in S /\ k \in DOMAIN list
    BY <1>0, <2>4
  <2> QED
    BY <2>1, <2>7, <2>8 DEF Staying
<1> QED
  <2>1. n \in 0..n
    BY <1>0
  <2> HIDE DEF n
  <2> QED
    BY <1>1, <1>4, <2>1

LEMMA RootsTyped ==
    ASSUME NEW roots \in Seq(Dirs), NEW list \in Seq(Uris)
    PROVE  FoldLeft(ensureRoot, roots, list) \in Seq(Dirs)
<1>1. Staying(Seq(Dirs), list)
  BY RootAdded DEF Staying
<1> QED
  BY <1>1, RootsStay

----------------------------------------------------------------------------
(* The invariant: the types, the index, and the list of open documents,    *)
(* which holds each of them once.                                          *)
Models == [Uris -> Texts \cup {None}]
Caches == [Uris -> Contents \cup {None}]
Runs   == [ at : Nat \X Nat, anchor : Uris \cup {None}, when : {"now", "micro", "later"},
            diag : Diags ]
Flying == [ tag : Tags, at : Nat \X Nat, diag : Diags, overtaken : SUBSET Uris ]

IndexOK(index) ==
    /\ Answers(index)
    /\ index.opts \in Options /\ index.roots \in Seq(Dirs) /\ index.met \in Seq(Uris)
    /\ index.memberOf \in [Uris -> Uris \cup {None}]
    /\ \A a \in DOMAIN index.sets :
          /\ index.sets[a].members \subseteq Uris /\ index.sets[a].order \in Seq(Uris)
          /\ \A u \in index.sets[a].members : getSetForUri(index, u) # None

OrderOK ==
    /\ \A i \in DOMAIN order : text[order[i]] # None
    /\ \A i, j \in DOMAIN order : order[i] = order[j] => i = j

TypeInv == TypeOK /\ IndexOK(configSetIndex) /\ OrderOK

(* What a handler reads while it makes its runs.                           *)
Reading ==
    /\ file \in Caches /\ text' \in Caches /\ settings' \in Settings
    /\ order' \in Seq(Uris) /\ \A i \in DOMAIN order' : text'[order'[i]] # None

LEMMA ScanOK ==
    ASSUME file \in Caches, sidecar \in [Dirs -> Sidecars],
           NEW roots \in Seq(Dirs), NEW opts \in Options
    PROVE  IndexOK(Rescan(file, sidecar, roots, opts))
<1> DEFINE index == Rescan(file, sidecar, roots, opts)
<1>1. Answers(index) /\ index.opts = opts
  BY ScanAnswers
<1>2. index.roots = roots
  BY RescanAnchors
<1>3. /\ index.memberOf \in [Uris -> Uris \cup {None}]
      /\ \A a \in DOMAIN index.sets : index.sets[a] \in
            [ members : SUBSET Uris, order : Seq(Uris),
              explicit : {"none", "directive", "sidecar"} ]
  BY RescanTyped DEF Caches
<1>4. /\ index.met \in Seq(Uris)
      /\ \A a \in DOMAIN index.sets, u \in Uris :
            u \in index.sets[a].members => index.memberOf[u] # None
  <2>1. Len(roots) \in Nat /\ DOMAIN roots = 1..Len(roots) /\ opts.maxFilesScanned \in Nat
    BY DEF Options
  <2> QED
    BY <2>1, RescanComplete
<1> HIDE DEF index
<1> QED
  BY <1>1, <1>2, <1>3, <1>4 DEF IndexOK, getSetForUri, index

LEMMA SetsOK ==
    ASSUME NEW index, IndexOK(index), NEW a \in DOMAIN index.sets
    PROVE  /\ a \in Uris /\ Members(index, a) \in SUBSET Uris
           /\ index.sets[a].order \in Seq(Uris)
  BY DEF IndexOK, Answers, Members

LEMMA AnsweringSet ==
    ASSUME NEW index, IndexOK(index), NEW u \in Uris, getSetForUri(index, u) # None
    PROVE  /\ getSetForUri(index, u) \in DOMAIN index.sets
           /\ getSetForUri(index, u) \in Uris
           /\ u \in Members(index, getSetForUri(index, u))
           /\ Members(index, getSetForUri(index, u)) \in SUBSET Uris
  BY SetsOK DEF IndexOK, Answers

----------------------------------------------------------------------------
(* Reading.                                                                *)
LEMMA TextRead ==
    ASSUME file \in Caches, text' \in Caches, NEW cache \in Caches, NEW u \in Uris
    PROVE  readDisk(cache, u) \in Contents /\ memberText(cache, u) \in Contents
  BY ContentsAssumption DEF Caches, readDisk, memberText

LEMMA SetRead ==
    ASSUME file \in Caches, text' \in Caches, NEW cache \in Caches,
           NEW members \in SUBSET Uris
    PROVE  [ m \in members |-> memberText(cache, m) ] \in Texts
<1>1. \A m \in members : memberText(cache, m) \in Contents
  BY TextRead
<1>2. [ m \in members |-> memberText(cache, m) ] \in [members -> Contents]
  BY <1>1
<1> QED
  BY <1>2 DEF Texts

LEMMA DiskWarmed ==
    ASSUME file \in Caches, text' \in Caches, NEW cache \in Caches, NEW read
    PROVE  warmDisk(cache, read) \in Caches
<1>1. \A u \in Uris : readDisk(cache, u) \in Contents
  BY TextRead
<1> QED
  BY <1>1 DEF warmDisk, Caches

LEMMA ModelsWarmed ==
    ASSUME file \in Caches, text' \in Caches, NEW index, IndexOK(index),
           NEW models \in Models, NEW cache \in Caches,
           NEW used, used \subseteq DOMAIN index.sets
    PROVE  warmModels(index, models, cache, used) \in Models
<1>1. ASSUME NEW a \in used
      PROVE  [ m \in Members(index, a) |-> memberText(cache, m) ] \in Texts
  BY SetsOK, SetRead
<1> QED
  BY <1>1 DEF warmModels, Models

LEMMA CachesDropped ==
    ASSUME NEW keys
    PROVE  /\ \A models \in Models : without(models, keys) \in Models
           /\ \A cache \in Caches : without(cache, keys) \in Caches
           /\ EmptyCache \in Models
           /\ \A dropped : \A models \in Models : keptAfter(dropped, models) \in Models
  BY DEF without, EmptyCache, keptAfter, Models, Caches

----------------------------------------------------------------------------
(* Validations.                                                            *)
RunsOf(index) == { r \in Runs : r.anchor \in DOMAIN index.sets \cup {None} }

LEMMA RunTyped ==
    ASSUME settings' \in Settings, NEW index, IndexOK(index),
           NEW at \in Nat \X Nat, NEW anchor \in DOMAIN index.sets \cup {None},
           NEW model \in Texts, NEW when \in {"now", "micro", "later"}
    PROVE  Run(at, anchor, model, when) \in RunsOf(index)
<1>1. anchor \in Uris \cup {None}
  BY SetsOK
<1>2. settings'.distribution \in STRING
  BY DEF Settings
<1> QED
  BY <1>1, <1>2 DEF Run, RunsOf, Runs, Diags

LEMMA DocRunTyped ==
    ASSUME Reading, NEW index, IndexOK(index), NEW models \in Models, NEW cache \in Caches,
           NEW at \in Nat \X Nat, NEW u \in Uris, text'[u] # None
    PROVE  docRun(at, index, models, cache, u) \in RunsOf(index)
<1> DEFINE a     == getSetForUri(index, u)
           model == IF a = None THEN [ m \in {u} |-> text'[u] ]
                    ELSE IF models[a] # None THEN models[a]
                    ELSE [ m \in Members(index, a) |-> memberText(cache, m) ]
           when  == IF ~ settings'.ottl THEN "now"
                    ELSE IF hasOttl(model) THEN "later" ELSE "micro"
<1>1. model \in Texts
  <2>1. CASE a = None
    <3>1. [ m \in {u} |-> text'[u] ] \in [{u} -> Contents]
      BY DEF Reading, Caches
    <3>2. {u} \in SUBSET Uris
      OBVIOUS
    <3> QED
      BY <2>1, <3>1, <3>2 DEF Texts
  <2>2. CASE a # None
    <3>1. a \in Uris /\ Members(index, a) \in SUBSET Uris
      BY <2>2, AnsweringSet
    <3>2. [ m \in Members(index, a) |-> memberText(cache, m) ] \in Texts
      BY <3>1, SetRead DEF Reading
    <3>3. models[a] \in Texts \cup {None}
      BY <3>1 DEF Models
    <3> QED
      BY <2>2, <3>2, <3>3
  <2> QED
    BY <2>1, <2>2
<1>2. a \in DOMAIN index.sets \cup {None}
  BY AnsweringSet
<1>3. when \in {"now", "micro", "later"}
  OBVIOUS
<1>4. docRun(at, index, models, cache, u) = Run(at, a, model, when)
  BY DEF docRun
<1> HIDE DEF a, model, when
<1> QED
  BY <1>1, <1>2, <1>3, <1>4, RunTyped DEF Reading

(* A validation is driven by an open document.                             *)
LEMMA FirstOpenTyped ==
    ASSUME NEW index, IndexOK(index), NEW a \in DOMAIN index.sets, firstOpen(index, a) # None
    PROVE  firstOpen(index, a) \in Uris /\ text'[firstOpen(index, a)] # None
<1> DEFINE list == index.sets[a].order
           Chosen(i) == isFirstOpen(index, a, i)
           i0 == CHOOSE i \in DOMAIN list : Chosen(i)
<1>1. firstOpen(index, a) = IF \E i \in DOMAIN list : Chosen(i) THEN list[i0] ELSE None
  BY DEF firstOpen
<1>2. list \in Seq(Uris)
  BY SetsOK
<1>3. i0 \in DOMAIN list /\ Chosen(i0)
  <2> HIDE DEF Chosen
  <2> QED
    BY <1>1
<1>4. firstOpen(index, a) = list[i0]
  <2> HIDE DEF Chosen, i0
  <2> QED
    BY <1>1
<1> HIDE DEF i0
<1>5. text'[list[i0]] # None
  BY <1>3 DEF isFirstOpen
<1> HIDE DEF list
<1> QED
  BY <1>2, <1>3, <1>4, <1>5

LEMMA SetRunTyped ==
    ASSUME Reading, NEW index, IndexOK(index), NEW models \in Models, NEW cache \in Caches,
           NEW at \in Nat \X Nat, NEW a \in DOMAIN index.sets
    PROVE  setRun(at, index, models, cache, a) \in RunsOf(index)
<1> DEFINE model == IF models[a] # None THEN models[a]
                    ELSE [ m \in Members(index, a) |-> memberText(cache, m) ]
<1>1. a \in Uris /\ Members(index, a) \in SUBSET Uris
  BY SetsOK
<1>2. model \in Texts
  BY <1>1, SetRead DEF Reading, Models
<1>3. CASE firstOpen(index, a) # None
  BY <1>3, FirstOpenTyped, DocRunTyped DEF setRun
<1>4. CASE firstOpen(index, a) = None
  <2>1. setRun(at, index, models, cache, a) = Run(at, a, model, "now")
    BY <1>4 DEF setRun
  <2> HIDE DEF model
  <2> QED
    BY <1>2, <2>1, RunTyped DEF Reading
<1> QED
  BY <1>3, <1>4

LEMMA AllRunsTyped ==
    ASSUME Reading, NEW index, IndexOK(index), NEW models \in Models, NEW cache \in Caches,
           NEW stage \in Nat
    PROVE  /\ validateAllSets(stage, index, models, cache) \subseteq RunsOf(index)
           /\ validateAllDocs(stage, index, models, cache) \subseteq RunsOf(index)
<1>1. ASSUME NEW i \in allSets(index)
      PROVE  setRun(<<stage, i>>, index, models, cache, index.met[i]) \in RunsOf(index)
  <2>1. index.met[i] \in DOMAIN index.sets /\ i \in DOMAIN index.met
    BY DEF allSets
  <2>2. i \in Nat
    BY <2>1 DEF IndexOK
  <2> QED
    BY <2>1, <2>2, SetRunTyped
<1>2. ASSUME NEW i \in DOMAIN order'
      PROVE  docRun(<<stage, i>>, index, models, cache, order'[i]) \in RunsOf(index)
  <2>1. i \in Nat /\ order'[i] \in Uris /\ text'[order'[i]] # None
    BY DEF Reading
  <2> QED
    BY <2>1, DocRunTyped
<1> QED
  BY <1>1, <1>2 DEF validateAllSets, validateAllDocs

LEMMA AnchorsTyped ==
    ASSUME NEW index, NEW runs, runs \subseteq RunsOf(index)
    PROVE  anchorsOf(runs) \subseteq DOMAIN index.sets
  BY DEF anchorsOf, RunsOf

(* The tag of the last run in flight.                                      *)
LEMMA LastTagTyped ==
    ASSUME inflight \subseteq Flying
    PROVE  lastTag \in 0..MaxRuns
<1> DEFINE tags == { t.tag : t \in inflight } \cup {0}
           IsLast(n) == /\ n = 0 \/ \E t \in inflight : t.tag = n
                        /\ \A t \in inflight : t.tag <= n
<1>1. tags \in SUBSET (0..MaxRuns) /\ MaxRuns \in Nat
  BY ServerAssumption DEF Flying, Tags
<1>2. PICK n \in tags : \A m \in tags : m <= n
  <2>1. tags # {}
    OBVIOUS
  <2> HIDE DEF tags
  <2> QED
    BY <1>1, <2>1, Greatest
<1>3. n \in {0} \cup Tags /\ IsLast(n)
  BY <1>1, <1>2 DEF Tags
<1>4. lastTag = CHOOSE k \in {0} \cup Tags : IsLast(k)
  BY DEF lastTag
<1>5. lastTag \in {0} \cup Tags
  <2> HIDE DEF IsLast
  <2> QED
    BY <1>3, <1>4
<1> QED
  BY <1>1, <1>5 DEF Tags

LEMMA PublishTyped ==
    ASSUME NEW runs, runs \subseteq Runs, Publish(runs),
           published \in [Uris -> Diags \cup {None}], inflight \subseteq Flying,
           outdated \subseteq Uris
    PROVE  /\ published' \in [Uris -> Diags \cup {None}] /\ inflight' \subseteq Flying
           /\ outdated' \subseteq Uris
<1> DEFINE done  == { r \in runs : r.when # "later" }
           later == { r \in runs : r.when = "later" }
           shown == { u \in Uris : \E r \in done : isLastRun(done, u, r) }
<1>1. /\ published' = [ u \in Uris |-> IF u \in shown
                          THEN (CHOOSE r \in done : isLastRun(done, u, r)).diag
                          ELSE published[u] ]
      /\ later # {} => lastTag < MaxRuns
      /\ inflight' =
            { [ t EXCEPT !.overtaken = @ \cup shown ] : t \in inflight } \cup
            { [ tag |-> lastTag + 1, at |-> r.at, diag |-> r.diag, overtaken |-> {} ] :
                r \in later }
      /\ outdated' = outdated \ shown
  BY DEF Publish
<1>2. published' \in [Uris -> Diags \cup {None}]
  <2>1. ASSUME NEW u \in shown
        PROVE  (CHOOSE r \in done : isLastRun(done, u, r)).diag \in Diags
    <3>1. (CHOOSE r \in done : isLastRun(done, u, r)) \in Runs
      OBVIOUS
    <3> QED
      BY <3>1 DEF Runs
  <2> HIDE DEF shown, done
  <2> QED
    BY <1>1, <2>1
<1>3. ASSUME NEW t \in inflight
      PROVE  [ t EXCEPT !.overtaken = @ \cup shown ] \in Flying
  <2>1. shown \in SUBSET Uris
    OBVIOUS
  <2> HIDE DEF shown
  <2> QED
    BY <2>1 DEF Flying
<1>4. ASSUME NEW r \in later
      PROVE  [ tag |-> lastTag + 1, at |-> r.at, diag |-> r.diag, overtaken |-> {} ] \in Flying
  <2>1. lastTag + 1 \in Tags
    BY <1>1, LastTagTyped, ServerAssumption DEF Tags
  <2> QED
    BY <2>1 DEF Flying, Runs
<1> HIDE DEF shown, later
<1> QED
  BY <1>1, <1>2, <1>3, <1>4

----------------------------------------------------------------------------
(* The parts of the invariant that actions keep each in one go.            *)
DocsTyped  == text \in Caches /\ order \in Seq(Uris) /\ OrderOK
IndexTyped == /\ workspaceRoots \in Seq(Dirs) /\ IndexOK(configSetIndex)
              /\ configSetIndex.roots \in {<<>>, workspaceRoots}
CacheTyped == setModelCache \in Models /\ diskCache \in Caches
RunsTyped  == /\ published \in [Uris -> Diags \cup {None}] /\ inflight \subseteq Flying
              /\ outdated \subseteq Uris
RestTyped  == /\ phase \in {"starting", "running"}
              /\ file \in Caches /\ sidecar \in [Dirs -> Sidecars] /\ settings \in Settings
              /\ adoptedYamlUris \subseteq Uris /\ discarded \subseteq Uris
              /\ validateTimers \in [Uris -> Uris \cup {None}]
              /\ watched \subseteq Events /\ unreported \subseteq Uris /\ edits \in 0..MaxEdits

LEMMA TypeParts ==
    TypeInv <=> DocsTyped /\ IndexTyped /\ CacheTyped /\ RunsTyped /\ RestTyped
<1>1. ASSUME IndexOK(configSetIndex)
      PROVE  configSetIndex.memberOf \in [Uris -> Uris \cup {None}]
  BY <1>1 DEF IndexOK
<1> QED
  BY <1>1 DEF TypeInv, TypeOK, DocsTyped, IndexTyped, CacheTyped, RunsTyped, RestTyped,
              Models, Caches, Flying

LEMMA TypesAfter ==
    ASSUME DocsTyped', IndexTyped', CacheTyped', RunsTyped', RestTyped'
    PROVE  TypeInv'
  BY DEF TypeInv, TypeOK, DocsTyped, IndexTyped, IndexOK, CacheTyped, RunsTyped, RestTyped,
         Models, Caches, Flying

LEMMA OptionsTyped ==
    ASSUME NEW stg \in SettingsSet
    PROVE  stg \in Settings /\ optionsOf(stg) \in Options
  BY ServerAssumption DEF optionsOf, Options, Settings

LEMMA InitTypes == Init => TypeInv
<1> SUFFICES ASSUME Init PROVE TypeInv
  OBVIOUS
<1>1. DocsTyped
  BY DEF Init, DocsTyped, OrderOK, Caches
<1>2. IndexTyped
  <2>1. optionsOf(DefaultSettings) \in Options
    BY ServerAssumption DEF optionsOf, Options, Settings
  <2>2. configSetIndex = NoIndex(optionsOf(DefaultSettings))
    BY DEF Init
  <2> QED
    BY <2>1, <2>2, ServerAssumption
       DEF Init, IndexTyped, IndexOK, Answers, NoIndex, getSetForUri
<1>3. CacheTyped /\ RunsTyped
  BY DEF Init, CacheTyped, RunsTyped, EmptyCache, Models, Caches
<1>4. RestTyped
  <2>1. file \in Caches
    BY ServerAssumption DEF Init, Caches
  <2> QED
    BY <2>1, ServerAssumption DEF Init, RestTyped
<1> QED
  BY <1>1, <1>2, <1>3, <1>4, TypeParts

(* A handler that scans, validates and publishes, seen from its parts.     *)
LEMMA HandlerTypes ==
    ASSUME Reading, CacheTyped, RunsTyped, NEW index, IndexOK(index), NEW models \in Models,
           NEW cache \in Caches, NEW used, used \subseteq DOMAIN index.sets, NEW read,
           NEW runs, runs \subseteq Runs, Publish(runs), NEW keys,
           setModelCache' \in { warmModels(index, models, cache, used),
                                without(warmModels(index, models, cache, used), keys) },
           diskCache' = warmDisk(cache, read)
    PROVE  CacheTyped' /\ RunsTyped'
<1>1. RunsTyped'
  BY PublishTyped DEF RunsTyped
<1>2. warmModels(index, models, cache, used) \in Models
  BY ModelsWarmed DEF Reading
<1>3. setModelCache' \in Models
  BY <1>2, CachesDropped
<1>4. diskCache' \in Caches
  BY DiskWarmed DEF Reading
<1> QED
  BY <1>1, <1>3, <1>4 DEF CacheTyped

LEMMA InitializedTypes ==
    ASSUME TypeInv, NEW stg \in SettingsSet, Initialized(stg)
    PROVE  TypeInv'
<1> DEFINE RootsAt(i) == FoldLeft(ensureRoot, workspaceRoots, SubSeq(order, 1, i))
           IndexAt(i) == Rescan(file, sidecar, RootsAt(i), optionsOf(stg))
           added  == { i \in DOMAIN order : RootsAt(i) # RootsAt(i - 1) }
           kept   == keptAfter(added # {}, setModelCache)
           RunsAt(i) == validateAllSets(i, IndexAt(i), EmptyCache, diskCache)
           final  == IndexAt(Len(order))
           runs   == validateAllSets(Len(order) + 1, final, kept, diskCache)
                       \cup validateAllDocs(Len(order) + 2, final, kept, diskCache)
           read   == membersRead(final, kept, anchorsOf(runs)) \cup
                     UNION { membersRead(IndexAt(i), EmptyCache, anchorsOf(RunsAt(i))) :
                               i \in added }
           every  == runs \cup UNION { RunsAt(i) : i \in added }
<1>1. /\ workspaceRoots' = final.roots /\ configSetIndex' = final
      /\ setModelCache' = warmModels(final, kept, diskCache, anchorsOf(runs))
      /\ diskCache' = warmDisk(diskCache, read)
      /\ Publish(every)
  BY DEF Initialized
<1>2. DocsTyped /\ IndexTyped /\ CacheTyped /\ RunsTyped /\ RestTyped
  BY TypeParts
<1>3. Reading /\ DocsTyped' /\ RestTyped'
  BY <1>2, OptionsTyped
     DEF Initialized, docVars, diskVars, Reading, DocsTyped, OrderOK, RestTyped
<1>4. ASSUME NEW i \in 0..Len(order) PROVE IndexOK(IndexAt(i)) /\ IndexAt(i).roots = RootsAt(i)
  <2>1. SubSeq(order, 1, i) \in Seq(Uris)
    BY <1>2 DEF DocsTyped
  <2>2. RootsAt(i) \in Seq(Dirs)
    BY <1>2, <2>1, RootsTyped DEF IndexTyped
  <2> HIDE DEF RootsAt
  <2> QED
    BY <1>2, <2>2, ScanOK, OptionsTyped, RescanAnchors DEF RestTyped
<1>5. Len(order) \in Nat /\ DOMAIN order = 1..Len(order)
  BY <1>2 DEF DocsTyped
<1>6. IndexOK(final)
  <2>1. Len(order) \in 0..Len(order)
    BY <1>5
  <2> HIDE DEF IndexAt
  <2> QED
    BY <1>4, <2>1
<1>7. kept \in Models /\ EmptyCache \in Models /\ diskCache \in Caches
  BY <1>2, CachesDropped DEF CacheTyped
<1> HIDE DEF kept
<1>8. runs \subseteq RunsOf(final)
  <2>1. Len(order) + 1 \in Nat /\ Len(order) + 2 \in Nat
    BY <1>5
  <2> HIDE DEF final
  <2> QED
    BY <1>3, <1>6, <1>7, <2>1, AllRunsTyped
<1>9. ASSUME NEW i \in added PROVE RunsAt(i) \subseteq Runs
  <2>1. i \in Nat /\ i \in 0..Len(order)
    BY <1>5
  <2> HIDE DEF IndexAt
  <2> QED
    BY <1>3, <1>4, <1>7, <2>1, AllRunsTyped DEF RunsOf
<1>10. every \subseteq Runs
  <2> HIDE DEF runs, added, RunsAt
  <2> QED
    BY <1>8, <1>9 DEF RunsOf
<1>11. anchorsOf(runs) \subseteq DOMAIN final.sets
  <2> HIDE DEF runs, final
  <2> QED
    BY <1>8, AnchorsTyped
<1>12. CacheTyped' /\ RunsTyped'
  <2> HIDE DEF final, runs, read, every
  <2> QED
    BY <1>1, <1>2, <1>3, <1>6, <1>7, <1>10, <1>11, HandlerTypes
<1>13. IndexTyped'
  <2> HIDE DEF final
  <2> QED
    BY <1>1, <1>6 DEF IndexTyped, IndexOK
<1> QED
  BY <1>3, <1>12, <1>13, TypesAfter

LEMMA ConfigureTypes ==
    ASSUME TypeInv, NEW stg \in SettingsSet, Configure(stg)
    PROVE  TypeInv'
<1> DEFINE index == Rescan(file, sidecar, configSetIndex.roots, optionsOf(stg))
           runs  == validateAllSets(1, index, EmptyCache, diskCache)
                      \cup validateAllDocs(2, index, EmptyCache, diskCache)
           read  == membersRead(index, EmptyCache, anchorsOf(runs))
<1>1. /\ configSetIndex' = index /\ UNCHANGED workspaceRoots
      /\ setModelCache' = warmModels(index, EmptyCache, diskCache, anchorsOf(runs))
      /\ diskCache' = warmDisk(diskCache, read)
      /\ Publish(runs)
  BY DEF Configure
<1>2. DocsTyped /\ IndexTyped /\ CacheTyped /\ RunsTyped /\ RestTyped
  BY TypeParts
<1>3. Reading /\ DocsTyped'
  BY <1>2, OptionsTyped
     DEF Configure, docVars, diskVars, Reading, DocsTyped, OrderOK, RestTyped
<1>4. RestTyped'
  BY <1>2, OptionsTyped, ServerAssumption DEF Configure, Edit, diskVars, RestTyped
<1>5. configSetIndex.roots \in Seq(Dirs)
  BY <1>2 DEF IndexTyped, IndexOK
<1>6. IndexOK(index) /\ index.roots = configSetIndex.roots
  BY <1>2, <1>5, ScanOK, OptionsTyped, RescanAnchors DEF RestTyped
<1>7. EmptyCache \in Models /\ diskCache \in Caches
  BY <1>2, CachesDropped DEF CacheTyped
<1> HIDE DEF index
<1>8. runs \subseteq RunsOf(index)
  BY <1>3, <1>6, <1>7, AllRunsTyped
<1> HIDE DEF runs, read
<1>9. anchorsOf(runs) \subseteq DOMAIN index.sets /\ runs \subseteq Runs
  BY <1>8, AnchorsTyped DEF RunsOf
<1>10. CacheTyped' /\ RunsTyped'
  BY <1>1, <1>2, <1>3, <1>6, <1>7, <1>9, HandlerTypes
<1>11. IndexTyped'
  BY <1>1, <1>2, <1>6 DEF IndexTyped
<1> QED
  BY <1>3, <1>4, <1>10, <1>11, TypesAfter

LEMMA Adopted ==
    ASSUME NEW u \in Uris, NEW c
    PROVE  adopting(u, c) \subseteq Uris
  BY DEF adopting

LEMMA TimerKeyTyped ==
    ASSUME NEW index, IndexOK(index), NEW u \in Uris
    PROVE  timerKey(index, u) \in Uris
  BY AnsweringSet DEF timerKey

LEMMA DidOpenTypes ==
    ASSUME TypeInv, NEW u \in Uris, NEW c \in Contents, DidOpen(u, c)
    PROVE  TypeInv'
<1>1. DocsTyped /\ IndexTyped /\ CacheTyped /\ RunsTyped /\ RestTyped
  BY TypeParts
<1>2. /\ c # None /\ text[u] = None /\ text' = [text EXCEPT ![u] = c]
      /\ order' = Append(order, u)
  BY ContentsAssumption DEF DidOpen
<1>3. text' \in Caches /\ order' \in Seq(Uris)
  BY <1>1, <1>2 DEF DocsTyped, Caches
<1>4. \A i \in DOMAIN order' : text'[order'[i]] # None
  BY <1>1, <1>2 DEF DocsTyped, OrderOK, Caches
<1>5. DocsTyped'
  BY <1>1, <1>2, <1>3, <1>4 DEF DocsTyped, OrderOK, Caches
<1>6. Reading
  BY <1>1, <1>3, <1>4 DEF DidOpen, Reading, RestTyped
<1>7. /\ phase' \in {"starting", "running"}
      /\ file' \in Caches /\ sidecar' \in [Dirs -> Sidecars] /\ settings' \in Settings
      /\ adoptedYamlUris' \subseteq Uris /\ discarded' \subseteq Uris
      /\ watched' \subseteq Events /\ unreported' \subseteq Uris
      /\ edits' \in 0..MaxEdits
  BY <1>1, Adopted, ServerAssumption DEF DidOpen, Edit, diskVars, RestTyped
<1>8. CASE ~ shouldServe(u, c)
  <2>1. UNCHANGED <<workspaceRoots, configSetIndex, cacheVars, runVars>>
    BY <1>8 DEF DidOpen
  <2> QED
    BY <1>1, <1>5, <1>7, <2>1, TypesAfter
       DEF cacheVars, runVars, IndexTyped, CacheTyped, RunsTyped, RestTyped
<1>9. CASE shouldServe(u, c)
  <2> DEFINE roots == ensureRoot(workspaceRoots, u)
             isNew == roots # workspaceRoots
             kept  == keptAfter(isNew, setModelCache)
             index == IF isNew THEN Rescan(file, sidecar, roots, configSetIndex.opts)
                               ELSE configSetIndex
             runs  == {docRun(<<2, 1>>, index, kept, diskCache, u)} \cup
                      (IF isNew THEN validateAllSets(1, index, kept, diskCache) ELSE {})
             read  == membersRead(index, kept, anchorsOf(runs))
  <2>1. /\ workspaceRoots' = roots /\ configSetIndex' = index
        /\ setModelCache' = without(warmModels(index, kept, diskCache, anchorsOf(runs)),
                                    {getSetForUri(index, u)})
        /\ diskCache' = warmDisk(diskCache, read)
        /\ Publish(runs)
        /\ validateTimers' = [validateTimers EXCEPT ![timerKey(index, u)] = u]
    BY <1>9 DEF DidOpen
  <2>2. roots \in Seq(Dirs)
    BY <1>1, RootAdded DEF IndexTyped
  <2>3. IndexOK(index) /\ index.roots \in {<<>>, roots}
    <3>1. configSetIndex.opts \in Options
      BY <1>1 DEF IndexTyped, IndexOK
    <3> HIDE DEF roots
    <3> QED
      BY <1>1, <2>2, <3>1, ScanOK, RescanAnchors DEF IndexTyped, RestTyped
  <2>4. kept \in Models /\ diskCache \in Caches
    BY <1>1, CachesDropped DEF CacheTyped
  <2> HIDE DEF index, kept, roots
  <2>5. runs \subseteq RunsOf(index)
    <3>1. text'[u] # None
      BY <1>1, <1>2 DEF DocsTyped, Caches
    <3>2. docRun(<<2, 1>>, index, kept, diskCache, u) \in RunsOf(index)
      BY <1>6, <2>3, <2>4, <3>1, DocRunTyped
    <3> QED
      BY <1>6, <2>3, <2>4, <3>2, AllRunsTyped
  <2> HIDE DEF runs, read
  <2>6. anchorsOf(runs) \subseteq DOMAIN index.sets /\ runs \subseteq Runs
    BY <2>5, AnchorsTyped DEF RunsOf
  <2>7. CacheTyped' /\ RunsTyped'
    BY <1>1, <1>6, <2>1, <2>3, <2>4, <2>6, HandlerTypes
  <2>8. IndexTyped'
    BY <2>1, <2>2, <2>3 DEF IndexTyped
  <2>9. RestTyped'
    BY <1>1, <1>7, <2>1, <2>3, TimerKeyTyped DEF RestTyped
  <2> QED
    BY <1>5, <2>7, <2>8, <2>9, TypesAfter
<1> QED
  BY <1>8, <1>9

LEMMA DidChangeTypes ==
    ASSUME TypeInv, NEW u \in Uris, NEW c \in Contents, DidChange(u, c)
    PROVE  TypeInv'
<1>1. DocsTyped /\ IndexTyped /\ CacheTyped /\ RunsTyped /\ RestTyped
  BY TypeParts
<1>2. DocsTyped'
  BY <1>1, ContentsAssumption DEF DidChange, DocsTyped, OrderOK, Caches
<1>3. IndexTyped' /\ RunsTyped'
  BY <1>1 DEF DidChange, IndexTyped, RunsTyped
<1>4. /\ setModelCache' \in Models /\ diskCache' \in Caches
      /\ validateTimers' \in [Uris -> Uris \cup {None}]
  <2>1. timerKey(configSetIndex, u) \in Uris
    BY <1>1, TimerKeyTyped DEF IndexTyped
  <2> QED
    BY <1>1, <2>1, CachesDropped DEF DidChange, CacheTyped, RestTyped
<1>5. RestTyped'
  BY <1>1, <1>4, Adopted, ServerAssumption DEF DidChange, Edit, diskVars, RestTyped
<1> QED
  BY <1>2, <1>3, <1>4, <1>5, TypesAfter DEF CacheTyped

LEMMA TimerTypes ==
    ASSUME TypeInv, NEW key \in Uris, TimerFires(key)
    PROVE  TypeInv'
<1> DEFINE u    == validateTimers[key]
           a    == getSetForUri(configSetIndex, u)
           doc  == IF a # None THEN firstOpen(configSetIndex, a)
                   ELSE IF text[u] # None THEN u ELSE None
           runs == IF doc = None THEN {}
                   ELSE {docRun(<<1, 1>>, configSetIndex, setModelCache, diskCache, doc)}
           read == membersRead(configSetIndex, setModelCache, anchorsOf(runs))
<1>1. /\ setModelCache' =
            warmModels(configSetIndex, setModelCache, diskCache, anchorsOf(runs))
      /\ diskCache' = warmDisk(diskCache, read)
      /\ Publish(runs)
      /\ validateTimers' = [validateTimers EXCEPT ![key] = None]
      /\ UNCHANGED <<phase, diskVars, docVars, setVars, watched, discarded, edits>>
      /\ u # None
  BY DEF TimerFires
<1>2. DocsTyped /\ IndexTyped /\ CacheTyped /\ RunsTyped /\ RestTyped
  BY TypeParts
<1>3. u \in Uris /\ UNCHANGED <<text, order, settings>>
  BY <1>1, <1>2 DEF RestTyped, docVars, setVars
<1>4. Reading /\ DocsTyped' /\ IndexTyped' /\ RestTyped'
  BY <1>1, <1>2 DEF diskVars, docVars, setVars, Reading, DocsTyped, OrderOK, IndexTyped, RestTyped
<1>5. IndexOK(configSetIndex) /\ setModelCache \in Models /\ diskCache \in Caches
  BY <1>2 DEF IndexTyped, CacheTyped
<1>6. doc # None => doc \in Uris /\ text'[doc] # None
  BY <1>3, <1>5, AnsweringSet, FirstOpenTyped
<1> HIDE DEF doc
<1>7. runs \subseteq RunsOf(configSetIndex)
  BY <1>4, <1>5, <1>6, DocRunTyped
<1> HIDE DEF runs, read
<1>8. anchorsOf(runs) \subseteq DOMAIN configSetIndex.sets /\ runs \subseteq Runs
  BY <1>7, AnchorsTyped DEF RunsOf
<1>9. CacheTyped' /\ RunsTyped'
  BY <1>1, <1>2, <1>4, <1>5, <1>8, HandlerTypes
<1> QED
  BY <1>4, <1>9, TypesAfter

LEMMA RequestTypes ==
    ASSUME TypeInv, NEW u \in Uris, Request(u)
    PROVE  TypeInv'
<1> DEFINE a == getSetForUri(configSetIndex, u)
<1>1. DocsTyped /\ IndexTyped /\ CacheTyped /\ RunsTyped /\ RestTyped
  BY TypeParts
<1>2. /\ a # None
      /\ UNCHANGED <<phase, diskVars, docVars, setVars, runVars, watched, discarded, edits>>
      /\ setModelCache' = warmModels(configSetIndex, setModelCache, diskCache, {a})
      /\ diskCache' = warmDisk(diskCache, membersRead(configSetIndex, setModelCache, {a}))
  BY DEF Request
<1>3. Reading /\ DocsTyped' /\ IndexTyped' /\ RunsTyped' /\ RestTyped'
  BY <1>1, <1>2 DEF diskVars, docVars, setVars, runVars, Reading, DocsTyped, OrderOK,
                    IndexTyped, RunsTyped, RestTyped
<1>4. IndexOK(configSetIndex) /\ setModelCache \in Models /\ diskCache \in Caches
  BY <1>1 DEF IndexTyped, CacheTyped
<1>5. {a} \subseteq DOMAIN configSetIndex.sets
  BY <1>2, <1>4, AnsweringSet
<1> HIDE DEF a
<1>6. CacheTyped'
  BY <1>2, <1>3, <1>4, <1>5, ModelsWarmed, DiskWarmed DEF CacheTyped, Reading
<1> QED
  BY <1>3, <1>6, TypesAfter

LEMMA WatchedTypes ==
    ASSUME TypeInv, NEW batch, WatchedFiles(batch)
    PROVE  TypeInv'
<1> DEFINE rescan == \E e \in batch : e.kind # "changed"
           gone   == { e.uri : e \in { f \in batch : f.kind # "sidecar" } }
           stale  == { getSetForUri(configSetIndex, u) : u \in gone }
           from   == without(diskCache, gone)
           index  == IF rescan THEN Rescan(file, sidecar, configSetIndex.roots,
                                           configSetIndex.opts)
                               ELSE configSetIndex
           kept   == keptAfter(rescan, without(setModelCache, stale))
           runs   == validateAllDocs(2, index, kept, from) \cup
                     (IF rescan THEN validateAllSets(1, index, kept, from) ELSE {})
           read   == membersRead(index, kept, anchorsOf(runs))
<1>1. /\ configSetIndex' = index
      /\ setModelCache' = warmModels(index, kept, from, anchorsOf(runs))
      /\ diskCache' = warmDisk(from, read)
      /\ Publish(runs)
      /\ watched' = watched \ batch
      /\ UNCHANGED <<phase, diskVars, docVars, settings, workspaceRoots, adoptedYamlUris,
                     validateTimers, discarded, edits>>
  BY DEF WatchedFiles
<1>2. DocsTyped /\ IndexTyped /\ CacheTyped /\ RunsTyped /\ RestTyped
  BY TypeParts
<1>3. Reading /\ DocsTyped' /\ RestTyped'
  BY <1>1, <1>2 DEF diskVars, docVars, Reading, DocsTyped, OrderOK, RestTyped
<1>4. IndexOK(index) /\ index.roots = configSetIndex.roots
  <2>1. configSetIndex.opts \in Options /\ configSetIndex.roots \in Seq(Dirs)
    BY <1>2 DEF IndexTyped, IndexOK
  <2> QED
    BY <1>2, <2>1, ScanOK, RescanAnchors DEF IndexTyped, RestTyped
<1>5. kept \in Models /\ from \in Caches
  BY <1>2, CachesDropped DEF CacheTyped
<1> HIDE DEF index, kept, from, rescan
<1>6. runs \subseteq RunsOf(index)
  BY <1>3, <1>4, <1>5, AllRunsTyped
<1> HIDE DEF runs, read
<1>7. anchorsOf(runs) \subseteq DOMAIN index.sets /\ runs \subseteq Runs
  BY <1>6, AnchorsTyped DEF RunsOf
<1>8. CacheTyped' /\ RunsTyped'
  BY <1>1, <1>2, <1>3, <1>4, <1>5, <1>7, HandlerTypes
<1>9. IndexTyped'
  BY <1>1, <1>2, <1>4 DEF IndexTyped
<1> QED
  BY <1>3, <1>8, <1>9, TypesAfter

LEMMA SettleTypes ==
    ASSUME TypeInv, NEW t \in inflight, Settle(t)
    PROVE  TypeInv'
<1> DEFINE shown == DOMAIN t.diag.model
<1>1. DocsTyped /\ IndexTyped /\ CacheTyped /\ RunsTyped /\ RestTyped
  BY TypeParts
<1>2. /\ published' = [ u \in Uris |-> IF u \in shown THEN t.diag ELSE published[u] ]
      /\ inflight' = Settled(t)
      /\ outdated' = (outdated \ shown) \cup (shown \cap t.overtaken)
      /\ UNCHANGED <<phase, diskVars, docVars, setVars, cacheVars, validateTimers, watched,
                     discarded, edits>>
  BY DEF Settle
<1>3. t.diag \in Diags /\ shown \in SUBSET Uris /\ t.overtaken \in SUBSET Uris
  <2>1. t \in Flying
    BY <1>1 DEF RunsTyped
  <2>2. t.diag \in Diags /\ t.overtaken \in SUBSET Uris
    BY <2>1 DEF Flying
  <2>3. t.diag.model \in Texts
    BY <2>2 DEF Diags
  <2> QED
    BY <2>2, <2>3 DEF Texts
<1>4. ASSUME NEW s \in inflight PROVE [ s EXCEPT !.overtaken = @ \cup shown ] \in Flying
  <2>1. s \in Flying
    BY <1>1 DEF RunsTyped
  <2> HIDE DEF shown
  <2> QED
    BY <1>3, <2>1 DEF Flying
<1>5. Settled(t) \subseteq Flying
  BY <1>1, <1>4 DEF Settled, RunsTyped
<1> HIDE DEF shown
<1>6. RunsTyped'
  BY <1>1, <1>2, <1>3, <1>5 DEF RunsTyped
<1>7. DocsTyped' /\ IndexTyped' /\ CacheTyped' /\ RestTyped'
  BY <1>1, <1>2 DEF diskVars, docVars, setVars, cacheVars, DocsTyped, OrderOK, IndexTyped,
                    CacheTyped, RestTyped
<1> QED
  BY <1>6, <1>7, TypesAfter

(* What is left of a list without one place of it.                         *)
LEMMA Removed ==
    ASSUME NEW S, NEW list \in Seq(S), NEW i \in 1..Len(list)
    PROVE  LET left == RemoveAt(list, i)
           IN  /\ left \in Seq(S) /\ Len(left) = Len(list) - 1
               /\ \A j \in 1..(Len(list) - 1) : left[j] = list[IF j < i THEN j ELSE j + 1]
<1> DEFINE left   == RemoveAt(list, i)
           before == SubSeq(list, 1, i - 1)
           after  == SubSeq(list, i + 1, Len(list))
<1>1. Len(list) \in Nat
  OBVIOUS
<1>2. /\ before \in Seq(S) /\ Len(before) = i - 1
      /\ \A j \in 1..(i - 1) : before[j] = list[j]
  BY <1>1
<1>3. /\ after \in Seq(S) /\ Len(after) = Len(list) - i
      /\ \A j \in 1..(Len(list) - i) : after[j] = list[i + j]
  BY <1>1
<1>4. left = before \o after
  BY DEF RemoveAt
<1> HIDE DEF left, before, after
<1>5. left \in Seq(S) /\ Len(left) = Len(list) - 1
  <2>1. /\ before \o after \in Seq(S)
        /\ Len(before \o after) = Len(before) + Len(after)
    BY <1>2, <1>3, ConcatProperties
  <2> QED
    BY <1>1, <1>2, <1>3, <1>4, <2>1
<1>6. ASSUME NEW j \in 1..(Len(list) - 1)
      PROVE  left[j] = list[IF j < i THEN j ELSE j + 1]
  <2>1. CASE j < i
    BY <1>1, <1>2, <1>3, <1>4, <2>1
  <2>2. CASE ~ (j < i)
    <3>1. left[j] = after[j - (i - 1)]
      <4>1. j \in 1..(Len(before) + Len(after)) /\ ~ (j <= Len(before))
        BY <1>1, <1>2, <1>3, <2>2
      <4>2. (before \o after)[j] = after[j - Len(before)]
        BY <1>2, <1>3, <4>1, ConcatProperties
      <4> QED
        BY <1>2, <1>4, <4>2
    <3>2. j - (i - 1) \in 1..(Len(list) - i) /\ i + (j - (i - 1)) = j + 1
      BY <1>1, <2>2
    <3>3. after[j - (i - 1)] = list[j + 1]
      BY <1>3, <3>2
    <3> QED
      BY <2>2, <3>1, <3>3
  <2> QED
    BY <2>1, <2>2
<1> QED
  BY <1>5, <1>6 DEF left

(* A document that closes leaves the list once, for it was there once.     *)
LEMMA DidCloseTypes ==
    ASSUME TypeInv, NEW u \in Uris, DidClose(u)
    PROVE  TypeInv'
<1>1. DocsTyped /\ IndexTyped /\ CacheTyped /\ RunsTyped /\ RestTyped
  BY TypeParts
<1>2. /\ text' = [text EXCEPT ![u] = None]
      /\ \E i \in DOMAIN order : order[i] = u /\ order' = RemoveAt(order, i)
      /\ UNCHANGED <<phase, diskVars, setVars, cacheVars, runVars, watched>>
  BY DEF DidClose
<1>3. PICK i \in DOMAIN order : order[i] = u /\ order' = RemoveAt(order, i)
  BY <1>2
<1>4. order \in Seq(Uris) /\ i \in 1..Len(order) /\ Len(order) \in Nat
  BY <1>1 DEF DocsTyped
<1>5. /\ order' \in Seq(Uris) /\ Len(order') = Len(order) - 1
      /\ \A j \in 1..(Len(order) - 1) : order'[j] = order[IF j < i THEN j ELSE j + 1]
  <2>1. LET left == RemoveAt(order, i)
        IN  /\ left \in Seq(Uris) /\ Len(left) = Len(order) - 1
            /\ \A j \in 1..(Len(order) - 1) : left[j] = order[IF j < i THEN j ELSE j + 1]
    BY <1>4, Removed
  <2> QED
    BY <1>3, <2>1
<1>6. DOMAIN order' = 1..(Len(order) - 1)
  BY <1>4, <1>5
<1>7. ASSUME NEW j \in DOMAIN order'
      PROVE  /\ (IF j < i THEN j ELSE j + 1) \in DOMAIN order
             /\ (IF j < i THEN j ELSE j + 1) # i
  BY <1>4, <1>6, <1>7
<1>8. \A j \in DOMAIN order' : text'[order'[j]] # None
  <2> SUFFICES ASSUME NEW j \in DOMAIN order' PROVE text'[order'[j]] # None
    OBVIOUS
  <2>1. PICK k \in DOMAIN order : k # i /\ order'[j] = order[k]
    BY <1>5, <1>6, <1>7
  <2>2. order[k] # u /\ text[order[k]] # None /\ order[k] \in Uris
    BY <1>1, <1>3, <1>4, <2>1 DEF DocsTyped, OrderOK
  <2> QED
    BY <1>1, <1>2, <2>1, <2>2 DEF DocsTyped, Caches
<1>9. \A j, k \in DOMAIN order' : order'[j] = order'[k] => j = k
  <2> SUFFICES ASSUME NEW j \in DOMAIN order', NEW k \in DOMAIN order', order'[j] = order'[k]
               PROVE  j = k
    OBVIOUS
  <2>1. (IF j < i THEN j ELSE j + 1) = (IF k < i THEN k ELSE k + 1)
    BY <1>1, <1>5, <1>6, <1>7 DEF DocsTyped, OrderOK
  <2> QED
    BY <1>4, <1>6, <2>1
<1>10. DocsTyped'
  BY <1>1, <1>2, <1>5, <1>8, <1>9 DEF DocsTyped, OrderOK, Caches
<1>11. discarded' \subseteq Uris /\ edits' \in 0..MaxEdits
  BY <1>1, ServerAssumption DEF DidClose, Edit, RestTyped
<1>12. IndexTyped' /\ CacheTyped' /\ RunsTyped' /\ RestTyped'
  BY <1>1, <1>2, <1>11 DEF diskVars, setVars, cacheVars, runVars, IndexTyped, CacheTyped,
                           RunsTyped, RestTyped
<1> QED
  BY <1>10, <1>12, TypesAfter

LEMMA DiskTypes ==
    ASSUME TypeInv,
           \/ \E u \in Uris : \E c \in Contents \cup {None} : WriteFile(u, c)
           \/ \E d \in Dirs : \E sc \in SidecarsOf[d] : WriteSidecar(d, sc)
           \/ UNCHANGED vars
    PROVE  TypeInv'
<1>1. DocsTyped /\ IndexTyped /\ CacheTyped /\ RunsTyped /\ RestTyped
  BY TypeParts
<1>2. UNCHANGED <<phase, docVars, setVars, cacheVars, runVars, discarded>>
  BY DEF WriteFile, WriteSidecar, vars
<1>3. DocsTyped' /\ IndexTyped' /\ CacheTyped' /\ RunsTyped'
  BY <1>1, <1>2 DEF docVars, setVars, cacheVars, runVars, DocsTyped, OrderOK, IndexTyped,
                    CacheTyped, RunsTyped
<1> DEFINE Written == /\ file' \in Caches /\ sidecar' \in [Dirs -> Sidecars]
                      /\ watched' \subseteq Events /\ unreported' \subseteq Uris
                      /\ edits' \in 0..MaxEdits
<1>4. Written
  <2>1. ASSUME NEW u \in Uris, NEW c \in Contents \cup {None}, WriteFile(u, c)
        PROVE  Written
    BY <1>1, <2>1, ServerAssumption DEF WriteFile, Edit, Events, RestTyped, Caches
  <2>2. ASSUME NEW d \in Dirs, NEW sc \in SidecarsOf[d], WriteSidecar(d, sc)
        PROVE  Written
    BY <1>1, <2>2, ServerAssumption DEF WriteSidecar, Edit, Events, RestTyped
  <2>3. CASE UNCHANGED vars
    BY <1>1, <2>3 DEF vars, diskVars, RestTyped
  <2> QED
    BY <2>1, <2>2, <2>3
<1>5. RestTyped'
  BY <1>1, <1>2, <1>4 DEF setVars, runVars, RestTyped
<1> QED
  BY <1>3, <1>5, TypesAfter

LEMMA NextTypes ==
    ASSUME TypeInv, [Next]_vars
    PROVE  TypeInv'
<1>1. ASSUME NEW u \in Uris, NEW c \in TextsOf[u] PROVE c \in Contents \cup {None}
  BY ServerAssumption
<1>2. CASE \E stg \in SettingsSet : Initialized(stg) \/ Configure(stg)
  BY <1>2, InitializedTypes, ConfigureTypes
<1>3. CASE \E u \in Uris : \E c \in TextsOf[u] \ {None} : DidOpen(u, c) \/ DidChange(u, c)
  BY <1>1, <1>3, DidOpenTypes, DidChangeTypes
<1>4. CASE \E key \in Uris : TimerFires(key)
  BY <1>4, TimerTypes
<1>5. CASE \E batch \in SUBSET watched : WatchedFiles(batch)
  BY <1>5, WatchedTypes
<1>6. CASE \E t \in inflight : Settle(t)
  BY <1>6, SettleTypes
<1>7. CASE \E u \in Uris : Request(u) \/ DidClose(u)
  BY <1>7, RequestTypes, DidCloseTypes
<1>8. CASE \/ \E u \in Uris : \E c \in Contents \cup {None} : WriteFile(u, c)
           \/ \E d \in Dirs : \E sc \in SidecarsOf[d] : WriteSidecar(d, sc)
           \/ UNCHANGED vars
  BY <1>8, DiskTypes
<1> QED
  BY <1>1, <1>2, <1>3, <1>4, <1>5, <1>6, <1>7, <1>8 DEF Next, Handler, Client

(* Every value the server's variables take is of its type: the documents   *)
(* the server validates are open, the sets it publishes to are of files of *)
(* the workspace, and the roots it scans are directories (every handler of *)
(* server.ts).                                                             *)
THEOREM ServerTypesHold == Spec => []TypeOK
<1>1. Init => TypeInv
  BY InitTypes
<1>2. TypeInv /\ [Next]_vars => TypeInv'
  BY NextTypes
<1>3. TypeInv => TypeOK
  BY DEF TypeInv
<1> QED
  BY <1>1, <1>2, <1>3, PTL DEF Spec

----------------------------------------------------------------------------
(* The disk cache.                                                         *)
diskText(u) == IF file[u] # None THEN file[u] ELSE Empty
Current(cache, ok) == \A u \in ok : cache[u] # None => cache[u] = diskText(u)
Delivered == { u \in Uris \ unreported : ~ eventPending(u) }

DiskInv == TypeInv /\ DiskCacheStaleOnlyBeforeEvent

LEMMA DeliveredCurrent ==
    DiskCacheStaleOnlyBeforeEvent <=> Current(diskCache, Delivered)
  BY DEF DiskCacheStaleOnlyBeforeEvent, Current, Delivered, diskText

LEMMA DeliveredCurrentAfter ==
    ASSUME file' = file, Current(diskCache', Delivered')
    PROVE  DiskCacheStaleOnlyBeforeEvent'
  BY DEF DiskCacheStaleOnlyBeforeEvent, Current, Delivered, diskText

(* What is read is cached, or on the disk.                                 *)
LEMMA WarmCurrent ==
    ASSUME NEW cache, NEW ok \in SUBSET Uris, Current(cache, ok), NEW read
    PROVE  Current(warmDisk(cache, read), ok)
  BY DEF Current, warmDisk, readDisk, diskText

(* A handler that reads members and neither writes nor is told of files.   *)
LEMMA ReadingKeepsDisk ==
    ASSUME DiskInv, file' = file, watched' = watched, unreported' = unreported,
           diskCache' = diskCache \/ \E read : diskCache' = warmDisk(diskCache, read)
    PROVE  DiskCacheStaleOnlyBeforeEvent'
<1>1. Delivered' = Delivered /\ Delivered \in SUBSET Uris
  BY DEF Delivered, eventPending
<1>2. Current(diskCache, Delivered)
  BY DeliveredCurrent DEF DiskInv
<1>3. Current(diskCache', Delivered)
  BY <1>1, <1>2, WarmCurrent
<1> QED
  BY <1>1, <1>3, DeliveredCurrentAfter

(* A batch of events drops the entries of its files.                       *)
LEMMA WatchedKeepsDisk ==
    ASSUME DiskInv, NEW batch, WatchedFiles(batch)
    PROVE  DiskCacheStaleOnlyBeforeEvent'
<1> DEFINE gone == { e.uri : e \in { f \in batch : f.kind # "sidecar" } }
<1>1. /\ file' = file /\ watched' = watched \ batch /\ unreported' = unreported
      /\ \E read : diskCache' = warmDisk(without(diskCache, gone), read)
  BY DEF WatchedFiles, diskVars
<1>2. Current(diskCache, Delivered)
  BY DeliveredCurrent DEF DiskInv
<1>3. \A u \in Delivered' : u \in Uris /\ (u \in gone \/ u \in Delivered)
  BY <1>1 DEF Delivered, eventPending
<1>4. Current(without(diskCache, gone), Delivered') /\ Delivered' \in SUBSET Uris
  BY <1>2, <1>3 DEF Current, without
<1>5. Current(diskCache', Delivered')
  BY <1>1, <1>4, WarmCurrent
<1> QED
  BY <1>1, <1>5, DeliveredCurrentAfter

(* A file that is written where the client watches has its event to come.  *)
LEMMA WriteIsNoted ==
    ASSUME NEW u \in Uris, NEW c, WriteFile(u, c)
    PROVE  /\ watched \subseteq watched' /\ unreported \subseteq unreported'
           /\ \/ eventPending(u)'
              \/ u \in unreported' /\ watched' = watched
<1> DEFINE kind == IF c = None THEN "deleted" ELSE IF file[u] = None THEN "created"
                   ELSE "changed"
           e    == [ kind |-> kind, uri |-> u ]
<1>1. kind # "sidecar" /\ e.kind = kind /\ e.uri = u
  OBVIOUS
<1>2. CASE isReported(DirOf[u])
  <2>1. watched' = watched \cup {e} /\ unreported' = unreported
    BY <1>2 DEF WriteFile
  <2> HIDE DEF e, kind
  <2> QED
    BY <1>1, <2>1 DEF eventPending
<1>3. CASE ~ isReported(DirOf[u])
  BY <1>3 DEF WriteFile
<1> QED
  BY <1>2, <1>3

LEMMA WriteKeepsDisk ==
    ASSUME DiskInv, NEW u \in Uris, NEW c \in Contents \cup {None}, WriteFile(u, c)
    PROVE  DiskCacheStaleOnlyBeforeEvent'
<1>1. /\ file' = [file EXCEPT ![u] = c] /\ file \in Caches /\ diskCache' = diskCache
  BY DEF WriteFile, cacheVars, DiskInv, TypeInv, TypeOK, Caches
<1>2. /\ watched \subseteq watched' /\ unreported \subseteq unreported'
      /\ eventPending(u)' \/ u \in unreported'
  BY WriteIsNoted
<1>3. ASSUME NEW v \in Uris \ unreported', ~ eventPending(v)'
      PROVE  /\ v # u /\ v \notin unreported
             /\ ~ eventPending(v) /\ file'[v] = file[v]
  BY <1>1, <1>2, <1>3 DEF eventPending, Caches
<1> QED
  BY <1>1, <1>3 DEF DiskInv, DiskCacheStaleOnlyBeforeEvent

LEMMA NextKeepsDisk ==
    ASSUME DiskInv, [Next]_vars
    PROVE  DiskInv'
<1>1. TypeInv'
  BY NextTypes DEF DiskInv
<1>2. CASE \E batch \in SUBSET watched : WatchedFiles(batch)
  BY <1>1, <1>2, WatchedKeepsDisk DEF DiskInv
<1>3. CASE \E u \in Uris : \E c \in TextsOf[u] : WriteFile(u, c)
  <2>1. \A u \in Uris : \A c \in TextsOf[u] : c \in Contents \cup {None}
    BY ServerAssumption
  <2> QED
    BY <1>1, <1>3, <2>1, WriteKeepsDisk DEF DiskInv
<1>4. ASSUME NEW d \in Dirs, NEW sc \in SidecarsOf[d], WriteSidecar(d, sc)
      PROVE  DiskCacheStaleOnlyBeforeEvent'
  BY <1>4 DEF WriteSidecar, cacheVars, DiskInv, DiskCacheStaleOnlyBeforeEvent, eventPending
<1>5. ASSUME NEW stg \in SettingsSet, Initialized(stg)
      PROVE  DiskCacheStaleOnlyBeforeEvent'
  <2>1. /\ file' = file /\ watched' = watched /\ unreported' = unreported
        /\ \E read : diskCache' = warmDisk(diskCache, read)
    BY <1>5 DEF Initialized, diskVars
  <2> QED
    BY <2>1, ReadingKeepsDisk
<1>6. ASSUME NEW stg \in SettingsSet, Configure(stg)
      PROVE  DiskCacheStaleOnlyBeforeEvent'
  <2>1. /\ file' = file /\ watched' = watched /\ unreported' = unreported
        /\ \E read : diskCache' = warmDisk(diskCache, read)
    BY <1>6 DEF Configure, diskVars
  <2> QED
    BY <2>1, ReadingKeepsDisk
<1>7. ASSUME NEW u \in Uris, NEW c, DidOpen(u, c)
      PROVE  DiskCacheStaleOnlyBeforeEvent'
  <2>1. /\ file' = file /\ watched' = watched /\ unreported' = unreported
        /\ diskCache' = diskCache \/ \E read : diskCache' = warmDisk(diskCache, read)
    BY <1>7 DEF DidOpen, diskVars, cacheVars
  <2> QED
    BY <2>1, ReadingKeepsDisk
<1>8. ASSUME NEW key \in Uris, TimerFires(key)
      PROVE  DiskCacheStaleOnlyBeforeEvent'
  <2>1. /\ file' = file /\ watched' = watched /\ unreported' = unreported
        /\ \E read : diskCache' = warmDisk(diskCache, read)
    BY <1>8 DEF TimerFires, diskVars
  <2> QED
    BY <2>1, ReadingKeepsDisk
<1>9. ASSUME NEW u \in Uris, Request(u)
      PROVE  DiskCacheStaleOnlyBeforeEvent'
  <2>1. /\ file' = file /\ watched' = watched /\ unreported' = unreported
        /\ \E read : diskCache' = warmDisk(diskCache, read)
    BY <1>9 DEF Request, diskVars
  <2> QED
    BY <2>1, ReadingKeepsDisk
<1>10. CASE \/ \E u \in Uris : \E c \in TextsOf[u] \ {None} : DidChange(u, c)
            \/ \E u \in Uris : DidClose(u)
            \/ \E t \in inflight : Settle(t)
            \/ UNCHANGED vars
  <2>1. /\ file' = file /\ watched' = watched /\ unreported' = unreported
        /\ diskCache' = diskCache
    BY <1>10 DEF DidChange, DidClose, Settle, vars, diskVars, cacheVars
  <2> QED
    BY <1>1, <2>1, ReadingKeepsDisk DEF DiskInv
<1> QED
  BY <1>1, <1>2, <1>3, <1>4, <1>5, <1>6, <1>7, <1>8, <1>9, <1>10
     DEF Next, Handler, Client, DiskInv

LEMMA InitDisk == Init => DiskInv
  BY InitTypes DEF Init, DiskInv, DiskCacheStaleOnlyBeforeEvent, EmptyCache

(* An entry of the disk cache that no longer agrees with the disk has its  *)
(* file event still to come (readDisk, onDidChangeWatchedFiles).           *)
THEOREM DiskCacheExplained == Spec => []DiskCacheStaleOnlyBeforeEvent
<1>1. DiskInv /\ [Next]_vars => DiskInv'
  BY NextKeepsDisk
<1>2. DiskInv => DiskCacheStaleOnlyBeforeEvent
  BY DEF DiskInv
<1> QED
  BY <1>1, <1>2, InitDisk, PTL DEF Spec

----------------------------------------------------------------------------
(* The set-model cache.  A model fits its set when it covers the set and   *)
(* holds the current text of every member that nothing excuses; "off" are  *)
(* members it need not hold.                                               *)
SharedIn(index, u) == \E a, b \in DOMAIN index.sets :
                         a # b /\ u \in Members(index, a) \cap Members(index, b)
Excused(index, u) == \/ eventPending(u)' \/ u \in discarded' \/ SharedIn(index, u)
                     \/ isUnheard(u)'
Fits(index, models, off) ==
    \A a \in Uris : models[a] # None =>
        /\ a \in DOMAIN index.sets /\ DOMAIN models[a] = Members(index, a)
        /\ \A m \in Members(index, a) \ off :
              models[a][m] = currentText(m)' \/ Excused(index, m)

ModelsInv == BuffersInv /\ DiskInv /\ CachedModelsExplained

LEMMA FitsAfter ==
    ASSUME Fits(configSetIndex', setModelCache', {})
    PROVE  CachedModelsExplained'
  BY DEF Fits, Excused, SharedIn, CachedModelsExplained, Cached, isShared

LEMMA NothingFits ==
    ASSUME NEW index, NEW models, NothingCached(models), NEW off
    PROVE  Fits(index, models, off)
  BY DEF Fits, NothingCached

LEMMA EmptyFits ==
    ASSUME NEW index, NEW off
    PROVE  Fits(index, EmptyCache, off)
  BY DEF Fits, EmptyCache

(* A cache from before the step, seen from after it: it still fits, except *)
(* for the members of which what was true is true no longer.               *)
LEMMA KeptFits ==
    ASSUME ModelsInv, NEW off,
           \A m \in Uris \ off :
              \/ Excused(configSetIndex, m)
              \/ /\ currentText(m)' = currentText(m)
                 /\ eventPending(m) => eventPending(m)'
                 /\ m \in discarded => m \in discarded'
                 /\ isUnheard(m) => isUnheard(m)'
    PROVE  Fits(configSetIndex, setModelCache, off)
<1> SUFFICES ASSUME NEW a \in Uris, setModelCache[a] # None
             PROVE  /\ a \in DOMAIN configSetIndex.sets
                    /\ DOMAIN setModelCache[a] = Members(configSetIndex, a)
                    /\ \A m \in Members(configSetIndex, a) \ off :
                          \/ setModelCache[a][m] = currentText(m)'
                          \/ Excused(configSetIndex, m)
  BY DEF Fits
<1>1. /\ a \in DOMAIN configSetIndex.sets
      /\ DOMAIN setModelCache[a] = Members(configSetIndex, a)
      /\ \A m \in DOMAIN setModelCache[a] :
            setModelCache[a][m] = currentText(m)
              \/ eventPending(m) \/ m \in discarded \/ isShared(m)
              \/ isUnheard(m)
  BY DEF ModelsInv, CachedModelsExplained, Cached
<1>2. Members(configSetIndex, a) \in SUBSET Uris
  BY <1>1, SetsOK DEF ModelsInv, DiskInv, TypeInv
<1>3. ASSUME NEW m \in Members(configSetIndex, a) \ off
      PROVE  setModelCache[a][m] = currentText(m)' \/ Excused(configSetIndex, m)
  <2>1. m \in Uris \ off /\ (isShared(m) => SharedIn(configSetIndex, m))
    BY <1>2 DEF isShared, SharedIn
  <2> QED
    BY <1>1, <2>1 DEF Excused
<1> QED
  BY <1>1, <1>3

(* What is read of a member is its current text, unless the disk cache has *)
(* an older one, whose event is then to come.                              *)
LEMMA TextExplained ==
    ASSUME file' = file, NEW index, NEW cache, Current(cache, Delivered'), NEW m \in Uris
    PROVE  memberText(cache, m) = currentText(m)' \/ Excused(index, m)
<1>1. CASE text'[m] # None
  BY <1>1 DEF memberText, currentText, isOpen
<1>2. CASE text'[m] = None
  <2>1. memberText(cache, m) = readDisk(cache, m) /\ currentText(m)' = diskText(m)
    BY <1>2 DEF memberText, currentText, isOpen, diskText
  <2>2. Excused(index, m) \/ m \in Delivered'
    BY <1>2 DEF Delivered, Excused, isUnheard, isOpen
  <2> QED
    BY <2>1, <2>2 DEF readDisk, Current, diskText
<1> QED
  BY <1>1, <1>2

(* So is what a model built now holds of every member.                     *)
LEMMA WarmFits ==
    ASSUME file' = file, NEW index, NEW models, NEW cache, NEW off,
           Fits(index, models, off), Current(cache, Delivered'),
           NEW used, used \subseteq DOMAIN index.sets,
           \A a \in used : Members(index, a) \in SUBSET Uris
    PROVE  Fits(index, warmModels(index, models, cache, used), off)
<1> DEFINE warm == warmModels(index, models, cache, used)
<1>1. \A m \in Uris : memberText(cache, m) = currentText(m)' \/ Excused(index, m)
  BY TextExplained
<1> SUFFICES ASSUME NEW a \in Uris, warm[a] # None
             PROVE  /\ a \in DOMAIN index.sets /\ DOMAIN warm[a] = Members(index, a)
                    /\ \A m \in Members(index, a) \ off :
                          warm[a][m] = currentText(m)' \/ Excused(index, m)
  BY DEF Fits
<1>2. CASE models[a] = None /\ a \in used
  <2>1. warm[a] = [ m \in Members(index, a) |-> memberText(cache, m) ]
    BY <1>2 DEF warmModels
  <2> HIDE DEF warm
  <2> QED
    BY <1>1, <1>2, <2>1
<1>3. CASE ~ (models[a] = None /\ a \in used)
  <2>1. warm[a] = models[a]
    BY <1>3 DEF warmModels
  <2> HIDE DEF warm
  <2> QED
    BY <2>1 DEF Fits
<1> QED
  BY <1>2, <1>3

(* Dropping the model of the set that answers for a member leaves the      *)
(* member only in models of sets that share it.                            *)
LEMMA DroppedFits ==
    ASSUME NEW index, IndexOK(index), NEW models, NEW off, Fits(index, models, off),
           NEW keys, \A u \in off : getSetForUri(index, u) \in keys
    PROVE  Fits(index, without(models, keys), {})
<1> DEFINE left == without(models, keys)
<1> SUFFICES ASSUME NEW a \in Uris, left[a] # None
             PROVE  /\ a \in DOMAIN index.sets /\ DOMAIN left[a] = Members(index, a)
                    /\ \A m \in Members(index, a) \ {} :
                          left[a][m] = currentText(m)' \/ Excused(index, m)
  BY DEF Fits
<1>1. a \notin keys /\ left[a] = models[a]
  BY DEF without
<1> HIDE DEF left
<1>2. /\ a \in DOMAIN index.sets /\ DOMAIN left[a] = Members(index, a)
      /\ \A m \in Members(index, a) \ off :
            left[a][m] = currentText(m)' \/ Excused(index, m)
  BY <1>1 DEF Fits
<1>3. ASSUME NEW m \in Members(index, a), m \in off
      PROVE  SharedIn(index, m)
  <2> DEFINE b == getSetForUri(index, m)
  <2>1. m \in Uris /\ b # None
    BY <1>2, <1>3, SetsOK DEF IndexOK, Members
  <2>2. b \in DOMAIN index.sets /\ m \in Members(index, b)
    BY <2>1, AnsweringSet
  <2>3. b # a
    BY <1>1, <1>3
  <2> QED
    BY <1>2, <1>3, <2>2, <2>3 DEF SharedIn
<1> QED
  BY <1>2, <1>3 DEF Excused

(* Validations use models of sets of the index.                            *)
LEMMA UsedSets ==
    ASSUME NEW index, IndexOK(index), NEW models, NEW cache
    PROVE  /\ \A at : \A u \in Uris : docRun(at, index, models, cache, u).anchor
                                        \in DOMAIN index.sets \cup {None}
           /\ \A stage : anchorsOf(validateAllSets(stage, index, models, cache))
                           \subseteq DOMAIN index.sets
           /\ order' \in Seq(Uris) => \A stage :
                 anchorsOf(validateAllDocs(stage, index, models, cache))
                   \subseteq DOMAIN index.sets
<1>1. ASSUME NEW at, NEW u \in Uris
      PROVE  docRun(at, index, models, cache, u).anchor \in DOMAIN index.sets \cup {None}
  BY AnsweringSet DEF docRun, Run
<1>2. ASSUME NEW at, NEW a \in DOMAIN index.sets
      PROVE  setRun(at, index, models, cache, a).anchor \in DOMAIN index.sets \cup {None}
  BY <1>1, FirstOpenTyped DEF setRun, Run
<1>3. ASSUME NEW stage
      PROVE  anchorsOf(validateAllSets(stage, index, models, cache)) \subseteq DOMAIN index.sets
  BY <1>2 DEF anchorsOf, validateAllSets, allSets
<1>4. ASSUME order' \in Seq(Uris), NEW stage
      PROVE  anchorsOf(validateAllDocs(stage, index, models, cache)) \subseteq DOMAIN index.sets
  <2>1. \A i \in DOMAIN order' : order'[i] \in Uris
    BY <1>4
  <2> QED
    BY <1>1, <2>1 DEF anchorsOf, validateAllDocs
<1> QED
  BY <1>1, <1>3, <1>4

LEMMA InvParts ==
    ASSUME ModelsInv
    PROVE  /\ IndexOK(configSetIndex) /\ configSetIndex.roots \in Seq(Dirs)
           /\ workspaceRoots \in Seq(Dirs) /\ configSetIndex.opts \in Options
           /\ file \in Caches /\ sidecar \in [Dirs -> Sidecars]
           /\ text \in Caches /\ order \in Seq(Uris)
           /\ Current(diskCache, Delivered)
  BY TypeParts, DeliveredCurrent
     DEF ModelsInv, DiskInv, IndexTyped, IndexOK, RestTyped, DocsTyped

LEMMA InitializedFits ==
    ASSUME ModelsInv, TypeInv', NEW stg \in SettingsSet, Initialized(stg)
    PROVE  CachedModelsExplained'
<1>1. PICK final, added, i, j :
        LET kept == keptAfter(added, setModelCache)
        IN  /\ configSetIndex' = final
            /\ setModelCache' = warmModels(final, kept, diskCache,
                  anchorsOf(validateAllSets(i, final, kept, diskCache)
                              \cup validateAllDocs(j, final, kept, diskCache)))
  BY DEF Initialized
<1> DEFINE kept == keptAfter(added, setModelCache)
           runs == validateAllSets(i, final, kept, diskCache)
                     \cup validateAllDocs(j, final, kept, diskCache)
<1>2. /\ file' = file /\ Delivered' = Delivered /\ order' \in Seq(Uris)
      /\ IndexOK(final) /\ Current(diskCache, Delivered)
  BY <1>1, InvParts DEF Initialized, diskVars, docVars, Delivered, eventPending, TypeInv
<1>3. NothingCached(kept)
  BY DEF ModelsInv, BuffersInv, StartsEmpty, Initialized, keptAfter, EmptyCache, NothingCached
<1> HIDE DEF kept
<1>4. anchorsOf(runs) \subseteq DOMAIN final.sets
  <2>1. /\ anchorsOf(validateAllSets(i, final, kept, diskCache)) \subseteq DOMAIN final.sets
        /\ anchorsOf(validateAllDocs(j, final, kept, diskCache)) \subseteq DOMAIN final.sets
    BY <1>2, UsedSets
  <2> QED
    BY <2>1, UsedTogether
<1>5. \A a \in anchorsOf(runs) : Members(final, a) \in SUBSET Uris
  BY <1>2, <1>4, SetsOK
<1>6. setModelCache' = warmModels(final, kept, diskCache, anchorsOf(runs))
  BY <1>1 DEF kept
<1> HIDE DEF runs
<1>7. Fits(final, kept, {})
  BY <1>3, NothingFits
<1>8. Fits(final, setModelCache', {})
  BY <1>2, <1>4, <1>5, <1>6, <1>7, WarmFits
<1> QED
  BY <1>1, <1>8, FitsAfter

LEMMA ConfigureFits ==
    ASSUME ModelsInv, TypeInv', NEW stg \in SettingsSet, Configure(stg)
    PROVE  CachedModelsExplained'
<1>1. PICK index :
        /\ configSetIndex' = index
        /\ setModelCache' = warmModels(index, EmptyCache, diskCache,
              anchorsOf(validateAllSets(1, index, EmptyCache, diskCache)
                          \cup validateAllDocs(2, index, EmptyCache, diskCache)))
  BY DEF Configure
<1> DEFINE runs == validateAllSets(1, index, EmptyCache, diskCache)
                     \cup validateAllDocs(2, index, EmptyCache, diskCache)
<1>2. /\ file' = file /\ Delivered' = Delivered /\ order' \in Seq(Uris)
      /\ IndexOK(index) /\ Current(diskCache, Delivered)
  BY <1>1, InvParts DEF Configure, diskVars, docVars, Delivered, eventPending, TypeInv
<1>3. anchorsOf(runs) \subseteq DOMAIN index.sets
  <2>1. /\ anchorsOf(validateAllSets(1, index, EmptyCache, diskCache)) \subseteq DOMAIN index.sets
        /\ anchorsOf(validateAllDocs(2, index, EmptyCache, diskCache)) \subseteq DOMAIN index.sets
    BY <1>2, UsedSets
  <2> QED
    BY <2>1, UsedTogether
<1>4. \A a \in anchorsOf(runs) : Members(index, a) \in SUBSET Uris
  BY <1>2, <1>3, SetsOK
<1> HIDE DEF runs
<1>5. Fits(index, setModelCache', {})
  BY <1>1, <1>2, <1>3, <1>4, EmptyFits, WarmFits DEF runs
<1> QED
  BY <1>1, <1>5, FitsAfter

(* Opening or changing a document: what was true of other members still is.*)
LEMMA OtherMembersFit ==
    ASSUME ModelsInv, NEW u \in Uris, NEW c, DidOpen(u, c) \/ DidChange(u, c)
    PROVE  /\ Fits(configSetIndex, setModelCache, {u})
           /\ ~ shouldServe(u, c) /\ c # None => Fits(configSetIndex, setModelCache, {})
<1>1. /\ text' = [text EXCEPT ![u] = c] /\ text \in Caches
      /\ adoptedYamlUris' = adoptedYamlUris \cup adopting(u, c)
      /\ settings' = settings /\ file' = file /\ watched' = watched
      /\ unreported' = unreported
      /\ discarded' \in {discarded, discarded \ {u}}
  BY InvParts DEF DidOpen, DidChange, diskVars
<1>2. ASSUME NEW m \in Uris \ {u}
      PROVE  /\ currentText(m)' = currentText(m)
             /\ eventPending(m) => eventPending(m)'
             /\ m \in discarded => m \in discarded'
             /\ isUnheard(m) => isUnheard(m)'
  <2>1. text'[m] = text[m]
    BY <1>1 DEF Caches
  <2>2. isServed(m)' <=> isServed(m)
    BY <1>1, ServedOthers
  <2> QED
    BY <1>1, <2>1, <2>2 DEF currentText, isOpen, eventPending, isUnheard
<1>3. Fits(configSetIndex, setModelCache, {u})
  BY <1>2, KeptFits
<1>4. ASSUME ~ shouldServe(u, c), c # None
      PROVE  Fits(configSetIndex, setModelCache, {})
  <2>1. isOpen(u)'
    BY <1>1, <1>4 DEF isOpen, Caches
  <2>2. ~ isServed(u)'
    BY <1>1, <1>4, NotServed
  <2>3. Excused(configSetIndex, u)
    BY <2>1, <2>2 DEF Excused, isUnheard
  <2> QED
    BY <1>2, <2>3, KeptFits
<1> QED
  BY <1>3, <1>4

LEMMA DidOpenFits ==
    ASSUME ModelsInv, TypeInv', NEW u \in Uris, NEW c \in Contents, DidOpen(u, c)
    PROVE  CachedModelsExplained'
<1>1. /\ Fits(configSetIndex, setModelCache, {u})
      /\ ~ shouldServe(u, c) => Fits(configSetIndex, setModelCache, {})
  BY OtherMembersFit, ContentsAssumption
<1>2. CASE ~ shouldServe(u, c)
  BY <1>1, <1>2, FitsAfter DEF DidOpen, cacheVars
<1>3. CASE shouldServe(u, c)
  <2> DEFINE isNew == ensureRoot(workspaceRoots, u) # workspaceRoots
             kept  == keptAfter(isNew, setModelCache)
             index == configSetIndex'
             runs  == {docRun(<<2, 1>>, index, kept, diskCache, u)} \cup
                      (IF isNew THEN validateAllSets(1, index, kept, diskCache) ELSE {})
             warm  == warmModels(index, kept, diskCache, anchorsOf(runs))
  <2>1. setModelCache' = without(warm, {getSetForUri(index, u)})
    BY <1>3 DEF DidOpen
  <2>2. ~ isNew => index = configSetIndex
    BY <1>3 DEF DidOpen
  <2>3. /\ file' = file /\ Delivered' = Delivered
        /\ IndexOK(index) /\ Current(diskCache, Delivered)
    BY InvParts DEF DidOpen, diskVars, Delivered, eventPending, TypeInv
  <2>4. Fits(index, kept, {u})
    BY <1>1, <2>2, EmptyFits DEF keptAfter
  <2> HIDE DEF index, kept, isNew
  <2>5. anchorsOf(runs) \subseteq DOMAIN index.sets
    <3>1. anchorsOf({docRun(<<2, 1>>, index, kept, diskCache, u)}) \subseteq DOMAIN index.sets
      BY <2>3, UsedSets DEF anchorsOf
    <3>2. anchorsOf(IF isNew THEN validateAllSets(1, index, kept, diskCache) ELSE {})
            \subseteq DOMAIN index.sets
      BY <2>3, UsedSets DEF anchorsOf
    <3> QED
      BY <3>1, <3>2, UsedTogether
  <2>6. \A a \in anchorsOf(runs) : Members(index, a) \in SUBSET Uris
    BY <2>3, <2>5, SetsOK
  <2> HIDE DEF runs
  <2>7. Fits(index, warm, {u})
    BY <2>3, <2>4, <2>5, <2>6, WarmFits
  <2> HIDE DEF warm
  <2>8. Fits(index, setModelCache', {})
    BY <2>1, <2>3, <2>7, DroppedFits
  <2> QED
    BY <2>8, FitsAfter DEF index
<1> QED
  BY <1>2, <1>3

LEMMA DidChangeFits ==
    ASSUME ModelsInv, NEW u \in Uris, NEW c \in Contents, DidChange(u, c)
    PROVE  CachedModelsExplained'
<1>1. /\ Fits(configSetIndex, setModelCache, {u})
      /\ ~ shouldServe(u, c) => Fits(configSetIndex, setModelCache, {})
  BY OtherMembersFit, ContentsAssumption
<1>2. configSetIndex' = configSetIndex /\ IndexOK(configSetIndex)
  BY InvParts DEF DidChange
<1>3. CASE ~ shouldServe(u, c)
  BY <1>1, <1>2, <1>3, FitsAfter DEF DidChange
<1>4. CASE shouldServe(u, c)
  <2>1. setModelCache' = without(setModelCache, {getSetForUri(configSetIndex, u)})
    BY <1>4 DEF DidChange
  <2>2. Fits(configSetIndex, setModelCache', {})
    BY <1>1, <1>2, <2>1, DroppedFits
  <2> QED
    BY <1>2, <2>2, FitsAfter
<1> QED
  BY <1>3, <1>4

(* Building models for open documents and for requests.                    *)
LEMMA WarmingFits ==
    ASSUME ModelsInv, UNCHANGED <<diskVars, docVars, setVars, watched, discarded>>,
           NEW used, used \subseteq DOMAIN configSetIndex.sets,
           setModelCache' = warmModels(configSetIndex, setModelCache, diskCache, used)
    PROVE  CachedModelsExplained'
<1>1. /\ UNCHANGED <<file, text, settings, adoptedYamlUris, configSetIndex, watched, discarded,
                     unreported>>
      /\ Delivered' = Delivered
  BY DEF diskVars, docVars, setVars, Delivered, eventPending
<1>2. IndexOK(configSetIndex) /\ Current(diskCache, Delivered)
  BY InvParts
<1>3. Fits(configSetIndex, setModelCache, {})
  BY <1>1, KeptFits DEF currentText, isOpen, eventPending, isServed, isUnheard
<1>4. \A a \in used : Members(configSetIndex, a) \in SUBSET Uris
  BY <1>2, SetsOK
<1>5. Fits(configSetIndex, setModelCache', {})
  BY <1>1, <1>2, <1>3, <1>4, WarmFits
<1> QED
  BY <1>1, <1>5, FitsAfter

LEMMA TimerFits ==
    ASSUME ModelsInv, NEW key \in Uris, TimerFires(key)
    PROVE  CachedModelsExplained'
<1> DEFINE u    == validateTimers[key]
           a    == getSetForUri(configSetIndex, u)
           doc  == IF a # None THEN firstOpen(configSetIndex, a)
                   ELSE IF text[u] # None THEN u ELSE None
           runs == IF doc = None THEN {}
                   ELSE {docRun(<<1, 1>>, configSetIndex, setModelCache, diskCache, doc)}
<1>1. /\ u # None /\ validateTimers \in [Uris -> Uris \cup {None}]
      /\ UNCHANGED <<diskVars, docVars, setVars, watched, discarded>>
      /\ setModelCache' =
            warmModels(configSetIndex, setModelCache, diskCache, anchorsOf(runs))
  BY DEF TimerFires, ModelsInv, BuffersInv, ShapesOK
<1>2. u \in Uris /\ IndexOK(configSetIndex)
  BY <1>1, InvParts
<1>3. doc # None => doc \in Uris
  BY <1>2, AnsweringSet, FirstOpenTyped
<1> HIDE DEF doc
<1>4. anchorsOf(runs) \subseteq DOMAIN configSetIndex.sets
  <2>1. CASE doc = None
    BY <2>1 DEF anchorsOf
  <2>2. CASE doc # None
    <3>1. docRun(<<1, 1>>, configSetIndex, setModelCache, diskCache, doc).anchor
            \in DOMAIN configSetIndex.sets \cup {None}
      BY <1>2, <1>3, <2>2, UsedSets
    <3>2. runs = {docRun(<<1, 1>>, configSetIndex, setModelCache, diskCache, doc)}
      BY <2>2
    <3> HIDE DEF runs
    <3> QED
      BY <3>1, <3>2 DEF anchorsOf
  <2> QED
    BY <2>1, <2>2
<1> HIDE DEF runs
<1> QED
  BY <1>1, <1>4, WarmingFits

LEMMA RequestFits ==
    ASSUME ModelsInv, NEW u \in Uris, Request(u)
    PROVE  CachedModelsExplained'
<1> DEFINE a == getSetForUri(configSetIndex, u)
<1>1. /\ a # None /\ UNCHANGED <<diskVars, docVars, setVars, watched, discarded>>
      /\ setModelCache' = warmModels(configSetIndex, setModelCache, diskCache, {a})
  BY DEF Request
<1>2. {a} \subseteq DOMAIN configSetIndex.sets
  BY <1>1, InvParts, AnsweringSet
<1> HIDE DEF a
<1> QED
  BY <1>1, <1>2, WarmingFits

(* A batch of events drops the entries of its files and the models they    *)
(* are answered from: what is left explains itself.                        *)
LEMMA WatchedReads ==
    ASSUME ModelsInv, IndexOK(configSetIndex'), NEW batch, WatchedFiles(batch)
    PROVE  LET rescan == \E e \in batch : e.kind # "changed"
               gone   == { e.uri : e \in { f \in batch : f.kind # "sidecar" } }
               stale  == { getSetForUri(configSetIndex, u) : u \in gone }
           IN  /\ Current(without(diskCache, gone), Delivered')
               /\ Fits(configSetIndex', keptAfter(rescan, without(setModelCache, stale)), {})
<1> DEFINE rescan == \E e \in batch : e.kind # "changed"
           gone   == { e.uri : e \in { f \in batch : f.kind # "sidecar" } }
           stale  == { getSetForUri(configSetIndex, u) : u \in gone }
           from   == without(diskCache, gone)
           index  == configSetIndex'
           kept   == keptAfter(rescan, without(setModelCache, stale))
<1>1. /\ ~ rescan => index = configSetIndex
      /\ watched' = watched \ batch
      /\ UNCHANGED <<file, text, settings, adoptedYamlUris, discarded, unreported>>
  BY DEF WatchedFiles, diskVars, docVars
<1>2. IndexOK(configSetIndex)
  BY InvParts
<1>3. Current(from, Delivered')
  <2>1. Current(diskCache, Delivered)
    BY InvParts
  <2>2. \A u \in Delivered' : u \in Uris /\ (u \in gone \/ u \in Delivered)
    BY <1>1 DEF Delivered, eventPending
  <2> QED
    BY <2>1, <2>2 DEF Current, without
<1>4. Fits(index, kept, {})
  <2>1. CASE rescan
    BY <2>1, EmptyFits DEF keptAfter
  <2>2. CASE ~ rescan
    <3>1. \A m \in Uris \ gone : eventPending(m) => eventPending(m)'
      BY <1>1 DEF eventPending
    <3> HIDE DEF gone
    <3>2. Fits(configSetIndex, setModelCache, gone)
      BY <1>1, <3>1, KeptFits DEF currentText, isOpen, isServed, isUnheard
    <3>3. Fits(configSetIndex, without(setModelCache, stale), {})
      BY <1>2, <3>2, DroppedFits
    <3> QED
      BY <1>1, <2>2, <3>3 DEF keptAfter
  <2> QED
    BY <2>1, <2>2
<1> QED
  BY <1>3, <1>4

LEMMA WatchedFits ==
    ASSUME ModelsInv, TypeInv', NEW batch, WatchedFiles(batch)
    PROVE  CachedModelsExplained'
<1> DEFINE rescan == \E e \in batch : e.kind # "changed"
           gone   == { e.uri : e \in { f \in batch : f.kind # "sidecar" } }
           stale  == { getSetForUri(configSetIndex, u) : u \in gone }
           from   == without(diskCache, gone)
           index  == configSetIndex'
           kept   == keptAfter(rescan, without(setModelCache, stale))
           runs   == validateAllDocs(2, index, kept, from) \cup
                     (IF rescan THEN validateAllSets(1, index, kept, from) ELSE {})
<1>1. setModelCache' = warmModels(index, kept, from, anchorsOf(runs)) /\ file' = file
  BY DEF WatchedFiles, diskVars
<1>2. IndexOK(index) /\ order' \in Seq(Uris)
  BY InvParts DEF WatchedFiles, docVars, TypeInv
<1>3. Current(from, Delivered') /\ Fits(index, kept, {})
  BY <1>2, WatchedReads
<1> HIDE DEF index, kept, from, rescan
<1>4. anchorsOf(runs) \subseteq DOMAIN index.sets
  <2>1. /\ anchorsOf(validateAllDocs(2, index, kept, from)) \subseteq DOMAIN index.sets
        /\ anchorsOf(IF rescan THEN validateAllSets(1, index, kept, from) ELSE {})
              \subseteq DOMAIN index.sets
    BY <1>2, UsedSets DEF anchorsOf
  <2> QED
    BY <2>1, UsedTogether
<1>5. \A a \in anchorsOf(runs) : Members(index, a) \in SUBSET Uris
  BY <1>2, <1>4, SetsOK
<1> HIDE DEF runs
<1>6. Fits(index, setModelCache', {})
  BY <1>1, <1>3, <1>4, <1>5, WarmFits
<1> QED
  BY <1>6, FitsAfter DEF index

(* A document closes: its text was the file's, or it counts as dropped.    *)
LEMMA DidCloseFits ==
    ASSUME ModelsInv, NEW u \in Uris, DidClose(u)
    PROVE  CachedModelsExplained'
<1>1. /\ text' = [text EXCEPT ![u] = None] /\ text[u] # None /\ text \in Caches
      /\ discarded' = IF text[u] = file[u] /\ isServed(u) THEN discarded
                                                         ELSE discarded \cup {u}
      /\ UNCHANGED <<file, settings, adoptedYamlUris, configSetIndex, setModelCache, watched,
                     unreported>>
  BY InvParts DEF DidClose, diskVars, setVars, cacheVars
<1>2. ASSUME NEW m \in Uris \ {u}
      PROVE  /\ currentText(m)' = currentText(m)
             /\ eventPending(m) => eventPending(m)'
             /\ m \in discarded => m \in discarded'
             /\ isUnheard(m) => isUnheard(m)'
  BY <1>1 DEF Caches, currentText, isOpen, eventPending, isServed, isUnheard
<1>3. CASE text[u] = file[u] /\ isServed(u)
  <2>1. currentText(u)' = currentText(u) /\ discarded' = discarded
    BY <1>1, <1>3 DEF Caches, currentText, isOpen
  <2>2. /\ eventPending(u) => eventPending(u)'
        /\ ~ isUnheard(u)
    BY <1>1, <1>3 DEF eventPending, isUnheard, isOpen
  <2>3. Fits(configSetIndex, setModelCache, {})
    BY <1>2, <1>3, <2>1, <2>2, KeptFits
  <2> QED
    BY <1>1, <2>3, FitsAfter
<1>4. CASE ~ (text[u] = file[u] /\ isServed(u))
  <2>1. Excused(configSetIndex, u)
    BY <1>1, <1>4 DEF Excused
  <2>2. Fits(configSetIndex, setModelCache, {})
    BY <1>2, <2>1, KeptFits
  <2> QED
    BY <1>1, <2>2, FitsAfter
<1> QED
  BY <1>3, <1>4

(* A file that is written has its event to come, is open, or is unheard of.*)
LEMMA WriteFits ==
    ASSUME ModelsInv, NEW u \in Uris, NEW c \in Contents \cup {None}, WriteFile(u, c)
    PROVE  CachedModelsExplained'
<1>1. /\ file' = [file EXCEPT ![u] = c] /\ file \in Caches
      /\ UNCHANGED <<text, settings, adoptedYamlUris, configSetIndex, setModelCache, discarded>>
  BY InvParts DEF WriteFile, docVars, setVars, cacheVars
<1>2. /\ watched \subseteq watched' /\ unreported \subseteq unreported'
      /\ eventPending(u)' \/ u \in unreported'
  BY WriteIsNoted
<1>3. Excused(configSetIndex, u) \/ isOpen(u)
  BY <1>1, <1>2 DEF Excused, isUnheard, isOpen
<1>4. ASSUME NEW m \in Uris, m # u \/ isOpen(u)
      PROVE  /\ currentText(m)' = currentText(m)
             /\ eventPending(m) => eventPending(m)'
             /\ m \in discarded => m \in discarded'
             /\ isUnheard(m) => isUnheard(m)'
  BY <1>1, <1>2, <1>4 DEF Caches, currentText, isOpen, eventPending, isServed, isUnheard
<1>5. Fits(configSetIndex, setModelCache, {})
  BY <1>3, <1>4, KeptFits
<1> QED
  BY <1>1, <1>5, FitsAfter

LEMMA OtherFits ==
    ASSUME ModelsInv,
           \/ \E d \in Dirs : \E sc \in SidecarsOf[d] : WriteSidecar(d, sc)
           \/ \E t \in inflight : Settle(t)
           \/ UNCHANGED vars
    PROVE  CachedModelsExplained'
<1>1. /\ UNCHANGED <<file, text, settings, adoptedYamlUris, configSetIndex, setModelCache,
                     discarded, unreported>>
      /\ watched \subseteq watched'
  BY DEF WriteSidecar, Settle, vars, diskVars, docVars, setVars, cacheVars
<1>2. Fits(configSetIndex, setModelCache, {})
  BY <1>1, KeptFits DEF currentText, isOpen, eventPending, isServed, isUnheard
<1> QED
  BY <1>1, <1>2, FitsAfter

LEMMA NextFits ==
    ASSUME ModelsInv, OpenedInsideFolders', [Next]_vars
    PROVE  ModelsInv'
<1>1. BuffersInv' /\ DiskInv'
  BY NextBuffers, NextKeepsDisk DEF ModelsInv
<1>2. TypeInv'
  BY <1>1 DEF DiskInv
<1>3. ASSUME NEW u \in Uris, NEW c \in TextsOf[u] PROVE c \in Contents \cup {None}
  BY ServerAssumption
<1>4. CASE \E stg \in SettingsSet : Initialized(stg) \/ Configure(stg)
  BY <1>1, <1>2, <1>4, InitializedFits, ConfigureFits DEF ModelsInv
<1>5. CASE \E u \in Uris : \E c \in TextsOf[u] \ {None} : DidOpen(u, c) \/ DidChange(u, c)
  BY <1>1, <1>2, <1>3, <1>5, DidOpenFits, DidChangeFits DEF ModelsInv
<1>6. CASE \E key \in Uris : TimerFires(key)
  BY <1>1, <1>6, TimerFits DEF ModelsInv
<1>7. CASE \E batch \in SUBSET watched : WatchedFiles(batch)
  BY <1>1, <1>2, <1>7, WatchedFits DEF ModelsInv
<1>8. CASE \E u \in Uris : Request(u) \/ DidClose(u)
  BY <1>1, <1>8, RequestFits, DidCloseFits DEF ModelsInv
<1>9. CASE \E u \in Uris : \E c \in TextsOf[u] : WriteFile(u, c)
  BY <1>1, <1>3, <1>9, WriteFits DEF ModelsInv
<1>10. CASE \/ \E d \in Dirs : \E sc \in SidecarsOf[d] : WriteSidecar(d, sc)
            \/ \E t \in inflight : Settle(t)
            \/ UNCHANGED vars
  BY <1>1, <1>10, OtherFits DEF ModelsInv
<1> QED
  BY <1>4, <1>5, <1>6, <1>7, <1>8, <1>9, <1>10 DEF Next, Handler, Client

LEMMA InitFits == Init => ModelsInv
  BY InitBuffers, InitDisk DEF Init, ModelsInv, CachedModelsExplained, Cached, EmptyCache

(* A cached model covers exactly its set, and a member's text in it is the *)
(* current one unless a file event is still to come, a buffer was dropped  *)
(* unsaved, the member is in several sets, or its document is not served:  *)
(* nothing else makes hover, completion or a diagnostic of a closed member *)
(* stale (invalidateSetFor, buildOrReuseSetModel, memberText).             *)
THEOREM ModelsExplained ==
    Spec /\ []OpenedInsideFolders => []CachedModelsExplained
<1>1. ModelsInv /\ OpenedInsideFolders' /\ [Next]_vars => ModelsInv'
  BY NextFits
<1>2. ModelsInv => CachedModelsExplained
  BY DEF ModelsInv
<1> QED
  BY <1>1, <1>2, InitFits, PTL DEF Spec
=============================================================================
