------------------------------ MODULE Server ------------------------------
(***************************************************************************)
(* The language server of src/server/server.ts: documents, the config-set  *)
(* index, the set-model and disk caches, debounced validation, the         *)
(* forwarding of OTTL blocks and the diagnostics the client ends up with.  *)
(*                                                                         *)
(* The server is one JavaScript thread: a handler runs to its first await  *)
(* without interruption, so each handler is one action.  Two things happen *)
(* later: a debounce timer's callback, and the publication of a validation *)
(* that awaits the OTTL forwarder.                                         *)
(* In an action, \E v \in {e} : names e's value.                            *)
(*                                                                         *)
(* A diagnostic is kept as what it was computed from: the texts of the set *)
(* model and the distribution.  What is computed from them is PipelineRules*)
(* work, not this module's.                                                *)
(***************************************************************************)
EXTENDS ConfigSets, Integers, FiniteSets

CONSTANTS
    Folders,      \* the workspace folders of the initialize request
    SidecarUris,  \* documents that are sidecars; on the disk, they are "sidecar"
    SIBLING_SCAN_LIMIT,
    Lang,         \* [Uris -> {"otelcol", "yaml"}], the client's language id
    SettingsSet,  \* the configurations the client may hold
    DefaultSettings,
    TextsOf,      \* bound: the texts each file may be given, None to delete it,
    SidecarsOf,   \* bound: and the sidecars each directory may be given
    FirstFiles,   \* what the disk may hold at first,
    FirstSidecars,\* and its sidecars
    MaxEdits,     \* bound: steps of the client and of other programs
    MaxRuns       \* bound: validations awaiting the forwarder, by handler

VARIABLES
    phase,            \* "starting" until onInitialized has the settings
    file, sidecar,    \* the disk
    unreported,       \* history: files written where the client does not watch
    text,             \* documents: the text of an open document, or None
    order,            \* documents.all(): open documents, oldest first
    settings,
    workspaceRoots,
    adoptedYamlUris,
    configSetIndex,
    setModelCache,    \* anchor -> the texts of its cached model, or None
    diskCache,        \* URI -> the text read last, or None
    validateTimers,   \* key -> the URI whose change set the timer, or None
    inflight,         \* validations awaiting ottl.diagnose
    published,        \* URI -> the diagnostics the client shows, or None
    watched,          \* file events not yet delivered
    discarded,        \* history: closed URIs of which the server may hold unsaved text
    outdated,         \* history: URIs that show diagnostics of an overtaken run
    edits             \* bound: steps of the environment so far

docVars   == <<text, order>>
diskVars  == <<file, sidecar, unreported>>
cacheVars == <<setModelCache, diskCache>>
setVars   == <<settings, workspaceRoots, adoptedYamlUris, configSetIndex>>
runVars   == <<validateTimers, inflight, published, outdated>>
vars == <<phase, diskVars, docVars, setVars, cacheVars, runVars, watched, discarded, edits>>

(* A configuration, as far as the server's behaviour depends on it: "ottl" *)
(* is whether a forwarder starts.                                          *)
Settings == [ autoDiscover : BOOLEAN, maxFilesScanned : Nat, attachToYaml : BOOLEAN,
              distribution : STRING, ottl : BOOLEAN ]
Texts  == UNION { [S -> Contents] : S \in SUBSET Uris }
Diags  == [ model : Texts, distribution : STRING ]
Events == [ kind : {"created", "changed", "deleted"}, uri : Uris ]
             \cup [ kind : {"sidecar"}, dir : Dirs ]
Tags   == 1..MaxRuns

ASSUME ServerAssumption ==
    /\ Folders \in Seq(Dirs)
    /\ Lang \in [Uris -> {"otelcol", "yaml"}]
    /\ SettingsSet \subseteq Settings /\ DefaultSettings \in Settings
    /\ TextsOf \in [Uris -> SUBSET (Contents \cup {None})]
    /\ SidecarUris \subseteq Uris /\ SIBLING_SCAN_LIMIT \in Nat
    /\ \A d \in Dirs : \A sc \in SidecarsOf[d] :
          sc \in Sidecars /\ ToSet(sc.members) \cap SidecarUris = {}
    /\ \A f \in FirstFiles : /\ f \in [Uris -> Contents \cup {None}]
                             /\ \A u \in SidecarUris : f[u] = None
    /\ FirstSidecars \in [Dirs -> Sidecars]
    /\ MaxEdits \in Nat /\ MaxRuns \in Nat
    /\ None \notin Diags

optionsOf(stg) == [ autoDiscover |-> stg.autoDiscover,
                    maxFilesScanned |-> stg.maxFilesScanned ]
EmptyCache == [ u \in Uris |-> None ]

(* Mutant of without: nothing is invalidated.                              *)
withoutNothing(cache, keys) == cache
(* The entries of either cache that an event invalidates are dropped;      *)
without(cache, keys) == [ k \in Uris |-> IF k \in keys THEN None ELSE cache[k] ]

(* Mutant of keptAfter: the models outlive the sets they were built for.   *)
keptForever(rescanned, models) == models
(* a rescan drops every model.                                             *)
keptAfter(rescanned, models) == IF rescanned THEN EmptyCache ELSE models

----------------------------------------------------------------------------
(* Reading a member: an open document's buffer, else the disk cache, else  *)
(* the disk; an unreadable file reads as the empty text.                   *)

(* Mutant of readDisk: an unreadable file has no text at all.              *)
readDiskUnread(cache, u) == IF cache[u] # None THEN cache[u] ELSE file[u]
readDisk(cache, u) == IF cache[u] # None THEN cache[u]
                      ELSE IF file[u] # None THEN file[u] ELSE Empty
memberText(cache, u) == IF text'[u] # None THEN text'[u] ELSE readDisk(cache, u)

(* buildOrReuseSetModel for the anchors in "used": "models" and "cache"    *)
(* are the two caches before, the results the caches after.                *)
warmModels(index, models, cache, used) ==
    [ a \in Uris |-> IF models[a] = None /\ a \in used
                     THEN [ m \in Members(index, a) |-> memberText(cache, m) ]
                     ELSE models[a] ]
membersRead(index, models, used) ==
    UNION { Members(index, a) : a \in { b \in used : models[b] = None } }

(* Mutant of warmDisk: the buffers of open members are cached as well.     *)
warmDiskWithBuffers(cache, read) ==
    [ u \in Uris |-> IF u \in read THEN memberText(cache, u) ELSE cache[u] ]
warmDisk(cache, read) ==
    [ u \in Uris |-> IF u \in read /\ text'[u] = None THEN readDisk(cache, u)
                                                     ELSE cache[u] ]

----------------------------------------------------------------------------
(* Which documents the server serves.                                      *)

(* The siblings that may vouch for a file: the first of its directory.     *)
siblings(u) ==
    firstOf(WalkOrder[{ v \in Uris \ {u} : DirOf[v] = DirOf[u] /\ file[v] # None }],
            SIBLING_SCAN_LIMIT)

(* looksLikeOtelcol: the text alone or the name, or one collector key and a*)
(* sidecar or a sibling that vouches for it.                               *)
looksLikeOtelcol(u, c) ==
    \/ Shape[c].marker
    \/ u \in SidecarUris
    \/ Shape[c].hasPipelines
    \/ Shape[c].otelcolKeys >= 2
    \/ /\ Shape[c].otelcolKeys = 1
       /\ \/ sidecar[DirOf[u]].exists
          \/ \E i \in DOMAIN siblings(u) : LET v == Shape[file[siblings(u)[i]]]
                                          IN  u \in v.bare \/ v.hasPipelines

(* Mutant of shouldServe: what was adopted is sniffed again.               *)
sniffAgain(u, c) ==
    Lang[u] = "otelcol" \/ (settings.attachToYaml /\ looksLikeOtelcol(u, c))
shouldServe(u, c) ==
    \/ Lang[u] = "otelcol"
    \/ /\ settings.attachToYaml
       /\ u \in adoptedYamlUris \/ looksLikeOtelcol(u, c)

adopting(u, c) == IF Lang[u] = "yaml" /\ shouldServe(u, c) THEN {u} ELSE {}

isOpen(u) == text[u] # None
isServed(u) == Lang[u] = "otelcol" \/ (settings.attachToYaml /\ u \in adoptedYamlUris)

(* ensureRootFor: a file below no root brings its discovery root, the      *)
(* topmost of six directories that holds a sidecar or an anchor-shaped     *)
(* file, else its own directory.                                           *)
dirContainsSidecarOrAnchor(d) ==
    \/ sidecar[d].exists
    \/ \E u \in Uris : DirOf[u] = d /\ file[u] # None /\ Shape[file[u]].anchorShaped

findDiscoveryRoot(u) ==
    LET own    == DirOf[u]
        marked == { n \in 0..Len(own) : /\ Len(own) - n < 6
                                        /\ dirContainsSidecarOrAnchor(SubSeq(own, 1, n)) }
    IN  IF marked = {} THEN own
        ELSE SubSeq(own, 1, CHOOSE n \in marked : \A m \in marked : n <= m)

isCovered(roots, u) == \E i \in DOMAIN roots : isUnderDir(u, roots[i])
ensureRoot(roots, u) == IF isCovered(roots, u) THEN roots
                        ELSE Append(roots, findDiscoveryRoot(u))

----------------------------------------------------------------------------
(* Validations.  A handler makes a set of runs; "at" is a run's place in   *)
(* the handler, <<stage, index>>, and "when" says when it publishes: at    *)
(* once, in a microtask at the handler's end (the forwarder runs and the   *)
(* model has no OTTL block), or when the forwarder has answered.           *)

hasOttl(model) == \E m \in DOMAIN model : Shape[model[m]].ottl

Run(at, anchor, model, when) ==
    [ at |-> at, anchor |-> anchor, when |-> when,
      diag |-> [ model |-> model, distribution |-> settings'.distribution ] ]

(* Mutant of docRun: a validation publishes its own document only.         *)
docRunAlone(at, index, models, cache, u) ==
    Run(at, None, [ m \in {u} |-> text'[u] ], IF settings'.ottl THEN "later" ELSE "now")

(* validate(doc): the document's set, or the document alone.               *)
docRun(at, index, models, cache, u) ==
    LET a     == getSetForUri(index, u)
        model == IF a = None THEN [ m \in {u} |-> text'[u] ]
                 ELSE IF models[a] # None THEN models[a]
                 ELSE [ m \in Members(index, a) |-> memberText(cache, m) ]
    IN  Run(at, a, model, IF ~ settings'.ottl THEN "now"
                          ELSE IF hasOttl(model) THEN "later" ELSE "micro")

isFirstOpen(index, a, i) ==
    LET list == index.sets[a].order
        Open(j) == list[j] \in Members(index, a) /\ text'[list[j]] # None
    IN  i \in DOMAIN list /\ Open(i) /\ \A j \in 1..(i - 1) : ~ Open(j)

(* Mutant of firstOpen: only the anchor drives a validation.               *)
anchorIfOpen(index, a) == IF text'[a] # None THEN a ELSE None
firstOpen(index, a) ==
    LET list == index.sets[a].order
    IN  IF \E i \in DOMAIN list : isFirstOpen(index, a, i)
        THEN list[CHOOSE i \in DOMAIN list : isFirstOpen(index, a, i)] ELSE None

(* validateSet(set): the first open member is validated, whichever set it  *)
(* maps to; without one the set's own model is published at once.          *)
setRun(at, index, models, cache, a) ==
    IF firstOpen(index, a) # None
    THEN docRun(at, index, models, cache, firstOpen(index, a))
    ELSE Run(at, a, IF models[a] # None THEN models[a]
                    ELSE [ m \in Members(index, a) |-> memberText(cache, m) ], "now")

(* Mutant of validateAllSets: sets without an open member are skipped.     *)
validateOpenSets(stage, index, models, cache) ==
    { setRun(<<stage, i>>, index, models, cache, index.met[i]) :
        i \in { j \in allSets(index) : firstOpen(index, index.met[j]) # None } }
validateAllSets(stage, index, models, cache) ==
    { setRun(<<stage, i>>, index, models, cache, index.met[i]) : i \in allSets(index) }
(* Mutant of validateAllDocs: the oldest document only.                    *)
validateOldestDoc(stage, index, models, cache) ==
    { docRun(<<stage, i>>, index, models, cache, order'[i]) : i \in DOMAIN order' \cap {1} }
validateAllDocs(stage, index, models, cache) ==
    { docRun(<<stage, i>>, index, models, cache, order'[i]) : i \in DOMAIN order' }

anchorsOf(runs) == { r.anchor : r \in runs } \ {None}

notAfter(r, s) ==
    \/ r.when = "now" /\ s.when = "micro"
    \/ /\ r.when = s.when
       /\ r.at[1] < s.at[1] \/ (r.at[1] = s.at[1] /\ r.at[2] <= s.at[2])

isLastRun(runs, u, r) ==
    /\ r \in runs /\ u \in DOMAIN r.diag.model
    /\ \A s \in runs : u \in DOMAIN s.diag.model => notAfter(s, r)

lastTag == CHOOSE n \in {0} \cup Tags : /\ n = 0 \/ \E t \in inflight : t.tag = n
                                       /\ \A t \in inflight : t.tag <= n

(* What the handler's runs publish, and what they leave in flight: the     *)
(* last run to list a URI has its diagnostics shown.  The runs in flight   *)
(* started earlier, so what is published now overtakes them.               *)
Publish(runs) ==
    LET done  == { r \in runs : r.when # "later" }
        later == { r \in runs : r.when = "later" }
        shown == { u \in Uris : \E r \in done : isLastRun(done, u, r) }
    IN  /\ published' = [ u \in Uris |->
                             IF u \in shown
                             THEN (CHOOSE r \in done : isLastRun(done, u, r)).diag
                             ELSE published[u] ]
        /\ later # {} => lastTag < MaxRuns
        /\ inflight' =
               { [ t EXCEPT !.overtaken = @ \cup shown ] : t \in inflight } \cup
               { [ tag |-> lastTag + 1, at |-> r.at, diag |-> r.diag, overtaken |-> {} ] :
                   r \in later }
        /\ outdated' = outdated \ shown

----------------------------------------------------------------------------
Init ==
    /\ phase = "starting"
    /\ file \in FirstFiles /\ sidecar = FirstSidecars /\ unreported = {}
    /\ text = [ u \in Uris |-> None ] /\ order = <<>>
    /\ settings = DefaultSettings
    /\ workspaceRoots = Folders
    /\ adoptedYamlUris = {}
    /\ configSetIndex = NoIndex(optionsOf(DefaultSettings))
    /\ setModelCache = EmptyCache /\ diskCache = EmptyCache
    /\ validateTimers = [ u \in Uris |-> None ]
    /\ inflight = {}
    /\ published = [ u \in Uris |-> None ]
    /\ watched = {} /\ discarded = {} /\ outdated = {} /\ edits = 0

Edit == edits < MaxEdits /\ edits' = edits + 1

----------------------------------------------------------------------------
(* The server's handlers.                                                  *)

(* onInitialized after its await: settings, first scan, a root for every   *)
(* open document below none, then every set and every document.  A         *)
(* document brings a root when the roots brought before it do not cover it;*)
(* each new root rescans, clears the model cache and validates all sets.   *)
(* Without a new root the model cache is NOT cleared.                      *)
Initialized(stg) ==
    /\ phase = "starting" /\ phase' = "running"
    /\ settings' = stg
    /\ UNCHANGED <<docVars, diskVars, adoptedYamlUris, validateTimers, watched,
                   discarded, edits>>
    /\ LET RootsAt(i) == FoldLeft(ensureRoot, workspaceRoots, SubSeq(order, 1, i))
           IndexAt(i) == Rescan(file, sidecar, RootsAt(i), optionsOf(stg))
           added  == { i \in DOMAIN order : RootsAt(i) # RootsAt(i - 1) }
           kept   == keptAfter(added # {}, setModelCache)
           RunsAt(i) == validateAllSets(i, IndexAt(i), EmptyCache, diskCache)
       IN  \E final \in {IndexAt(Len(order))} :
           \E runs \in {validateAllSets(Len(order) + 1, final, kept, diskCache)
                         \cup validateAllDocs(Len(order) + 2, final, kept, diskCache)} :
           /\ workspaceRoots' = final.roots
           /\ configSetIndex' = final
           /\ setModelCache' = warmModels(final, kept, diskCache, anchorsOf(runs))
           /\ diskCache' = warmDisk(diskCache,
                  membersRead(final, kept, anchorsOf(runs)) \cup
                  UNION { membersRead(IndexAt(i), EmptyCache, anchorsOf(RunsAt(i))) : i \in added })
           /\ Publish(runs \cup UNION { RunsAt(i) : i \in added })

(* onDidChangeConfiguration once it has the settings; it may come first.   *)
(* The configuration may be the same, or differ in contribPath, which      *)
(* nothing reads, or in ottlLspPath: another forwarder is started in any   *)
(* case, and validations that await the old one still settle.              *)
Configure(stg) ==
    /\ Edit
    /\ settings' = stg
    /\ UNCHANGED <<phase, docVars, diskVars, workspaceRoots, adoptedYamlUris,
                   validateTimers, watched, discarded>>
    /\ \E index \in {Rescan(file, sidecar, configSetIndex.roots, optionsOf(stg))} :
       \E runs  \in {validateAllSets(1, index, EmptyCache, diskCache)
                      \cup validateAllDocs(2, index, EmptyCache, diskCache)} :
           /\ configSetIndex' = index
           /\ setModelCache' = warmModels(index, EmptyCache, diskCache, anchorsOf(runs))
           /\ diskCache' = warmDisk(diskCache, membersRead(index, EmptyCache, anchorsOf(runs)))
           /\ Publish(runs)

timerKey(index, u) == IF getSetForUri(index, u) # None THEN getSetForUri(index, u) ELSE u

(* A document opens: onDidOpen (root, validation), then at once            *)
(* onDidChangeContent (invalidation, timer), if the document is served.    *)
DidOpen(u, c) ==
    /\ Edit /\ text[u] = None
    /\ text' = [text EXCEPT ![u] = c] /\ order' = Append(order, u)
    /\ adoptedYamlUris' = adoptedYamlUris \cup adopting(u, c)
    /\ discarded' = discarded \ {u}
    /\ UNCHANGED <<phase, diskVars, settings, watched>>
    /\ IF ~ shouldServe(u, c)
       THEN UNCHANGED <<workspaceRoots, configSetIndex, cacheVars, runVars>>
       ELSE LET roots == ensureRoot(workspaceRoots, u)
                isNew == roots # workspaceRoots
                kept  == keptAfter(isNew, setModelCache)
            IN  \E index \in {IF isNew THEN Rescan(file, sidecar, roots, configSetIndex.opts)
                              ELSE configSetIndex} :
                \E runs  \in {{docRun(<<2, 1>>, index, kept, diskCache, u)} \cup
                              (IF isNew THEN validateAllSets(1, index, kept, diskCache)
                               ELSE {})} :
                /\ workspaceRoots' = roots
                /\ configSetIndex' = index
                /\ setModelCache' = without(warmModels(index, kept, diskCache, anchorsOf(runs)),
                                            {getSetForUri(index, u)})
                /\ diskCache' = warmDisk(diskCache, membersRead(index, kept, anchorsOf(runs)))
                /\ Publish(runs)
                /\ validateTimers' = [validateTimers EXCEPT ![timerKey(index, u)] = u]

(* onDidChangeContent.                                                     *)
DidChange(u, c) ==
    /\ Edit /\ text[u] # None /\ text[u] # c
    /\ text' = [text EXCEPT ![u] = c]
    /\ adoptedYamlUris' = adoptedYamlUris \cup adopting(u, c)
    /\ UNCHANGED <<phase, order, diskVars, settings, workspaceRoots, configSetIndex,
                   diskCache, inflight, published, outdated, watched, discarded>>
    /\ IF shouldServe(u, c)
       THEN /\ setModelCache' = without(setModelCache, {getSetForUri(configSetIndex, u)})
            /\ validateTimers' = [validateTimers EXCEPT ![timerKey(configSetIndex, u)] = u]
       ELSE UNCHANGED <<setModelCache, validateTimers>>

(* A debounce timer's callback: validateMembersOfSetContaining.            *)
TimerFires(key) ==
    /\ validateTimers[key] # None
    /\ validateTimers' = [validateTimers EXCEPT ![key] = None]
    /\ UNCHANGED <<phase, diskVars, docVars, setVars, watched, discarded, edits>>
    /\ LET u    == validateTimers[key]
           a    == getSetForUri(configSetIndex, u)
           doc  == IF a # None THEN firstOpen(configSetIndex, a)
                   ELSE IF text[u] # None THEN u ELSE None
       IN  \E runs \in {IF doc = None THEN {}
                    ELSE {docRun(<<1, 1>>, configSetIndex, setModelCache, diskCache, doc)}} :
           /\ setModelCache' =
                 warmModels(configSetIndex, setModelCache, diskCache, anchorsOf(runs))
           /\ diskCache' =
                 warmDisk(diskCache, membersRead(configSetIndex, setModelCache, anchorsOf(runs)))
           /\ Publish(runs)

(* onDidChangeWatchedFiles: a batch of file events.  Disk-cache entries    *)
(* and the models of the sets the OLD index maps the files to are dropped; *)
(* a created or deleted file or a sidecar rescans; open documents are      *)
(* validated in any case.                                                  *)
WatchedFiles(batch) ==
    /\ batch # {}
    /\ watched' = watched \ batch
    /\ UNCHANGED <<phase, diskVars, docVars, settings, workspaceRoots, adoptedYamlUris,
                   validateTimers, discarded, edits>>
    /\ LET rescan == \E e \in batch : e.kind # "changed"
           gone   == { e.uri : e \in { f \in batch : f.kind # "sidecar" } }
           stale  == { getSetForUri(configSetIndex, u) : u \in gone }
       IN  \E read  \in {without(diskCache, gone)} :
           \E index \in {IF rescan THEN Rescan(file, sidecar, configSetIndex.roots,
                                              configSetIndex.opts)
                         ELSE configSetIndex} :
           \E kept  \in {keptAfter(rescan, without(setModelCache, stale))} :
           \E runs  \in {validateAllDocs(2, index, kept, read) \cup
                         (IF rescan THEN validateAllSets(1, index, kept, read) ELSE {})} :
           /\ configSetIndex' = index
           /\ setModelCache' = warmModels(index, kept, read, anchorsOf(runs))
           /\ diskCache' = warmDisk(read, membersRead(index, kept, anchorsOf(runs)))
           /\ Publish(runs)

(* What is left in flight when t publishes: t overtakes what started before*)
(* it.                                                                     *)
Settled(t) ==
    { IF s.tag < t.tag THEN [ s EXCEPT !.overtaken = @ \cup DOMAIN t.diag.model ] ELSE s :
        s \in inflight \ {t} }

(* The forwarder has answered, or timed out, for every block of a run that *)
(* awaited it: the run publishes what it computed before the await.        *)
Settle(t) ==
    /\ LET shown == DOMAIN t.diag.model
       IN  /\ published' = [ u \in Uris |-> IF u \in shown THEN t.diag ELSE published[u] ]
           /\ inflight' = Settled(t)
           /\ outdated' = (outdated \ shown) \cup (shown \cap t.overtaken)
    /\ UNCHANGED <<phase, diskVars, docVars, setVars, cacheVars, validateTimers, watched,
                   discarded, edits>>

(* Hover, completion, definition, references and semantic tokens read the  *)
(* set model of the document's set, and build it when it is not cached.    *)
Request(u) ==
    LET a == getSetForUri(configSetIndex, u)
    IN  /\ text[u] # None /\ a # None
        /\ setModelCache[a] = None
        /\ UNCHANGED <<phase, diskVars, docVars, setVars, runVars, watched, discarded, edits>>
        /\ setModelCache' = warmModels(configSetIndex, setModelCache, diskCache, {a})
        /\ diskCache' = warmDisk(diskCache, membersRead(configSetIndex, setModelCache, {a}))

----------------------------------------------------------------------------
(* The client and other programs.                                          *)

(* A document closes.  The server has no handler for it: the documents     *)
(* manager forgets the text and nothing else changes.                      *)
DidClose(u) ==
    /\ Edit /\ text[u] # None
    /\ discarded' = IF text[u] = file[u] /\ isServed(u) THEN discarded
                                                       ELSE discarded \cup {u}
    /\ text' = [text EXCEPT ![u] = None]
    /\ \E i \in DOMAIN order : order[i] = u /\ order' = RemoveAt(order, i)
    /\ UNCHANGED <<phase, diskVars, setVars, cacheVars, runVars, watched>>

(* The client reports file events below its workspace folders only.        *)
isReported(dir) == \E i \in DOMAIN Folders : IsPrefix(Folders[i], dir)

(* A file is written (saved from its buffer, or by another program) or     *)
(* deleted, and where the client watches, the event is to come.            *)
WriteFile(u, c) ==
    /\ Edit /\ file[u] # c /\ u \notin SidecarUris
    /\ file' = [file EXCEPT ![u] = c]
    /\ IF isReported(DirOf[u])
       THEN /\ watched' = watched \cup
                  {[ kind |-> IF c = None THEN "deleted" ELSE IF file[u] = None THEN "created"
                              ELSE "changed", uri |-> u ]}
            /\ UNCHANGED unreported
       ELSE /\ unreported' = unreported \cup {u}
            /\ UNCHANGED watched
    /\ UNCHANGED <<phase, sidecar, docVars, setVars, cacheVars, runVars, discarded>>

WriteSidecar(d, sc) ==
    /\ Edit /\ sidecar[d] # sc
    /\ sidecar' = [sidecar EXCEPT ![d] = sc]
    /\ watched' = IF isReported(d) THEN watched \cup {[ kind |-> "sidecar", dir |-> d ]}
                                  ELSE watched
    /\ UNCHANGED <<phase, file, unreported, docVars, setVars, cacheVars, runVars, discarded>>

----------------------------------------------------------------------------
Handler ==
    \/ \E stg \in SettingsSet : Initialized(stg)
    \/ \E key \in Uris : TimerFires(key)
    \/ \E batch \in SUBSET watched : WatchedFiles(batch)
    \/ \E t \in inflight : Settle(t)
    \/ \E u \in Uris : Request(u)

Client ==
    \/ \E u \in Uris : \E c \in TextsOf[u] \ {None} : DidOpen(u, c) \/ DidChange(u, c)
    \/ \E u \in Uris : DidClose(u)
    \/ \E stg \in SettingsSet : Configure(stg)
    \/ \E u \in Uris : \E c \in TextsOf[u] : WriteFile(u, c)
    \/ \E d \in Dirs : \E sc \in SidecarsOf[d] : WriteSidecar(d, sc)

Next == Handler \/ Client

Spec == Init /\ [][Next]_vars

(* What must go on happening, each named by the variable that only its     *)
(* handler moves so: the client answers the configuration request and      *)
(* delivers file events, timers fire, and a forwarded run settles (every   *)
(* block is answered, or given up after 300 ms).                           *)
Fairness ==
    /\ WF_phase(phase = "starting" /\ phase' = "running")
    /\ \A key \in Uris : WF_validateTimers(
          validateTimers[key] # None /\ validateTimers' = [validateTimers EXCEPT ![key] = None])
    /\ WF_watched(\E batch \in SUBSET watched : batch # {} /\ watched' = watched \ batch)
    /\ WF_inflight(\E t \in inflight : inflight' = Settled(t))

FairSpec == Spec /\ Fairness
----------------------------------------------------------------------------
(* Properties.                                                             *)

TypeOK ==
    /\ phase \in {"starting", "running"}
    /\ file \in [Uris -> Contents \cup {None}]
    /\ sidecar \in [Dirs -> Sidecars]
    /\ text \in [Uris -> Contents \cup {None}] /\ order \in Seq(Uris)
    /\ settings \in Settings
    /\ workspaceRoots \in Seq(Dirs) /\ configSetIndex.roots \in {<<>>, workspaceRoots}
    /\ configSetIndex.memberOf \in [Uris -> Uris \cup {None}]
    /\ adoptedYamlUris \subseteq Uris /\ discarded \subseteq Uris /\ outdated \subseteq Uris
    /\ setModelCache \in [Uris -> Texts \cup {None}]
    /\ diskCache \in [Uris -> Contents \cup {None}]
    /\ validateTimers \in [Uris -> Uris \cup {None}]
    /\ published \in [Uris -> Diags \cup {None}]
    /\ inflight \subseteq [ tag : Tags, at : Nat \X Nat, diag : Diags,
                         overtaken : SUBSET Uris ]
    /\ watched \subseteq Events /\ unreported \subseteq Uris
    /\ edits \in 0..MaxEdits

Cached(a) == setModelCache[a] # None
currentText(u) == IF isOpen(u) THEN text[u] ELSE IF file[u] # None THEN file[u] ELSE Empty
eventPending(u) == \E e \in watched : e.kind # "sidecar" /\ e.uri = u
isShared(u) == \E a, b \in DOMAIN configSetIndex.sets :
                  a # b /\ u \in Members(configSetIndex, a) \cap Members(configSetIndex, b)

(* The cached model of the set that answers for an open, served document   *)
(* holds exactly the text in its buffer: hover, completion and navigation  *)
(* never see an older buffer, whichever sets share the file and however    *)
(* openings, edits, scans and requests interleave (buildOrReuseSetModel,   *)
(* invalidateSetFor).                                                      *)
CachedModelsHoldBuffers ==
    \A u \in Uris :
        LET a == getSetForUri(configSetIndex, u)
        IN  isOpen(u) /\ isServed(u) /\ a # None /\ Cached(a) =>
              u \in DOMAIN setModelCache[a] /\ setModelCache[a][u] = text[u]

(* A disk-cache entry that no longer agrees with the disk has its file     *)
(* event still to come, or the file was written where the client does not  *)
(* watch: readDisk is invalidated by onDidChangeWatchedFiles alone.        *)
DiskCacheStaleOnlyBeforeEvent ==
    \A u \in Uris \ unreported : diskCache[u] # None /\ ~ eventPending(u) =>
        diskCache[u] = IF file[u] # None THEN file[u] ELSE Empty

(* The server does not hear of what m becomes: its document is open and not*)
(* served, or closed and written where the client does not watch.          *)
isUnheard(m) == IF isOpen(m) THEN ~ isServed(m) ELSE m \in unreported

(* A cached model covers exactly its set, and its text for a closed member *)
(* is the disk's, except where an event is still to come or will not come, *)
(* the member's buffer was dropped unsaved, or the member belongs to       *)
(* several sets.                                                           *)
CachedModelsExplained ==
    \A a \in Uris : Cached(a) =>
        /\ a \in DOMAIN configSetIndex.sets
        /\ DOMAIN setModelCache[a] = Members(configSetIndex, a)
        /\ \A m \in DOMAIN setModelCache[a] :
              setModelCache[a][m] = currentText(m)
                \/ eventPending(m) \/ m \in discarded \/ isShared(m)
                \/ isUnheard(m)

Quiescent ==
    /\ phase = "running" /\ watched = {} /\ inflight = {}
    /\ \A key \in Uris : validateTimers[key] = None

(* What the diagnostics of u should have been computed from.               *)
currentDiag(u) ==
    LET a == getSetForUri(configSetIndex, u)
    IN  [ model |-> [ m \in IF a = None THEN {u} ELSE Members(configSetIndex, a)
                        |-> currentText(m) ],
          distribution |-> settings.distribution ]

(* The set of u shares no member, none of its members was dropped unsaved, *)
(* all its open members are served, and none that is closed was written    *)
(* where the client does not watch.                                        *)
isPlain(u) ==
    \A m \in DOMAIN currentDiag(u).model :
        ~ isShared(m) /\ m \notin discarded /\ ~ isUnheard(m)

(* Once every timer, file event and forwarded run is done, an open, served *)
(* document shows the diagnostics of its set as it is now: no edit, save,  *)
(* scan or change of settings leaves a squiggle of an older text behind.   *)
SettledDiagnosticsAreCurrent ==
    Quiescent => \A u \in Uris : (isOpen(u) /\ isServed(u) /\ isPlain(u)) =>
                                  published[u] = currentDiag(u)

(* With the forwarder: an open, served document whose shown diagnostics no *)
(* newer run had already overtaken shows those of its set as it is: every  *)
(* run that reads an old text is followed by one that reads the new one,   *)
(* so awaiting the forwarder adds no way to stale squiggles but answers    *)
(* that come in the wrong order.                                           *)
ForwardedDiagnosticsAreCurrent ==
    Quiescent => \A u \in Uris \ outdated :
        isOpen(u) /\ isServed(u) /\ isPlain(u) => published[u] = currentDiag(u)

(* The same for documents that are in a set.  ensureRootFor's rescan may   *)
(* take an open document out of its set and does not validate documents,   *)
(* so where roots are added this is what holds.                            *)
SettledSetsAreCurrent ==
    Quiescent => \A u \in Uris :
        isOpen(u) /\ isServed(u) /\ isPlain(u) /\ getSetForUri(configSetIndex, u) # None =>
            published[u] = currentDiag(u)

(* The files of a set show diagnostics of one and the same model, open or  *)
(* not: a cross-file squiggle never appears in one file while another of   *)
(* the set still shows an older analysis (validateAllSets, validate), late *)
(* answers in the wrong order apart.                                       *)
SetMembersAgree ==
    phase = "running" /\ inflight = {} =>
        \A a \in DOMAIN configSetIndex.sets :
            (\A m \in Members(configSetIndex, a) : ~ isShared(m) /\ m \notin outdated) =>
                \A m, n \in Members(configSetIndex, a) :
                    published[m] # None /\ published[m] = published[n]

(* validateAllSets publishes to every member of every discovered set, open *)
(* or not, so that a fragment has diagnostics when only the anchor is open.*)
EverySetMemberPublished ==
    phase = "running" /\ inflight = {} =>
        \A a \in DOMAIN configSetIndex.sets : \A m \in Members(configSetIndex, a) :
            published[m] # None

(* A file that belongs to no set and is not open shows no diagnostics once *)
(* everything is done: they are cleared when the file leaves its set.      *)
DiagnosticsClearedOnLeaving ==
    Quiescent => \A u \in Uris :
        ~ isOpen(u) /\ getSetForUri(configSetIndex, u) = None => published[u] = None

(* Whatever the user does, an open, served document of a set comes to show *)
(* the diagnostics of its set as it is: no validation is lost between the  *)
(* debounce timer, the file events and the scans.                          *)
EventuallyDiagnosed ==
    \A u \in Uris :
        []<>( isOpen(u) /\ isServed(u) /\ isPlain(u) /\ getSetForUri(configSetIndex, u) # None
                => published[u] = currentDiag(u) )
=============================================================================
