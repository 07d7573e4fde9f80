# otelcol-lang: specifications, model checks and proofs

This directory holds TLA+ specifications of the OpenTelemetry Collector language
server (`src/server`, `src/common`) and of the parts of its editors' extensions that
keep state (`editors/`), the TLC runs that check them on small
instances, and proofs about them that TLAPS checks for every instance.

Run them from this directory:

    tlc -workers 2 -config MCServer.cfg MCServer
    tlc -workers 2 -config MCAnalysis.cfg MCAnalysis
    tlapm AnalysisProofs.tla

## 1. The system

The server is one Node.js thread. Editors send it document notifications, file
events, settings and requests over the language server protocol; it answers
with diagnostics (pushed), hovers, completions, definitions, references and
semantic tokens. Collector configurations are often split over several files,
so everything is computed from the *set* a file belongs to.

| Component | State it keeps | Operations | Correct when |
|---|---|---|---|
| Config-set index (`configset.ts`, `yaml-classify.ts`) | `setsByAnchor`, `setByMember`, roots, options | `rescan`, `setRoots`, `setOptions`, `invalidate`, `getSetForUri`, `allSets` | the two maps agree; discovered sets are independent; a file's set has the nearest anchor; no fragment is forgotten |
| Language server (`server.ts`) | `documents`, `settings`, `workspaceRoots`, `adoptedYamlUris`, `setModelCache`, `diskCache`, `validateTimers`, `publishedFor`; the client's diagnostics | handlers for initialization, settings, open, change, file events, requests; debounce timers; the continuation of a forwarded validation | cached models hold the buffers; disk-cache entries go stale only until their event; once everything is delivered, diagnostics are those of the current texts |
| OTTL forwarder (`ottl-forward.ts`) | child process, receive buffer, `pending`, `nextId`, `ready` | `start`, `stop`, `diagnose`, `onData`, 300 ms timers | each block settles once, in order, with findings of its own text; every call returns; frames are cut where they end |
| Sniffer (`yaml-sniff.ts`) | none | `looksLikeOtelcol` | serves exactly what its five rules say |
| Set model (`set-model.ts`), pipeline rules (`pipeline.ts`), semantic tokens, usage | none | merge of members, rules over the merge, queries | features that resolve one reference in separate code agree; "unused" means the same in diagnostics, tokens and queries; a split configuration is that of its concatenation |
| Document model (`yaml-model.ts`, `substitution.ts`) | none | extraction of components, pipelines, references; positions and paths | a reference is at its own place; the path at a position is the enclosing keys |
| Hover, completion (`hover.ts`, `completion.ts`) | none | what a reference means, what may be written | hover goes where definition goes; what completion offers is valid once accepted |
| Component index (`components.ts`) | a cache per distribution | `loadComponents` | the highest version, the named distribution |
| VS Code extension | client, debounce of the dev watcher | retagging, activation, restart on rebuild | the last build ends up running |
| JetBrains plugin | extracted server and its hash stamp | extraction, dev watcher, restart action | a stamp vouches for every file beside it |
| Zed extension | installed npm package | install, update, fallback | a usable version is started whenever one is installed |
| Scripts | working tree, tag | release, schema copy, path checks | a release is bumped everywhere or nowhere |

How they interact: `server.ts` owns the index and calls `rescan` from four
handlers; `getSetForUri` decides which set answers for a document in every
handler; `buildOrReuseSetModel` reads members from the open buffers or through
the disk cache; `validate` publishes for all members of a set, after awaiting the
forwarder when one runs. Sniffer and index classify with the same
`classifyYaml`. The editors only start the server and pass files and settings.

What is hard, in this code:

- *Event-driven invalidation.* No cache entry is ever compared with its source
  ("invalidation is event-driven, so stale reads are possible",
  `editors/SHARED.md`). Each handler must drop exactly what its event touches,
  and the index itself may be of another topology than the cache.
- *Handlers that await.* `validate` computes before its await and publishes after
  it; `onInitialized` awaits the configuration while documents already open.
- *Two maps for one relation.* A file may be listed by several sets and is
  answered for by one of them.
- *Separate code for one question.* What a reference resolves to is decided in
  `pipeline.ts`, `semantic-tokens.ts`, `usage.ts`, three places of `server.ts` and
  `hover.ts`, each with its own handling of duplicates, of connectors and of
  components that share an id.
- *A cache on the disk.* The JetBrains plugin extracts its server into a directory
  that outlives crashes, upgrades and other projects of the IDE.
- *Debounce.* A timer set for a document may fire when it is closed, or when its
  set has another anchor.

`PROJECT.json` lists each hazard at its line, with the properties that cover it.

## 2. Modules

| Module | What it is |
|---|---|
| `ConfigSets` | Pure operators: the scan, the classification, explicit and discovered sets, the member map, `Rescan`. No state. |
| `Discovery` | The class `ConfigSetIndex` as an object on a disk that other programs write. |
| `Server` | `server.ts`: all handlers that change state, timers, forwarded validations, the client and the disk around it. Uses `ConfigSets` for its index. |
| `Forwarding` | What the OTTL forwarder promises the validation that calls it: an abstract specification without process, uris, timers or frames. |
| `OttlForward` | `ottl-forward.ts`: the object `OttlForwarder`, the calls of `diagnose` in flight on it, and the ottl-lsp process beside it. Implements `Forwarding`. |
| `Documents` | Pure operators: the document model of a text (`yaml-model.ts`, `substitution.ts`), and the paths of cursors. |
| `SetModel` | Pure operators on the models of a set's members: the merge, the diagnostics, semantic tokens, usage queries, definition, references, hover, completion of ids and buckets. |
| `Analysis` | A set whose members are edited; the properties that relate the answers of `SetModel`. |
| `DevWatch` | The development watchers of VS Code and JetBrains, which restart the server when it was rebuilt. |
| `BundledServer` | The extraction of the bundled server by the JetBrains plugin. |
| `ZedInstall` | The installation of the server by the Zed extension. |
| `Editors` | The three side by side (a behaviour follows one). |
| `MCDiscovery`, `MCServer`, `MCOttlForward`, `MCAnalysis`, `MCEditors` | Instances for TLC: texts, layouts, settings, calls, bundles. |
| `ConfigSetsProofs` | Lemmas about the operators of `ConfigSets`. |
| `ServerProofs`, `PublicationProofs` | Theorems about `Server`: what cached models hold of open buffers, the types, both caches explained; then the diagnostics the client ends up with. |
| `ForwardingProofs`, `FramesProofs` | Theorems about `OttlForward`: that it implements `Forwarding` and leaves no call waiting; then what goes to the process and comes back from it. |
| `AnalysisProofs` | Theorems about `Analysis`: the features' answers fit together for any members and texts. |
| `DiscoveryProofs`, `EditorsProofs` | Theorems about `Discovery` and `Editors`. |

**Data.** A file is a URI (a name) with a directory (a sequence of names, so that
"below" is "has as a prefix"). A text is a model value; `Shape` says what
`classifyYaml`, `parseDirective`, the anchor regular expression of
`dirContainsSidecarOrAnchor` and the OTTL extraction see in it. A diagnostic is
kept as what it is computed from: the text of every member of the model and the
distribution. Two diagnostics are equal exactly when every rule would have read
the same input, which is what staleness is about.

**`ConfigSets` and the code.** `walkFiles` is the walk over all roots with its limit
(a file below two roots is met twice, as in the code); it does not enter the directories of
`SKIP_DIRS`, but starts in one that is a root (`isSkipped`). `WalkOrder` is the order
`readdir` gives, any order. `Explicit` and `Discovered` are the two ways
`buildSetForAnchor` makes a set; `order` is the member list, whose first open member
validation picks. `MemberMap` is the last-wins map that the loop of `rescan` leaves.

**`Server` and the code.** Variables carry the names of the code's. One action is
one handler up to its first await:

| Action | Code |
|---|---|
| `Initialized` | `onInitialized` after its await: settings, scan, `ensureRootFor` for each open document in order (each new root scans, clears the model cache and validates all sets), then all sets and all documents |
| `Configure` | `onDidChangeConfiguration` with its settings |
| `DidOpen` | `onDidOpen` then `onDidChangeContent`: the document manager fires both, one after the other, for one message |
| `DidChange` | `onDidChangeContent` |
| `TimerFires` | the debounce callback and `validateMembersOfSetContaining` |
| `WatchedFiles` | `onDidChangeWatchedFiles` for any batch of pending events |
| `Settle` | the continuation of a `validate` that awaited the forwarder |
| `Request` | what every request does to the caches |
| `DidClose`, `WriteFile`, `WriteSidecar` | the client and other programs (there is no close handler) |

A handler makes a set of *runs* (calls of `validate` or the publishing half of
`validateSet`); `at` is a run's place in the handler. `Publish` merges them in the
order the thread would: runs that do not await, then those that await an empty
forwarding (a microtask), and leaves the others `inflight`. `tag` orders handlers.
Requests with a cached model change nothing and are left out. `Configure` takes any settings,
the ones it has included: the handler compares nothing, so a repeated configuration, or a
change of `ottlLspPath` alone, also rescans, clears the models and starts another forwarder.

The client watches its workspace folders (`extension.ts:138`), and the server registers no
watcher of its own: a file outside them, which the server knows because a document brought
its root, is written without an event (`isReported`; "stale reads are possible",
`editors/SHARED.md:147-151`). `looksLikeOtelcol` has the sniffer's rules: the marker or the
name, pipelines, two keys, or one key with a sidecar or a sibling that vouches for it, among
the first `SIBLING_SCAN_LIMIT` of the directory; a directive vouches only for names that are
verbatim the file's (`bare`), and `SidecarUris` are the documents that are sidecars themselves.

History variables: `discarded` (closed files of which the server may still hold
unsaved text), `unreported` (files written where the client does not watch), `outdated`
(files that show the diagnostics of a run that a newer one had overtaken), `fresh` in
`Discovery`. No guard reads them. `edits` and `writes` only bound the runs.

**`OttlForward` and the code.** The object is one thread: a step is a callback
(`start`, `stop`, `onExit`, `onTimer`, `onData`), one turn of the loop in `onData`
(`cut`; `looping` keeps everything else out until the loop returns), or the
continuation of one call whose await returned (`resume`; `woken` is the queue of
continuations, which Node empties before the next callback). A call is split over
`at` (the block it is at), `awaits` (the uri of the promise), `value` (what the
promise was resolved with) and `out`. The process is external: it reads its
`inbox`, publishes for open documents when it likes, may publish an empty list on
`didClose`, and may end at any step. Its output is a sequence of units: a header,
an empty line, and a body, which is one unit with a size in bytes: 1 if it is ASCII, more
if not. A chunk is any part of the output, up to the middle of a character of its last body.
`decoded` does what `chunk.toString` does: a character that is cut is one replacement
character in each of its chunks. So a body that is not ASCII is one unit in the buffer, or
two that no longer parse. By how much its size exceeds its units decides what the
miscount does: a small excess eats into the next header, one as long as a frame swallows
whole messages, or holds them back until more has come. `Sizes` is any set of sizes with 1 in
it; the run has 1 and 5, an excess of four, longer than a frame of the model (three units). A
body is cut once at most. A write to a process that has ended is lost. The server makes a new
object for each configuration, so `start` happens once and `stop` ends it.

**`Forwarding`.** Per call, a phase and the list of what each settled block
contributed. `OttlForward` maps `at` to the phase and what was collected under each
block to that list; a step of it begins a call, declines it, settles the next block, or
stutters. Timers, late answers, stops and frames are all stutters.

**`Documents`, `SetModel`, `Analysis` and the code.** A text is a sequence of lines in block
style, one yaml node per line, with its indentation, key, scalar and suppression
comment. That keeps the two views that the code has of a text: the tree (`Up`,
`Children`: what the yaml parser makes of it, external) and the raw lines over which
`pathAtPosition` climbs. A site is a member and a line; it stands for the range the code
reports; a token has a length too, the characters of its key or scalar (`Width`), and a
position on the line that shows it. `buildModel` reads components, references of all kinds
(bucket items, `service.extensions`, extension references from configs, pipeline references of routing
and failover connectors) and pipelines from the tree as the code's recursion does,
with its early ends: below a list of `watch_observers` nothing else is read,
`auth.authenticator` counts through lists, a pipeline that is not a map is no entry, of
two equal ids in one text the last stays. `SetModel` has one operator per rule of
`pipeline.ts`, per function of `usage.ts` and `semantic-tokens.ts`, and for each decision
about ids that `onDefinition`, `onReferences`, hover and completion make. The pipelines that
a hover names are the first `UsesLimit` (12 in the code) of those that use the component. The
operators are written separately, as the code is, because their agreement is the question. A
diagnostic is where it is and which rule it is of.

**`DevWatch` and the code.** VS Code has one thread, a timer and the flag `restarting`.
JetBrains starts a coroutine per change, which `cancel` ends only while it still delays
(nothing in `restart` suspends after that), and the menu's restart runs beside it. A
restart is a stop and a start, each of which may throw; a server started on a bundle
that is half written ends at once.

**`BundledServer` and the code.** A step is one system call's effect: `Files.copy` with
`REPLACE_EXISTING` deletes, creates and writes; `writeString` empties and writes. Another
project, the end of the IDE, a failed write, and another build of the plugin with the
same version (the directory is named by the version alone) come between any two. A file
is of a bundle, absent, or being written by a project.

**`ZedInstall` and the code.** A step is one question to Zed or npm, which may fail; a
release may be published between two of them.

## 3. What the runs check

| Run | Instance | Result |
|---|---|---|
| `server` (`MCServer.cfg`) | one folder, three files in two nested directories, two settings, 4 steps of the environment | `TypeOK`, `CachedModelsHoldBuffers`, `DiskCacheStaleOnlyBeforeEvent`, `CachedModelsExplained`, `SettledDiagnosticsAreCurrent`, `SetMembersAgree` hold |
| `roots` (`MCServerRoots.cfg`) | four files, two of them outside the folder, where no event comes, a plain yaml document, a sidecar that may be opened too, one sibling looked at, 4 steps | `CachedModelsHoldBuffers`, `CachedModelsExplained`, `SettledSetsAreCurrent` and the liveness property `EventuallyDiagnosed` hold |
| `forward` (`MCServerForward.cfg`) | two files with OTTL, the forwarder on and off, three handlers in flight, 4 steps | `SetMembersAgree`, `ForwardedDiagnosticsAreCurrent` hold |
| `discovery` (`MCDiscovery.cfg`) | five files in three nested directories, the innermost one that the walk skips (`out`), every first disk, a directive that lists files elsewhere, overlapping roots, a walk cut at 3, one write | `TypeOK`, `MapsAgree`, `IndependentSets`, `NearestAnchorAnswers`, `FragmentsAnswered` hold |
| `ottl` (`MCOttlForward.cfg`) | two calls, three blocks, a process that answers each block up to twice, bodies of one byte and of five | `TypeOK`, `WaitersCanBeWoken`, `AnswersAreOwn`, `QuietProcessHoldsNothing`, `AsciiAnswersSettle`, `BufferFindsFrames`, the refinement `ImplementsForwarding` and the liveness property `CallsReturn` hold |
| `analysis` (`MCAnalysis.cfg`) | two members, each with any of 74 texts, so 5476 sets | eleven properties of the answers hold, see below |
| `editors` (`MCEditors.cfg`) | three rebuilds and three restarts under way; two bundles, two projects, three sessions; two versions, three starts | `TypeOK`, `LatestBuildRuns`, `StartedServerIsBundled`, `UsableVersionStarts` hold |
| `late_answer` (`MCServerLate.cfg`) | as `forward`, 6 steps | `SettledDiagnosticsAreCurrent` is violated |
| `left_set` (`MCServerCleared.cfg`) | as `server` | `DiagnosticsClearedOnLeaving` is violated |
| `two_anchors` (`MCServerShared.cfg`) | two anchors in one directory | `EverySetMemberPublished` is violated |
| `wide_body` (`MCOttlForwardWide.cfg`) | as `ottl` | `EveryAnswerSettles` is violated |
| `token_sync` (`MCAnalysisTokens.cfg`) | as `analysis` | `DeprecatedInSync` is violated |

The properties, in words:

- `CachedModelsHoldBuffers`: the cached model that answers for an open, served
  document has the text of its buffer.
- `CachedModelsExplained`: a cached model covers exactly its set; a text in it that
  is not the current one has a pending event, was dropped unsaved, or is of a
  file that several sets share, or of one that the server does not hear of (`isUnheard`:
  open and not served, or closed and written where the client does not watch).
- `DiskCacheStaleOnlyBeforeEvent`: a stale disk-cache entry has its event to come, or its
  file was written where the client does not watch.
- `SettledDiagnosticsAreCurrent`: with no timer, event or run left, an open, served
  document shows the diagnostics of its set as it is, if the set is plain (`isPlain`): it
  shares no member, and the server hears of each and holds no unsaved text of it.
- `ForwardedDiagnosticsAreCurrent`: the same with the forwarder, except for files
  that show an overtaken run's answer. With `late_answer` this says that awaiting the
  forwarder adds one way to stale diagnostics, and only one, to those there are without it.
- `SettledSetsAreCurrent`: the same for documents in a set, where roots are added.
- `SetMembersAgree`: all members of a set always show diagnostics of one model.
- `EventuallyDiagnosed`: an open, served document of a plain set keeps coming to current
  diagnostics.
- `MapsAgree`, `IndependentSets`, `NearestAnchorAnswers`, `FragmentsAnswered`: see the
  "correct when" of the index above.

- `WaitersCanBeWoken`: a call that awaits a block has its promise pending and its
  timer set, or is queued to go on.
- `AnswersAreOwn`: what a call reports under a block is about that block's text.
- `QuietProcessHoldsNothing`: with nothing in flight, the process has no document open.
- `EveryAnswerSettles`: an answer read to its last byte has settled its block;
  `AsciiAnswersSettle` says so while only ASCII bodies were read.
- `BufferFindsFrames`: a message left behind another in the buffer when `onData` returns
  is there because the byte length of the first claims more characters than there are from its
  body on. An ASCII message never holds another back, and nothing piles up behind a header that
  was cut into.
- `ImplementsForwarding`: every behaviour is one of `Forwarding`: blocks are settled once
  each, in order, with nothing or with findings of their own text.
- `CallsReturn`: every call of `diagnose` returns, whatever the process does.

Of `analysis`, for every set:

- `FeaturesAgreeOnRefs`: a reference reported as not defined leads nowhere; one that leads
  nowhere is reported, except substitutions, soft references and pipelines of an
  unknown signal; hover describes a reference exactly when definition leads somewhere, and
  names the reference's pipeline unless it names as many others as it may.
- `UnusedMeansUnreferenced`: "defined but never used" is reported exactly when the reference
  query finds no use that counts (`pipeline.ts` skips pipelines of an unknown signal, and
  gives a reference to a duplicate connector of that id alone).
- `DeprecatedMatchesUnused`: the greyed-out token is where that diagnostic is, except for
  duplicates, ids that a connector shares, and pipelines of an unknown signal.
- `JumpsReturn`: from a definition that a reference leads to, definition leads back.
- `ReferencesAgree`: find-references answers alike at a reference and at its definition.
- `OfferedIdsResolve`: an id that completion offers is not "not defined" once accepted.
- `SplitMakesNoDifference`: without duplicates, a set has the diagnostics of one file with
  all its lines.
- `TokensDecode`: a client that adds up the deltas finds every token at its place, once; none
  is empty, and each ends before the next begins.
- `ClimbFindsEnclosingKeys`: on a blank line where an entry may be written, and on every
  value, the climb over raw lines gives the keys that enclose it in the tree.
- `AcceptedBucketsAreNew`: a bucket that completion offers is no duplicate key.
- `TypeOK` says besides the types that a site is at the line that writes its id. (The `TypeOK`
  of `discovery`: a set lists all its members, its anchor among them unless a sidecar names
  others. Of `editors`: VS Code's flag is set just while one restart is under way.)

Of `editors`:

- `LatestBuildRuns`: with no change, timer or restart left, the server runs the latest
  build, unless the restart of the last rebuild failed or was dropped.
- `StartedServerIsBundled`: once no project extracts, a started server has every file of
  the installed bundle, complete, whatever ended or failed where, but for two cases (see
  the divergences below).
- `UsableVersionStarts`: Zed's call returns the installed copy exactly when there is one,
  shows a failure otherwise, and leaves nothing shown as checking or downloading.

**Findings.** Five violations are real disagreements of the code with its own
comments; `PROJECT.json` quotes both sides of each.

1. `late_answer`: a validation that awaits the forwarder publishes what it computed
   before, even when a newer validation has already published.
2. `left_set`: `publishedFor` is never read, so nothing clears a file that left its set.
3. `two_anchors`: with two anchors in a directory one set may never be published.
4. `wide_body`: the forwarder cuts characters by a length in bytes, so an answer with a
   character outside ASCII is lost, and what its length reaches of the next ones with it. Only when the
   character is split between two chunks is the answer read (garbled, but whole).
5. `token_sync`: with a receiver (or exporter) and a connector of one id, the token of a
   component that a pipeline uses is greyed out as unused, and no diagnostic says so.
   Duplicates and pipelines of an unknown signal are two further differences.

Divergences that no run repeats, because a property is stated without them or the
code is outside the instances:

- `ensureRootFor` rescans without validating open documents again (`server.ts:219`): a
  document whose set changed by the scan keeps its diagnostics until the next event.
  `SettledDiagnosticsAreCurrent` fails for it in the instance of `roots`, which therefore
  checks `SettledSetsAreCurrent`.
- A sidecar may leave out the anchor it is for (`parseSidecar`, `configset.ts:229`, adds none).
  The anchor, opened, is then in no set, and its own uri, the key of its timer, is also the
  key of the set's (`server.ts:318`): an edit of it cancels the validation that an edit of a
  member has just scheduled, and the members keep the diagnostics of older texts. The
  instances' sidecars list their anchors, and the theorems about settled diagnostics
  assume it (`AnchorsListed`).
- `onInitialized`, `onDidChangeConfiguration` and `onDidChangeWatchedFiles` validate every open
  document, those that `shouldServeDocument` refused included (`server.ts:129`), although
  `server.ts:190-193` wants no diagnostics "on every random yaml file".
- `set-model.ts:3-5` says that a duplicate id is undefined for resolution; `pipeline.ts`
  resolves it to its last definition, as its own comment says, and the model follows.
- VS Code drops a rebuild whose debounce ends during a restart (`extension.ts:155`). The
  restart under way may have started the build before it.
- The stamp of an extraction stays while another bundle is extracted over its files. If
  that is cut off and the IDE goes back to the first bundle, the stamp vouches for a
  mixture. And an extraction cut off while another project's goes on is stamped by the
  latter although a file it passed may be of the former (`OtelcolLspServerFactory.kt:95`).
  The comment at 81-84 promises neither.
- A question that Zed itself fails to answer (`?` at `otelcol.rs:79` and 96) leaves the
  status at checking or downloading.
- `pathAtPosition` reads keys of lists only on lines of their own: in `- key:` the dash hides
  the key, and maps of one list that are indented differently mislead the climb. Outside
  the texts of `analysis`, which indents lists evenly.
- `walkOttl` does not descend into maps of a list that also holds a string, although
  `yaml-model.ts:203` says "anywhere they appear".

One more is excluded by an assumption: a file outside the
folders, opened before initialization, brings a scan and cached models that
`onInitialized` keeps although its own scan may change their sets
(`CachedModelsHoldBuffers` and `CachedModelsExplained` fail in the instance of
`roots` under `Spec`). The run uses `QuietSpec`, in which nothing happens before the
server has initialized; the theorem below assumes less.

**Bounds.** `MaxEdits` bounds the client's and other programs' steps; the server's
own steps are unbounded. Four steps suffice for the longest scenario a property
speaks of (open, change, write, close, or two opens, a write and a change); the
mutants, which break one definition each, are all found within them. `TextsOf` and
`SidecarsOf` bound what may be written where. `MaxRuns` bounds handlers awaiting the
forwarder: three let two overtaken answers meet a newer one. `MaxAnswers` (one answer per document, besides the one on closing)
and `MaxInFlight` (characters of unread output) bound the ottl-lsp process: four let
a chunk end inside any part of a frame, cut a character, or reach into the next frame,
and the buffer complete two. `Analysis` has no bound but its texts: 63 combine
definitions of one id in nine sets of classes with seven pipelines (buckets filled or
not, known and unknown signals, substitutions, empty items, lists indented or not); the
others have two pipelines that use one component (with those of the other member more than
`UsesLimit`, which is 2 here), extensions defined and used in every way, connectors that route, and
layouts with blank lines at every kind of place. Two members let each definition and
each use be in the same or in another file, before or after it. `MaxBuilds` and
`MaxRestarts` let a rebuild meet two restarts under way, `MaxSessions` lets the IDE go to
another bundle and back; two bundles share `server.js` and a file and differ in a third,
in another order; two versions and three starts let Zed's extension be updated between
two of them with any version on npm. `SIBLING_SCAN_LIMIT` is 1 in
`roots`, so that a vouching sibling can lie beyond it, and as in the code elsewhere. Ids are
written with one or three characters, a substitution with four (`MaxWidth`). Deadlock is
not checked for `Server`, `OttlForward` and `Editors`, which stop when the bounded environment has.

**Fairness.** `CallsReturn` assumes that Node fires the timers that are set, finishes
the loop of `onData` and runs its continuations; nothing is assumed of the process or
of the chunks. `EventuallyDiagnosed` assumes: the reply to the configuration
request comes, timers fire, pending events are delivered (a write that the client does not
watch has none), and a run in flight
settles (a block settles after 300 ms at the latest). No fairness is assumed of
the client: it need not edit, open or close anything.

## 4. What is proved

- `ModelsHoldBuffers` (`ServerProofs`): `Spec /\ []OpenedInsideFolders =>
  []CachedModelsHoldBuffers`, for every workspace, layout, set of texts, settings and
  bound. `OpenedInsideFolders` says that documents opened before initialization are
  below the workspace folders. The invariant `BuffersInv` adds to the property that
  the index answers only with sets that list the file (`Answers`; from `RescanSound`),
  that nothing is cached before initialization (`StartsEmpty`; without it
  `onInitialized`, which scans and does not clear the cache, would keep models of
  other sets), and a few types. One lemma per handler: what it keeps held the buffers
  before (`HeldBefore`, `WithoutHolds`, `EmptyHolds`), what it builds reads them now
  (`WarmHolds`), and the changed document's set is dropped (`DroppedHolds`).
- `ServerTypesHold` (`ServerProofs`): `Spec => []TypeOK`. `TypeInv` adds what the handlers rely
  on: the list of open documents holds exactly open ones, each once (`OrderOK`; else a
  validation would read the text of a closed document), and the index is whole
  (`IndexOK`: every member of a set is a file of the workspace, and some set answers for
  it). Two facts below it are inductions over data, done by least counterexample
  (`Least`, from the library's well-founded minimum): the walks of the roots flatten to a
  list of files (`Flattened`), and the roots that `Initialized` adds one document after
  another are directories (`RootsTyped`).
- `DiskCacheExplained` and `ModelsExplained` (`ServerProofs`): `Spec => []DiskCacheStaleOnlyBeforeEvent`
  and `Spec /\ []OpenedInsideFolders => []CachedModelsExplained`. What a model is built from
  is the buffer, the disk, or a cached text that is current, has its event to come or was written unwatched
  (`WarmFits`, `WarmCurrent`). Where a handler drops only the model of the set that answers
  for a file, any other model that lists the file is of a set that shares it
  (`DroppedFits`): here the proof needs that every member finds an answering set
  (`RescanComplete`), which the two maps of the index do not show by themselves.
- `MembersAgree`, `SettledSets`, `ForwardedSettles` and `DiagnosticsSettle`
  (`PublicationProofs`): what the client ends up with. Each is for every workspace and
  interleaving of edits, scans, timers and late answers, under what it needs of the client
  and the workspace:

  | Theorem | Concludes | Assumes, always |
  |---|---|---|
  | `MembersAgree` | `SetMembersAgree` | `OpenedInsideFolders` |
  | `SettledSets` | `SettledSetsAreCurrent` | `OpenedInsideFolders`, `AnchorsListed`, the forwarder off |
  | `ForwardedSettles` | `ForwardedDiagnosticsAreCurrent` | `NoRootsBrought`, `AnchorsListed` |
  | `DiagnosticsSettle` | `SettledDiagnosticsAreCurrent` | `NoRootsBrought`, `AnchorsListed`, the forwarder off |

  `NoRootsBrought` says that open documents are below the workspace folders; where one
  brings a root, its scan takes other documents to other sets and nobody validates them
  (the first divergence above). `AnchorsListed` says that a set lists its anchor;
  without it, timers are lost. With the forwarder on, overtaken answers
  are shown (`late_answer`), which `ForwardedDiagnosticsAreCurrent` excepts.

  The notion behind all four is `Heading(U, G)`: the files `U` head for a diagnostic in `G`.
  They show one and the same of `G`, or a run in flight will give it to them, or one of them
  is known to show an overtaken answer; and each run in flight that would show them anything
  else is overtaken or followed by a newer one. One lemma says what the publication of a
  batch of runs does to it, one what a settled run does. Then `AgreeInv`: the members
  of a set that shares none head for one model of the set, from the moment it is
  formed. `SetsInv`: a set with an open, served member has its timer set, or each member
  heads for a diagnostic whose every text is current, or has its event to come, or was
  dropped unsaved or written unwatched. `DocsInv` says it of documents in no set. `ListedInv` (the caches are explained, the list of
  documents has every open one, the order of a set has every member) and `RootsKept` (the
  folders are the roots) tie them to what validation walks over. When nothing is pending, all the alternatives but
  "shows a current diagnostic" are gone.
- `TypeCorrect` (each set lists all its members, and its anchor unless a sidecar names others),
  `MapsAlwaysAgree`, `SetsAlwaysIndependent`, `NearestAlwaysAnswers`
  (`DiscoveryProofs`), for every disk, order of walking, limit, root list and order
  of scans and invalidations. The strengthening is `MembersBelow`: members of a
  discovered set lie below its anchor with no anchor in between. Two anchors above
  one file have comparable directories (`PrefixesComparable`), so two sets that share
  a member have their anchors in one directory.
- `FragmentsAlwaysAnswered` (`DiscoveryProofs`): `Spec => []FragmentsAnswered`. The
  property is about an index that is `fresh`, and then the index is what a scan would make
  now (`FreshIndex`). The discovered set of a nearest anchor above a fragment lists it: what
  would own the fragment instead is an anchor in between.

- `TypeCorrect`, `AnswersAlwaysOwn` and `RefinesForwarding` (`ForwardingProofs`), for any calls,
  blocks, answers and chunks. `RefinesForwarding` is `Spec => ImplementsForwarding`. A
  message names no call and no block, only a uri, so the invariant `ForwardInv` says that
  whatever is under way under a uri (a `didOpen` in the inbox, an open document, a frame in
  the output or in the buffer) speaks only of the block that was sent under it: the block
  that the call pending under it awaits. Uris are never reused, so an answer to a
  settled block finds no call. It adds to that what a call has (`CallsInv`: an awaiting
  call has no value yet), what it collected (`FoundInv`: only blocks before the one it is
  at), and the types. The refinement then has one case per action: `diagnose` maps to
  `Ask` or `Decline`, `resume` to `Settle`, everything else to a stutter.
- `WaitersAlwaysCanBeWoken` (`ForwardingProofs`): `Spec => []WaitersCanBeWoken`, for any
  calls, blocks, answers and chunks. The invariant `WokenInv` adds that the next
  uri is awaited by nobody (`NextIsFresh`), without which a new block could replace
  another call's promise. `SettleKeeps` covers every way a promise is resolved,
  `NextBlockKeeps` every way a call goes on. It is the safety half of "every call
  returns"; the other half is the fairness of the timers.
- `QuietAlwaysHoldsNothing` (`FramesProofs`): `Spec => []QuietProcessHoldsNothing`. By `QuietInv`,
  each document the process has open, or will open when it reads its inbox, has its
  timer set, or its `didClose` behind it in the inbox.
- `AsciiAnswersAlwaysSettle` and `BufferAlwaysFindsFrames` (`FramesProofs`), for any bodies and chunks.
  `FramesInv` speaks of one stream: the characters in the buffer, then those that the rest of
  the output decodes to. Reading a chunk does not change it, except where a character is cut;
  the process adds whole frames at its end; and whatever the loop of `onData` takes off, in
  whichever bytes it was miscounted, it takes off in front. So in the stream each header is
  followed by its line and its body, and when the loop returns, nothing it could skip or
  cut is left: of two messages in the buffer, the first would be cut if its length did not
  claim more than there is (`BufferAlwaysFindsFrames`, for any `Sizes`). While every byte was
  a character the stream also begins with a header, every body is cut whole, and a body
  that was read and not yet cut is still in the buffer (`AsciiInv`), so none is when
  the loop returns.

- `EditorsTypes`, `LatestBuild`, `BundleStarts` and `UsableStarts` (`EditorsProofs`), for any
  number of rebuilds, restarts, projects, bundles, sessions and versions. The watchers:
  unless something is still noticed, delayed or excused, a restart is about to stop the
  server, or the server runs the latest build, or it is stopped and a restart is about
  to start it (`WillRun`); VS Code's flag is set exactly while its one restart is under way
  (`OneRestart`). The extraction: a file that some project has passed is complete or looked
  after by a project that has just deleted or created it (`FilesCovered`). That alone does
  not show that some extraction comes to its end: each can be stopped by a file
  that another has created. The one that is furthest ahead cannot (`OneIsAhead`), which
  needs that a manifest lists no file twice. So while another bundle's stamp stands
  over files that were touched, someone extracts (`OldStampWhole`), or the stamp is in
  doubt. Zed: at the last step a copy is there; npm's latest is one of the published
  (`MaxIsMember`, by well-founded induction on the numbers).

- `SitesAlwaysTyped`, `FeaturesAlwaysAgree`, `UnusedAlwaysUnreferenced`, `DeprecatedAlwaysUnused`,
  `JumpsAlwaysReturn`, `ReferencesAlwaysAgree`, `OffersAlwaysResolve` and `TokensAlwaysDecode`
  (`AnalysisProofs`): `Spec => []P` for eight of the invariants of `analysis`, for any number
  of members and any texts, of any indentation. The edits contribute only that every
  member has some text; the work is in the operators. What encloses a line decides whether
  it is a reference, a definition or a pipeline, and it is at most one of them, of one class
  (`LinesAreOne`). Hence the entry that `onDefinition`, `onReferences` or the hover finds at a site
  is the one written there (`AtRef`, `AtDefinition`, `AtPipeline`), and each feature comes down to
  cases on which classes have the id and how often (`TargetsDefined`, `FindsAtRef`, `ReferencedIf`).
  The first and last of a set of sites, and the order of tokens, exist because the sets are
  finite and the sites of one id, and the places of tokens, differ (`FirstIsOne`, `CountingSorts`,
  `PositionsDiffer`). The deltas are decoded by a recursive function; that it finds the places
  is by least counterexample (`PlacesFound`).
- `SplittingMakesNoDifference` (`AnalysisProofs`): `Spec => [](Flush => SplitMakesNoDifference)`, where
  `Flush` says that the first key of every member is at column 0, so that concatenation nests
  nothing. The text of all members holds each of them at an offset and nothing else
  (`WholeHolds`). Below its member's first key a line has the same lines above it, moved
  (`UpWithin`, `AboveWithin`), so the same trail, kind and children (`KindWithin`,
  `ChildrenWithin`). Without duplicates, the last definition of an id in the whole is the one
  that a member has (`DefinitionsMoved`); places keep their order, so the last
  fragment of a pipeline is the last (`LastMoved`); and each rule says of the whole what it
  says of the set (`StructureMoves`, `UndefinedMoves`, `SignalMoves`, `DuplicatesMove`,
  `ComponentsMove`).

- `ClimbAlwaysFindsKeys` (`AnalysisProofs`): `Spec => [](Layout => ClimbFindsEnclosingKeys)`. `Layout`
  says that texts are indented evenly: the lines that one line holds, and those held by
  items in like places of a list, are at one column and are all items or all keys, also with the
  entry about to be written. (Without it the climb is misled, as section 3 says.) The
  climb knows columns only, the tree only what encloses what. A key is held by the nearest
  key above it, through lists (`HolderExists`); every line between the two is below the
  holder as well (`BelowAbove`), so it leads up to a line of the same holder
  (`HeldAbove`), which is in a place like that of the key, or of an item above the key or above
  itself (`PlacedAlike`, the induction over the lists between). Hence no key between a key and
  its holder is less deep (`NoneLessDeep`), and the climb stops at the keys above, at each and
  at no other (`ClimbLines`).

- `AcceptedAlwaysNew` (`AnalysisProofs`): `Spec => [](PipelinesOnce => AcceptedBucketsAreNew)`.
  `PipelinesOnce` says of a cursor whose path leads to a pipeline that the text is indented evenly
  around it, that no list is above it, and that no key above it is repeated beside
  itself, which yaml forbids. (Completion looks only at the first of two equal keys, and finds no
  map through a list.) The path is then the three keys above the cursor (`ThreeAbove`), the
  descent along it ends at the pipeline (`SiblingsAre`), and whatever the entry shares the
  pipeline with was held by it before (`EnteredUp`, `EnteredAlike`).

The three hypotheses `Flush`, `Layout` and `PipelinesOnce` are about texts alone. That every text of the
instance meets them is an assumption of `MCAnalysis` (`LayoutAssumption`), which TLC evaluates on
every run of it; for TLC, the relation that `Even` asks for is computed.

The assumptions are those of the modules: texts have shapes, directories are
sequences of strings, the listings list exactly their sets, blocks are sequences of
texts, manifests list `server.js` and no file twice, the instance's values are well typed.

The runs found the invariants first: `QuietInv`, `FramesInv`, `AgreeInv`, `SetsInv` and `DocsInv`
were checked on the instances before they were proved.

Every invariant that a passing run checks is stated by one of these theorems, three of them under
the hypotheses above (as model-checked, the instance meets them in every state). Model-checked only
are the liveness properties `EventuallyDiagnosed` and `CallsReturn`, since TLAPS does not prove
fairness.

## 5. Not modelled, and the plan

Left out of `Server`: what requests answer (functions of the model); the exit of the
forwarder's process while a run awaits it (`OttlForward` shows that the run still
settles); files above 16 KB whose head and whole differ; documents with a scheme other than
`file`. `applySettings` is one step with the scan that follows it.

Left out of `Documents` and `SetModel`: the path that `pathAtOffset` finds in the syntax tree for
a cursor on a written line; the OTTL walk; flow style (but for tokens that share a
line), block scalars, anchors, and `- key:` on one line; offsets within a line; the
wording and severity of messages; keys, values and hovers read off the JSON schemas of
components, which are data of the build. `loadComponents` reads that data once; its
choice of the highest version compares strings, and one version is shipped.

Left out of the editors: retagging of documents in VS Code (it asks the same sniffer and
keeps nothing), overrides of the server's path, and the glue of the IDEs. The scripts run
by hand or in the build, on files under git.

Next: the path of a cursor in the syntax tree, with offsets in a line, beside the climb.
