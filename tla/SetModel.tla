------------------------------ MODULE SetModel ------------------------------
(***************************************************************************)
(* The merged view of a config set and everything computed from it: the    *)
(* diagnostics (pipeline.ts), the semantic tokens (semantic-tokens.ts),    *)
(* the usage queries (usage.ts), go-to-definition and find-references      *)
(* (server.ts), hover and completion of ids (hover.ts, completion.ts).     *)
(*                                                                         *)
(* docs is the sequence of the members' document models, in the declared   *)
(* order; <<i, n>> is the node at line n of member i, its site. Sites are  *)
(* ordered by member, then by line.                                        *)
(***************************************************************************)
EXTENDS Documents

CONSTANTS
  SignalOf,       \* the part of a pipeline id before its slash
  Substitutions,  \* the ids that are substitutions whose value is not known
  Declared,       \* the component index: class -> type -> signals declared
  UsesLimit,      \* how many pipelines a hover names
  Width,          \* key or scalar -> the characters it is written with
  MaxWidth        \* no key or scalar has more

ASSUME UsesLimitAssumption == UsesLimit \in Nat \ {0}

KnownSignals == {"traces", "metrics", "logs", "profiles"}
ClassOf(kind) == CLASS_KEYS[kind]

Before(a, b) == a[1] < b[1] \/ (a[1] = b[1] /\ a[2] < b[2])
FirstOf(sites) == CHOOSE s \in sites : \A x \in sites : x = s \/ Before(s, x)
LastOf(sites)  == CHOOSE s \in sites : \A x \in sites : x = s \/ Before(x, s)

-----------------------------------------------------------------------------
(***************************************************************************)
(* buildSetModel: the union of the members.                                *)
(***************************************************************************)

\* The definitions of an id, one per member that has one. The first is the
\* component of the merged view; with two or more the id is a duplicate.
Definitions(docs, cls, id) ==
  {<<i, docs[i].components[cls][id]>> :
     i \in {k \in DOMAIN docs : id \in DOMAIN docs[k].components[cls]}}
Has(docs, cls, id) == Definitions(docs, cls, id) # {}
isDuplicate(docs, cls, id) == Cardinality(Definitions(docs, cls, id)) > 1

Components(docs) ==
  {c \in Classes \X (UNION {DOMAIN docs[i].components[cls] : i \in DOMAIN docs, cls \in Classes}) :
     Has(docs, c[1], c[2])}

\* Mutant of Refs: every reference is taken to be in the first member.
RefsOfFirst(docs) == UNION {{[r EXCEPT !.at = <<1, @>>] : r \in docs[i].refs} : i \in DOMAIN docs}

Refs(docs) ==
  UNION {{[r EXCEPT !.at = <<i, @>>] : r \in docs[i].refs} : i \in DOMAIN docs}
Fragments(docs) ==
  UNION {{[p EXCEPT !.at = <<i, @>>] : p \in docs[i].pipelines} : i \in DOMAIN docs}

\* Pipelines by id: the sites of the fragments; the last one stands for the pipeline.
PipelineSites(docs, id) == {p.at : p \in {q \in Fragments(docs) : q.id = id}}

BucketRefs(docs) == {r \in Refs(docs) : r.kind \in Buckets}
isSuppressed(docs, site) == site[2] \in docs[site[1]].suppressions

-----------------------------------------------------------------------------
(***************************************************************************)
(* validatePipelines. A diagnostic is where it is and what it says.        *)
(***************************************************************************)

\* Mutant of StructureDiagnostics: the lists of a bucket are not merged over members.
StructureOfFragments(docs) ==
  LET lists(p, bucket) == \E r \in BucketRefs(docs) : r.kind = bucket /\ r.pipe = p.id /\ r.at[1] = p.at[1]
      known == {p \in Fragments(docs) : SignalOf[p.id] \in KnownSignals}
  IN {[at |-> p.at, what |-> "unknown signal"] : p \in Fragments(docs) \ known}
       \cup {[at |-> p.at, what |-> "no receivers"] : p \in {q \in known : ~lists(q, "receivers")}}
       \cup {[at |-> p.at, what |-> "no exporters"] : p \in {q \in known : ~lists(q, "exporters")}}

\* Structural rules, on the pipelines merged over all members, at their last fragment.
StructureDiagnostics(docs) ==
  LET ids == {p.id : p \in Fragments(docs)}
      listed(id, bucket) == \E r \in BucketRefs(docs) : r.kind = bucket /\ r.pipe = id
      known == {id \in ids : SignalOf[id] \in KnownSignals}
      At(id, what) == [at |-> LastOf(PipelineSites(docs, id)), what |-> what]
  IN {At(id, "unknown signal") : id \in ids \ known}
       \cup {At(id, "no receivers") : id \in {k \in known : ~listed(k, "receivers")}}
       \cup {At(id, "no exporters") : id \in {k \in known : ~listed(k, "exporters")}}

\* Mutant of Resolved: a connector hides a component of the same id.
ResolvedConnectorFirst(docs, r) ==
  IF Has(docs, "connector", r.id) THEN {"connector"}
  ELSE {c \in {ClassOf(r.kind)} : Has(docs, c, r.id)}

\* What a pipeline's reference resolves to: a duplicate of the bucket's class, a
\* duplicate connector, or else the component of the class and the connector of that id.
Resolved(docs, r) ==
  LET cls == ClassOf(r.kind) IN
  IF isDuplicate(docs, cls, r.id) THEN {cls}
  ELSE IF isDuplicate(docs, "connector", r.id) THEN {"connector"}
  ELSE {c \in {cls, "connector"} : Has(docs, c, r.id)}

\* Validated references: those of a pipeline whose signal is known.
ValidRefs(docs) == {r \in BucketRefs(docs) : SignalOf[r.pipe] \in KnownSignals}

IsDefined(docs, r) ==
  CASE r.kind \in Buckets                         -> Resolved(docs, r) # {}
    [] r.kind \in {"service", "strict", "soft"}   -> Has(docs, "extension", r.id)
    [] r.kind = "pipeline"                        -> PipelineSites(docs, r.id) # {}

UndefinedDiagnostics(docs) ==
  LET checked == ValidRefs(docs) \cup {r \in Refs(docs) : r.kind \in {"service", "strict", "pipeline"}}
  IN {[at |-> r.at, what |-> "not defined"] :
        r \in {x \in checked : ~IsDefined(docs, x) /\ x.id \notin Substitutions}}

\* A signal is declared as <<signal>>, or by a connector as <<from, to>>: used as a
\* receiver, its right side counts, as an exporter, its left side.
signalMatches(declared, signal, bucket, isConnector) ==
  \/ <<signal>> \in declared
  \/ /\ isConnector /\ bucket # "processors"
     /\ \E d \in {x \in declared : Len(x) = 2} : d[IF bucket = "receivers" THEN 2 ELSE 1] = signal

SignalDiagnostics(docs) ==
  LET cls(r)  == IF ClassOf(r.kind) \in Resolved(docs, r) THEN ClassOf(r.kind) ELSE "connector"
      wrong(r) == LET known == Declared[cls(r)] IN
                  /\ Resolved(docs, r) # {} /\ TypeOf[r.id] \in DOMAIN known
                  /\ known[TypeOf[r.id]] # {}
                  /\ ~signalMatches(known[TypeOf[r.id]], SignalOf[r.pipe], r.kind, cls(r) = "connector")
  IN {[at |-> r.at, what |-> "signal"] : r \in {x \in ValidRefs(docs) : wrong(x)}}

\* Every definition of a duplicate after the first, unless its line is silenced.
DuplicateDiagnostics(docs) ==
  {[at |-> d, what |-> "duplicate"] :
     d \in {x \in UNION {Definitions(docs, c[1], c[2]) \ {FirstOf(Definitions(docs, c[1], c[2]))} :
                           c \in Components(docs)} : ~isSuppressed(docs, x)}}

\* What the rules above marked as referenced.
Referenced(docs) ==
  (UNION {{<<c, r.id>> : c \in Resolved(docs, r)} : r \in ValidRefs(docs)})
    \cup {<<"extension", r.id>> : r \in {x \in Refs(docs) : /\ x.kind \in {"service", "strict", "soft"}
                                                              /\ Has(docs, "extension", x.id)}}

\* Unknown types, and components that nothing refers to; duplicates are left out.
ComponentDiagnostics(docs) ==
  LET single == {c \in Components(docs) : ~isDuplicate(docs, c[1], c[2])}
      At(c, what) == [at |-> FirstOf(Definitions(docs, c[1], c[2])), what |-> what]
  IN {At(c, "unknown type") : c \in {x \in single : TypeOf[x[2]] \notin DOMAIN Declared[x[1]]}}
       \cup {At(c, "unused") : c \in {x \in single : x[1] # "connector" /\ x \notin Referenced(docs)}}

validatePipelines(docs) ==
  StructureDiagnostics(docs) \cup UndefinedDiagnostics(docs) \cup SignalDiagnostics(docs)
    \cup DuplicateDiagnostics(docs) \cup ComponentDiagnostics(docs)

-----------------------------------------------------------------------------
(***************************************************************************)
(* usage.ts: the sites that refer to a component, or to a pipeline.        *)
(***************************************************************************)

\* Mutant of UsesOf: a reference names the class of its bucket, so connectors have none.
UsesOfBucketClass(docs, cls, id) ==
  {r \in Refs(docs) :
     /\ r.id = id
     /\ IF cls = "extension" THEN r.kind \in {"service", "strict", "soft"}
        ELSE r.kind \in Buckets /\ ClassOf(r.kind) = cls}

UsesOf(docs, cls, id) ==
  {r \in Refs(docs) :
     /\ r.id = id
     /\ IF cls = "extension" THEN r.kind \in {"service", "strict", "soft"}
        ELSE r.kind \in Buckets /\ (cls = "connector" \/ ClassOf(r.kind) = cls)}

pipelineRefsTo(docs, cls, id) == {r.at : r \in UsesOf(docs, cls, id)}
pipelineIdRefsTo(docs, id) == {r.at : r \in {x \in Refs(docs) : x.kind = "pipeline" /\ x.id = id}}

\* The pipelines that a component of the graph is used in, for its hover: in the order of
\* their first use, and cut to a limit. (For an extension they are labels of its uses.)
pipelinesUsing(docs, cls, id) ==
  LET uses  == UsesOf(docs, cls, id)
      first == [p \in {r.pipe : r \in uses} |-> FirstOf({r.at : r \in {x \in uses : x.pipe = p}})]
      seen  == InOrder(DOMAIN first, LAMBDA p, q : Before(first[p], first[q]))
  IN SubSeq(seen, 1, Min({UsesLimit, Len(seen)}))

-----------------------------------------------------------------------------
(***************************************************************************)
(* Requests, at a site of member i. A member's own entries answer; of two  *)
(* equal ids in one text that is the last.                                 *)
(***************************************************************************)

EntriesAt(docs, site) ==
  {c \in Components(docs) :
     /\ c[2] \in DOMAIN docs[site[1]].components[c[1]]
     /\ docs[site[1]].components[c[1]][c[2]] = site[2]}
RefsAt(docs, site)      == {r \in Refs(docs) : r.at = site}
PipelinesAt(docs, site) == {p \in Fragments(docs) : p.at = site}

\* Mutant of Targets: a pipeline's reference leads to its bucket's class only.
TargetsOfBucketClass(docs, r) ==
  CASE r.kind \in Buckets -> Definitions(docs, ClassOf(r.kind), r.id)
    [] r.kind = "pipeline" ->
         {s \in PipelineSites(docs, r.id) : s = LastOf(PipelineSites(docs, r.id))}
    [] OTHER               -> Definitions(docs, "extension", r.id)

\* The definitions that a reference leads to. A duplicate leads to all of them, except
\* from a component's config, where only the component of the merged view counts.
Targets(docs, r) ==
  CASE r.kind \in Buckets ->
         LET cls == ClassOf(r.kind)
             dup == {c \in {cls, "connector"} : isDuplicate(docs, c, r.id)}
             to  == IF dup # {} THEN dup ELSE {c \in {cls, "connector"} : Has(docs, c, r.id)}
         IN Definitions(docs, IF cls \in to THEN cls ELSE "connector", r.id)
    [] r.kind = "service"  -> Definitions(docs, "extension", r.id)
    [] r.kind \in {"strict", "soft"} ->
         {s \in Definitions(docs, "extension", r.id) : s = FirstOf(Definitions(docs, "extension", r.id))}
    [] r.kind = "pipeline" ->
         {s \in PipelineSites(docs, r.id) : s = LastOf(PipelineSites(docs, r.id))}

\* onDefinition: from a reference to its definitions, from a definition to its uses.
onDefinition(docs, site) ==
  (UNION {Targets(docs, r) : r \in RefsAt(docs, site)})
    \cup (UNION {pipelineRefsTo(docs, c[1], c[2]) : c \in EntriesAt(docs, site)})
    \cup (UNION {pipelineIdRefsTo(docs, p.id) : p \in PipelinesAt(docs, site)})

\* Mutant of ReferenceTarget: a connector is taken whenever there is one.
ReferenceTargetConnectorFirst(docs, r) ==
  IF r.kind \notin Buckets THEN <<"extension", r.id>>
  ELSE IF Has(docs, "connector", r.id) THEN <<"connector", r.id>> ELSE <<ClassOf(r.kind), r.id>>

\* The component that onReferences takes a reference for.
ReferenceTarget(docs, r) ==
  IF r.kind \notin Buckets THEN <<"extension", r.id>>
  ELSE IF Has(docs, "connector", r.id) /\ ~Has(docs, ClassOf(r.kind), r.id)
       THEN <<"connector", r.id>> ELSE <<ClassOf(r.kind), r.id>>

\* onReferences with the declaration included.
onReferences(docs, site) ==
  LET targets == EntriesAt(docs, site)
                   \cup {ReferenceTarget(docs, r) : r \in {x \in RefsAt(docs, site) : x.kind # "pipeline"}}
      named   == {r.id : r \in {x \in RefsAt(docs, site) : x.kind = "pipeline"}}
  IN (UNION {pipelineRefsTo(docs, c[1], c[2])
               \cup {s \in Definitions(docs, c[1], c[2]) : s = FirstOf(Definitions(docs, c[1], c[2]))} :
               c \in targets})
       \cup (UNION {pipelineIdRefsTo(docs, id)
               \cup {s \in PipelineSites(docs, id) : s = LastOf(PipelineSites(docs, id))} : id \in named})
       \cup (UNION {pipelineIdRefsTo(docs, p.id) \cup {site} : p \in PipelinesAt(docs, site)})

\* The component that hover describes for a reference, or none. Pipeline ids have no hover.
HoverTarget(docs, r) ==
  LET cls == IF r.kind \in Buckets THEN ClassOf(r.kind) ELSE "extension"
  IN IF r.kind = "pipeline" THEN {}
     ELSE IF Has(docs, cls, r.id) THEN {<<cls, r.id>>}
     ELSE IF r.kind \in Buckets /\ Has(docs, "connector", r.id) THEN {<<"connector", r.id>>} ELSE {}

\* Mutant of OfferedIds: every id of the set is offered.
OfferedIdsOfAll(docs, bucket) == {c[2] : c \in Components(docs)}
\* Mutant of OfferedBuckets: the keys already there are not looked at.
OfferedBucketsAll(t, path) == Buckets

\* The ids that completion offers in a bucket, and the keys it offers in a pipeline.
OfferedIds(docs, bucket) ==
  {c[2] : c \in {x \in Components(docs) : x[1] \in {ClassOf(bucket), "connector"}}}
OfferedBuckets(t, path) == Buckets \ siblingKeysAt(t, path)

-----------------------------------------------------------------------------
(***************************************************************************)
(* Semantic tokens of member i, whose text is t. Items of a list of        *)
(* scalars share the line of their key, as they do in flow style, each in  *)
(* a column as wide as the widest id: a token is not alone on its line,    *)
(* and deltas within a line occur.                                         *)
(***************************************************************************)

\* Mutant of TokenReferenced: references from configs are forgotten.
TokenReferencedByService(docs) ==
  {IF r.kind # "processors" /\ r.kind \in Buckets /\ Has(docs, "connector", r.id)
     THEN <<"connector", r.id>>
     ELSE <<IF r.kind \in Buckets THEN ClassOf(r.kind) ELSE "extension", r.id>> :
     r \in {x \in Refs(docs) : x.kind \in Buckets \cup {"service"}}}

\* buildReferencedSet.
TokenReferenced(docs) ==
  {IF r.kind # "processors" /\ r.kind \in Buckets /\ Has(docs, "connector", r.id)
     THEN <<"connector", r.id>>
     ELSE <<IF r.kind \in Buckets THEN ClassOf(r.kind) ELSE "extension", r.id>> :
     r \in {x \in Refs(docs) : x.kind # "pipeline"}}

IsDeprecated(docs, cls, id) == cls # "connector" /\ <<cls, id>> \notin TokenReferenced(docs)

\* An item is written behind the key of its list, on that line; other lines on their own.
Shown(t, n) == IF IsItem(t, n) /\ Up(t, n) # 0 THEN Up(t, n) ELSE n
Position(t, n) == <<Shown(t, n), t[Shown(t, n)].ind + (n - Shown(t, n)) * (MaxWidth + 1)>>

\* rangeLen: an id that is a key takes its characters, a reference those of its scalar,
\* and an empty item none. (A scalar that goes over several lines would have none either.)
keyLen(t, n) == Width[t[n].key]
valueLen(t, n) == IF t[n].val = NoValue THEN 0 ELSE Width[t[n].val.raw]

\* Mutant of Token: one without length is not left out.
TokenOfAnyLength(t, n, len, type, mods) ==
  {[pos |-> Position(t, n), len |-> len, type |-> type, mods |-> mods]}

\* The token of line n, unless it has no length.
Token(t, n, len, type, mods) ==
  IF len > 0 THEN {[pos |-> Position(t, n), len |-> len, type |-> type, mods |-> mods]} ELSE {}

TokenSet(docs, i, t) ==
  LET line(c) == docs[i].components[c[1]][c[2]]
      defs    == {c \in Components(docs) : c[2] \in DOMAIN docs[i].components[c[1]]}
  IN UNION ({Token(t, line(c), keyLen(t, line(c)), "class",
                   IF IsDeprecated(docs, c[1], c[2]) THEN {"declaration", "deprecated"} ELSE {"declaration"}) : c \in defs}
       \cup {Token(t, p.at, keyLen(t, p.at), "namespace", {"declaration"}) : p \in docs[i].pipelines}
       \cup {Token(t, r.at, valueLen(t, r.at), IF r.kind = "pipeline" THEN "namespace" ELSE "class", {}) :
               r \in docs[i].refs})

\* In the order of the document.
computeSemanticTokens(docs, i, t) ==
  InOrder(TokenSet(docs, i, t), LAMBDA a, b : Before(a.pos, b.pos))

\* Mutant of encodeSemanticTokens: characters are relative on every line.
encodeRelative(toks) ==
  [k \in DOMAIN toks |->
     LET prev == IF k = 1 THEN <<0, 0>> ELSE toks[k - 1].pos
     IN [dLine |-> toks[k].pos[1] - prev[1], dChar |-> toks[k].pos[2] - prev[2],
         len |-> toks[k].len, type |-> toks[k].type, mods |-> toks[k].mods]]

\* Each token relative to the one before it.
encodeSemanticTokens(toks) ==
  [k \in DOMAIN toks |->
     LET prev  == IF k = 1 THEN <<0, 0>> ELSE toks[k - 1].pos
         dLine == toks[k].pos[1] - prev[1]
     IN [dLine |-> dLine, dChar |-> IF dLine = 0 THEN toks[k].pos[2] - prev[2] ELSE toks[k].pos[2],
         len |-> toks[k].len, type |-> toks[k].type, mods |-> toks[k].mods]]
=============================================================================
