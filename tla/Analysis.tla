------------------------------ MODULE Analysis ------------------------------
(***************************************************************************)
(* A config set under the editor: its members are edited, and after every  *)
(* edit diagnostics, tokens, definitions, references, hover and completion *)
(* are computed from the merged view. They are separate code over the same *)
(* data; the properties say how their answers must fit together.           *)
(***************************************************************************)
EXTENDS SetModel

CONSTANTS
  Members,  \* the number of members, named 1 .. Members in the declared order
  Texts     \* the texts a member may have; the first one is what it starts with

ASSUME MembersAssumption == Members \in Nat \ {0}
ASSUME TextsAssumption == Texts \in Seq(Seq(Line)) /\ Texts # <<>>
ASSUME WidthsAssumption ==
  /\ MaxWidth \in Nat
  /\ \A k \in DOMAIN Texts : \A n \in DOMAIN Texts[k] :
       Width[Texts[k][n].key] \in 1 .. MaxWidth /\ Width[Texts[k][n].val.raw] \in 1 .. MaxWidth

VARIABLE text  \* member -> index into Texts
vars == <<text>>

Init == text = [i \in 1 .. Members |-> 1]

Edit(i) == \E n \in DOMAIN Texts : text' = [text EXCEPT ![i] = n]

Next == \E i \in 1 .. Members : Edit(i)

Spec == Init /\ [][Next]_vars

-----------------------------------------------------------------------------
Model == [n \in DOMAIN Texts |-> buildModel(Texts[n])]
Docs == [i \in 1 .. Members |-> Model[text[i]]]
TextOf(i) == Texts[text[i]]

Diagnosed(docs, site, what) == [at |-> site, what |-> what] \in validatePipelines(docs)

\* Each member has one of the texts. Every definition and reference of the merged view is at
\* the line that writes it: its range is that of its id, in the member that holds it.
TypeOK ==
  /\ text \in [1 .. Members -> DOMAIN Texts]
  /\ \A r \in Refs(Docs) :
       /\ r.at[2] \in DOMAIN TextOf(r.at[1])
       /\ r.id \in {TextOf(r.at[1])[r.at[2]].val.raw, TextOf(r.at[1])[r.at[2]].val.inner}
  /\ \A c \in Components(Docs) : \A s \in Definitions(Docs, c[1], c[2]) :
       s[2] \in DOMAIN TextOf(s[1]) /\ TextOf(s[1])[s[2]].key = c[2]

\* Diagnostics, go-to-definition and hover resolve references in three places of the
\* code (pipeline.ts:95-221, server.ts:499-594, hover.ts:48-76). A reference reported as
\* not defined leads nowhere; one that leads nowhere is reported, but for the three
\* kinds that pipeline.ts leaves out on purpose; and hover describes something just when
\* definition leads somewhere, and for a component of the graph names the pipeline of the
\* reference among the uses, unless it names as many others as it may.
FeaturesAgreeOnRefs ==
  \A r \in Refs(Docs) :
    LET dead      == onDefinition(Docs, r.at) = {}
        diagnosed == Diagnosed(Docs, r.at, "not defined")
    IN /\ diagnosed => dead
       /\ dead => \/ diagnosed \/ r.id \in Substitutions \/ r.kind = "soft"
                  \/ r.kind \in Buckets /\ SignalOf[r.pipe] \notin KnownSignals
       /\ r.kind # "pipeline" => (dead <=> HoverTarget(Docs, r) = {})
       /\ \A c \in HoverTarget(Docs, r) :
            LET named == pipelinesUsing(Docs, c[1], c[2]) IN
            r.kind \in Buckets => r.pipe \in Range(named) \/ Len(named) = UsesLimit

\* "Defined but never used" (pipeline.ts:263-275) and the reference query (usage.ts) agree:
\* a component is reported exactly when nothing refers to it. A pipeline of an
\* unknown signal does not count as a use, nor does a reference that a duplicate
\* connector of the same id takes.
UnusedMeansUnreferenced ==
  \A c \in Components(Docs) :
    LET counts(r) == \/ r.kind \notin Buckets
                     \/ SignalOf[r.pipe] \in KnownSignals /\ ~isDuplicate(Docs, "connector", r.id)
    IN c[1] = "connector" \/ isDuplicate(Docs, c[1], c[2])
       \/ (Diagnosed(Docs, FirstOf(Definitions(Docs, c[1], c[2])), "unused")
             <=> ~\E r \in UsesOf(Docs, c[1], c[2]) : counts(r))

\* The greyed-out token (semantic-tokens.ts:49-71) and the diagnostic it mirrors: equal but for
\* duplicates, ids that are a connector's too, and pipelines of an unknown signal.
DeprecatedMatchesUnused ==
  \A c \in Components(Docs) :
    \/ c[1] = "connector" \/ isDuplicate(Docs, c[1], c[2]) \/ Has(Docs, "connector", c[2])
    \/ \E r \in UsesOf(Docs, c[1], c[2]) : r.kind \in Buckets /\ SignalOf[r.pipe] \notin KnownSignals
    \/ IsDeprecated(Docs, c[1], c[2])
         <=> Diagnosed(Docs, FirstOf(Definitions(Docs, c[1], c[2])), "unused")

\* The comment at semantic-tokens.ts:45-48 promises the same without exception.
DeprecatedInSync ==
  \A c \in Components(Docs) : \A s \in Definitions(Docs, c[1], c[2]) :
    c[1] # "connector" => (IsDeprecated(Docs, c[1], c[2]) <=> Diagnosed(Docs, s, "unused"))

\* Jumping to a definition and back: from every definition a reference leads to,
\* "definition" lists that reference among the uses (server.ts:499-626).
JumpsReturn ==
  \A r \in Refs(Docs) : \A s \in onDefinition(Docs, r.at) : r.at \in onDefinition(Docs, s)

\* Find-references answers the same at a reference and at the definition it leads to,
\* where there is one (server.ts:632-729 chooses the component by its own rules).
ReferencesAgree ==
  \A r \in Refs(Docs) : LET to == onDefinition(Docs, r.at) IN
    Cardinality(to) = 1 => \A s \in to : onReferences(Docs, r.at) = onReferences(Docs, s)

\* An id that completion offers in a bucket (completion.ts:196-227) is not reported as
\* not defined once accepted, whatever the other members define.
OfferedIdsResolve ==
  \A i \in 1 .. Members : \A p \in Docs[i].pipelines, b \in Buckets : \A id \in OfferedIds(Docs, b) :
    LET new == Len(TextOf(i)) + 1
        accepted == [Docs EXCEPT ![i].refs = @ \cup {[kind |-> b, id |-> id, at |-> new, pipe |-> p.id]}]
    IN [at |-> <<i, new>>, what |-> "not defined"] \notin UndefinedDiagnostics(accepted)

\* The first key of every member is at column 0. (Deeper, it would be inside the
\* member before it in the whole, and is not meant to be.)
StartsFlush(t) ==
  \A n \in Written(t) : (\A m \in Written(t) : n <= m) => t[n].ind = 0 /\ ~IsItem(t, n)
Flush == \A i \in 1 .. Members : StartsFlush(TextOf(i))

\* The rules see the merged configuration (pipeline.ts:53-56, set-model.ts:125-149): without
\* duplicates, the diagnostics of a set are those of one file with all its lines.
SplitMakesNoDifference ==
  LET whole == buildModel(FlattenSeq([i \in 1 .. Members |-> TextOf(i)]))
      offset[i \in 1 .. Members] == IF i = 1 THEN 0 ELSE offset[i - 1] + Len(TextOf(i - 1))
      moved(d) == [d EXCEPT !.at = <<1, offset[@[1]] + @[2]>>]
  IN (\A c \in Components(Docs) : ~isDuplicate(Docs, c[1], c[2]))
       => {moved(d) : d \in validatePipelines(Docs)} = validatePipelines(<<whole>>)

\* A client that decodes the deltas (semantic-tokens.ts:175-188) finds each token once, at its
\* place. No delta is negative, no token is empty, and each ends before the next begins.
TokensDecode ==
  \A i \in 1 .. Members :
    LET wire == encodeSemanticTokens(computeSemanticTokens(Docs, i, TextOf(i)))
        pos[k \in 0 .. Len(wire)] ==
          IF k = 0 THEN <<0, 0>>
          ELSE <<pos[k - 1][1] + wire[k].dLine,
                 IF wire[k].dLine = 0 THEN pos[k - 1][2] + wire[k].dChar ELSE wire[k].dChar>>
    IN /\ \A k \in DOMAIN wire : wire[k].dLine >= 0 /\ wire[k].dChar >= 0
       /\ \A k \in DOMAIN wire : wire[k].len > 0
       /\ \A k \in 2 .. Len(wire) :
            \/ pos[k - 1][1] < pos[k][1]
            \/ pos[k - 1][1] = pos[k][1] /\ pos[k - 1][2] + wire[k - 1].len <= pos[k][2]
       /\ {[pos |-> pos[k], len |-> wire[k].len, type |-> wire[k].type, mods |-> wire[k].mods] : k \in DOMAIN wire}
            = TokenSet(Docs, i, TextOf(i))

-----------------------------------------------------------------------------
(***************************************************************************)
(* Cursors on a blank line.                                                *)
(***************************************************************************)

Inserted(t, l, col, key) == [t EXCEPT ![l] = [@ EXCEPT !.ind = col, !.key = key]]

\* Columns where an entry may be written on blank line l: its map, if it has other
\* entries, has them there, and maps of one list are indented alike.
EntryColumns(t, l) ==
  {col \in 0 .. 10 :
     LET new   == Inserted(t, l, col, "new")
         up    == Up(new, l)
         peers == IF up # 0 /\ IsItem(new, up) THEN UNION {Children(new, m) : m \in Children(new, Up(new, up))}
                  ELSE Children(new, up)
     IN /\ up = 0 => col = 0
        /\ up # 0 => new[up].val = NoValue
        /\ \A m \in peers : new[m].ind = col /\ ~IsItem(new, m)}

\* The keys from the document down to the key on line n, as the tree has them.
EnclosingKeys(t, n) == KeysOf(t, {m \in Above(t, n) \cup {n} : ~IsItem(t, m)})

\* Even indentation, down to line n. R relates lines in like places: those that one line
\* holds, and those held by items in like places. They are indented alike.
LikePlaces(t, n, R) ==
  \A k, m \in Written(t) :
    k <= n /\ m <= n =>
      /\ Up(t, k) = Up(t, m) => <<k, m>> \in R
      /\ Up(t, k) # 0 /\ Up(t, m) # 0 /\ IsItem(t, Up(t, k)) /\ IsItem(t, Up(t, m))
           /\ <<Up(t, k), Up(t, m)>> \in R => <<k, m>> \in R
      /\ <<k, m>> \in R => t[k].ind = t[m].ind /\ (IsItem(t, k) <=> IsItem(t, m))

Even(t, n) == \E R : LikePlaces(t, n, R)

\* A text is indented evenly, and stays so with an entry on a blank line.
Evenly(t) ==
  /\ \A n \in Written(t) : ~IsItem(t, n) => Even(t, n)
  /\ \A l \in {n \in DOMAIN t : t[n].key = Blank} : \A col \in EntryColumns(t, l) :
       CursorIndent(t, l, col) = col => Even(Inserted(t, l, col, "new"), l)
Layout == \A i \in 1 .. Members : Evenly(TextOf(i))

InPipeline(path) == Len(path) = 3 /\ SubSeq(path, 1, 2) = <<"service", "pipelines">>

\* Where the cursor is in a pipeline, no list is around it, and no key above it is repeated
\* beside itself, which yaml forbids.
Singly(t) ==
  \A l \in {n \in DOMAIN t : t[n].key = Blank} : \A col \in EntryColumns(t, l) :
    LET new == Inserted(t, l, CursorIndent(t, l, col), "new") IN
    InPipeline(pathAtPosition(t, l, col)) =>
      /\ Even(new, l)
      /\ \A m \in Above(new, l) :
           ~IsItem(t, m) /\ \A k \in Children(t, Up(t, m)) : t[k].key = t[m].key => k = m
PipelinesOnce == \A i \in 1 .. Members : Singly(TextOf(i))

\* The climb over raw lines (yaml-model.ts:640-656, 699-708) finds the keys that enclose the
\* line in the tree the parser makes, at every column where an entry may be written.
ClimbFindsEnclosingKeys ==
  \A i \in 1 .. Members : LET t == TextOf(i) IN
    /\ \A l \in {n \in DOMAIN t : t[n].key = Blank} : \A col \in EntryColumns(t, l) :
         LET new == Inserted(t, l, col, "new") IN
         CursorIndent(t, l, col) = col
           => Append(pathAtPosition(t, l, col), "new") = EnclosingKeys(new, l)
    /\ \A n \in Written(t) : ~IsItem(t, n) => valueContextAtPosition(t, n) = EnclosingKeys(t, n)

\* Accepting a bucket that completion offers on a blank line of a pipeline never repeats
\* a key of that pipeline (completion.ts:172-193).
AcceptedBucketsAreNew ==
  \A i \in 1 .. Members : LET t == TextOf(i) IN
    \A l \in {n \in DOMAIN t : t[n].key = Blank} : \A col \in EntryColumns(t, l) :
      LET path == pathAtPosition(t, l, col) IN
      InPipeline(path)
        => \A b \in OfferedBuckets(t, path) :
             LET new == Inserted(t, l, CursorIndent(t, l, col), b) IN
             \A m \in Children(new, Up(new, l)) : m # l => new[m].key # b
=============================================================================
