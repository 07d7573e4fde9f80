------------------------------ MODULE Documents ------------------------------
(***************************************************************************)
(* The document model (yaml-model.ts, substitution.ts): what the server    *)
(* extracts from one collector configuration, and where it thinks a cursor *)
(* is. Operators only: the extraction is a function of the text.           *)
(*                                                                         *)
(* A text is a sequence of lines in block style, one yaml node per line:   *)
(*   ind   its indentation                                                 *)
(*   key   Blank, Comment, Dash (an item of a list) or the key of an entry *)
(*   val   the scalar after the colon or the dash, or NoValue: its form,   *)
(*         its text, and for a substitution the value inside it            *)
(*   note  the suppression directive of the line's comment, or NoNote      *)
(* so that a node is named by its line, and document order is line order.  *)
(* A list may be indented like the key that holds it, as yaml allows.      *)
(***************************************************************************)
EXTENDS Integers, Sequences, FiniteSets, FiniteSetsExt, SequencesExt

CONSTANTS
  TypeOf   \* the part of a component id before its slash

Blank   == "blank"
Comment == "#"
Dash    == "-"
NoValue == [form |-> "none", raw |-> "null", inner |-> ""]
NoNote  == "none"
\* A text is a sequence of these.
Line    == [ind : Nat, key : STRING, val : [form : STRING, raw : STRING, inner : STRING], note : STRING]

Classes == {"receiver", "processor", "exporter", "connector", "extension"}
Buckets == {"receivers", "processors", "exporters"}
CLASS_KEYS == [receivers |-> "receiver", processors |-> "processor", exporters |-> "exporter",
               connectors |-> "connector", extensions |-> "extension"]

\* The members of a set in order: each at the place its rank gives it.
InOrder(S, less(_, _)) ==
  [k \in 1 .. Cardinality(S) |-> CHOOSE x \in S : Cardinality({y \in S : less(y, x)}) = k - 1]

-----------------------------------------------------------------------------
(***************************************************************************)
(* The tree of a text, as the yaml parser makes it.                        *)
(***************************************************************************)

Written(t) == {n \in DOMAIN t : t[n].key \notin {Blank, Comment}}
IsItem(t, n) == t[n].key = Dash
IsString(t, n) == t[n].val.form \notin {"none", "number"}

\* The node that holds line n: the nearest line above it that is indented less,
\* or, for an item of a list, the key at the same column. 0 is the document.
Up(t, n) ==
  Max({0} \cup {m \in Written(t) :
                  /\ m < n
                  /\ \/ t[m].ind < t[n].ind
                     \/ t[m].ind = t[n].ind /\ IsItem(t, n) /\ ~IsItem(t, m)})

Children(t, n) == {m \in Written(t) : Up(t, m) = n}

IsScalar(t, n) == t[n].val # NoValue \/ Children(t, n) = {}

Above(t, n) ==
  LET above[m \in 0 .. n] == IF m = 0 THEN {} ELSE {Up(t, m)} \cup above[Up(t, m)]
  IN above[n] \ {0}

KeysOf(t, lines) == LET s == InOrder(lines, <) IN [i \in DOMAIN s |-> t[s[i]].key]

\* The keys from the document down to line n, a dash for each list passed.
Trail(t, n) ==
  KeysOf(t, Above(t, n) \cup {n})

KeysOnly(trail) == SelectSeq(trail, LAMBDA k : k # Dash)

-----------------------------------------------------------------------------
(***************************************************************************)
(* buildModel.                                                             *)
(***************************************************************************)

\* The id that a reference is looked up by. A substitution that is the whole scalar
\* stands for what it holds when it is an environment variable with a default, or of
\* the yaml provider; everything else stands for its own text, a null item for "null".
resolveRefId(val) == IF val.form \in {"default", "yaml"} THEN val.inner ELSE val.raw

\* The lines that a directive silences. (Rules other than "duplicate" are not read.)
collectSuppressions(t) ==
  {n \in DOMAIN t : t[n].note = "line"} \cup {n + 1 : n \in {m \in DOMAIN t : t[m].note = "next-line"}}

\* The definitions of a class: two definitions of one id in one text leave the last.
collectComponents(t, trail, cls) ==
  LET defs == {n \in DOMAIN trail : /\ Len(trail[n]) = 2 /\ trail[n][2] # Dash
                                    /\ trail[n][1] \in DOMAIN CLASS_KEYS
                                    /\ CLASS_KEYS[trail[n][1]] = cls}
  IN [id \in {t[n].key : n \in defs} |-> Max({n \in defs : t[n].key = id})]

InConfig(trail, n) == Len(trail[n]) > 2 /\ trail[n][2] # Dash /\ trail[n][1] \in DOMAIN CLASS_KEYS

\* The key that scrapeExtensionRefs was called with for the map around line n:
\* that of the nearest key above, through lists, but not the component's own id.
ParentKey(trail, n) ==
  LET keys == KeysOnly(SubSeq(trail[n], 3, Len(trail[n]) - 1))
  IN IF keys = <<>> THEN "" ELSE Last(keys)

StrictKeys == {"storage", "additional_auth"}
SoftKeys   == {"encoding", "oauthbearer_token_source"}
Observers  == "watch_observers"

\* Whether the recursion stopped at a list of observers above line n.
PastObservers(t, n) ==
  \E s \in Above(t, n) :
    /\ t[s].key = Observers /\ Len(Trail(t, s)) > 2
    /\ \E m \in Children(t, s) : IsItem(t, m)
    /\ ~(IsItem(t, n) /\ Up(t, n) = s)

\* "strict", "soft", or "none" for a line of a component's config.
scrapeExtensionRef(t, trail, n) ==
  LET own    == t[n].key
      up     == Len(trail[n]) - 1
      strict == \/ own = "authenticator" /\ ParentKey(trail, n) = "auth"
                \/ own \in StrictKeys
                \/ own = Dash /\ up > 2 /\ trail[n][up] = Observers
  IN IF ~IsString(t, n) \/ PastObservers(t, n) THEN "none"
     ELSE IF strict THEN "strict"
     ELSE IF own \in SoftKeys THEN "soft" ELSE "none"

\* Where the connectors that route name pipelines, below the connector's id.
PipelineLists ==
  [routing  |-> {<<"default_pipelines", Dash>>, <<"table", Dash, "pipelines", Dash>>},
   failover |-> {<<"priority_levels", Dash, Dash>>}]

scrapeConnectorPipelineRef(t, trail, n) ==
  /\ trail[n][1] = "connectors" /\ IsString(t, n)
  /\ TypeOf[trail[n][2]] \in DOMAIN PipelineLists
  /\ SubSeq(trail[n], 3, Len(trail[n])) \in PipelineLists[TypeOf[trail[n][2]]]

\* The service section: a bucket's item, or one of service.extensions. An empty
\* item is a scalar too: String(null).
ServiceKind(t, trail, n) ==
  LET r == trail[n] IN
  IF ~IsScalar(t, n) \/ r[1] # "service" THEN "none"
  ELSE IF r = <<"service", "extensions", Dash>> THEN "service"
  ELSE IF Len(r) = 5 /\ r[2] = "pipelines" /\ r[4] \in Buckets /\ r[5] = Dash THEN r[4] ELSE "none"

\* What a line refers to: a component, by the bucket that lists it; an extension,
\* from "service", or from a config as "strict" or "soft"; a "pipeline"; or "none".
RefKind(t, trail, n) ==
  IF ~InConfig(trail, n) THEN ServiceKind(t, trail, n)
  ELSE IF scrapeConnectorPipelineRef(t, trail, n) THEN "pipeline"
  ELSE scrapeExtensionRef(t, trail, n)

\* A pipeline whose value is not a map is no entry, and a list of a pipeline that
\* is not a bucket is not read.
collectService(t, trail) ==
  {[id |-> t[n].key, at |-> n] :
     n \in {m \in DOMAIN trail : /\ Len(trail[m]) = 3 /\ ~IsItem(t, m)
                                 /\ trail[m][1] = "service" /\ trail[m][2] = "pipelines"
                                 /\ \E c \in Children(t, m) : ~IsItem(t, c)}}

buildModel(t) ==
  LET trail == [n \in Written(t) |-> Trail(t, n)]
      refs  == {n \in Written(t) : RefKind(t, trail, n) # "none"}
  IN [components |-> [cls \in Classes |-> collectComponents(t, trail, cls)],
      pipelines  |-> collectService(t, trail),
      refs       |-> {[kind |-> RefKind(t, trail, n), id |-> resolveRefId(t[n].val), at |-> n,
                       pipe |-> IF RefKind(t, trail, n) \in Buckets THEN trail[n][3] ELSE ""] : n \in refs},
      suppressions |-> collectSuppressions(t)]

-----------------------------------------------------------------------------
(***************************************************************************)
(* Cursors. A position on a blank line is a column; the keys around it are *)
(* found by climbing over the raw lines.                                   *)
(***************************************************************************)

\* Mutant of Climb: a key at the column of the last one is collected too.
ClimbNotStrictly(t, l, col) ==
  LET keys == {m \in Written(t) : m < l /\ ~IsItem(t, m) /\ t[m].ind < col}
  IN {m \in keys : \A k \in keys : k > m => t[k].ind >= t[m].ind}

\* The lines whose keys the climb from line l and column col collects: going up,
\* each key indented less than all collected before. Lists, comments and blank
\* lines are passed over.
Climb(t, l, col) ==
  LET keys == {m \in Written(t) : m < l /\ ~IsItem(t, m) /\ t[m].ind < col}
  IN {m \in keys : \A k \in keys : k > m => t[k].ind > t[m].ind}

\* The column a cursor at column 0 of an empty line stands for: below a key that
\* opens a block, two more than the key's; else that of the last line written.
CursorIndent(t, l, col) ==
  LET before == {m \in 1 .. l - 1 : t[m].key # Blank}
      prev   == t[Max(before)]
  IN IF col # 0 \/ t[l].ind # 0 \/ before = {} THEN col
     ELSE IF prev.key \notin {Comment, Dash} /\ prev.val = NoValue /\ prev.note = NoNote THEN prev.ind + 2
     ELSE prev.ind

pathAtPosition(t, l, col) == KeysOf(t, Climb(t, l, CursorIndent(t, l, col)))

valueContextAtPosition(t, l) == Append(KeysOf(t, Climb(t, l, t[l].ind)), t[l].key)

\* The keys of the map at a path, going through the first of equal keys; none when
\* the path leads to no map.
siblingKeysAt(t, path) ==
  LET first(n, k) == {m \in Children(t, n) :
                        t[m].key = k /\ \A j \in Children(t, n) : t[j].key = k => m <= j}
      node[i \in 0 .. Len(path)] ==
        IF i = 0 THEN {0} ELSE UNION {first(n, path[i]) : n \in node[i - 1]}
  IN {t[m].key : m \in UNION {Children(t, n) : n \in node[Len(path)]}} \ {Dash}
=============================================================================
