------------------------------ MODULE MCAnalysis ------------------------------
(***************************************************************************)
(* Two members with texts that define and use ids of all classes under the *)
(* same names: "a" (any class), "r" (a routing connector), "f" (failover). *)
(***************************************************************************)
EXTENDS Analysis

Plain(id)   == [form |-> "plain", raw |-> id, inner |-> ""]
Default(id) == [form |-> "default", raw |-> "$HOST", inner |-> id]
Runtime     == [form |-> "runtime", raw |-> "$HOST", inner |-> ""]

V(ind, key, val) == [ind |-> ind, key |-> key, val |-> val, note |-> NoNote]
K(ind, key)      == V(ind, key, NoValue)
I(ind, id)       == V(ind, Dash, Plain(id))
Silenced(n, line) == [line EXCEPT !.note = n]

\* Definitions of "a", in any of the graph's classes.
Defines(classes) ==
  FlattenSeq(<<IF "r" \in classes THEN <<K(0, "receivers"), K(2, "a")>> ELSE <<>>,
               IF "p" \in classes THEN <<K(0, "processors"), K(2, "a")>> ELSE <<>>,
               IF "e" \in classes THEN <<K(0, "exporters"), Silenced("next-line", K(2, Comment)), K(2, "a")>> ELSE <<>>,
               IF "c" \in classes THEN <<K(0, "connectors"), Silenced("line", K(2, "a"))>> ELSE <<>>>>)

\* A pipeline with "a" in some of its buckets, its lists indented or not.
Pipeline(id, buckets, step) ==
  <<K(0, "service"), K(2, "pipelines"), K(4, id)>>
    \o (IF "r" \in buckets THEN <<K(6, "receivers"), I(6 + step, "a")>> ELSE <<>>)
    \o (IF "p" \in buckets THEN <<K(6, "processors"), V(6 + step, Dash, Default("a")), V(6 + step, Dash, Runtime)>> ELSE <<>>)
    \o (IF "e" \in buckets THEN <<K(6, "exporters"), I(6 + step, "a"), K(6 + step, Dash)>> ELSE <<>>)

Pipelines ==
  <<<<>>, Pipeline("traces", {"r", "e"}, 2), Pipeline("traces", {"r"}, 0), Pipeline("traces", {"e"}, 2),
    Pipeline("traces", {}, 2), Pipeline("metrics", {"r", "p", "e"}, 0), Pipeline("odd", {"r", "p", "e"}, 2)>>

GraphTexts ==
  FlattenSeq([k \in DOMAIN Pipelines |->
    [d \in 1 .. 9 |-> Defines(<<{}, {"r"}, {"e"}, {"c"}, {"r", "e"}, {"r", "c"}, {"e", "c"}, {"r", "p", "e", "c"}, {"p"}>>[d])
                        \o Pipelines[k]]])

\* Extensions, defined and used in every way.
ExtensionTexts ==
  <<<<K(0, "extensions"), K(2, "a")>>,
    <<K(0, "extensions"), K(2, "a"), K(0, "service"), K(2, "extensions"), I(2, "a"), V(2, Dash, Runtime)>>,
    <<K(0, "exporters"), K(2, "a"), K(4, "auth"), V(6, "authenticator", Plain("a")), V(4, "storage", Default("a")),
      K(0, "service"), K(2, "extensions"), I(4, "a")>>,
    <<K(0, "receivers"), K(2, "a"), K(4, "watch_observers"), I(6, "a"), K(6, Dash), V(8, "storage", Plain("a")),
      V(4, "encoding", Plain("a")), V(4, "authenticator", Plain("a"))>>,
    <<K(0, "extensions"), K(2, "a"), K(4, "tls"), K(6, Dash), V(8, "encoding", Plain("b")),
      V(8, "storage", [Plain("b") EXCEPT !.form = "number"])>>>>

\* Connectors that route to pipelines.
RoutingTexts ==
  <<<<K(0, "connectors"), K(2, "r"), K(4, "default_pipelines"), I(6, "traces"), K(4, "table"), K(6, Dash),
      K(8, "pipelines"), I(10, "metrics"), I(10, "b")>>,
    <<K(0, "connectors"), K(2, "f"), K(4, "priority_levels"), K(6, Dash), I(8, "traces"), K(4, "table"), I(6, "b"),
      K(0, "service"), K(2, "pipelines"), K(4, "traces"), K(6, "receivers"), I(6, "f"), K(6, "exporters"), I(6, "r")>>>>

\* Blank lines to type on, after each kind of line, at each indentation.
LayoutTexts ==
  <<<<K(0, "receivers"), K(2, "a"), K(2, Blank), K(4, Comment), K(0, Blank), K(0, "service"), K(2, "pipelines"),
      K(4, "traces"), K(6, Blank), K(6, "receivers"), I(6, "a"), K(6, Blank), K(4, Blank), K(4, "metrics"),
      K(0, Comment), K(6, Blank), K(0, Blank)>>,
    <<K(0, "exporters"), K(2, "a"), K(4, "retry"), K(6, Dash), K(8, "match"), V(10, "value", Plain("b")), K(8, Blank),
      K(6, Dash), K(8, "match"), K(10, Blank), K(4, Blank), K(2, "a"), K(4, Blank), K(0, Blank)>>>>

\* Two pipelines that use "a": with those of the other member they are more than a hover names.
ManyUsesTexts ==
  <<<<K(0, "receivers"), K(2, "a"), K(0, "service"), K(2, "pipelines"), K(4, "metrics"), K(6, "receivers"), I(8, "a"),
      K(4, "traces"), K(6, "receivers"), I(8, "b"), I(8, "a")>>>>

MCTexts == <<<<>>>> \o ManyUsesTexts \o GraphTexts \o ExtensionTexts \o RoutingTexts \o LayoutTexts

\* These texts are laid out as the theorems about split texts and about the climb ask.
\* For TLC, the lines in like places are computed: the parents of a pair are above it.
InLikePlaces(t) ==
  LET like[k, m \in 0 .. Len(t)] ==
        \/ Up(t, k) = Up(t, m)
        \/ /\ Up(t, k) # 0 /\ Up(t, m) # 0 /\ IsItem(t, Up(t, k)) /\ IsItem(t, Up(t, m))
           /\ like[Up(t, k), Up(t, m)]
  IN {pair \in Written(t) \X Written(t) : like[pair[1], pair[2]]}

ASSUME LayoutAssumption ==
  \A t \in Range(MCTexts) :
    /\ StartsFlush(t)
    /\ \A n \in Written(t) : ~IsItem(t, n) => LikePlaces(t, n, InLikePlaces(t))
    /\ \A l \in {n \in DOMAIN t : t[n].key = Blank} : \A col \in EntryColumns(t, l) :
         LET new == Inserted(t, l, col, "new")
         IN CursorIndent(t, l, col) = col => LikePlaces(new, l, InLikePlaces(new))
    /\ \A l \in {n \in DOMAIN t : t[n].key = Blank} : \A col \in EntryColumns(t, l) :
         LET new == Inserted(t, l, CursorIndent(t, l, col), "new") IN
         InPipeline(pathAtPosition(t, l, col)) =>
           /\ LikePlaces(new, l, InLikePlaces(new))
           /\ \A m \in Above(new, l) :
                ~IsItem(t, m) /\ \A k \in Children(t, Up(t, m)) : t[k].key = t[m].key => k = m

Ids == {"a", "b", "r", "f", "null", "$HOST"}
MCTypeOf == [id \in Ids \cup {"traces", "metrics"} |->
               CASE id = "r" -> "routing" [] id = "f" -> "failover" [] OTHER -> id]
\* Ids of one and of more characters, a substitution of the most.
MCMaxWidth == 4
MCWidth == [s \in UNION {{l.key, l.val.raw} : l \in UNION {Range(t) : t \in Range(MCTexts)}} |->
              CASE s = "$HOST" -> MCMaxWidth [] s \in {"a", "r"} -> 1 [] OTHER -> 3]
MCSignalOf == [id \in {"traces", "metrics", "odd", "b"} |-> id]
MCSubstitutions == {"$HOST"}
MCDeclared ==
  [receiver |-> [a |-> {<<"traces">>}], processor |-> [b |-> {<<"traces">>}], exporter |-> [a |-> {}],
   connector |-> [a |-> {<<"traces", "metrics">>}, routing |-> {<<"traces", "traces">>}],
   extension |-> [a |-> {}]]
=============================================================================
