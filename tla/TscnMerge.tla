----------------------------- MODULE TscnMerge -----------------------------
(***************************************************************************)
(* The structural merge of a patch into a Godot scene, as operators: the   *)
(* orchestrator's tscn-merge.ts.  The runner's tscn-merge.mjs is the same  *)
(* text without its types; the commit agent's port is in AgentMerge.       *)
(*                                                                         *)
(* A scene is the sequence of sections that parseTscn finds, a node        *)
(* section a header and lines.  A path is the sequence of its names, <<>>  *)
(* the empty string.  What is written is read again as lines: a key the    *)
(* pattern of a property does not match, and the further lines of a value, *)
(* come back as other text.  Left out: blank lines, quotes, the order of   *)
(* header attributes, values with a line that starts with "[", and patches *)
(* of the wrong shape (a nodes entry that is no object).                   *)
(***************************************************************************)
EXTENDS SequencesExt

CONSTANT OddKeys   \* property names that [A-Za-z_][\w/]* does not match

\* What a patch or a header does not have; "" is a string that is there.
Absent == "absent"
AbsentPath == <<Absent>>
Dot == <<".">>

Truthy(x) == x \notin {Absent, ""}
TruthyPath(p) == p \notin {AbsentPath, <<>>}

\* The operator ?? of the language.
Given(x, default) == IF x = Absent THEN default ELSE x

\* Sections.  The id of a resource is a path: generated ones have two parts.
NodeSection(name, parent, type, lines) ==
  [kind |-> "node", name |-> name, parent |-> parent, type |-> type, lines |-> lines]

ExtSection(type, path, uid, id) ==
  [kind |-> "ext", type |-> type, path |-> path, uid |-> uid, id |-> id]

\* A line that the pattern takes for a property, or other text (key Absent).
Line(key, text) == [key |-> key, text |-> text]
IsProperty(l) == l.key # Absent

\* A property of a patch.  Its value has further lines, and is one that
\* JSON.stringify and the agent write alike or not (objects, large numbers).
Prop(key, alike, first, more) == [key |-> key, alike |-> alike, first |-> first, more |-> more]

\* The lines that `key = value` is read as.
PropertyText(key, first, more) ==
  <<IF key \in OddKeys THEN Line(Absent, <<key>> \o first) ELSE Line(key, first)>> \o more

\* The path under which the merge finds a node; nothing is found under <<>>.
NodePathFromHeader(s) ==
  CASE s.kind # "node" \/ s.name = "" -> <<>>
    [] s.kind = "node" /\ s.name # "" ->
         IF TruthyPath(s.parent) /\ s.parent # Dot
         THEN LET path == Append(s.parent, s.name)
              IN  IF Head(path) = "." THEN Tail(path) ELSE path
         ELSE <<s.name>>

Render(p) == IF p.alike THEN <<p.first>> ELSE <<"JSON.stringify", p.first>>

\* Properties first, each once, at the place of its first line and with its
\* last value; other lines behind them.
SetPropertyLines(lines, props) ==
  LET entry(key, text, more) == [key |-> key, text |-> text, more |-> more]
      old == SelectSeq(lines, IsProperty)
      set(done, e) ==
        LET i == SelectInSeq(done, LAMBDA d : d.key = e.key)
        IN  IF i = 0 THEN Append(done, e) ELSE ReplaceAt(done, i, e)
      map == FoldLeft(set, <<>>,
               [i \in DOMAIN old |-> entry(old[i].key, old[i].text, <<>>)]
                 \o [i \in DOMAIN props |-> entry(props[i].key, Render(props[i]), props[i].more)])
  IN  FlattenSeq([i \in DOMAIN map |-> PropertyText(map[i].key, map[i].text, map[i].more)])
        \o SelectSeq(lines, LAMBDA l : ~IsProperty(l))

\* One entry of patch.ext_resources: every resource with its uid or its id is
\* rewritten; without one, a complete entry becomes a new section.
MergeExt(sections, ep) ==
  LET over(new, old) == IF Truthy(new) THEN new ELSE old
      hit(s) == /\ s.kind = "ext"
                /\ \/ Truthy(ep.uid) /\ s.uid = ep.uid
                   \/ TruthyPath(ep.id) /\ s.id = ep.id
      rewritten(s) ==
        ExtSection(over(ep.type, s.type), over(ep.path, s.path), over(ep.uid, s.uid),
                   IF TruthyPath(ep.id) THEN ep.id ELSE s.id)
  IN  CASE ~Truthy(ep.uid) /\ ~TruthyPath(ep.id) -> sections
        [] \E i \in DOMAIN sections : hit(sections[i]) ->
             [i \in DOMAIN sections |->
                IF hit(sections[i]) THEN rewritten(sections[i]) ELSE sections[i]]
        [] OTHER ->
             IF Truthy(ep.type) /\ Truthy(ep.path)
             THEN Append(sections,
                         ExtSection(ep.type, ep.path, over(ep.uid, Absent),
                           IF ep.id = AbsentPath THEN <<"ext", ToString(Len(sections))>> ELSE ep.id))
             ELSE sections

\* The path a node patch means, <<>> if none: `path ?? ...`, so that an empty
\* path hides the name.
NodePatchPath(np) ==
  CASE np.path # AbsentPath                         -> np.path
    [] np.path = AbsentPath /\ ~Truthy(np.name)     -> <<>>
    [] np.path = AbsentPath /\ Truthy(np.name)      ->
         IF TruthyPath(np.parent) /\ np.parent # Dot THEN Append(np.parent, np.name) ELSE <<np.name>>

\* The node is always added.
MergeNodeAppend(sections, np) ==
  LET path == NodePatchPath(np)
  IN  IF path = <<>> THEN sections
      ELSE Append(sections, NodeSection(Last(path), Front(path), "Node",
                                        FoldLeft(SetPropertyLines, <<>>, np.props)))

ParentOf(path) == IF Len(path) = 1 THEN Dot ELSE Front(path)

\* The node that a patch of this path adds.
NewNode(np, path) ==
  NodeSection(Given(np.name, Last(path)),
              IF np.parent = AbsentPath THEN ParentOf(path) ELSE np.parent,
              Given(np.type, "Node"),
              FoldLeft(SetPropertyLines, <<>>, np.props))

\* One node patch: delete the first node of that path, set its properties, or
\* add the node.  props holds the map of properties, or nothing if there is
\* none: an empty map rearranges the lines.
MergeNode(sections, np) ==
  LET path == NodePatchPath(np)
      at   == SelectInSeq(sections, LAMBDA s : NodePathFromHeader(s) = path)
  IN  CASE path = <<>>                         -> sections
        [] path # <<>> /\ np.delete # "no"     -> IF at = 0 THEN sections ELSE RemoveAt(sections, at)
        [] path # <<>> /\ np.delete = "no"     ->
             IF at = 0
             THEN Append(sections, NewNode(np, path))
             ELSE ReplaceAt(sections, at,
                            [sections[at] EXCEPT !.lines = FoldLeft(SetPropertyLines, @, np.props)])

\* The entries of the patch that are keyed by a path come after its nodes.
FlatNode(e) ==
  [path |-> e.path, name |-> Absent, parent |-> AbsentPath, type |-> Absent,
   props |-> <<e.props>>, delete |-> "no"]

NormalizePatch(patch) ==
  [nodes |-> patch.nodes \o [i \in DOMAIN patch.flat |-> FlatNode(patch.flat[i])],
   ext   |-> patch.ext]

MergeTscn(scene, patch) ==
  LET p == NormalizePatch(patch)
  IN  FoldLeft(MergeNode, FoldLeft(MergeExt, scene, p.ext), p.nodes)
=============================================================================
