----------------------------- MODULE AgentMerge -----------------------------
(***************************************************************************)
(* The commit agent's port of the structural merge (merge_apply.go),       *)
(* translated from the Go text.  It differs from TscnMerge where Go does:  *)
(* an empty string counts as absent, only the boolean true deletes a node, *)
(* renderPropValue writes some values unlike JSON.stringify, and a map is  *)
(* walked in an order the language does not fix.                           *)
(***************************************************************************)
EXTENDS TscnMerge

RenderPropValue(p) == IF p.alike THEN <<p.first>> ELSE <<"renderPropValue", p.first>>

\* order and propMap: the keys as they come up first, each with its last value.
AgentSetPropertyLines(lines, props) ==
  LET old == SelectSeq(lines, IsProperty)
      add(order, x) == IF Contains(order, x.key) THEN order ELSE Append(order, x.key)
      order == FoldLeft(add, FoldLeft(add, <<>>, old), props)
      written(key) ==
        LET p == SelectLastInSeq(props, LAMBDA x : x.key = key)
            l == SelectLastInSeq(old, LAMBDA x : x.key = key)
        IN  IF p # 0
            THEN PropertyText(key, RenderPropValue(props[p]), props[p].more)
            ELSE <<Line(key, old[l].text)>>
  IN  FlattenSeq([i \in DOMAIN order |-> written(order[i])])
        \o SelectSeq(lines, LAMBDA l : ~IsProperty(l))

\* A type assertion: what is not a string is the empty one.
Str(x) == IF x = Absent THEN "" ELSE x
StrPath(p) == IF p = AbsentPath THEN <<>> ELSE p

AgentMergeExt(sections, ep) ==
  LET uid  == Str(ep.uid)
      id   == StrPath(ep.id)
      found == {i \in DOMAIN sections :
                  /\ sections[i].kind = "ext"
                  /\ \/ uid # "" /\ sections[i].uid = uid
                     \/ id # <<>> /\ sections[i].id = id}
      attrs(s) == [s EXCEPT !.type = IF Str(ep.type) # "" THEN ep.type ELSE @,
                            !.path = IF Str(ep.path) # "" THEN ep.path ELSE @,
                            !.uid  = IF uid # "" THEN uid ELSE @,
                            !.id   = IF id # <<>> THEN id ELSE @]
      new  == ExtSection(ep.type, ep.path, IF uid # "" THEN uid ELSE Absent,
                         IF id # <<>> THEN id ELSE <<"ext", ToString(Len(sections))>>)
  IN  IF uid = "" /\ id = <<>> THEN sections
      ELSE IF found # {}
           THEN [i \in DOMAIN sections |-> IF i \in found THEN attrs(sections[i]) ELSE sections[i]]
           ELSE IF Str(ep.type) # "" /\ Str(ep.path) # "" THEN Append(sections, new) ELSE sections

\* An empty path is none: the name counts.
AgentNodePatchPath(np) ==
  LET name   == Str(np.name)
      parent == StrPath(np.parent)
  IN  CASE StrPath(np.path) # <<>>                    -> np.path
        [] StrPath(np.path) = <<>> /\ name = ""       -> <<>>
        [] StrPath(np.path) = <<>> /\ name # ""       ->
             IF parent \in {<<>>, Dot} THEN <<name>> ELSE Append(parent, name)

AgentMergeNode(sections, np) ==
  LET path == AgentNodePatchPath(np)
      hits == {i \in DOMAIN sections : sections[i].kind = "node" /\ NodePathFromHeader(sections[i]) = path}
      set(lines) == FoldLeft(AgentSetPropertyLines, lines, np.props)
      new  == NodeSection(IF Str(np.name) = "" THEN Last(path) ELSE np.name,
                          IF StrPath(np.parent) = <<>> THEN ParentOf(path) ELSE np.parent,
                          IF Str(np.type) = "" THEN "Node" ELSE np.type,
                          set(<<>>))
  IN  IF path = <<>> THEN sections
      ELSE IF np.delete = "true"
           THEN IF hits = {} THEN sections ELSE RemoveAt(sections, Min(hits))
           ELSE IF hits = {} THEN Append(sections, new)
                ELSE [sections EXCEPT ![Min(hits)].lines = set(@)]

\* The orders in which the agent may range over the flat entries and over the
\* properties of a node.
Orders(s) ==
  {[i \in DOMAIN s |-> s[f[i]]] : f \in {g \in [DOMAIN s -> DOMAIN s] : IsInjective(g)}}

PropertyOrders(np) ==
  {[np EXCEPT !.props = IF @ = <<>> THEN <<>> ELSE <<props>>] :
     props \in IF np.props = <<>> THEN {<<>>} ELSE Orders(np.props[1])}

\* The flat entries come first.
FlatOrdersFirst(patch) ==
  {[i \in DOMAIN flat |-> FlatNode(flat[i])] \o patch.nodes : flat \in Orders(patch.flat)}

FlatOrders(patch) ==
  {patch.nodes \o [i \in DOMAIN flat |-> FlatNode(flat[i])] : flat \in Orders(patch.flat)}

\* What the agent may make of the scene, one node patch after the other.
AgentMerges(scene, patch) ==
  LET start == FoldLeft(AgentMergeExt, scene, patch.ext)
      step(scenes, np) == {AgentMergeNode(s, ordered) : s \in scenes, ordered \in PropertyOrders(np)}
  IN  UNION {FoldLeft(step, {start}, nodes) : nodes \in FlatOrders(patch)}
=============================================================================
