----------------------------- MODULE SceneMerge -----------------------------
(***************************************************************************)
(* A scene file under a series of structural merges, each made by the      *)
(* orchestrator for a readable project root, by a runner, or by the commit *)
(* agent on the target host.                                               *)
(***************************************************************************)
EXTENDS Naturals, AgentMerge

CONSTANTS
  Base,       \* the scene to start with
  Patches,    \* the patches that are merged into it
  MaxMerges   \* bound on the merges

VARIABLES
  scene,
  last,       \* the patch merged last, a set of at most one
  merges

vars == <<scene, last, merges>>

Init == scene = Base /\ last = {} /\ merges = 0

Merged(patch) ==
  /\ merges < MaxMerges
  /\ merges' = merges + 1
  /\ last' = {patch}

OrchestratorMerges(patch) == Merged(patch) /\ scene' = MergeTscn(scene, patch)

\* The same statements in another file: nothing below compares the two.
RunnerMerges(patch) == Merged(patch) /\ scene' = MergeTscn(scene, patch)

AgentMergesPatch(patch) == Merged(patch) /\ scene' \in AgentMerges(scene, patch)

Next ==
  \E patch \in Patches :
    OrchestratorMerges(patch) \/ RunnerMerges(patch) \/ AgentMergesPatch(patch)

Spec == Init /\ [][Next]_vars

---------------------------------------------------------------------------
NodesOf(patch) == Range(NormalizePatch(patch).nodes)
PropsOf(patch) == UNION {Range(FlattenSeq(np.props)) : np \in NodesOf(patch)}

\* A patch that TypeScript and Go read alike: no string in it is empty, delete
\* is a boolean, and every value is written alike.
ReadAlike(patch) ==
  /\ \A np \in NodesOf(patch) :
       /\ "" \notin {np.name, np.type}
       /\ <<>> \notin {np.path, np.parent}
       /\ np.delete # "truthy"
  /\ \A ep \in Range(patch.ext) : "" \notin {ep.type, ep.path, ep.uid} /\ ep.id # <<>>
  /\ \A p \in PropsOf(patch) : p.alike

\* A patch whose properties are found again in the lines they are written to.
FoundAgain(patch) == \A p \in PropsOf(patch) : p.key \notin OddKeys /\ p.more = <<>>

\* A patch that names each node once, under the path it then has, and one
\* resource at most.  One that deletes and adds a node moves it behind its
\* siblings every time.
Unambiguous(patch) ==
  LET nodes == NormalizePatch(patch).nodes
  IN  /\ IsInjective([i \in DOMAIN nodes |-> NodePatchPath(nodes[i])])
      /\ \A np \in Range(nodes) :
           NodePatchPath(np) # <<>> =>
             NodePathFromHeader(NewNode(np, NodePatchPath(np))) = NodePatchPath(np)
      /\ Len(patch.ext) <= 1

\* Merging a patch a second time, by whichever port, leaves the file as it is:
\* re-dispatched outbox rows, two drains of one row and retried runs all
\* merge a patch into a scene that has it already.
RedoChangesNothing ==
  \A patch \in last :
    ReadAlike(patch) /\ FoundAgain(patch) /\ Unambiguous(patch) =>
      AgentMerges(scene, patch) \cup {MergeTscn(scene, patch)} = {scene}

\* A scene without the order of its sections and lines.
Unordered(s) ==
  {IF x.kind = "node" THEN [x EXCEPT !.lines = Range(@)] ELSE x : x \in Range(s)}

\* The agent's port makes of every patch that the languages read alike what the
\* TypeScript merge makes of it, up to the order of sections and lines, which
\* Go's walk over a map changes: the same nodes, resources and values.
PortsAgree ==
  [][\A patch \in last' :
       ReadAlike(patch) => Unordered(scene') = Unordered(MergeTscn(scene, patch))]_vars
=============================================================================
