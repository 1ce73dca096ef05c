---------------------------- MODULE MCSceneMerge ----------------------------
\* One scene and patches that set, add, delete and re-add nodes, in every
\* form a patch may name them.
EXTENDS SceneMerge

MCBase ==
  << ExtSection("Material", "gun.tres", Absent, <<"1">>),
     ExtSection("Texture", "player.png", "u2", <<"2">>),
     NodeSection("Root", AbsentPath, "Node2D", <<>>),
     NodeSection("Player", <<"Root">>, "Node2D",
                 <<Line("position", <<"0">>), Line(Absent, <<"text">>), Line("scale", <<"1">>)>>) >>

Node(path, name, parent, props, delete) ==
  [path |-> path, name |-> name, parent |-> parent, type |-> Absent,
   props |-> props, delete |-> delete]

Value(key, first) == Prop(key, TRUE, first, <<>>)

Player == <<"Root", "Player">>
Enemy  == <<"Root", "Enemy">>

\* Entries that mean the same in every port, then the others.
NodeEntries ==
  { Node(Player, Absent, AbsentPath, <<<<Value("scale", "2"), Value("layer", "1")>>>>, "no"),
    Node(Player, Absent, AbsentPath, <<<<>>>>, "no"),
    Node(Player, Absent, AbsentPath, <<>>, "true"),
    Node(Enemy, Absent, AbsentPath, <<<<Value("hp", "1")>>>>, "no"),
    Node(AbsentPath, "Enemy", <<"Root">>, <<<<Value("hp", "2"), Value("mask", "1")>>>>, "no"),
    Node(Enemy, "Boss", AbsentPath, <<>>, "no"),
    Node(Enemy, Absent, AbsentPath, <<<<Value("a.b", "1"), Prop("mask", TRUE, "{", <<Line(Absent, <<"}">>)>>)>>>>, "no"),
    Node(Player, Absent, AbsentPath, <<<<Prop("scale", FALSE, "1e21", <<>>)>>>>, "no"),
    Node(Player, Absent, AbsentPath, <<>>, "truthy"),
    Node(<<>>, "Enemy", <<"Root">>, <<>>, "no") }

Ext(type, path, uid, id) == [type |-> type, path |-> path, uid |-> uid, id |-> id]

ExtEntries ==
  { Ext("Texture", "enemy.png", "u1", AbsentPath),
    Ext("Texture", "enemy.png", "u1", <<>>),
    Ext(Absent, "hero.png", "u2", AbsentPath),
    Ext(Absent, "cannon.tres", Absent, <<"1">>) }

FlatEntries ==
  << [path |-> Player, props |-> <<Value("scale", "3")>>],
     [path |-> <<"Root", "Boss">>, props |-> <<Value("hp", "9")>>] >>

\* Patches of at most two node entries with a flat map or without, and of one
\* node entry and a resource.
MCPatches ==
  { [nodes |-> nodes, ext |-> <<>>, flat |-> flat] :
      nodes \in SeqOf(NodeEntries, 2), flat \in {<<>>, FlatEntries} }
  \cup
  { [nodes |-> nodes, ext |-> <<ext>>, flat |-> <<>>] :
      nodes \in SeqOf(NodeEntries, 1), ext \in ExtEntries }
=============================================================================
