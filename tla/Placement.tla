------------------------------ MODULE Placement ------------------------------
(***************************************************************************)
(* Where the shards of a reactor mesh are placed: the plan of              *)
(* ReactorPlacementManifest for a snapshot of the machine's cores.         *)
(* Source: src/e-agent-node-runtime/src/scheduler.rs.                      *)
(***************************************************************************)
EXTENDS Integers, Sequences, FiniteSets, SequencesExt

\* A topology is a set of cores, [core, node]; from_core_node_pairs sorts the
\* pairs and drops repeated ones, so that the set is all that remains.  The
\* snapshot that was not taken is planned for as an empty one.
NodesOf(topology) == SetToSortSeq({c.node : c \in topology}, <)
CoresOf(topology, node) ==
  SetToSortSeq({c.core : c \in {d \in topology : d.node = node}}, <)

\* Shard s goes to the nodes in turn, and round their cores.
Bind(topology, s) ==
  LET nodes == NodesOf(topology)
      node  == nodes[(s % Len(nodes)) + 1]
      cores == CoresOf(topology, node)
  IN [shard |-> s, node |-> node,
      core |-> cores[((s \div Len(nodes)) % Len(cores)) + 1]]

\* Without cores to choose from, shard s is given core s of node 0.
Plan(shards, topology) ==
  [s \in 0..(shards - 1) |->
     IF topology = {}
     THEN [shard |-> s, node |-> 0, core |-> s]
     ELSE Bind(topology, s)]

(***************************************************************************)
(* What a plan must be.                                                    *)
(***************************************************************************)
OnNode(plan, n) == {s \in DOMAIN plan : plan[s].node = n}
OnCore(plan, n, c) == {s \in OnNode(plan, n) : plan[s].core = c}

\* Shards go only where the machine has cores; no node has two shards more than
\* another, and on a node no core has two shards more than another.
IsBalanced(plan, topology) ==
  /\ \A s \in DOMAIN plan : [core |-> plan[s].core, node |-> plan[s].node] \in topology
  /\ \A c, d \in topology :
       /\ Cardinality(OnNode(plan, c.node)) <= Cardinality(OnNode(plan, d.node)) + 1
       /\ c.node = d.node =>
            Cardinality(OnCore(plan, c.node, c.core))
              <= Cardinality(OnCore(plan, d.node, d.core)) + 1
=============================================================================
