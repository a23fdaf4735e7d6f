----------------------------- MODULE ReactorMesh -----------------------------
(***************************************************************************)
(* The reactor mesh: bounded lanes, one per shard.  Completions of a call  *)
(* go to the lane its id hashes to, events to the lanes in turn; lanes are *)
(* drained one by one, or together in the order of the global sequence.    *)
(* Source: src/e-agent-node-runtime/src/scheduler.rs.                      *)
(***************************************************************************)
EXTENDS Placement

CONSTANTS
  Shards,        \* number of lanes
  LaneCapacity,  \* envelopes a lane holds
  MeshCalls,     \* calls whose completions arrive
  Topologies,    \* snapshots of the machine the mesh may be given
  MaxEnvelopes   \* bound: envelopes numbered

ASSUME MeshConstants ==
  /\ Shards \in Nat \ {0} /\ LaneCapacity \in Nat \ {0}
  /\ MaxEnvelopes \in Nat

ShardIds == 0..(Shards - 1)

VARIABLES
  route,      \* the shard each call's id hashes to
  topology,   \* the snapshot given to the mesh
  lanes,      \* lanes[s]: envelopes in the lane of shard s
  globalSeq,  \* the next global sequence number
  shardSeq,   \* the next number of each shard
  cursor,     \* where the next event goes
  drained     \* history: the envelopes that left, in that order

meshVars == <<route, topology, lanes, globalSeq, shardSeq, cursor, drained>>

MeshInit ==
  /\ route \in [MeshCalls -> ShardIds]
  /\ topology \in Topologies
  /\ lanes = [s \in ShardIds |-> <<>>]
  /\ globalSeq = 0
  /\ shardSeq = [s \in ShardIds |-> 0]
  /\ cursor = 0
  /\ drained = <<>>

placement == Plan(Shards, topology)

\* Numbers are given out before the lane is asked: a refused envelope leaves a
\* gap in both sequences.
EnqueueWithRoute(s, task) ==
  /\ globalSeq < MaxEnvelopes
  /\ globalSeq' = globalSeq + 1
  /\ shardSeq' = [shardSeq EXCEPT ![s] = @ + 1]
  /\ lanes' = IF Len(lanes[s]) >= LaneCapacity THEN lanes
              ELSE [lanes EXCEPT ![s] = Append(@,
                      [global |-> globalSeq, local |-> shardSeq[s], task |-> task])]
  /\ UNCHANGED <<route, topology, drained>>

MeshComplete(c) == EnqueueWithRoute(route[c], c) /\ UNCHANGED cursor

\* The cursor moves on even when the lane refuses.
MeshEvent ==
  /\ EnqueueWithRoute(cursor % Shards, "event")
  /\ cursor' = IF Shards = 1 THEN cursor ELSE cursor + 1

DrainShard(s, budget) ==
  LET n == IF budget < Len(lanes[s]) THEN budget ELSE Len(lanes[s]) IN
    /\ n > 0
    /\ lanes' = [lanes EXCEPT ![s] = SubSeq(@, n + 1, Len(@))]
    /\ drained' = drained \o SubSeq(lanes[s], 1, n)
    /\ UNCHANGED <<route, topology, globalSeq, shardSeq, cursor>>

Fronts(ls) == {s \in ShardIds : ls[s] # <<>>}
\* Mutant: the first lane that has anything.
ChosenFirst(ls) == CHOOSE s \in Fronts(ls) : \A t \in Fronts(ls) : s <= t

Chosen(ls) == CHOOSE s \in Fronts(ls) :
                \A t \in Fronts(ls) : Head(ls[s]).global <= Head(ls[t]).global

\* Each time the lane whose head has the smallest number gives it up.
DrainGlobalOrder(budget) ==
  LET envelopes == [global : Nat, local : Nat, task : MeshCalls \union {"event"}]
      drain[n \in Nat, ls \in [ShardIds -> Seq(envelopes)]] ==
        IF n = 0 \/ Fronts(ls) = {} THEN [lanes |-> ls, out |-> <<>>]
        ELSE LET s == Chosen(ls)
                 rest == drain[n - 1, [ls EXCEPT ![s] = Tail(@)]]
             IN [rest EXCEPT !.out = <<Head(ls[s])>> \o @]
      d == drain[budget, lanes]
  IN
    /\ Fronts(lanes) # {}
    /\ lanes' = d.lanes
    /\ drained' = drained \o d.out
    /\ UNCHANGED <<route, topology, globalSeq, shardSeq, cursor>>

MeshNext ==
  \/ \E c \in MeshCalls : MeshComplete(c)
  \/ MeshEvent
  \/ \E s \in ShardIds, budget \in 1..2 : DrainShard(s, budget)
  \/ \E budget \in 1..2 : DrainGlobalOrder(budget)

MeshSpec == MeshInit /\ [][MeshNext]_meshVars

(***************************************************************************)
(* Properties.                                                             *)
(***************************************************************************)
MeshTypeOK ==
  /\ route \in [MeshCalls -> ShardIds]
  /\ globalSeq \in 0..MaxEnvelopes
  /\ shardSeq \in [ShardIds -> 0..MaxEnvelopes]
  /\ \A s \in ShardIds : Len(lanes[s]) <= LaneCapacity

\* Both numbers rise along a lane, and what leaves has risen in each shard.
LanesInOrder ==
  \A s \in ShardIds : \A i, j \in DOMAIN lanes[s] :
    i < j => /\ lanes[s][i].global < lanes[s][j].global
             /\ lanes[s][i].local < lanes[s][j].local

\* The completions of a call leave in the order in which they came, whichever
\* way the lanes are drained: the affinity that hash routing is for.
CallsKeepTheirOrder ==
  \A i, j \in DOMAIN drained :
    i < j /\ drained[i].task = drained[j].task /\ drained[i].task \in MeshCalls
      => drained[i].global < drained[j].global

\* A drain across the shards gives the smallest numbers there are, in order.
GlobalOrder ==
  [][(\E budget \in 1..2 : DrainGlobalOrder(budget)) =>
       LET n == Len(drained) IN
         /\ \A i, j \in (n + 1)..Len(drained') : i < j => drained'[i].global < drained'[j].global
         /\ \A i \in (n + 1)..Len(drained'), s \in ShardIds : \A k \in DOMAIN lanes'[s] :
              drained'[i].global < lanes'[s][k].global]_meshVars

\* The placement uses the cores there are, evenly.
PlacementIsBalanced ==
  topology # {} => IsBalanced(placement, topology)

\* Whatever lanes refuse and however they are drained, what leaves the mesh is in
\* the order in which it came, per call, per lane and, on demand, over all.
MeshKeepsOrder ==
  /\ [](LanesInOrder /\ CallsKeepTheirOrder /\ PlacementIsBalanced)
  /\ GlobalOrder
=============================================================================
