----------------------------- MODULE NumaSlabPool -----------------------------
(***************************************************************************)
(* The slab pool: one slab of slots per NUMA node, each with a free list   *)
(* and a generation per slot.  A handle names a slot at a generation; a    *)
(* handle that was freed before, or of an earlier tenant, frees nothing.   *)
(* Source: src/e-agent-node-runtime/src/scheduler.rs.                      *)
(***************************************************************************)
EXTENDS Integers, Sequences, FiniteSets, Functions

CONSTANTS
  SlabNodes,      \* nodes of the pool, in the order of their slabs: a sequence
  NodeIds,        \* nodes allocations may ask for: those and perhaps others
  SlabCapacity,   \* slots of a slab
  MaxGeneration   \* bound: allocations of a slot

ASSUME SlabConstants ==
  /\ SlabNodes \in Seq(NodeIds)
  /\ \A i, j \in 1..Len(SlabNodes) : SlabNodes[i] = SlabNodes[j] => i = j
  /\ SlabCapacity \in Nat \ {0}
  /\ MaxGeneration \in Nat

Nodes == {SlabNodes[i] : i \in 1..Len(SlabNodes)}
Slots == 0..(SlabCapacity - 1)
Handles == [node : NodeIds, slot : Slots, generation : 0..MaxGeneration]

VARIABLES
  generations,  \* generations[n][s]: how often slot s of node n was given out
  allocated,    \* allocated[n][s]
  freeList,     \* freeList[n]: a stack, its top at the end
  held,         \* history: handles given out and not yet freed
  returned      \* history: handles that were freed

slabVars == <<generations, allocated, freeList, held, returned>>

\* The list is filled from the last slot down, so that slot 0 goes first.
SlabInit ==
  /\ generations = [n \in Nodes |-> [s \in Slots |-> 0]]
  /\ allocated = [n \in Nodes |-> [s \in Slots |-> FALSE]]
  /\ freeList = [n \in Nodes |-> [i \in 1..SlabCapacity |-> SlabCapacity - i]]
  /\ held = {}
  /\ returned = {}

HasCapacity(n) == freeList[n] # <<>>

\* The preferred node if it has a slot, else the first of the others that has.
ServedBy(preferred, n) ==
  \/ n = preferred /\ HasCapacity(n)
  \/ /\ preferred \in Nodes => ~HasCapacity(preferred)
     /\ \E i \in 1..Len(SlabNodes) :
          /\ SlabNodes[i] = n /\ HasCapacity(n)
          /\ \A j \in 1..(i - 1) : ~HasCapacity(SlabNodes[j])

Allocate(preferred) ==
  \E n \in Nodes :
    /\ ServedBy(preferred, n)
    /\ LET s == freeList[n][Len(freeList[n])]
           g == generations[n][s] + 1
       IN /\ g <= MaxGeneration
          /\ allocated' = [allocated EXCEPT ![n][s] = TRUE]
          /\ generations' = [generations EXCEPT ![n][s] = g]
          /\ freeList' = [freeList EXCEPT ![n] = SubSeq(@, 1, Len(@) - 1)]
          /\ held' = held \union {[node |-> n, slot |-> s, generation |-> g]}
          /\ UNCHANGED returned

\* Mutant: the generation of a handle is not looked at.
IsValidForSlot(h) == h.node \in Nodes /\ allocated[h.node][h.slot]

IsValid(h) ==
  /\ h.node \in Nodes
  /\ allocated[h.node][h.slot]
  /\ generations[h.node][h.slot] = h.generation

\* Any handle may be handed in, a forged one too; the slot keeps its generation.
Deallocate(h) ==
  /\ IsValid(h)
  /\ allocated' = [allocated EXCEPT ![h.node][h.slot] = FALSE]
  /\ freeList' = [freeList EXCEPT ![h.node] = Append(@, h.slot)]
  /\ held' = held \ {h}
  /\ returned' = returned \union {h}
  /\ UNCHANGED generations

SlabNext ==
  \/ \E n \in NodeIds : Allocate(n)
  \/ \E h \in Handles : Deallocate(h)

SlabSpec == SlabInit /\ [][SlabNext]_slabVars

(***************************************************************************)
(* Properties.                                                             *)
(***************************************************************************)
SlabTypeOK ==
  /\ generations \in [Nodes -> [Slots -> 0..MaxGeneration]]
  /\ allocated \in [Nodes -> [Slots -> BOOLEAN]]
  /\ freeList \in [Nodes -> Seq(Slots)]
  /\ held \subseteq Handles /\ returned \subseteq Handles

\* The free list of a node has each of its free slots once, and no other: a slot
\* in it twice would be given to two callers.
FreeListsAgree ==
  \A n \in Nodes :
    /\ \A i, j \in 1..Len(freeList[n]) : freeList[n][i] = freeList[n][j] => i = j
    /\ \A s \in Slots : ~allocated[n][s] <=> \E i \in 1..Len(freeList[n]) : freeList[n][i] = s

\* A slot that is in use is held by one handle, and a handle that is held frees.
HandlesAreExclusive ==
  /\ \A h, k \in held : h.node = k.node /\ h.slot = k.slot => h = k
  /\ \A h \in Handles : h \in held <=> IsValid(h)

\* What was freed can never be freed again, whoever has the slot now.
StaleHandlesFreeNothing == \A h \in returned : ~IsValid(h)

\* No sequence of allocations and releases, forged and repeated ones too, loses a
\* slot or gives one to two holders.
SlabIsSound == FreeListsAgree /\ HandlesAreExclusive /\ StaleHandlesFreeNothing
=============================================================================
