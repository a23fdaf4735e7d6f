---------------------------- MODULE MCDataParts ----------------------------
(* The session's file, what extensions register, and the libraries of the node *)
(* runtime, which share no state with one another, one after the other in a    *)
(* single run: an initial state picks the part, and only that part takes       *)
(* steps; the others stay in their first state.                              *)
EXTENDS SessionStore, HostcallQueue, SchedulerLoop, ReactorMesh, NumaSlabPool,
        ContentionPolicy, S3FifoPolicy, RepairPlanning, ExtensionRegistry,
        VirtualFiles

VARIABLE subject

Subjects == {"store", "queue", "scheduler", "mesh", "slab", "contention",
             "policy", "repair", "registry", "files"}

(* Two NUMA nodes, of which the second has the identifier 2.                 *)
TwoNodes == <<0, 2>>

(* No snapshot; one node of one core; two nodes, of two cores and of one.    *)
SomeTopologies ==
    LET Core(c, n) == [core |-> c, node |-> n]
    IN  {{}, {Core(3, 1)}, {Core(0, 0), Core(1, 0), Core(2, 1)}}

(* Proposals that conflict, tie, change code, leave the root or are empty.   *)
Proposals ==
    LET Op(kind, key, inside) == [kind |-> kind, key |-> key, inside |-> inside]
        Proposal(rule, confidence, ops) ==
            [rule |-> rule, confidence |-> confidence, ops |-> ops]
        move == Op("replace_module_path", "m", TRUE)
        require == Op("rewrite_require", "m", TRUE)
        stub == Op("inject_stub", "v", TRUE)
        outside == Op("rewrite_require", "n", FALSE)
    IN  {Proposal(1, 1, <<move>>), Proposal(2, 0, <<move>>), Proposal(2, 1, <<move, require>>),
         Proposal(1, 0, <<require, stub>>), Proposal(2, 1, <<stub>>),
         Proposal(3, 1, <<outside>>), Proposal(1, 1, <<>>),
         Proposal(1, 0, <<stub, move, require>>)}

(* Two paths below the root; the host has a file at one or the other.         *)
SomePaths == {<<>>, <<"d">>, <<"d", "f">>}
SomeHosts == {[files |-> {<<"d">>}, dirs |-> {}],
              [files |-> {<<"d", "f">>}, dirs |-> {<<"d">>}]}

Init ==
    /\ subject \in Subjects
    /\ StoreInit /\ QueueInit /\ SchedulerInit /\ MeshInit /\ SlabInit
    /\ ContentionInit /\ PolicyInit /\ RepairInit /\ RegistryInit /\ FilesInit
    /\ subject # "store" => ~goals /\ ~tearing
    /\ subject # "queue" => reclamation = "ebr"
    /\ subject # "mesh" => topology = {} /\ \A c \in MeshCalls : route[c] = 0
    /\ subject # "repair" => mode = "Off"
    /\ subject # "files" => hostTree = CHOOSE h \in Hosts : TRUE

Next ==
    \/ /\ subject = "store" /\ StoreNext
       /\ UNCHANGED <<subject, queueVars, schedulerVars, meshVars, slabVars,
                      contentionVars, policyVars, repairVars, registryVars,
                      filesVars>>
    \/ /\ subject = "queue" /\ QueueNext
       /\ UNCHANGED <<subject, storeVars, schedulerVars, meshVars, slabVars,
                      contentionVars, policyVars, repairVars, registryVars,
                      filesVars>>
    \/ /\ subject = "scheduler" /\ SchedulerNext
       /\ UNCHANGED <<subject, storeVars, queueVars, meshVars, slabVars,
                      contentionVars, policyVars, repairVars, registryVars,
                      filesVars>>
    \/ /\ subject = "mesh" /\ MeshNext
       /\ UNCHANGED <<subject, storeVars, queueVars, schedulerVars, slabVars,
                      contentionVars, policyVars, repairVars, registryVars,
                      filesVars>>
    \/ /\ subject = "slab" /\ SlabNext
       /\ UNCHANGED <<subject, storeVars, queueVars, schedulerVars, meshVars,
                      contentionVars, policyVars, repairVars, registryVars,
                      filesVars>>
    \/ /\ subject = "contention" /\ ContentionNext
       /\ UNCHANGED <<subject, storeVars, queueVars, schedulerVars, meshVars,
                      slabVars, policyVars, repairVars, registryVars, filesVars>>
    \/ /\ subject = "policy" /\ PolicyNext
       /\ UNCHANGED <<subject, storeVars, queueVars, schedulerVars, meshVars,
                      slabVars, contentionVars, repairVars, registryVars,
                      filesVars>>
    \/ /\ subject = "repair" /\ RepairNext
       /\ UNCHANGED <<subject, storeVars, queueVars, schedulerVars, meshVars,
                      slabVars, contentionVars, policyVars, registryVars,
                      filesVars>>
    \/ /\ subject = "registry" /\ RegistryNext
       /\ UNCHANGED <<subject, storeVars, queueVars, schedulerVars, meshVars,
                      slabVars, contentionVars, policyVars, repairVars, filesVars>>
    \/ /\ subject = "files" /\ FilesNext
       /\ UNCHANGED <<subject, storeVars, queueVars, schedulerVars, meshVars,
                      slabVars, contentionVars, policyVars, repairVars,
                      registryVars>>

Spec == /\ Init
        /\ [][Next]_<<subject, storeVars, queueVars, schedulerVars, meshVars,
                     slabVars, contentionVars, policyVars, repairVars,
                     registryVars, filesVars>>
=============================================================================
