--------------------------- MODULE HostcallQueue ---------------------------
(* HostcallRequestQueue of e-agent-node-runtime/src/hostcall_queue.rs: a fast  *)
(* ring and an overflow lane, the S3-FIFO admission to the overflow lane with  *)
(* its budget and ghosts per tenant, and the retirement of popped requests    *)
(* while readers hold epoch pins.  A request is the tenant that made it.       *)
EXTENDS Naturals, Sequences, FiniteSets

CONSTANTS Tenants,                 \* extensions that own a request
          NoTenant,                \* the owner of a request nobody owns
          FastCapacity,
          OverflowCapacity,
          GhostCapacity,           \* S3FifoConfig::ghost_capacity
          MinSignalSamples,        \* S3FifoConfig, the three thresholds
          MaxSignallessStreak,
          UnstableRejectionStreak,
          BacklogThreshold,        \* safe_fallback_backlog_threshold
          MaxGhostGen,           \* stands for u64::MAX of ghost_gen
          MaxPins                  \* bound: epoch pins held at once

ASSUME HostcallQueueAssumption ==
    /\ NoTenant \notin Tenants
    /\ FastCapacity \in Nat \ {0} /\ OverflowCapacity \in Nat \ {0}
    /\ GhostCapacity \in Nat \ {0} /\ MinSignalSamples \in Nat
    /\ MaxSignallessStreak \in Nat \ {0} /\ UnstableRejectionStreak \in Nat \ {0}
    /\ BacklogThreshold \in Nat \ {0} /\ MaxGhostGen \in Nat \ {0, 1} /\ MaxPins \in Nat

VARIABLES
    fast, overflow,  \* the two lanes
    s3,              \* S3FifoState
    reclamation,            \* reclamation_mode: "ebr" or "fallback"
    pins,            \* active_epoch_pins
    retired,         \* popped requests not yet dropped; old: of an earlier epoch
    draining,        \* is drain_all popping?
    popped          \* what it has popped so far

queueVars == <<fast, overflow, s3, reclamation, pins, retired, draining, popped>>

QueueRequests == Tenants \cup {NoTenant}
RetiredNodes    == [value : QueueRequests, old : BOOLEAN]

-----------------------------------------------------------------------------
(* S3-FIFO admission.  The ghosts are two maps: lookup gives a tenant's        *)
(* generation (0: none), order the tenant of a generation (NoTenant: none).   *)
NoGhosts == [order  |-> [g \in 1..MaxGhostGen |-> NoTenant],
             lookup |-> [t \in Tenants |-> 0]]

NewAdmission == [mode |-> "active", gen |-> 0,
          order |-> NoGhosts.order, lookup |-> NoGhosts.lookup,
          backlog |-> [t \in Tenants |-> 0],
          samples |-> 0, signalless |-> 0, unstable |-> 0]

TenantBudget == IF OverflowCapacity \div 2 > 1 THEN OverflowCapacity \div 2 ELSE 1

AtMost(n, limit) == IF n > limit THEN limit ELSE n

(* The counters keep their value, the ghosts and the backlog go.             *)
FallBackToFifo(s) ==
    [s EXCEPT !.mode = "fifo", !.gen = 0, !.order = NoGhosts.order,
              !.lookup = NoGhosts.lookup, !.backlog = [t \in Tenants |-> 0]]

(* Too many requests in a row without an owner, before enough with one.       *)
ObserveSignal(s, t) ==
    LET quiet == [s EXCEPT !.signalless = AtMost(@ + 1, MaxSignallessStreak)]
    IN  IF s.mode # "active" THEN s
        ELSE IF t # NoTenant
        THEN [s EXCEPT !.samples = AtMost(@ + 1, MinSignalSamples), !.signalless = 0]
        ELSE IF quiet.signalless = MaxSignallessStreak /\ s.samples < MinSignalSamples
        THEN FallBackToFifo(quiet)
        ELSE quiet

GhostTenants(s) == {t \in Tenants : s.lookup[t] # 0}

(* A tenant that is already a ghost moves to the newest generation.           *)
Remember(s, t) ==
    LET g == s.gen + 1
    IN  [s EXCEPT !.gen = g, !.lookup[t] = g,
                  !.order = [h \in 1..MaxGhostGen |->
                                IF h = g THEN t ELSE IF h = s.lookup[t] THEN NoTenant ELSE @[h]]]

EvictOldest(s) ==
    LET oldest == CHOOSE g \in 1..MaxGhostGen :
                     /\ s.order[g] # NoTenant
                     /\ \A h \in 1..(g - 1) : s.order[h] = NoTenant
    IN  [s EXCEPT !.order[oldest] = NoTenant, !.lookup[s.order[oldest]] = 0]

(* record_ghost: when the generations are used up every ghost is forgotten.    *)
RecordGhost(s, t) ==
    LET room == IF s.gen = MaxGhostGen
                THEN [s EXCEPT !.gen = 0, !.order = NoGhosts.order, !.lookup = NoGhosts.lookup]
                ELSE s
        new  == Remember(room, t)
    IN  IF Cardinality(GhostTenants(new)) > GhostCapacity THEN EvictOldest(new) ELSE new

(* A refusal: too many in a row and the policy gives up.                      *)
Rejected(s) ==
    LET more == [s EXCEPT !.unstable = AtMost(@ + 1, UnstableRejectionStreak)]
    IN  IF more.unstable = UnstableRejectionStreak THEN FallBackToFifo(more) ELSE more

(* allow_main_admission: whether the overflow lane is open to t, and the state  *)
(* after the question: a ghost buys one admission above the budget.          *)
Admission(s, t) ==
    IF s.mode # "active" \/ t = NoTenant THEN [open |-> TRUE, s3 |-> s]
    ELSE IF s.backlog[t] < TenantBudget THEN [open |-> TRUE, s3 |-> s]
    ELSE IF t \in GhostTenants(s)
    THEN [open |-> TRUE,
          s3 |-> [s EXCEPT !.order[s.lookup[t]] = NoTenant, !.lookup[t] = 0, !.unstable = 0]]
    ELSE [open |-> FALSE, s3 |-> Rejected(RecordGhost(s, t))]

MainEnqueued(s, t) ==
    IF s.mode # "active" THEN s
    ELSE IF t = NoTenant THEN [s EXCEPT !.unstable = 0]
    ELSE [s EXCEPT !.backlog[t] = @ + 1, !.unstable = 0]

MainDequeued(s, t) ==
    IF s.mode # "active" \/ t = NoTenant THEN s
    ELSE RecordGhost([s EXCEPT !.backlog[t] = IF @ = 0 THEN 0 ELSE @ - 1], t)

OverflowRefused(s, t) ==
    IF s.mode # "active" THEN s
    ELSE Rejected(IF t = NoTenant THEN s ELSE RecordGhost(s, t))

-----------------------------------------------------------------------------
(* Epochs.  Every operation bumps the epoch: what was retired before is old.   *)
BumpedRetired == [i \in DOMAIN retired |-> [retired[i] EXCEPT !.old = TRUE]]

(* The old nodes at the front go.                                            *)
DropOld(nodes) ==
    \E k \in 0..Len(nodes) :
        /\ \A i \in 1..k : nodes[i].old
        /\ k < Len(nodes) => ~nodes[k + 1].old
        /\ retired' = SubSeq(nodes, k + 1, Len(nodes))

(* Mutant: readers are not asked.                                            *)
TryReclaimUnderPins(nodes) ==
    /\ IF reclamation = "ebr" THEN DropOld(nodes) ELSE retired' = nodes
    /\ UNCHANGED reclamation

(* try_reclaim: with no reader the old nodes at the front are dropped; under   *)
(* a reader they stay, until there are too many and EBR is given up for good. *)
TryReclaim(nodes) ==
    \/ /\ reclamation = "fallback"
       /\ retired' = nodes /\ UNCHANGED reclamation
    \/ /\ reclamation = "ebr" /\ pins = 0
       /\ DropOld(nodes) /\ UNCHANGED reclamation
    \/ /\ reclamation = "ebr" /\ pins > 0 /\ Len(nodes) <= BacklogThreshold
       /\ retired' = nodes /\ UNCHANGED reclamation
    \/ /\ reclamation = "ebr" /\ pins > 0 /\ Len(nodes) > BacklogThreshold
       /\ retired' = <<>> /\ reclamation' = "fallback"

-----------------------------------------------------------------------------
QueueInit ==
    /\ fast = <<>> /\ overflow = <<>> /\ s3 = NewAdmission
    /\ reclamation \in {"ebr", "fallback"} /\ pins = 0 /\ retired = <<>>
    /\ draining = FALSE /\ popped = <<>>

(* "Preserve FIFO across lanes by pinning to overflow once spill begins."      *)
FastOpen == overflow = <<>> /\ Len(fast) < FastCapacity

(* push_back                                                                 *)
PushFast(t) ==
    /\ ~draining /\ FastOpen
    /\ fast' = Append(fast, t)
    /\ s3' = ObserveSignal(s3, t)
    /\ TryReclaim(BumpedRetired)
    /\ UNCHANGED <<overflow, pins, draining, popped>>

PushOverflow(t) ==
    LET asked == Admission(ObserveSignal(s3, t), t)
    IN  /\ ~draining /\ ~FastOpen
        /\ asked.open /\ Len(overflow) < OverflowCapacity
        /\ overflow' = Append(overflow, t)
        /\ s3' = MainEnqueued(asked.s3, t)
        /\ TryReclaim(BumpedRetired)
        /\ UNCHANGED <<fast, pins, draining, popped>>

(* For the tenant's budget, or for the lane's capacity: nothing is retired.   *)
PushRefused(t) ==
    LET asked == Admission(ObserveSignal(s3, t), t)
    IN  /\ ~draining /\ ~FastOpen
        /\ \/ ~asked.open /\ s3' = asked.s3
           \/ /\ asked.open /\ Len(overflow) >= OverflowCapacity
              /\ s3' = OverflowRefused(asked.s3, t)
        /\ UNCHANGED <<fast, overflow, reclamation, pins, retired, draining, popped>>

(* drain_all: pops until both lanes are empty; only a pin's drop, on another    *)
(* thread, can fall between two pops.                                        *)
StartDrain ==
    /\ ~draining
    /\ draining' = TRUE /\ popped' = <<>>
    /\ UNCHANGED <<fast, overflow, s3, reclamation, pins, retired>>

(* Mutant: the overflow lane is emptied first.                               *)
FromRingLast == overflow = <<>>

(* Which lane pop_front takes from.                                          *)
FromRing == fast # <<>>

PopFront ==
    LET value == IF FromRing THEN Head(fast) ELSE Head(overflow)
    IN  /\ draining
        /\ fast \o overflow # <<>>
        /\ IF FromRing
           THEN fast' = Tail(fast) /\ UNCHANGED <<overflow, s3>>
           ELSE overflow' = Tail(overflow) /\ s3' = MainDequeued(s3, value) /\ UNCHANGED fast
        /\ TryReclaim(IF reclamation = "ebr"
                      THEN Append(BumpedRetired, [value |-> value, old |-> FALSE])
                      ELSE BumpedRetired)
        /\ popped' = Append(popped, value)
        /\ UNCHANGED <<pins, draining>>

EndDrain ==
    /\ draining /\ fast = <<>> /\ overflow = <<>>
    /\ draining' = FALSE
    /\ UNCHANGED <<fast, overflow, s3, reclamation, pins, retired, popped>>

PinEpoch ==
    /\ ~draining /\ pins < MaxPins
    /\ pins' = pins + 1
    /\ UNCHANGED <<fast, overflow, s3, reclamation, retired, draining, popped>>

UnpinEpoch ==
    /\ pins > 0
    /\ pins' = pins - 1
    /\ UNCHANGED <<fast, overflow, s3, reclamation, retired, draining, popped>>

ForceReclaim ==
    /\ ~draining
    /\ TryReclaim(BumpedRetired)
    /\ UNCHANGED <<fast, overflow, s3, pins, draining, popped>>

ForceSafeFallback ==
    /\ ~draining /\ reclamation = "ebr"
    /\ reclamation' = "fallback" /\ retired' = <<>>
    /\ UNCHANGED <<fast, overflow, s3, pins, draining, popped>>

(* Pins and the reclamation mode outlive a clear.                             *)
ClearQueue ==
    /\ ~draining
    /\ fast' = <<>> /\ overflow' = <<>> /\ retired' = <<>> /\ s3' = NewAdmission
    /\ UNCHANGED <<reclamation, pins, draining, popped>>

QueueNext ==
    \/ \E t \in QueueRequests : PushFast(t) \/ PushOverflow(t) \/ PushRefused(t)
    \/ StartDrain \/ PopFront \/ EndDrain
    \/ PinEpoch \/ UnpinEpoch \/ ForceReclaim \/ ForceSafeFallback \/ ClearQueue

QueueSpec == QueueInit /\ [][QueueNext]_queueVars

-----------------------------------------------------------------------------
(* Properties                                                                *)

(* The variables hold values of their types; no lane holds more than its       *)
(* capacity.                                                                 *)
QueueTypeOK ==
    /\ fast \in Seq(QueueRequests) /\ Len(fast) <= FastCapacity
    /\ overflow \in Seq(QueueRequests) /\ Len(overflow) <= OverflowCapacity
    /\ s3 \in [mode : {"active", "fifo"}, gen : 0..MaxGhostGen,
               order : [1..MaxGhostGen -> QueueRequests], lookup : [Tenants -> 0..MaxGhostGen],
               backlog : [Tenants -> Nat], samples : Nat, signalless : Nat, unstable : Nat]
    /\ reclamation \in {"ebr", "fallback"} /\ pins \in Nat
    /\ retired \in Seq(RetiredNodes)
    /\ draining \in BOOLEAN /\ popped \in Seq(QueueRequests)

(* Through both lanes, refusals, fall-backs and clears, requests come out in    *)
(* the order they were admitted, each once (push_back, drain_all).           *)
Fifo == INSTANCE BoundedFifo WITH
            Items <- QueueRequests, Capacity <- FastCapacity + OverflowCapacity,
            held <- fast \o overflow, out <- popped
AdmittedInOrder == Fifo!Spec

(* While the budget is in force, each tenant's backlog is what it really has in *)
(* the overflow lane: a count that drifts up locks the tenant out for good, one *)
(* that drifts down lets it take the whole lane (on_main_enqueued,           *)
(* on_main_dequeued, transition_to_fallback).                                *)
BacklogIsExact ==
    s3.mode = "active" =>
        \A t \in Tenants :
            s3.backlog[t] = Cardinality({i \in 1..Len(overflow) : overflow[i] = t})

(* The two maps of the ghosts are inverse to each other and within their        *)
(* capacity, also when generations start over (record_ghost,                 *)
(* consume_ghost_hit).                                                       *)
GhostTablesAgree ==
    /\ \A t \in Tenants, g \in 1..MaxGhostGen : s3.lookup[t] = g <=> s3.order[g] = t
    /\ \A g \in 1..MaxGhostGen : s3.order[g] # NoTenant => g <= s3.gen
    /\ Cardinality(GhostTenants(s3)) <= GhostCapacity

(* However long a reader keeps its pin, the requests that wait for it are       *)
(* bounded (try_reclaim).                                                    *)
RetiredIsBounded == Len(retired) <= BacklogThreshold

(* What a reader may still look at is not dropped under it: while a pin is held *)
(* the retired requests only get older and more, unless the queue is cleared or *)
(* gives up reclamation (try_reclaim, pin_epoch).                            *)
Kept == \A i \in 1..Len(retired) :
            i <= Len(retired') /\ retired'[i].value = retired[i].value
PinnedNodesStay ==
    [][pins > 0 => Kept \/ reclamation' = "fallback" \/ ClearQueue]_queueVars

(* What admission and reclamation count is exact, in every mode and after every *)
(* fall-back, and neither forgets the readers nor lets them block it for ever.  *)
QueueIsSound ==
    /\ [](QueueTypeOK /\ BacklogIsExact /\ GhostTablesAgree /\ RetiredIsBounded)
    /\ PinnedNodesStay
=============================================================================
