-------------------------- MODULE DataParts_proofs --------------------------
(***************************************************************************)
(* Proofs about the libraries of the node runtime: HostcallQueue, for any  *)
(* tenants, capacities and thresholds; ContentionPolicy, for every         *)
(* configuration and every series of windows; NumaSlabPool, for any nodes, *)
(* capacity and generations; SchedulerLoop, for any number of timer ids,   *)
(* tasks and times; S3FifoPolicy, for any keys, owners and capacities; and  *)
(* RepairPlanning, for any catalogue of proposals.                          *)
(***************************************************************************)
EXTENDS HostcallQueue, ContentionPolicy, NumaSlabPool, SchedulerLoop, S3FifoPolicy, RepairPlanning,
        Scheduler_proofs, SequenceLemmas

-----------------------------------------------------------------------------
(* Hostcall queue                                                            *)

(* The admission policy: types, and what each operation does to the backlog    *)

Admissions == [mode : {"active", "fifo"}, gen : 0..MaxGhostGen,
               order : [1..MaxGhostGen -> QueueRequests], lookup : [Tenants -> 0..MaxGhostGen],
               backlog : [Tenants -> Nat], samples : Nat, signalless : Nat, unstable : Nat]

(* s becomes r without any effect on the backlog, or gives up counting it.     *)
KeepsBacklog(s, r) == r.mode = "active" => s.mode = "active" /\ r.backlog = s.backlog

LEMMA NewAdmissionType == NewAdmission \in Admissions /\ NewAdmission.mode = "active"
BY HostcallQueueAssumption DEF NewAdmission, NoGhosts, Admissions, QueueRequests

LEMMA FallBackFacts ==
  ASSUME NEW s \in Admissions
  PROVE  FallBackToFifo(s) \in Admissions /\ FallBackToFifo(s).mode = "fifo"
<1>1. NoGhosts.order \in [1..MaxGhostGen -> QueueRequests]
  BY DEF NoGhosts, QueueRequests
<1>2. NoGhosts.lookup \in [Tenants -> 0..MaxGhostGen]
  BY HostcallQueueAssumption DEF NoGhosts
<1>3. [t \in Tenants |-> 0] \in [Tenants -> Nat] /\ 0 \in 0..MaxGhostGen
  BY HostcallQueueAssumption
<1> HIDE DEF NoGhosts
<1> QED
  BY <1>1, <1>2, <1>3 DEF FallBackToFifo, Admissions

LEMMA Bounds ==
  /\ MaxGhostGen \in Nat /\ 0 \in 0..MaxGhostGen
  /\ MinSignalSamples \in Nat /\ MaxSignallessStreak \in Nat /\ UnstableRejectionStreak \in Nat
  /\ BacklogThreshold \in Nat /\ BacklogThreshold >= 1
  /\ FastCapacity \in Nat /\ OverflowCapacity \in Nat
BY HostcallQueueAssumption

LEMMA ObserveSignalFacts ==
  ASSUME NEW s \in Admissions, NEW t \in QueueRequests
  PROVE  ObserveSignal(s, t) \in Admissions /\ KeepsBacklog(s, ObserveSignal(s, t))
<1> DEFINE quiet == [s EXCEPT !.signalless = AtMost(@ + 1, MaxSignallessStreak)]
           loud  == [s EXCEPT !.samples = AtMost(@ + 1, MinSignalSamples), !.signalless = 0]
<1>1. /\ AtMost(s.signalless + 1, MaxSignallessStreak) \in Nat
      /\ AtMost(s.samples + 1, MinSignalSamples) \in Nat
  BY Bounds DEF Admissions, AtMost
<1>2. quiet \in Admissions /\ quiet.mode = s.mode /\ quiet.backlog = s.backlog
  BY <1>1 DEF Admissions
<1>3. loud \in Admissions /\ loud.mode = s.mode /\ loud.backlog = s.backlog
  BY <1>1 DEF Admissions
<1>4. FallBackToFifo(quiet) \in Admissions /\ FallBackToFifo(quiet).mode = "fifo"
  BY <1>2, FallBackFacts
<1>5. ObserveSignal(s, t) \in {s, loud, FallBackToFifo(quiet), quiet}
  BY DEF ObserveSignal
<1> HIDE DEF quiet, loud
<1> QED
  BY <1>2, <1>3, <1>4, <1>5 DEF KeepsBacklog

(* The generations start over when they are used up.                         *)
GhostRoom(s) == IF s.gen = MaxGhostGen
                THEN [s EXCEPT !.gen = 0, !.order = NoGhosts.order, !.lookup = NoGhosts.lookup]
                ELSE s

LEMMA GhostRoomFacts ==
  ASSUME NEW s \in Admissions
  PROVE  /\ GhostRoom(s) \in Admissions
         /\ GhostRoom(s).mode = s.mode /\ GhostRoom(s).backlog = s.backlog
         /\ GhostRoom(s).gen + 1 \in 1..MaxGhostGen
<1> DEFINE room == GhostRoom(s)
<1>1. /\ NoGhosts.order \in [1..MaxGhostGen -> QueueRequests]
      /\ NoGhosts.lookup \in [Tenants -> 0..MaxGhostGen]
  BY HostcallQueueAssumption DEF NoGhosts, QueueRequests
<1>2. /\ room \in Admissions /\ room.mode = s.mode /\ room.backlog = s.backlog
      /\ room.gen + 1 \in 1..MaxGhostGen
  <2>1. CASE s.gen = MaxGhostGen
    <3>1. room = [s EXCEPT !.gen = 0, !.order = NoGhosts.order, !.lookup = NoGhosts.lookup]
      BY <2>1 DEF GhostRoom
    <3>2. room \in Admissions /\ room.mode = s.mode /\ room.backlog = s.backlog
      BY <1>1, <3>1, Bounds DEF Admissions
    <3>3. room.gen = 0
      BY <3>1 DEF Admissions
    <3> QED
      BY <3>2, <3>3, HostcallQueueAssumption
  <2>2. CASE s.gen # MaxGhostGen
    BY <2>2, Bounds DEF Admissions, GhostRoom
  <2> QED
    BY <2>1, <2>2
<1> QED
  BY <1>2

LEMMA RememberFacts ==
  ASSUME NEW r \in Admissions, NEW t \in Tenants, r.gen + 1 \in 1..MaxGhostGen
  PROVE  /\ Remember(r, t) \in Admissions
         /\ Remember(r, t).mode = r.mode /\ Remember(r, t).backlog = r.backlog
<1> DEFINE g == r.gen + 1
           order == [h \in 1..MaxGhostGen |->
                       IF h = g THEN t ELSE IF h = r.lookup[t] THEN NoTenant ELSE r.order[h]]
<1>1. order \in [1..MaxGhostGen -> QueueRequests]
  BY DEF Admissions, QueueRequests
<1>2. [r.lookup EXCEPT ![t] = g] \in [Tenants -> 0..MaxGhostGen] /\ g \in 0..MaxGhostGen
  BY DEF Admissions
<1>3. Remember(r, t) = [r EXCEPT !.gen = g, !.lookup = [r.lookup EXCEPT ![t] = g],
                                 !.order = order]
  BY DEF Remember, Admissions
<1> HIDE DEF order, g
<1> QED
  BY <1>1, <1>2, <1>3 DEF Admissions

LEMMA EvictionFacts ==
  ASSUME NEW r \in Admissions
  PROVE  /\ EvictOldest(r) \in Admissions
         /\ EvictOldest(r).mode = r.mode /\ EvictOldest(r).backlog = r.backlog
<1> DEFINE oldest == CHOOSE g \in 1..MaxGhostGen :
                       /\ r.order[g] # NoTenant
                       /\ \A h \in 1..(g - 1) : r.order[h] = NoTenant
           order  == [r.order EXCEPT ![oldest] = NoTenant]
           lookup == [r.lookup EXCEPT ![r.order[oldest]] = 0]
<1>1. order \in [1..MaxGhostGen -> QueueRequests]
  BY DEF Admissions, QueueRequests
<1>2. lookup \in [Tenants -> 0..MaxGhostGen]
  BY Bounds DEF Admissions
<1>3. EvictOldest(r) = [r EXCEPT !.order = order, !.lookup = lookup]
  BY DEF EvictOldest, Admissions
<1> HIDE DEF order, lookup
<1> QED
  BY <1>1, <1>2, <1>3 DEF Admissions

LEMMA RecordGhostFacts ==
  ASSUME NEW s \in Admissions, NEW t \in Tenants
  PROVE  /\ RecordGhost(s, t) \in Admissions
         /\ RecordGhost(s, t).mode = s.mode /\ RecordGhost(s, t).backlog = s.backlog
<1> DEFINE new == Remember(GhostRoom(s), t)
<1>1. new \in Admissions /\ new.mode = s.mode /\ new.backlog = s.backlog
  BY GhostRoomFacts, RememberFacts
<1>2. RecordGhost(s, t) = new \/ RecordGhost(s, t) = EvictOldest(new)
  BY DEF RecordGhost, GhostRoom
<1> HIDE DEF new
<1> QED
  BY <1>1, <1>2, EvictionFacts

LEMMA RejectedFacts ==
  ASSUME NEW s \in Admissions
  PROVE  Rejected(s) \in Admissions /\ KeepsBacklog(s, Rejected(s))
<1> DEFINE more == [s EXCEPT !.unstable = AtMost(@ + 1, UnstableRejectionStreak)]
<1>1. AtMost(s.unstable + 1, UnstableRejectionStreak) \in Nat
  BY Bounds DEF Admissions, AtMost
<1>2. more \in Admissions /\ more.mode = s.mode /\ more.backlog = s.backlog
  BY <1>1 DEF Admissions
<1>3. FallBackToFifo(more) \in Admissions /\ FallBackToFifo(more).mode = "fifo"
  BY <1>2, FallBackFacts
<1>4. Rejected(s) \in {more, FallBackToFifo(more)}
  BY DEF Rejected
<1> HIDE DEF more
<1> QED
  BY <1>2, <1>3, <1>4 DEF KeepsBacklog

LEMMA AdmissionFacts ==
  ASSUME NEW s \in Admissions, NEW t \in QueueRequests
  PROVE  /\ Admission(s, t).open \in BOOLEAN
         /\ Admission(s, t).s3 \in Admissions
         /\ KeepsBacklog(s, Admission(s, t).s3)
<1>1. CASE s.mode # "active" \/ t = NoTenant \/ s.backlog[t] < TenantBudget
  BY <1>1 DEF Admission, KeepsBacklog
<1>2. CASE ~(s.mode # "active" \/ t = NoTenant \/ s.backlog[t] < TenantBudget)
  <2>1. t \in Tenants
    BY <1>2 DEF QueueRequests
  <2> DEFINE hit == [s EXCEPT !.order[s.lookup[t]] = NoTenant, !.lookup[t] = 0, !.unstable = 0]
  <2>2. CASE t \in GhostTenants(s)
    <3>1. Admission(s, t) = [open |-> TRUE, s3 |-> hit]
      BY <1>2, <2>2 DEF Admission
    <3>2. [s.order EXCEPT ![s.lookup[t]] = NoTenant] \in [1..MaxGhostGen -> QueueRequests]
      BY DEF Admissions, QueueRequests
    <3>3. [s.lookup EXCEPT ![t] = 0] \in [Tenants -> 0..MaxGhostGen]
      BY Bounds DEF Admissions
    <3>4. hit = [s EXCEPT !.order = [s.order EXCEPT ![s.lookup[t]] = NoTenant],
                          !.lookup = [s.lookup EXCEPT ![t] = 0], !.unstable = 0]
      BY DEF Admissions
    <3>5. hit \in Admissions /\ hit.mode = s.mode /\ hit.backlog = s.backlog
      BY <3>2, <3>3, <3>4 DEF Admissions
    <3> HIDE DEF hit
    <3> QED
      BY <3>1, <3>5 DEF KeepsBacklog
  <2>3. CASE t \notin GhostTenants(s)
    <3>1. Admission(s, t) = [open |-> FALSE, s3 |-> Rejected(RecordGhost(s, t))]
      BY <1>2, <2>3 DEF Admission
    <3> QED
      BY <2>1, <3>1, RecordGhostFacts, RejectedFacts DEF KeepsBacklog
  <2> QED
    BY <2>2, <2>3
<1> QED
  BY <1>1, <1>2

(* The lane's tenants are counted in and out.                                *)
LEMMA EnqueuedFacts ==
  ASSUME NEW s \in Admissions, NEW t \in QueueRequests
  PROVE  /\ MainEnqueued(s, t) \in Admissions /\ MainEnqueued(s, t).mode = s.mode
         /\ s.mode = "active" =>
              MainEnqueued(s, t).backlog =
                [u \in Tenants |-> s.backlog[u] + (IF u = t THEN 1 ELSE 0)]
<1>1. CASE s.mode # "active"
  BY <1>1 DEF MainEnqueued
<1>2. CASE s.mode = "active" /\ t = NoTenant
  <2>1. MainEnqueued(s, t) = [s EXCEPT !.unstable = 0]
    BY <1>2 DEF MainEnqueued
  <2> QED
    <3>1. s.backlog \in [Tenants -> Nat] /\ \A u \in Tenants : u # t
      BY <1>2, HostcallQueueAssumption DEF Admissions
    <3>2. s.backlog = [u \in Tenants |-> s.backlog[u] + (IF u = t THEN 1 ELSE 0)]
      BY <3>1
    <3>3. /\ MainEnqueued(s, t) \in Admissions /\ MainEnqueued(s, t).mode = s.mode
          /\ MainEnqueued(s, t).backlog = s.backlog
      <4> DEFINE m == [s EXCEPT !.unstable = 0]
      <4>1. m \in Admissions /\ m.mode = s.mode /\ m.backlog = s.backlog
        BY DEF Admissions
      <4> QED
        BY <2>1, <4>1
    <3> QED
      BY <3>2, <3>3
<1>3. CASE s.mode = "active" /\ t # NoTenant
  <2> DEFINE backlog == [u \in Tenants |-> s.backlog[u] + (IF u = t THEN 1 ELSE 0)]
  <2>1. backlog \in [Tenants -> Nat] /\ [s.backlog EXCEPT ![t] = @ + 1] = backlog
    BY DEF Admissions
  <2>2. MainEnqueued(s, t) = [s EXCEPT !.backlog = backlog, !.unstable = 0]
    BY <1>3, <2>1 DEF MainEnqueued, Admissions
  <2> HIDE DEF backlog
  <2>3. /\ MainEnqueued(s, t) \in Admissions /\ MainEnqueued(s, t).mode = s.mode
        /\ MainEnqueued(s, t).backlog = backlog
    <3> DEFINE m == [s EXCEPT !.backlog = backlog, !.unstable = 0]
    <3>1. m \in Admissions /\ m.mode = s.mode /\ m.backlog = backlog
      BY <2>1 DEF Admissions
    <3> QED
      BY <2>2, <3>1
  <2> QED
    BY <2>3 DEF backlog
<1> QED
  BY <1>1, <1>2, <1>3

LEMMA DequeuedFacts ==
  ASSUME NEW s \in Admissions, NEW t \in QueueRequests
  PROVE  /\ MainDequeued(s, t) \in Admissions /\ MainDequeued(s, t).mode = s.mode
         /\ s.mode = "active" =>
              MainDequeued(s, t).backlog =
                [u \in Tenants |-> IF u = t /\ s.backlog[u] # 0 THEN s.backlog[u] - 1
                                   ELSE s.backlog[u]]
<1>1. CASE s.mode # "active" \/ t = NoTenant
  BY <1>1, HostcallQueueAssumption DEF MainDequeued, Admissions
<1>2. CASE s.mode = "active" /\ t # NoTenant
  <2> DEFINE backlog == [u \in Tenants |-> IF u = t /\ s.backlog[u] # 0
                                           THEN s.backlog[u] - 1 ELSE s.backlog[u]]
             less == [s EXCEPT !.backlog = backlog]
  <2>1. /\ backlog \in [Tenants -> Nat]
        /\ [s.backlog EXCEPT ![t] = IF @ = 0 THEN 0 ELSE @ - 1] = backlog
    BY SMTT(30) DEF Admissions
  <2>2. MainDequeued(s, t) = RecordGhost(less, t)
    BY <1>2, <2>1 DEF MainDequeued, Admissions
  <2> HIDE DEF backlog
  <2>3. less \in Admissions /\ less.mode = s.mode /\ less.backlog = backlog
    BY <2>1 DEF Admissions
  <2>4. t \in Tenants
    BY <1>2 DEF QueueRequests
  <2> HIDE DEF less
  <2>5. /\ MainDequeued(s, t) \in Admissions /\ MainDequeued(s, t).mode = s.mode
        /\ MainDequeued(s, t).backlog = backlog
    BY <2>2, <2>3, <2>4, RecordGhostFacts
  <2> QED
    BY <2>5 DEF backlog
<1> QED
  BY <1>1, <1>2

LEMMA RefusedFacts ==
  ASSUME NEW s \in Admissions, NEW t \in QueueRequests
  PROVE  /\ OverflowRefused(s, t) \in Admissions
         /\ KeepsBacklog(s, OverflowRefused(s, t))
<1>1. CASE s.mode # "active"
  BY <1>1 DEF OverflowRefused, KeepsBacklog
<1>2. CASE s.mode = "active" /\ t = NoTenant
  BY <1>2, RejectedFacts DEF OverflowRefused
<1>3. CASE s.mode = "active" /\ t # NoTenant
  <2>1. t \in Tenants
    BY <1>3 DEF QueueRequests
  <2> QED
    BY <1>3, <2>1, RecordGhostFacts, RejectedFacts DEF OverflowRefused, KeepsBacklog
<1> QED
  BY <1>1, <1>2, <1>3

-----------------------------------------------------------------------------
(* The inductive invariant                                                   *)

Places(lane, t) == {i \in 1..Len(lane) : lane[i] = t}
CountsLane(s, lane) == s.mode = "active" =>
                           \A t \in Tenants : s.backlog[t] = Cardinality(Places(lane, t))

Lanes ==
    /\ fast \in Seq(QueueRequests) /\ Len(fast) <= FastCapacity
    /\ overflow \in Seq(QueueRequests) /\ Len(overflow) <= OverflowCapacity

(* Nothing is retired in the fallback mode.                                  *)
Retirement ==
    /\ reclamation \in {"ebr", "fallback"} /\ retired \in Seq(RetiredNodes)
    /\ reclamation = "fallback" => retired = <<>>
    /\ RetiredIsBounded

Others ==
    /\ s3 \in Admissions /\ pins \in Nat /\ draining \in BOOLEAN
    /\ popped \in Seq(QueueRequests)

QueueInv == Lanes /\ Retirement /\ Others /\ CountsLane(s3, overflow)

LEMMA QueueInvTypes == QueueInv => QueueTypeOK /\ RetiredIsBounded /\ BacklogIsExact
BY DEF QueueInv, Lanes, Retirement, Others, Admissions, QueueTypeOK, CountsLane, Places,
       BacklogIsExact

-----------------------------------------------------------------------------
(* Counting the places of a tenant in a lane                                  *)

LEMMA PlacesFinite ==
  ASSUME NEW lane \in Seq(QueueRequests), NEW t
  PROVE  IsFiniteSet(Places(lane, t)) /\ Cardinality(Places(lane, t)) \in Nat
<1>1. Places(lane, t) \in SUBSET (1..Len(lane)) /\ Len(lane) \in Nat
  BY DEF Places
<1>2. IsFiniteSet(1..Len(lane))
  BY <1>1, FS_Interval
<1>3. IsFiniteSet(Places(lane, t))
  BY <1>1, <1>2, FS_Subset
<1> QED
  BY <1>3, FS_CardinalityType

LEMMA PlacesOfAppend ==
  ASSUME NEW lane \in Seq(QueueRequests), NEW x \in QueueRequests, NEW t
  PROVE  Cardinality(Places(Append(lane, x), t))
           = Cardinality(Places(lane, t)) + (IF t = x THEN 1 ELSE 0)
<1> DEFINE n == Len(lane) + 1
<1>1. /\ Len(lane) \in Nat /\ Len(Append(lane, x)) = n /\ Append(lane, x)[n] = x
      /\ \A i \in 1..Len(lane) : Append(lane, x)[i] = lane[i]
  BY AppendProperties
<1>2. n \notin Places(lane, t)
  BY <1>1 DEF Places
<1>3. CASE t = x
  <2>1. Places(Append(lane, x), t) = Places(lane, t) \cup {n}
    BY <1>1, <1>3 DEF Places
  <2> QED
    BY <1>2, <1>3, <2>1, PlacesFinite, FS_AddElement
<1>4. CASE t # x
  <2>1. Places(Append(lane, x), t) = Places(lane, t)
    BY <1>1, <1>4 DEF Places
  <2> QED
    BY <1>4, <2>1, PlacesFinite
<1> QED
  BY <1>3, <1>4

LEMMA PlacesOfTail ==
  ASSUME NEW lane \in Seq(QueueRequests), lane # <<>>, NEW t
  PROVE  Cardinality(Places(lane, t))
           = Cardinality(Places(Tail(lane), t)) + (IF t = Head(lane) THEN 1 ELSE 0)
<1> DEFINE rest  == Places(lane, t) \ {1}
           up    == [i \in Places(Tail(lane), t) |-> i + 1]
<1>1. /\ Len(lane) \in Nat \ {0} /\ Tail(lane) \in Seq(QueueRequests)
      /\ Len(Tail(lane)) = Len(lane) - 1 /\ Head(lane) = lane[1]
      /\ \A i \in 1..(Len(lane) - 1) : Tail(lane)[i] = lane[i + 1]
  BY HeadTailProperties
<1>2. up \in [Places(Tail(lane), t) -> rest]
  BY <1>1 DEF Places
<1>3. \A i, j \in Places(Tail(lane), t) : up[i] = up[j] => i = j
  BY <1>1 DEF Places
<1>4. \A k \in rest : k - 1 \in Places(Tail(lane), t) /\ up[k - 1] = k
  BY <1>1 DEF Places
<1>5. up \in Bijection(Places(Tail(lane), t), rest)
  <2>1. \A k \in rest : \E i \in Places(Tail(lane), t) : up[i] = k
    BY <1>4
  <2> HIDE DEF up, rest
  <2>2. up \in Injection(Places(Tail(lane), t), rest)
    BY <1>2, <1>3 DEF Injection, IsInjective
  <2>3. up \in Surjection(Places(Tail(lane), t), rest)
    BY <1>2, <2>1 DEF Surjection
  <2> QED
    BY <2>2, <2>3 DEF Bijection
<1>6. Cardinality(rest) = Cardinality(Places(Tail(lane), t))
  <2>1. IsFiniteSet(Places(Tail(lane), t))
    BY <1>1, PlacesFinite
  <2> QED
    BY <1>5, <2>1, FS_Bijection DEF ExistsBijection
<1>7. IsFiniteSet(Places(lane, t)) /\ Cardinality(Places(lane, t)) \in Nat
  BY PlacesFinite
<1>8. 1 \in Places(lane, t) <=> t = Head(lane)
  BY <1>1 DEF Places
<1>9. Cardinality(rest) = IF 1 \in Places(lane, t) THEN Cardinality(Places(lane, t)) - 1
                          ELSE Cardinality(Places(lane, t))
  BY <1>7, FS_RemoveElement
<1> QED
  BY <1>6, <1>7, <1>8, <1>9

LEMMA EnqueuedCounts ==
  ASSUME NEW s \in Admissions, NEW lane \in Seq(QueueRequests), NEW t \in QueueRequests,
         CountsLane(s, lane)
  PROVE  CountsLane(MainEnqueued(s, t), Append(lane, t))
<1> SUFFICES ASSUME MainEnqueued(s, t).mode = "active", NEW u \in Tenants
             PROVE  MainEnqueued(s, t).backlog[u] = Cardinality(Places(Append(lane, t), u))
  BY DEF CountsLane
<1>1. s.mode = "active"
  BY EnqueuedFacts
<1>2. MainEnqueued(s, t).backlog[u] = s.backlog[u] + (IF u = t THEN 1 ELSE 0)
  <2>1. MainEnqueued(s, t).backlog = [v \in Tenants |-> s.backlog[v] + (IF v = t THEN 1 ELSE 0)]
    BY <1>1, EnqueuedFacts
  <2> QED
    BY <2>1
<1>3. s.backlog[u] = Cardinality(Places(lane, u))
  BY <1>1 DEF CountsLane
<1> QED
  BY <1>2, <1>3, PlacesOfAppend

LEMMA DequeuedCounts ==
  ASSUME NEW s \in Admissions, NEW lane \in Seq(QueueRequests), lane # <<>>,
         CountsLane(s, lane)
  PROVE  CountsLane(MainDequeued(s, Head(lane)), Tail(lane))
<1> DEFINE t == Head(lane)
<1>0. t \in QueueRequests /\ Tail(lane) \in Seq(QueueRequests)
  BY HeadTailProperties
<1> SUFFICES ASSUME MainDequeued(s, t).mode = "active", NEW u \in Tenants
             PROVE  MainDequeued(s, t).backlog[u] = Cardinality(Places(Tail(lane), u))
  BY DEF CountsLane
<1>1. s.mode = "active"
  BY <1>0, DequeuedFacts
<1>2. MainDequeued(s, t).backlog[u] = IF u = t /\ s.backlog[u] # 0 THEN s.backlog[u] - 1
                                      ELSE s.backlog[u]
  BY ZenonT(30), <1>0, <1>1, DequeuedFacts
<1>3. s.backlog[u] = Cardinality(Places(lane, u))
  BY <1>1 DEF CountsLane
<1>4. s.backlog[u] = Cardinality(Places(Tail(lane), u)) + (IF u = t THEN 1 ELSE 0)
  BY <1>3, PlacesOfTail
<1>5. Cardinality(Places(Tail(lane), u)) \in Nat
  BY <1>0, PlacesFinite
<1> QED
  BY <1>2, <1>4, <1>5

-----------------------------------------------------------------------------
(* Reclamation: `nodes` are the retired requests after the epoch was bumped, of *)
(* which at most the last is not old.                                        *)
LEMMA TryReclaimFacts ==
  ASSUME Retirement, pins \in Nat, NEW nodes \in Seq(RetiredNodes),
         \A i \in 1..(Len(nodes) - 1) : nodes[i].old,
         reclamation = "fallback" => nodes = <<>>,
         TryReclaim(nodes)
  PROVE  /\ Retirement'
         /\ pins > 0 => retired' = nodes \/ reclamation' = "fallback"
<1>1. Len(nodes) \in Nat /\ <<>> \in Seq(RetiredNodes) /\ Len(<<>>) = 0
  OBVIOUS
<1>2. CASE reclamation = "fallback"
  BY <1>1, <1>2, Bounds DEF TryReclaim, Retirement, RetiredIsBounded
<1>3. CASE reclamation = "ebr" /\ pins = 0
  <2>1. DropOld(nodes) /\ reclamation' = "ebr"
    BY <1>3 DEF TryReclaim
  <2>2. PICK k \in 0..Len(nodes) :
          /\ k < Len(nodes) => ~nodes[k + 1].old
          /\ retired' = SubSeq(nodes, k + 1, Len(nodes))
    BY <2>1 DEF DropOld
  <2>3. k = Len(nodes) \/ k + 1 = Len(nodes)
    BY <1>1, <2>2
  <2>4. CASE k = Len(nodes)
    <3>1. retired' = <<>>
      BY <1>1, <2>2, <2>4, SubSeqEmpty
    <3> QED
      BY <1>1, <1>3, <2>1, <3>1, Bounds DEF Retirement, RetiredIsBounded
  <2>5. CASE k + 1 = Len(nodes)
    <3>1. k + 1 \in 1..Len(nodes) /\ Len(nodes) \in 1..Len(nodes)
      BY <1>1, <2>2, <2>5
    <3>2. retired' \in Seq(RetiredNodes) /\ Len(retired') = 1
      BY <1>1, <2>2, <2>5, <3>1, SubSeqProperties
    <3> QED
      BY <1>3, <2>1, <3>2, Bounds DEF Retirement, RetiredIsBounded
  <2> QED
    BY <1>3, <2>3, <2>4, <2>5
<1>4. CASE reclamation = "ebr" /\ pins > 0
  <2>1. CASE retired' = nodes /\ Len(nodes) <= BacklogThreshold /\ reclamation' = reclamation
    BY <1>4, <2>1 DEF Retirement, RetiredIsBounded
  <2>2. CASE retired' = <<>> /\ reclamation' = "fallback"
    BY <1>1, <2>2, Bounds DEF Retirement, RetiredIsBounded
  <2> QED
    BY <1>4, <2>1, <2>2 DEF TryReclaim
<1> QED
  BY <1>2, <1>3, <1>4 DEF Retirement

LEMMA BumpedFacts ==
  ASSUME Retirement
  PROVE  /\ BumpedRetired \in Seq(RetiredNodes) /\ Len(BumpedRetired) = Len(retired)
         /\ \A i \in 1..Len(BumpedRetired) :
              BumpedRetired[i].old /\ BumpedRetired[i].value = retired[i].value
         /\ reclamation = "fallback" => BumpedRetired = <<>>
<1>1. /\ retired \in Seq(RetiredNodes) /\ Len(retired) \in Nat
      /\ DOMAIN retired = 1..Len(retired)
  BY DEF Retirement
<1>2. \A i \in 1..Len(retired) : retired[i] \in RetiredNodes
  BY <1>1
<1>3. \A i \in 1..Len(retired) :
        /\ [retired[i] EXCEPT !.old = TRUE] \in RetiredNodes
        /\ [retired[i] EXCEPT !.old = TRUE].old
        /\ [retired[i] EXCEPT !.old = TRUE].value = retired[i].value
  BY <1>2 DEF RetiredNodes
<1>4. BumpedRetired = [i \in 1..Len(retired) |-> [retired[i] EXCEPT !.old = TRUE]]
  BY <1>1 DEF BumpedRetired
<1>5. BumpedRetired \in Seq(RetiredNodes) /\ Len(BumpedRetired) = Len(retired)
  BY <1>1, <1>3, <1>4
<1>6. \A i \in 1..Len(BumpedRetired) :
        BumpedRetired[i].old /\ BumpedRetired[i].value = retired[i].value
  BY <1>3, <1>4, <1>5
<1>7. reclamation = "fallback" => BumpedRetired = <<>>
  <2>1. reclamation = "fallback" => Len(BumpedRetired) = 0
    BY <1>5 DEF Retirement
  <2> QED
    BY <1>5, <2>1, EmptySeq
<1> QED
  BY <1>5, <1>6, <1>7

(* What a push does to the retired requests.                                 *)
LEMMA PushRetires ==
  ASSUME QueueInv, TryReclaim(BumpedRetired)
  PROVE  /\ Retirement'
         /\ pins > 0 => Kept \/ reclamation' = "fallback"
<1>1. \A i \in 1..(Len(BumpedRetired) - 1) : BumpedRetired[i].old
  BY BumpedFacts DEF QueueInv, Retirement
<1>2. Retirement' /\ (pins > 0 => retired' = BumpedRetired \/ reclamation' = "fallback")
  BY <1>1, BumpedFacts, TryReclaimFacts DEF QueueInv, Others
<1> QED
  BY <1>2, BumpedFacts DEF QueueInv, Kept

(* ... and what a pop does, of a request that is retired at once.             *)
LEMMA PopRetires ==
  ASSUME QueueInv, NEW value \in QueueRequests,
         TryReclaim(IF reclamation = "ebr"
                    THEN Append(BumpedRetired, [value |-> value, old |-> FALSE])
                    ELSE BumpedRetired)
  PROVE  /\ Retirement'
         /\ pins > 0 => Kept \/ reclamation' = "fallback"
<1> DEFINE node == [value |-> value, old |-> FALSE]
           nodes == Append(BumpedRetired, node)
<1>1. CASE reclamation # "ebr"
  BY <1>1, PushRetires
<1>2. CASE reclamation = "ebr"
  <2>1. node \in RetiredNodes
    BY DEF RetiredNodes
  <2>2. BumpedRetired \in Seq(RetiredNodes)
    BY BumpedFacts DEF QueueInv
  <2>3. /\ nodes \in Seq(RetiredNodes) /\ Len(nodes) = Len(BumpedRetired) + 1
        /\ \A i \in 1..Len(BumpedRetired) : nodes[i] = BumpedRetired[i]
    BY <2>1, <2>2, AppendProperties
  <2>4. TryReclaim(nodes)
    BY <1>2
  <2> HIDE DEF nodes
  <2>5. Len(BumpedRetired) \in Nat /\ Len(BumpedRetired) = Len(retired)
    BY <2>2, BumpedFacts DEF QueueInv
  <2>6. \A i \in 1..Len(BumpedRetired) :
          nodes[i].old /\ nodes[i].value = retired[i].value
    BY <2>3, BumpedFacts DEF QueueInv
  <2>7. Retirement' /\ (pins > 0 => retired' = nodes \/ reclamation' = "fallback")
    BY <1>2, <2>3, <2>4, <2>5, <2>6, TryReclaimFacts DEF QueueInv, Others
  <2> QED
    BY <2>3, <2>5, <2>6, <2>7 DEF Kept
<1> QED
  BY <1>1, <1>2

-----------------------------------------------------------------------------
(* Every step keeps the invariant, and what a pinned reader sees.             *)

PinsHold == pins > 0 => Kept \/ reclamation' = "fallback" \/ ClearQueue

LEMMA KeptCounts ==
  ASSUME NEW s, NEW r, NEW lane, CountsLane(s, lane), KeepsBacklog(s, r)
  PROVE  CountsLane(r, lane)
BY DEF CountsLane, KeepsBacklog

LEMMA StillKept == QueueInv /\ UNCHANGED <<reclamation, retired>> => Retirement' /\ Kept
BY DEF QueueInv, Retirement, RetiredIsBounded, Kept

LEMMA PushFastKeeps ==
  ASSUME QueueInv, NEW t \in QueueRequests, PushFast(t)
  PROVE  QueueInv' /\ PinsHold
<1>1. Retirement' /\ PinsHold
  BY PushRetires DEF PushFast, PinsHold
<1>2. Lanes'
  BY AppendProperties, Bounds DEF PushFast, FastOpen, QueueInv, Lanes
<1>3. s3' \in Admissions /\ KeepsBacklog(s3, s3')
  BY ObserveSignalFacts DEF PushFast, QueueInv, Others
<1>4. CountsLane(s3, overflow)' /\ Others'
  BY <1>3, KeptCounts DEF PushFast, QueueInv, Others
<1> QED
  BY <1>1, <1>2, <1>4 DEF QueueInv

(* The question to the policy, as every push to the overflow lane asks it.    *)
LEMMA AskedFacts ==
  ASSUME QueueInv, NEW t \in QueueRequests
  PROVE  /\ Admission(ObserveSignal(s3, t), t).s3 \in Admissions
         /\ CountsLane(Admission(ObserveSignal(s3, t), t).s3, overflow)
<1> DEFINE noted == ObserveSignal(s3, t)
<1>1. noted \in Admissions /\ CountsLane(noted, overflow)
  BY ObserveSignalFacts, KeptCounts DEF QueueInv, Others
<1> HIDE DEF noted
<1>2. Admission(noted, t).s3 \in Admissions /\ KeepsBacklog(noted, Admission(noted, t).s3)
  BY <1>1, AdmissionFacts
<1>3. CountsLane(Admission(noted, t).s3, overflow)
  BY <1>1, <1>2, KeptCounts
<1> QED
  BY <1>2, <1>3 DEF noted

LEMMA PushOverflowKeeps ==
  ASSUME QueueInv, NEW t \in QueueRequests, PushOverflow(t)
  PROVE  QueueInv' /\ PinsHold
<1> DEFINE asked == Admission(ObserveSignal(s3, t), t)
<1>1. Retirement' /\ PinsHold
  BY PushRetires DEF PushOverflow, PinsHold
<1>2. Lanes'
  BY AppendProperties, Bounds DEF PushOverflow, QueueInv, Lanes
<1>3. asked.s3 \in Admissions /\ CountsLane(asked.s3, overflow)
  BY AskedFacts
<1>4. /\ s3' = MainEnqueued(asked.s3, t) /\ overflow' = Append(overflow, t)
      /\ overflow \in Seq(QueueRequests)
  BY DEF PushOverflow, QueueInv, Lanes
<1>5. UNCHANGED <<pins, draining, popped>>
  BY DEF PushOverflow
<1> HIDE DEF asked
<1>6. CountsLane(s3', overflow') /\ s3' \in Admissions
  BY <1>3, <1>4, EnqueuedCounts, EnqueuedFacts
<1>7. CountsLane(s3, overflow)' /\ Others'
  BY <1>5, <1>6 DEF QueueInv, Others
<1> QED
  BY <1>1, <1>2, <1>7 DEF QueueInv

LEMMA PushRefusedKeeps ==
  ASSUME QueueInv, NEW t \in QueueRequests, PushRefused(t)
  PROVE  QueueInv' /\ PinsHold
<1> DEFINE asked == Admission(ObserveSignal(s3, t), t)
<1>1. Retirement' /\ PinsHold
  BY StillKept DEF PushRefused, PinsHold
<1>2. asked.s3 \in Admissions /\ CountsLane(asked.s3, overflow)
  BY AskedFacts
<1>3. s3' = asked.s3 \/ s3' = OverflowRefused(asked.s3, t)
  BY DEF PushRefused
<1>4. UNCHANGED <<fast, overflow, pins, draining, popped>>
  BY DEF PushRefused
<1> HIDE DEF asked
<1>5. s3' \in Admissions /\ CountsLane(s3', overflow)
  BY <1>2, <1>3, RefusedFacts, KeptCounts
<1> QED
  BY <1>1, <1>4, <1>5 DEF QueueInv, Lanes, Others

LEMMA PopFrontKeeps ==
  ASSUME QueueInv, PopFront
  PROVE  QueueInv' /\ PinsHold
<1> DEFINE value == IF FromRing THEN Head(fast) ELSE Head(overflow)
<1>1. fast \in Seq(QueueRequests) /\ overflow \in Seq(QueueRequests)
  BY DEF QueueInv, Lanes
<1>2. ~FromRing => overflow # <<>>
  BY <1>1, ConcatEmptySeq DEF PopFront, FromRing
<1>3. value \in QueueRequests
  BY <1>1, <1>2, HeadTailProperties DEF FromRing
<1>4. Retirement' /\ PinsHold
  BY <1>3, PopRetires DEF PopFront, PinsHold
<1>5. UNCHANGED <<pins, draining>> /\ popped' \in Seq(QueueRequests)
  BY <1>3, AppendProperties DEF PopFront, QueueInv, Others
<1>6. CASE FromRing
  <2>1. fast' = Tail(fast) /\ UNCHANGED <<overflow, s3>> /\ fast # <<>>
    BY <1>6 DEF PopFront, FromRing
  <2>2. Lanes'
    BY <1>1, <2>1, HeadTailProperties, Bounds DEF QueueInv, Lanes
  <2> QED
    BY <1>4, <1>5, <2>1, <2>2 DEF QueueInv, Others
<1>7. CASE ~FromRing
  <2>1. /\ overflow' = Tail(overflow) /\ s3' = MainDequeued(s3, Head(overflow))
        /\ UNCHANGED fast
    BY <1>7 DEF PopFront
  <2>2. Lanes'
    BY <1>1, <1>2, <1>7, <2>1, HeadTailProperties, Bounds DEF QueueInv, Lanes
  <2>3. s3' \in Admissions
    BY <1>3, <1>7, <2>1, DequeuedFacts DEF QueueInv, Others
  <2>4. CountsLane(s3', overflow')
    BY <1>1, <1>2, <1>7, <2>1, DequeuedCounts DEF QueueInv, Others
  <2> QED
    BY <1>4, <1>5, <2>2, <2>3, <2>4 DEF QueueInv, Others
<1> QED
  BY <1>6, <1>7

LEMMA ClearQueueKeeps == QueueInv /\ ClearQueue => QueueInv' /\ PinsHold
<1> SUFFICES ASSUME QueueInv, ClearQueue PROVE QueueInv' /\ PinsHold
  OBVIOUS
<1>1. \A t \in Tenants : Cardinality(Places(<<>>, t)) = 0
  BY FS_EmptySet DEF Places
<1>2. CountsLane(s3, overflow)'
  BY <1>1 DEF CountsLane, ClearQueue, NewAdmission
<1>3. Lanes' /\ Retirement'
  BY Bounds DEF QueueInv, Lanes, Retirement, RetiredIsBounded, ClearQueue
<1>4. Others'
  BY NewAdmissionType DEF QueueInv, Others, ClearQueue
<1> QED
  BY <1>2, <1>3, <1>4 DEF QueueInv, PinsHold

LEMMA OtherStepsKeep ==
  ASSUME QueueInv,
         StartDrain \/ EndDrain \/ PinEpoch \/ UnpinEpoch \/ ForceReclaim \/ ForceSafeFallback
  PROVE  QueueInv' /\ PinsHold
<1>1. CASE StartDrain \/ EndDrain \/ PinEpoch \/ UnpinEpoch
  <2>1. Retirement' /\ PinsHold
    BY <1>1, StillKept DEF PinsHold, StartDrain, EndDrain, PinEpoch, UnpinEpoch
  <2>2. Lanes' /\ CountsLane(s3, overflow)'
    <3>1. UNCHANGED <<fast, overflow, s3>>
      BY <1>1 DEF StartDrain, EndDrain, PinEpoch, UnpinEpoch
    <3>2. Lanes'
      BY <3>1 DEF QueueInv, Lanes
    <3>3. CountsLane(s3', overflow')
      BY <3>1 DEF QueueInv
    <3> QED
      BY <3>2, <3>3
  <2>3. Others'
    <3>1. s3' \in Admissions /\ pins' \in Nat
      BY <1>1 DEF QueueInv, Others, StartDrain, EndDrain, PinEpoch, UnpinEpoch
    <3>2. popped' = popped \/ popped' = <<>>
      BY <1>1 DEF StartDrain, EndDrain, PinEpoch, UnpinEpoch
    <3>3. draining' \in BOOLEAN
      BY <1>1 DEF QueueInv, Others, StartDrain, EndDrain, PinEpoch, UnpinEpoch
    <3>4. popped \in Seq(QueueRequests) /\ <<>> \in Seq(QueueRequests)
      BY DEF QueueInv, Others
    <3>5. popped' \in Seq(QueueRequests)
      BY <3>2, <3>4
    <3> QED
      BY <3>1, <3>3, <3>5 DEF Others
  <2> QED
    BY <2>1, <2>2, <2>3 DEF QueueInv
<1>2. CASE ForceReclaim
  BY <1>2, PushRetires DEF QueueInv, Lanes, Others, PinsHold, ForceReclaim
<1>3. CASE ForceSafeFallback
  BY <1>3, Bounds
     DEF QueueInv, Lanes, Retirement, RetiredIsBounded, Others, PinsHold, ForceSafeFallback
<1> QED
  BY <1>1, <1>2, <1>3

LEMMA QueueInvInit == QueueInit => QueueInv
<1> SUFFICES ASSUME QueueInit PROVE QueueInv
  OBVIOUS
<1>1. \A t \in Tenants : Cardinality(Places(<<>>, t)) = 0
  BY FS_EmptySet DEF Places
<1>2. CountsLane(s3, overflow)
  BY <1>1 DEF CountsLane, QueueInit, NewAdmission
<1>3. Lanes /\ Retirement
  <2>1. <<>> \in Seq(QueueRequests) /\ <<>> \in Seq(RetiredNodes) /\ Len(<<>>) = 0
    OBVIOUS
  <2>2. Lanes
    BY <2>1, Bounds DEF Lanes, QueueInit
  <2>3. Retirement
    BY <2>1, Bounds DEF Retirement, RetiredIsBounded, QueueInit
  <2> QED
    BY <2>2, <2>3
<1>4. Others
  <2>1. s3 \in Admissions /\ pins \in Nat /\ draining \in BOOLEAN
    BY NewAdmissionType DEF QueueInit
  <2>2. popped \in Seq(QueueRequests)
    BY DEF QueueInit
  <2> QED
    BY <2>1, <2>2 DEF Others
<1> QED
  BY <1>2, <1>3, <1>4 DEF QueueInv

LEMMA QueueInvStep == QueueInv /\ [QueueNext]_queueVars => QueueInv' /\ [PinsHold]_queueVars
<1> SUFFICES ASSUME QueueInv, [QueueNext]_queueVars
             PROVE  QueueInv' /\ [PinsHold]_queueVars
  OBVIOUS
<1>1. CASE UNCHANGED queueVars
  BY <1>1 DEF QueueInv, Lanes, Retirement, RetiredIsBounded, Others, queueVars
<1>2. CASE QueueNext
  BY <1>2, PushFastKeeps, PushOverflowKeeps, PushRefusedKeeps, PopFrontKeeps, ClearQueueKeeps,
     OtherStepsKeep DEF QueueNext
<1> QED
  BY <1>1, <1>2

LEMMA QueueInvHolds == QueueSpec => []QueueInv
<1>1. QueueInv /\ [QueueNext]_queueVars => QueueInv'
  BY QueueInvStep
<1> QED
  BY QueueInvInit, <1>1, PTL DEF QueueSpec

-----------------------------------------------------------------------------
(* The ghosts                                                                *)

Inverse2(s) == \A t \in Tenants, g \in 1..MaxGhostGen : s.lookup[t] = g <=> s.order[g] = t
NoneFromLater(s) == \A g \in 1..MaxGhostGen : s.order[g] # NoTenant => g <= s.gen
GhostsWithin(s, limit) ==
    IsFiniteSet(GhostTenants(s)) /\ Cardinality(GhostTenants(s)) <= limit

GhostsAgree(s) == Inverse2(s) /\ NoneFromLater(s) /\ GhostsWithin(s, GhostCapacity)

SameGhosts(s, r) == r.order = s.order /\ r.lookup = s.lookup /\ r.gen = s.gen

LEMMA SameGhostsAgree ==
  ASSUME NEW s, NEW r, SameGhosts(s, r), GhostsAgree(s)
  PROVE  GhostsAgree(r)
BY DEF SameGhosts, GhostsAgree, Inverse2, NoneFromLater, GhostsWithin, GhostTenants

(* No ghosts at all.                                                         *)
LEMMA NoGhostsAgree ==
  ASSUME NEW s, s.order = NoGhosts.order, s.lookup = NoGhosts.lookup
  PROVE  GhostsAgree(s) /\ GhostTenants(s) = {}
<1>1. /\ \A g \in 1..MaxGhostGen : s.order[g] = NoTenant
      /\ \A t \in Tenants : s.lookup[t] = 0
  BY DEF NoGhosts
<1>2. GhostTenants(s) = {}
  BY <1>1 DEF GhostTenants
<1>3. Inverse2(s) /\ NoneFromLater(s)
  BY <1>1, HostcallQueueAssumption DEF Inverse2, NoneFromLater
<1>4. GhostsWithin(s, GhostCapacity)
  BY <1>2, FS_EmptySet, HostcallQueueAssumption DEF GhostsWithin
<1> QED
  BY <1>2, <1>3, <1>4 DEF GhostsAgree

LEMMA FallBackForgets ==
  ASSUME NEW s \in Admissions
  PROVE  GhostsAgree(FallBackToFifo(s))
<1>1. /\ FallBackToFifo(s).order = NoGhosts.order
      /\ FallBackToFifo(s).lookup = NoGhosts.lookup
  BY DEF FallBackToFifo, Admissions
<1> QED
  BY <1>1, NoGhostsAgree

(* One ghost goes, from both maps.                                           *)
LEMMA GhostRemoved ==
  ASSUME NEW s \in Admissions, NEW r \in Admissions, NEW u \in GhostTenants(s),
         NEW limit \in Nat,
         Inverse2(s), NoneFromLater(s), GhostsWithin(s, limit + 1),
         r.gen = s.gen,
         r.order = [s.order EXCEPT ![s.lookup[u]] = NoTenant],
         r.lookup = [s.lookup EXCEPT ![u] = 0]
  PROVE  Inverse2(r) /\ NoneFromLater(r) /\ GhostsWithin(r, limit)
<1>1. /\ u \in Tenants /\ s.lookup[u] \in 1..MaxGhostGen
      /\ s.order \in [1..MaxGhostGen -> QueueRequests] /\ s.lookup \in [Tenants -> 0..MaxGhostGen]
      /\ NoTenant \notin Tenants /\ MaxGhostGen \in Nat
  BY HostcallQueueAssumption DEF GhostTenants, Admissions
<1>2. \A g \in 1..MaxGhostGen :
        r.order[g] = IF g = s.lookup[u] THEN NoTenant ELSE s.order[g]
  BY <1>1
<1>3. \A t \in Tenants : r.lookup[t] = IF t = u THEN 0 ELSE s.lookup[t]
  BY <1>1
<1>4. Inverse2(r)
  <2> SUFFICES ASSUME NEW t \in Tenants, NEW g \in 1..MaxGhostGen
               PROVE  r.lookup[t] = g <=> r.order[g] = t
    BY DEF Inverse2
  <2>1. s.lookup[t] = g <=> s.order[g] = t
    BY DEF Inverse2
  <2>2. s.lookup[u] = g <=> s.order[g] = u
    BY <1>1 DEF Inverse2
  <2>3. r.order[g] = IF g = s.lookup[u] THEN NoTenant ELSE s.order[g]
    BY <1>2
  <2>4. r.lookup[t] = IF t = u THEN 0 ELSE s.lookup[t]
    BY <1>3
  <2>5. g # 0 /\ t # NoTenant
    BY <1>1
  <2>6. CASE g = s.lookup[u]
    BY <2>1, <2>2, <2>3, <2>4, <2>5, <2>6
  <2>7. CASE g # s.lookup[u]
    BY <2>1, <2>2, <2>3, <2>4, <2>5, <2>7
  <2> QED
    BY <2>6, <2>7
<1>5. NoneFromLater(r)
  BY <1>2 DEF NoneFromLater
<1>6. GhostTenants(r) = GhostTenants(s) \ {u}
  BY <1>1, <1>3 DEF GhostTenants
<1>7. GhostsWithin(r, limit)
  <2> DEFINE G == GhostTenants(s)
  <2>1. IsFiniteSet(G) /\ Cardinality(G) <= limit + 1 /\ u \in G
    BY DEF GhostsWithin
  <2> HIDE DEF G
  <2>2. Cardinality(G) \in Nat
    BY <2>1, FS_CardinalityType
  <2>3. IsFiniteSet(G \ {u}) /\ Cardinality(G \ {u}) = Cardinality(G) - 1
    BY <2>1, FS_RemoveElement
  <2>4. Cardinality(G \ {u}) <= limit
    BY <2>1, <2>2, <2>3
  <2> QED
    BY <1>6, <2>3, <2>4 DEF GhostsWithin, G
<1> QED
  BY <1>4, <1>5, <1>7

(* There is an oldest ghost if there is any.                                 *)
LEMMA OldestExists ==
  ASSUME NEW r \in Admissions, Inverse2(r), NEW u \in GhostTenants(r)
  PROVE  \E g \in 1..MaxGhostGen : /\ r.order[g] # NoTenant
                                   /\ \A h \in 1..(g - 1) : r.order[h] = NoTenant
<1> DEFINE T == {g \in 1..MaxGhostGen : r.order[g] # NoTenant}
           All == 1..MaxGhostGen
           Below == {1..g : g \in T}
<1>1. r.lookup[u] \in T
  BY HostcallQueueAssumption DEF GhostTenants, Inverse2, Admissions
<1>2. T \subseteq All /\ MaxGhostGen \in Nat
  BY HostcallQueueAssumption
<1> HIDE DEF T
<1>3. \A g \in T : 1..g \in FiniteSubsetsOf(All)
  BY <1>2, FS_Interval DEF FiniteSubsetsOf
<1>4. Below \subseteq FiniteSubsetsOf(All) /\ Below # {}
  BY <1>1, <1>3
<1>5. IsWellFoundedOn(StrictSubsetOrdering(All), FiniteSubsetsOf(All))
  BY FS_StrictSubsetOrderingWellFounded
<1>6. PICK b \in Below : \A c \in Below : ~(<<c, b>> \in StrictSubsetOrdering(All))
  BY <1>4, <1>5, WFMin
<1>7. PICK g \in T : b = 1..g
  BY <1>6
<1>8. \A h \in T : ~(h < g)
  <2> SUFFICES ASSUME NEW h \in T, h < g PROVE FALSE
    OBVIOUS
  <2>1. h \in 1..MaxGhostGen /\ g \in 1..MaxGhostGen
    BY <1>2
  <2>2. 1..h \subseteq 1..g /\ 1..h # 1..g /\ 1..g \subseteq All
    <3>1. g \in 1..g /\ g \notin 1..h
      BY <1>2, <2>1
    <3> QED
      BY <1>2, <2>1, <3>1
  <2>3. <<1..h, 1..g>> \in StrictSubsetOrdering(All)
    BY <2>2 DEF StrictSubsetOrdering
  <2> QED
    BY <1>6, <1>7, <2>3
<1>9. \A h \in 1..(g - 1) : h \in 1..MaxGhostGen /\ h < g
  BY <1>2
<1>10. g \in 1..MaxGhostGen /\ r.order[g] # NoTenant
  BY <1>2 DEF T
<1>11. \A h \in 1..(g - 1) : r.order[h] = NoTenant
  BY <1>8, <1>9 DEF T
<1> QED
  BY <1>10, <1>11

LEMMA EvictionAgrees ==
  ASSUME NEW r \in Admissions, EvictOldest(r) \in Admissions,
         Inverse2(r), NoneFromLater(r), GhostsWithin(r, GhostCapacity + 1),
         Cardinality(GhostTenants(r)) > GhostCapacity
  PROVE  GhostsAgree(EvictOldest(r))
<1>0. GhostCapacity \in Nat
  BY HostcallQueueAssumption
<1>1. PICK u : u \in GhostTenants(r)
  BY <1>0, FS_EmptySet
<1> DEFINE oldest == CHOOSE g \in 1..MaxGhostGen :
                       /\ r.order[g] # NoTenant
                       /\ \A h \in 1..(g - 1) : r.order[h] = NoTenant
           gone == r.order[oldest]
<1>2. oldest \in 1..MaxGhostGen /\ gone # NoTenant
  BY <1>1, OldestExists
<1>3. EvictOldest(r) = [r EXCEPT !.order = [r.order EXCEPT ![oldest] = NoTenant],
                                 !.lookup = [r.lookup EXCEPT ![gone] = 0]]
  BY DEF EvictOldest, Admissions
<1> HIDE DEF oldest
<1>4. gone \in Tenants
  BY <1>2 DEF Admissions, QueueRequests
<1>5. r.lookup[gone] = oldest /\ gone \in GhostTenants(r)
  BY <1>2, <1>4 DEF Inverse2, GhostTenants
<1> HIDE DEF gone
<1> DEFINE e == [r EXCEPT !.order = [r.order EXCEPT ![oldest] = NoTenant],
                          !.lookup = [r.lookup EXCEPT ![gone] = 0]]
<1>6. /\ e.gen = r.gen
      /\ e.order = [r.order EXCEPT ![r.lookup[gone]] = NoTenant]
      /\ e.lookup = [r.lookup EXCEPT ![gone] = 0]
  BY <1>5 DEF Admissions
<1>7. e \in Admissions
  BY <1>3
<1> HIDE DEF e
<1>8. Inverse2(e) /\ NoneFromLater(e) /\ GhostsWithin(e, GhostCapacity)
  BY <1>0, <1>5, <1>6, <1>7, GhostRemoved
<1> QED
  BY <1>3, <1>8 DEF GhostsAgree, e

(* A tenant becomes the newest ghost.                                        *)
LEMMA RememberAgrees ==
  ASSUME NEW r \in Admissions, GhostsAgree(r), NEW t \in Tenants, r.gen < MaxGhostGen
  PROVE  LET n == Remember(r, t) IN
         Inverse2(n) /\ NoneFromLater(n) /\ GhostsWithin(n, GhostCapacity + 1)
<1> DEFINE g == r.gen + 1
           order == [h \in 1..MaxGhostGen |->
                       IF h = g THEN t ELSE IF h = r.lookup[t] THEN NoTenant ELSE r.order[h]]
           lookup == [r.lookup EXCEPT ![t] = g]
           n == Remember(r, t)
<1>1. /\ r.order \in [1..MaxGhostGen -> QueueRequests] /\ r.lookup \in [Tenants -> 0..MaxGhostGen]
      /\ NoTenant \notin Tenants /\ MaxGhostGen \in Nat /\ g \in 1..MaxGhostGen
  BY HostcallQueueAssumption DEF Admissions
<1>2. n = [r EXCEPT !.gen = g, !.lookup = lookup, !.order = order]
  BY DEF Remember, Admissions
<1>3. n.gen = g /\ n.lookup = lookup /\ n.order = order
  BY <1>2 DEF Admissions
<1> HIDE DEF n
<1>4. r.order[g] = NoTenant
  BY <1>1 DEF GhostsAgree, NoneFromLater, Admissions
<1>5. Inverse2(n)
  <2> SUFFICES ASSUME NEW u \in Tenants, NEW h \in 1..MaxGhostGen
               PROVE  lookup[u] = h <=> order[h] = u
    BY <1>3 DEF Inverse2
  <2>1. /\ r.lookup[u] = h <=> r.order[h] = u
        /\ r.lookup[t] = h <=> r.order[h] = t
        /\ r.lookup[u] = g <=> r.order[g] = u
    BY <1>1 DEF GhostsAgree, Inverse2
  <2>2. lookup[u] = IF u = t THEN g ELSE r.lookup[u]
    BY <1>1
  <2> QED
    BY <1>1, <1>4, <2>1, <2>2
<1>6. NoneFromLater(n)
  <2> SUFFICES ASSUME NEW h \in 1..MaxGhostGen, order[h] # NoTenant PROVE h <= g
    BY <1>3 DEF NoneFromLater
  <2>1. h = g \/ r.order[h] # NoTenant
    OBVIOUS
  <2>2. r.gen \in Nat
    BY DEF Admissions
  <2> QED
    BY <1>1, <2>1, <2>2 DEF GhostsAgree, NoneFromLater
<1>7. GhostTenants(n) = GhostTenants(r) \cup {t}
  <2>1. \A u \in Tenants : lookup[u] = IF u = t THEN g ELSE r.lookup[u]
    BY <1>1
  <2> QED
    BY <1>1, <1>3, <2>1 DEF GhostTenants
<1>8. GhostsWithin(n, GhostCapacity + 1)
  <2> DEFINE G == GhostTenants(r)
  <2>1. IsFiniteSet(G) /\ Cardinality(G) <= GhostCapacity /\ GhostCapacity \in Nat
    BY HostcallQueueAssumption DEF GhostsAgree, GhostsWithin
  <2> HIDE DEF G
  <2>2. Cardinality(G) \in Nat
    BY <2>1, FS_CardinalityType
  <2>3. /\ IsFiniteSet(G \cup {t})
        /\ Cardinality(G \cup {t}) = IF t \in G THEN Cardinality(G) ELSE Cardinality(G) + 1
    BY <2>1, FS_AddElement
  <2>4. Cardinality(G \cup {t}) <= GhostCapacity + 1
    BY <2>1, <2>2, <2>3
  <2> QED
    BY <1>7, <2>3, <2>4 DEF GhostsWithin, G
<1> QED
  BY <1>5, <1>6, <1>8 DEF n

LEMMA RecordGhostAgrees ==
  ASSUME NEW s \in Admissions, NEW t \in Tenants, GhostsAgree(s)
  PROVE  GhostsAgree(RecordGhost(s, t))
<1> DEFINE room == GhostRoom(s)
           new  == Remember(room, t)
<1>1. room \in Admissions /\ room.gen < MaxGhostGen
  <2>1. room \in Admissions /\ room.gen + 1 \in 1..MaxGhostGen
    BY GhostRoomFacts
  <2> HIDE DEF room
  <2>2. room.gen \in Nat /\ MaxGhostGen \in Nat
    BY <2>1, Bounds DEF Admissions
  <2> QED
    BY <2>1, <2>2
<1>2. GhostsAgree(room)
  <2>1. CASE s.gen = MaxGhostGen
    <3>1. room.order = NoGhosts.order /\ room.lookup = NoGhosts.lookup
      BY <2>1 DEF GhostRoom, Admissions
    <3> QED
      BY <3>1, NoGhostsAgree
  <2>2. CASE s.gen # MaxGhostGen
    BY <2>2 DEF GhostRoom
  <2> QED
    BY <2>1, <2>2
<1>3. new \in Admissions /\ EvictOldest(new) \in Admissions
  BY <1>1, GhostRoomFacts, RememberFacts, EvictionFacts
<1> HIDE DEF room
<1>4. Inverse2(new) /\ NoneFromLater(new) /\ GhostsWithin(new, GhostCapacity + 1)
  BY <1>1, <1>2, RememberAgrees
<1>5. RecordGhost(s, t) = IF Cardinality(GhostTenants(new)) > GhostCapacity
                          THEN EvictOldest(new) ELSE new
  BY DEF RecordGhost, GhostRoom, room
<1> HIDE DEF new
<1>6. CASE Cardinality(GhostTenants(new)) > GhostCapacity
  BY <1>3, <1>4, <1>5, <1>6, EvictionAgrees
<1>7. CASE ~(Cardinality(GhostTenants(new)) > GhostCapacity)
  <2>1. Cardinality(GhostTenants(new)) \in Nat /\ GhostCapacity \in Nat
    BY <1>4, FS_CardinalityType, HostcallQueueAssumption DEF GhostsWithin
  <2>2. GhostsWithin(new, GhostCapacity)
    BY <1>4, <1>7, <2>1 DEF GhostsWithin
  <2> QED
    BY <1>4, <1>5, <1>7, <2>2 DEF GhostsAgree
<1> QED
  BY <1>6, <1>7

LEMMA ObserveSignalAgrees ==
  ASSUME NEW s \in Admissions, NEW t \in QueueRequests, GhostsAgree(s)
  PROVE  GhostsAgree(ObserveSignal(s, t))
<1> DEFINE quiet == [s EXCEPT !.signalless = AtMost(@ + 1, MaxSignallessStreak)]
           loud  == [s EXCEPT !.samples = AtMost(@ + 1, MinSignalSamples), !.signalless = 0]
<1>1. quiet \in Admissions
  <2>1. AtMost(s.signalless + 1, MaxSignallessStreak) \in Nat
    BY Bounds DEF Admissions, AtMost
  <2> QED
    BY <2>1 DEF Admissions
<1>2. SameGhosts(s, quiet) /\ SameGhosts(s, loud)
  BY DEF SameGhosts, Admissions
<1>3. ObserveSignal(s, t) \in {s, loud, FallBackToFifo(quiet), quiet}
  BY DEF ObserveSignal
<1> HIDE DEF quiet, loud
<1> QED
  BY <1>1, <1>2, <1>3, SameGhostsAgree, FallBackForgets

LEMMA RejectedAgrees ==
  ASSUME NEW s \in Admissions, GhostsAgree(s)
  PROVE  GhostsAgree(Rejected(s))
<1> DEFINE more == [s EXCEPT !.unstable = AtMost(@ + 1, UnstableRejectionStreak)]
<1>1. AtMost(s.unstable + 1, UnstableRejectionStreak) \in Nat
  BY Bounds DEF Admissions, AtMost
<1>2. more \in Admissions /\ SameGhosts(s, more)
  BY <1>1 DEF Admissions, SameGhosts
<1>3. Rejected(s) \in {more, FallBackToFifo(more)}
  BY DEF Rejected
<1> HIDE DEF more
<1> QED
  BY <1>2, <1>3, SameGhostsAgree, FallBackForgets

(* A ghost's one admission takes it out of both maps.                        *)
LEMMA AdmissionAgrees ==
  ASSUME NEW s \in Admissions, NEW t \in QueueRequests, GhostsAgree(s)
  PROVE  GhostsAgree(Admission(s, t).s3)
<1>1. CASE s.mode # "active" \/ t = NoTenant \/ s.backlog[t] < TenantBudget
  BY <1>1 DEF Admission
<1>2. CASE ~(s.mode # "active" \/ t = NoTenant \/ s.backlog[t] < TenantBudget)
  <2>1. t \in Tenants
    BY <1>2 DEF QueueRequests
  <2> DEFINE hit == [s EXCEPT !.order[s.lookup[t]] = NoTenant, !.lookup[t] = 0, !.unstable = 0]
  <2>2. CASE t \in GhostTenants(s)
    <3>1. Admission(s, t).s3 = hit
      BY <1>2, <2>2 DEF Admission
    <3>2. hit.gen = s.gen /\ hit.order = [s.order EXCEPT ![s.lookup[t]] = NoTenant]
                         /\ hit.lookup = [s.lookup EXCEPT ![t] = 0]
      BY DEF Admissions
    <3>3. hit \in Admissions
      BY <3>1, AdmissionFacts
    <3> HIDE DEF hit
    <3>4. GhostsWithin(s, GhostCapacity + 1) /\ GhostCapacity \in Nat
      <4>1. Cardinality(GhostTenants(s)) \in Nat /\ GhostCapacity \in Nat
        BY FS_CardinalityType, HostcallQueueAssumption DEF GhostsAgree, GhostsWithin
      <4> QED
        BY <4>1 DEF GhostsAgree, GhostsWithin
    <3> QED
      BY <2>2, <3>1, <3>2, <3>3, <3>4, GhostRemoved DEF GhostsAgree
  <2>3. CASE t \notin GhostTenants(s)
    <3>1. Admission(s, t).s3 = Rejected(RecordGhost(s, t))
      BY <1>2, <2>3 DEF Admission
    <3> QED
      BY <2>1, <3>1, RecordGhostFacts, RecordGhostAgrees, RejectedAgrees
  <2> QED
    BY <2>2, <2>3
<1> QED
  BY <1>1, <1>2

LEMMA EnqueuedAgrees ==
  ASSUME NEW s \in Admissions, NEW t \in QueueRequests, GhostsAgree(s)
  PROVE  GhostsAgree(MainEnqueued(s, t))
<1>1. SameGhosts(s, MainEnqueued(s, t))
  BY DEF SameGhosts, MainEnqueued, Admissions
<1> QED
  BY <1>1, SameGhostsAgree

LEMMA DequeuedAgrees ==
  ASSUME NEW s \in Admissions, NEW t \in QueueRequests, GhostsAgree(s)
  PROVE  GhostsAgree(MainDequeued(s, t))
<1>1. CASE s.mode # "active" \/ t = NoTenant
  BY <1>1 DEF MainDequeued
<1>2. CASE s.mode = "active" /\ t # NoTenant
  <2> DEFINE backlog == [u \in Tenants |-> IF u = t /\ s.backlog[u] # 0
                                           THEN s.backlog[u] - 1 ELSE s.backlog[u]]
             less == [s EXCEPT !.backlog = backlog]
  <2>1. /\ backlog \in [Tenants -> Nat]
        /\ [s.backlog EXCEPT ![t] = IF @ = 0 THEN 0 ELSE @ - 1] = backlog
    BY SMTT(30) DEF Admissions
  <2>2. MainDequeued(s, t) = RecordGhost(less, t)
    BY <1>2, <2>1 DEF MainDequeued, Admissions
  <2> HIDE DEF backlog
  <2>3. less \in Admissions /\ SameGhosts(s, less)
    BY <2>1 DEF Admissions, SameGhosts
  <2>4. t \in Tenants
    BY <1>2 DEF QueueRequests
  <2> HIDE DEF less
  <2> QED
    BY <2>2, <2>3, <2>4, SameGhostsAgree, RecordGhostAgrees
<1> QED
  BY <1>1, <1>2

LEMMA OverflowRefusedAgrees ==
  ASSUME NEW s \in Admissions, NEW t \in QueueRequests, GhostsAgree(s)
  PROVE  GhostsAgree(OverflowRefused(s, t))
<1>1. CASE s.mode # "active"
  BY <1>1 DEF OverflowRefused
<1>2. CASE s.mode = "active" /\ t = NoTenant
  BY <1>2, RejectedAgrees DEF OverflowRefused
<1>3. CASE s.mode = "active" /\ t # NoTenant
  <2>1. t \in Tenants
    BY <1>3 DEF QueueRequests
  <2> QED
    BY <1>3, <2>1, RecordGhostFacts, RecordGhostAgrees, RejectedAgrees DEF OverflowRefused
<1> QED
  BY <1>1, <1>2, <1>3

LEMMA NewAdmissionAgrees == GhostsAgree(NewAdmission)
BY NoGhostsAgree DEF NewAdmission

(* Each step leaves the ghosts alone or goes through the operations above.     *)
LEMMA GhostsStep ==
  ASSUME QueueInv, GhostsAgree(s3), [QueueNext]_queueVars
  PROVE  GhostsAgree(s3')
<1>0. s3 \in Admissions /\ overflow \in Seq(QueueRequests)
  BY DEF QueueInv, Others, Lanes
<1>1. ASSUME NEW t \in QueueRequests
      PROVE  /\ ObserveSignal(s3, t) \in Admissions
             /\ GhostsAgree(ObserveSignal(s3, t))
             /\ Admission(ObserveSignal(s3, t), t).s3 \in Admissions
             /\ GhostsAgree(Admission(ObserveSignal(s3, t), t).s3)
  BY <1>0, ObserveSignalFacts, ObserveSignalAgrees, AdmissionFacts, AdmissionAgrees
<1>2. ASSUME NEW t \in QueueRequests, PushFast(t) PROVE GhostsAgree(s3')
  BY <1>1, <1>2 DEF PushFast
<1>3. ASSUME NEW t \in QueueRequests, PushOverflow(t) PROVE GhostsAgree(s3')
  BY <1>1, <1>3, EnqueuedAgrees DEF PushOverflow
<1>4. ASSUME NEW t \in QueueRequests, PushRefused(t) PROVE GhostsAgree(s3')
  BY <1>1, <1>4, OverflowRefusedAgrees DEF PushRefused
<1>5. CASE PopFront
  <2>1. CASE FromRing
    BY <1>5, <2>1 DEF PopFront
  <2>2. CASE ~FromRing
    <3>1. overflow # <<>> /\ s3' = MainDequeued(s3, Head(overflow))
      <4>1. fast = <<>>
        BY <2>2 DEF FromRing
      <4>2. fast \o overflow = overflow
        BY <1>0, <4>1, ConcatEmptySeq
      <4> QED
        BY <1>5, <2>2, <4>2 DEF PopFront
    <3>2. Head(overflow) \in QueueRequests
      BY <1>0, <3>1, HeadTailProperties
    <3> QED
      BY <1>0, <3>1, <3>2, DequeuedAgrees
  <2> QED
    BY <2>1, <2>2
<1>6. CASE ClearQueue
  BY <1>6, NewAdmissionAgrees DEF ClearQueue
<1>7. CASE \/ StartDrain \/ EndDrain \/ PinEpoch \/ UnpinEpoch \/ ForceReclaim
           \/ ForceSafeFallback \/ UNCHANGED queueVars
  BY <1>7 DEF StartDrain, EndDrain, PinEpoch, UnpinEpoch, ForceReclaim, ForceSafeFallback,
              queueVars
<1> QED
  BY <1>2, <1>3, <1>4, <1>5, <1>6, <1>7 DEF QueueNext

LEMMA GhostsHold == QueueSpec => []GhostTablesAgree
<1>1. QueueInit => GhostsAgree(s3)
  BY NewAdmissionAgrees DEF QueueInit
<1>2. QueueInv /\ GhostsAgree(s3) /\ [QueueNext]_queueVars => GhostsAgree(s3)'
  BY GhostsStep
<1>3. GhostsAgree(s3) => GhostTablesAgree
  BY DEF GhostsAgree, Inverse2, NoneFromLater, GhostsWithin, GhostTablesAgree
<1> QED
  BY <1>1, <1>2, <1>3, QueueInvHolds, PTL DEF QueueSpec

-----------------------------------------------------------------------------
(* The theorems                                                              *)

(* The variables keep their types, and the lanes their capacities, whatever    *)
(* is pushed, refused, drained, cleared and pinned.                          *)
THEOREM QueueTypeCorrect == QueueSpec => []QueueTypeOK
BY QueueInvHolds, QueueInvTypes, PTL

(* While the budget is in force, the backlog of each tenant is the number of   *)
(* its requests in the overflow lane (on_main_enqueued, on_main_dequeued).    *)
THEOREM BacklogExact == QueueSpec => []BacklogIsExact
BY QueueInvHolds, QueueInvTypes, PTL

(* No reader can hold more than the threshold of retired requests: the queue   *)
(* gives up reclamation by epochs first (try_reclaim).                        *)
THEOREM RetiredBounded == QueueSpec => []RetiredIsBounded
BY QueueInvHolds, QueueInvTypes, PTL

(* Under a pin the retired requests stay, unless the queue is cleared or gives  *)
(* up reclamation by epochs (try_reclaim, pin_epoch).                         *)
THEOREM PinsProtect == QueueSpec => PinnedNodesStay
<1>1. QueueInv /\ [QueueNext]_queueVars
        => [pins > 0 => Kept \/ reclamation' = "fallback" \/ ClearQueue]_queueVars
  BY QueueInvStep DEF PinsHold
<1> QED
  BY QueueInvHolds, <1>1, PTL DEF QueueSpec, PinnedNodesStay

(* What admission and reclamation count is exact and bounded, and what a reader *)
(* pins stays: all that a run checks of the queue besides its order.          *)
THEOREM QueueSound == QueueSpec => QueueIsSound
BY QueueTypeCorrect, BacklogExact, GhostsHold, RetiredBounded, PinsProtect, PTL
   DEF QueueIsSound

-----------------------------------------------------------------------------
(* The two lanes are one bounded queue.                                      *)

Held == fast \o overflow

LEMMA HeadOfLanes ==
  ASSUME NEW f \in Seq(QueueRequests), NEW o \in Seq(QueueRequests), f # <<>>
  PROVE  f \o o # <<>> /\ Head(f \o o) = Head(f) /\ Tail(f \o o) = Tail(f) \o o
<1>1. /\ Len(f) \in Nat \ {0} /\ Len(o) \in Nat /\ Tail(f) \in Seq(QueueRequests)
      /\ Len(Tail(f)) = Len(f) - 1 /\ Head(f) = f[1]
      /\ \A i \in 1..(Len(f) - 1) : Tail(f)[i] = f[i + 1]
  BY HeadTailProperties
<1>2. /\ f \o o \in Seq(QueueRequests) /\ Len(f \o o) = Len(f) + Len(o)
      /\ \A i \in 1..(Len(f) + Len(o)) :
           (f \o o)[i] = IF i <= Len(f) THEN f[i] ELSE o[i - Len(f)]
  BY ConcatProperties
<1>3. f \o o # <<>>
  BY <1>1, <1>2, EmptySeq
<1>4. /\ Head(f \o o) = (f \o o)[1] /\ Tail(f \o o) \in Seq(QueueRequests)
      /\ Len(Tail(f \o o)) = Len(f) + Len(o) - 1
      /\ \A i \in 1..(Len(f) + Len(o) - 1) : Tail(f \o o)[i] = (f \o o)[i + 1]
  BY <1>2, <1>3, HeadTailProperties
<1>5. /\ Tail(f) \o o \in Seq(QueueRequests) /\ Len(Tail(f) \o o) = Len(f) + Len(o) - 1
      /\ \A i \in 1..(Len(f) - 1 + Len(o)) :
           (Tail(f) \o o)[i] = IF i <= Len(f) - 1 THEN Tail(f)[i] ELSE o[i - (Len(f) - 1)]
  BY <1>1, ConcatProperties
<1> DEFINE whole == Tail(f \o o)
           parts == Tail(f) \o o
<1>6. \A i \in 1..Len(whole) : whole[i] = parts[i]
  <2> SUFFICES ASSUME NEW i \in 1..(Len(f) + Len(o) - 1) PROVE whole[i] = parts[i]
    BY <1>4
  <2>1. whole[i] = IF i + 1 <= Len(f) THEN f[i + 1] ELSE o[i + 1 - Len(f)]
    BY <1>1, <1>2, <1>4
  <2>2. parts[i] = IF i <= Len(f) - 1 THEN f[i + 1] ELSE o[i - (Len(f) - 1)]
    BY <1>1, <1>5
  <2> QED
    BY <1>1, <2>1, <2>2
<1>7. whole = parts
  <2> HIDE DEF whole, parts
  <2>1. whole \in Seq(QueueRequests) /\ parts \in Seq(QueueRequests) /\ Len(whole) = Len(parts)
    BY <1>4, <1>5 DEF whole, parts
  <2> QED
    BY <1>6, <2>1, SeqEqual
<1> QED
  BY <1>1, <1>2, <1>3, <1>4, <1>7

(* The abstract queue's room is the two lanes' room.                          *)
LEMMA RoomFor ==
  ASSUME QueueInv, Len(fast) < FastCapacity \/ Len(overflow) < OverflowCapacity
  PROVE  Len(Held) < FastCapacity + OverflowCapacity
BY Bounds, ConcatProperties DEF QueueInv, Lanes, Held

LEMMA PushIsPut ==
  ASSUME QueueInv, NEW t \in QueueRequests, PushFast(t) \/ PushOverflow(t)
  PROVE  Fifo!Put(t)
<1>1. fast \in Seq(QueueRequests) /\ overflow \in Seq(QueueRequests)
  BY DEF QueueInv, Lanes
<1>2. Len(Held) < FastCapacity + OverflowCapacity /\ UNCHANGED popped
  BY RoomFor DEF PushFast, PushOverflow, FastOpen
<1>3. Held' = Append(Held, t)
  <2>1. CASE PushFast(t)
    <3>1. fast' = Append(fast, t) /\ overflow = <<>> /\ overflow' = <<>>
      BY <2>1 DEF PushFast, FastOpen
    <3>2. Append(fast, t) \in Seq(QueueRequests)
      BY <1>1, AppendProperties
    <3> QED
      BY <1>1, <3>1, <3>2, ConcatEmptySeq DEF Held
  <2>2. CASE PushOverflow(t)
    <3>1. fast' = fast /\ overflow' = Append(overflow, t)
      BY <2>2 DEF PushOverflow
    <3>2. <<t>> \in Seq(QueueRequests) /\ fast \o overflow \in Seq(QueueRequests)
      BY <1>1, ConcatProperties
    <3>3. Append(overflow, t) = overflow \o <<t>> /\ Append(Held, t) = Held \o <<t>>
      BY <1>1, <3>2, AppendIsConcat DEF Held
    <3> QED
      BY <1>1, <3>1, <3>2, <3>3, ConcatAssociative DEF Held
  <2> QED
    BY <2>1, <2>2
<1> QED
  BY <1>2, <1>3 DEF Fifo!Put, Held

LEMMA PopIsTake == QueueInv /\ PopFront => Fifo!Take
<1> SUFFICES ASSUME QueueInv, PopFront PROVE Fifo!Take
  OBVIOUS
<1>1. fast \in Seq(QueueRequests) /\ overflow \in Seq(QueueRequests) /\ Held # <<>>
  BY DEF QueueInv, Lanes, PopFront, Held
<1>2. CASE FromRing
  <2>1. /\ fast # <<>> /\ fast' = Tail(fast) /\ overflow' = overflow
        /\ popped' = Append(popped, Head(fast))
    BY <1>2 DEF PopFront, FromRing
  <2> QED
    BY <1>1, <2>1, HeadOfLanes DEF Fifo!Take, Held
<1>3. CASE ~FromRing
  <2>1. /\ fast = <<>> /\ fast' = <<>> /\ overflow' = Tail(overflow)
        /\ popped' = Append(popped, Head(overflow))
    BY <1>3 DEF PopFront, FromRing
  <2>2. Held = overflow /\ overflow # <<>>
    BY <1>1, <2>1, ConcatEmptySeq DEF Held
  <2>3. Tail(overflow) \in Seq(QueueRequests)
    BY <1>1, <2>2, HeadTailProperties
  <2>4. Held' = Tail(Held)
    BY <2>1, <2>2, <2>3, ConcatEmptySeq DEF Held
  <2> QED
    BY <1>1, <2>1, <2>2, <2>4 DEF Fifo!Take, Held
<1> QED
  BY <1>2, <1>3

LEMMA ClearIsDiscard == ClearQueue => Fifo!Discard
<1> SUFFICES ASSUME ClearQueue PROVE Fifo!Discard
  OBVIOUS
<1>1. (fast \o overflow)' = <<>> \o <<>> /\ popped' = popped
  BY DEF ClearQueue
<1>2. <<>> \o <<>> = <<>>
  BY EmptySeq, ConcatEmptySeq
<1> QED
  BY <1>1, <1>2 DEF Fifo!Discard

LEMMA QueueStepIsFifoStep ==
  QueueInv /\ [QueueNext]_queueVars => [Fifo!Next]_(Fifo!fifoVars)
<1> SUFFICES ASSUME QueueInv, [QueueNext]_queueVars
             PROVE  Fifo!Next \/ UNCHANGED Fifo!fifoVars
  OBVIOUS
<1>1. ASSUME NEW t \in QueueRequests, PushFast(t) \/ PushOverflow(t)
      PROVE  Fifo!Next
  BY <1>1, PushIsPut DEF Fifo!Next
<1>2. CASE PopFront
  BY <1>2, PopIsTake DEF Fifo!Next
<1>3. CASE ClearQueue
  BY <1>3, ClearIsDiscard DEF Fifo!Next
<1>4. CASE StartDrain
  BY <1>4 DEF StartDrain, Fifo!Next, Fifo!StartDrain
<1>5. CASE \/ \E t \in QueueRequests : PushRefused(t)
           \/ EndDrain \/ PinEpoch \/ UnpinEpoch \/ ForceReclaim \/ ForceSafeFallback
           \/ UNCHANGED queueVars
  <2>1. UNCHANGED <<fast, overflow, popped>>
    BY <1>5 DEF PushRefused, EndDrain, PinEpoch, UnpinEpoch, ForceReclaim, ForceSafeFallback,
                queueVars
  <2> QED
    BY <2>1 DEF Fifo!fifoVars
<1> QED
  BY <1>1, <1>2, <1>3, <1>4, <1>5 DEF QueueNext

(* The queue implements the bounded queue it is meant to be: whatever lane a   *)
(* request takes, it comes out once and in the order of admission            *)
(* (push_back, drain_all, clear).                                            *)
THEOREM QueueImplementsFifo == QueueSpec => AdmittedInOrder
<1>1. QueueInit => Fifo!Init
  <2>1. <<>> \o <<>> = <<>>
    BY EmptySeq, ConcatEmptySeq
  <2> QED
    BY <2>1 DEF QueueInit, Fifo!Init
<1> QED
  BY <1>1, QueueInvHolds, QueueStepIsFifoStep, PTL DEF QueueSpec, AdmittedInOrder, Fifo!Spec

-----------------------------------------------------------------------------
(* Contention policy                                                         *)

Signatures == {"insufficient", "starvation", "readDominant", "mixed", "writeDominant"}

\* The counters of the code are tied to the windows that really passed: a bias
\* counts the windows it has lasted and the one to come, a recovery the calm
\* windows it still asks for.
BiasIsCounted ==
  bias = "read" => biasRun = biased + 1 /\ biasRun <= AtLeastOne(MaxBiasWindows)
RecoveryIsCounted ==
  bias = "recovery" => recovery + calm = AtLeastOne(RecoveryWindows)

ContentionInv ==
  ContentionTypeOK /\ BiasIsCounted /\ RecoveryIsCounted /\ ReadBiasIsBounded

LEMMA Limits ==
  /\ AtLeastOne(MaxBiasWindows) \in Nat \ {0}
  /\ AtLeastOne(RecoveryWindows) \in Nat \ {0}
  /\ AtLeastOne(RecoveryWindows) >= RecoveryWindows
  /\ RecoveryWindows \in Nat
BY ContentionConstants DEF AtLeastOne

LEMMA ClassifyType == ASSUME NEW sample PROVE Classify(sample) \in Signatures
BY DEF Classify, Signatures

\* What a window does, by its signature.
Observe(signature) ==
  /\ decided' \in [signature : {signature}, rollback : BOOLEAN]
  /\ \/ ObserveBalanced(signature)
     \/ ObserveReadBiased(signature)
     \/ ObserveRecovery(signature)
  /\ biased' = IF bias = "read" THEN biased + 1 ELSE 0
  /\ calm' = IF bias # "recovery" \/ signature = "starvation" THEN 0 ELSE calm + 1

LEMMA ObserveKeepsInv ==
  ASSUME ContentionInv, NEW signature \in Signatures, Observe(signature)
  PROVE  ContentionInv'
<1>1. decided' \in [signature : Signatures, rollback : BOOLEAN]
  BY DEF Observe, Signatures
<1>2. biased' \in Nat /\ calm' \in Nat
  BY DEF Observe, ContentionInv, ContentionTypeOK
<1>3. CASE ObserveBalanced(signature)
  <2>1. /\ bias = "balanced" /\ biased' = 0 /\ calm' = 0 /\ recovery = 0
    BY <1>3 DEF Observe, ObserveBalanced, ContentionInv, ContentionTypeOK
  <2>2. \/ bias' = "recovery" /\ recovery' = AtLeastOne(RecoveryWindows) /\ biasRun' = 0
        \/ bias' = "read" /\ biasRun' = 1 /\ recovery' = recovery
        \/ bias' = "balanced" /\ biasRun' = 0 /\ recovery' = recovery
    BY <1>3, <2>1 DEF ObserveBalanced, StartRecovery
  <2> QED
    BY <1>1, <1>2, <2>1, <2>2, Limits
    DEF ContentionInv, ContentionTypeOK, Signatures, BiasIsCounted, RecoveryIsCounted,
        ReadBiasIsBounded
<1>4. CASE ObserveReadBiased(signature)
  <2>1. /\ bias = "read" /\ biased' = biased + 1 /\ calm' = 0 /\ recovery = 0
        /\ biasRun = biased + 1 /\ biasRun <= AtLeastOne(MaxBiasWindows)
        /\ biasRun \in Nat /\ biased \in Nat
    BY <1>4 DEF Observe, ObserveReadBiased, ContentionInv, ContentionTypeOK, BiasIsCounted
  <2>2. \/ bias' = "recovery" /\ recovery' = AtLeastOne(RecoveryWindows) /\ biasRun' = 0
        \/ bias' = "balanced" /\ biasRun' = 0 /\ recovery' = recovery
        \/ /\ bias' = "read" /\ biasRun' = biasRun + 1 /\ recovery' = recovery
           /\ ~(biasRun + 1 >= AtLeastOne(MaxBiasWindows))
    BY <1>4, <2>1 DEF ObserveReadBiased, StartRecovery
  <2> QED
    BY <1>1, <1>2, <2>1, <2>2, Limits
    DEF ContentionInv, ContentionTypeOK, Signatures, BiasIsCounted, RecoveryIsCounted,
        ReadBiasIsBounded
<1>5. CASE ObserveRecovery(signature)
  <2>1. /\ bias = "recovery" /\ biased' = 0 /\ biasRun' = 0
        /\ recovery \in Nat \ {0} /\ recovery <= AtLeastOne(RecoveryWindows)
        /\ calm \in Nat /\ recovery + calm = AtLeastOne(RecoveryWindows)
    BY <1>5, Limits
    DEF Observe, ObserveRecovery, ContentionInv, ContentionTypeOK, RecoveryIsCounted
  <2>2. \/ recovery' = AtLeastOne(RecoveryWindows) /\ calm' = 0
        \/ recovery' = recovery - 1 /\ calm' = calm + 1
    BY <1>5, <2>1 DEF Observe, ObserveRecovery
  <2>3. bias' = IF recovery' = 0 THEN "balanced" ELSE "recovery"
    BY <1>5, <2>1 DEF ObserveRecovery
  <2> QED
    BY <1>1, <1>2, <2>1, <2>2, <2>3, Limits
    DEF ContentionInv, ContentionTypeOK, Signatures, BiasIsCounted, RecoveryIsCounted,
        ReadBiasIsBounded
<1> QED
  BY <1>3, <1>4, <1>5 DEF Observe

LEMMA ContentionInvHolds == ContentionSpec => []ContentionInv
<1>1. ContentionInit => ContentionInv
  BY Limits DEF ContentionInit, ContentionInv, ContentionTypeOK, BiasIsCounted,
                RecoveryIsCounted, ReadBiasIsBounded
<1>2. ContentionInv /\ [ContentionNext]_contentionVars => ContentionInv'
  <2> SUFFICES ASSUME ContentionInv, [ContentionNext]_contentionVars PROVE ContentionInv'
    OBVIOUS
  <2>1. ASSUME NEW sample \in Samples, ObserveWindow(sample) PROVE ContentionInv'
    <3>1. Observe(Classify(sample))
      BY <2>1 DEF ObserveWindow, Observe
    <3> QED
      BY <3>1, ClassifyType, ObserveKeepsInv
  <2>2. CASE UNCHANGED contentionVars
    BY <2>2 DEF contentionVars, ContentionInv, ContentionTypeOK, BiasIsCounted,
                RecoveryIsCounted, ReadBiasIsBounded
  <2> QED
    BY <2>1, <2>2 DEF ContentionNext
<1> QED
  BY <1>1, <1>2, PTL DEF ContentionSpec

-----------------------------------------------------------------------------
\* No counter outlives the mode it belongs to (BravoContentionState::observe).
THEOREM ContentionTypeCorrect == ContentionSpec => []ContentionTypeOK
<1>1. ContentionInv => ContentionTypeOK
  BY DEF ContentionInv
<1> QED
  BY <1>1, ContentionInvHolds, PTL

\* However read-dominant the load is, readers are favoured for no more windows in
\* a row than max_consecutive_read_bias_windows.
THEOREM BiasEnds == ContentionSpec => []ReadBiasIsBounded
<1>1. ContentionInv => ReadBiasIsBounded
  BY DEF ContentionInv
<1> QED
  BY <1>1, ContentionInvHolds, PTL

\* Starving writers are answered by the very next window, whatever the mode.
THEOREM WritersAreHeard == ContentionSpec => StarvationIsAnswered
<1>1. ContentionInv /\ [ContentionNext]_contentionVars
        => [decided'.signature = "starvation" => bias' = "recovery"]_contentionVars
  <2> SUFFICES ASSUME ContentionInv, NEW sample \in Samples, ObserveWindow(sample),
                      decided'.signature = "starvation"
               PROVE  bias' = "recovery"
    BY DEF ContentionNext
  <2>1. Classify(sample) = "starvation"
    BY DEF ObserveWindow
  <2>2. Observe("starvation")
    BY <2>1 DEF ObserveWindow, Observe
  <2>3. CASE ObserveBalanced("starvation")
    BY <2>3 DEF ObserveBalanced, StartRecovery
  <2>4. CASE ObserveReadBiased("starvation")
    BY <2>4 DEF ObserveReadBiased, StartRecovery
  <2>5. CASE ObserveRecovery("starvation")
    BY <2>5, Limits DEF ObserveRecovery
  <2> QED
    BY <2>2, <2>3, <2>4, <2>5 DEF Observe
<1> QED
  BY <1>1, ContentionInvHolds, PTL DEF ContentionSpec, StarvationIsAnswered

\* A recovery is left only after as many calm windows as it is meant to take.
THEOREM RecoveryLasts == ContentionSpec => RecoveryIsServed
<1>1. ContentionInv /\ [ContentionNext]_contentionVars
        => [bias = "recovery" /\ bias' # "recovery" => calm' >= RecoveryWindows]_contentionVars
  <2> SUFFICES ASSUME ContentionInv, NEW sample \in Samples, ObserveWindow(sample),
                      bias = "recovery", bias' # "recovery"
               PROVE  calm' >= RecoveryWindows
    BY DEF ContentionNext
  <2>1. PICK signature \in Signatures : Observe(signature)
    BY ClassifyType DEF ObserveWindow, Observe
  <2>2. ObserveRecovery(signature)
    BY <2>1 DEF Observe, ObserveBalanced, ObserveReadBiased
  <2>3. /\ recovery \in Nat \ {0} /\ calm \in Nat
        /\ recovery + calm = AtLeastOne(RecoveryWindows)
    BY DEF ContentionInv, ContentionTypeOK, RecoveryIsCounted
  <2>4. recovery' = 0
    BY <2>2 DEF ObserveRecovery
  <2>5. signature # "starvation" /\ recovery' = recovery - 1
    BY <2>2, <2>3, <2>4, Limits DEF ObserveRecovery
  <2>6. calm' = calm + 1
    BY <2>1, <2>5 DEF Observe
  <2> QED
    BY <2>3, <2>4, <2>5, <2>6, Limits
<1> QED
  BY <1>1, ContentionInvHolds, PTL DEF ContentionSpec, RecoveryIsServed

\* Under any load readers give way and starved writers get their windows, the
\* three promises together (observe_window).
THEOREM BothSidesServed == ContentionSpec => WindowsAreServed
  BY BiasEnds, WritersAreHeard, RecoveryLasts, PTL DEF WindowsAreServed

-----------------------------------------------------------------------------
(* Slab pool                                                                 *)

Listed(n, s) == \E i \in 1..Len(freeList[n]) : freeList[n][i] = s

\* Every handle that was ever given out is of a generation its slot has reached.
GenerationsCover ==
  \A h \in held \union returned :
    h.node \in Nodes /\ h.generation <= generations[h.node][h.slot]

SlabInv ==
  /\ SlabTypeOK /\ FreeListsAgree /\ HandlesAreExclusive /\ GenerationsCover
  /\ StaleHandlesFreeNothing

-----------------------------------------------------------------------------
LEMMA SlabFacts ==
  /\ Nodes \subseteq NodeIds
  /\ \A h \in Handles : h.node \in NodeIds /\ h.slot \in Slots /\ h.generation \in 0..MaxGeneration
  /\ \A h, k \in Handles : h.node = k.node /\ h.slot = k.slot /\ h.generation = k.generation
                             => h = k
BY SlabConstants DEF Nodes, Handles

LEMMA SlabInitInv == SlabInit => SlabInv
<1> SUFFICES ASSUME SlabInit PROVE SlabInv
  OBVIOUS
<1>1. SlabCapacity \in Nat \ {0} /\ MaxGeneration \in Nat
  BY SlabConstants
<1> DEFINE list == [i \in 1..SlabCapacity |-> SlabCapacity - i]
<1>2. list \in Seq(Slots) /\ Len(list) = SlabCapacity
  BY <1>1 DEF Slots
<1>3. SlabTypeOK
  BY <1>1, <1>2 DEF SlabInit, SlabTypeOK
<1>4. FreeListsAgree
  <2> SUFFICES ASSUME NEW n \in Nodes
               PROVE  /\ \A i, j \in 1..Len(freeList[n]) : freeList[n][i] = freeList[n][j] => i = j
                      /\ \A s \in Slots : ~allocated[n][s] /\ Listed(n, s)
    BY DEF FreeListsAgree, Listed
  <2>1. freeList[n] = list /\ \A s \in Slots : ~allocated[n][s]
    BY DEF SlabInit
  <2>2. \A s \in Slots : SlabCapacity - s \in 1..SlabCapacity /\ list[SlabCapacity - s] = s
    BY <1>1 DEF Slots
  <2> QED
    BY <1>1, <1>2, <2>1, <2>2 DEF Listed
<1>5. HandlesAreExclusive
  BY SlabFacts DEF SlabInit, HandlesAreExclusive, IsValid
<1> QED
  BY <1>3, <1>4, <1>5 DEF SlabInit, SlabInv, GenerationsCover, StaleHandlesFreeNothing

-----------------------------------------------------------------------------
\* What an allocation does: the slot on top of a node's free list, which was not
\* in use, gets its next generation.
LEMMA AllocateStep ==
  ASSUME SlabInv, NEW preferred \in NodeIds, Allocate(preferred)
  PROVE  \E n \in Nodes, s \in Slots :
           LET g == generations[n][s] + 1
               h == [node |-> n, slot |-> s, generation |-> g]
           IN /\ ~allocated[n][s] /\ g \in 0..MaxGeneration
              /\ freeList[n] # <<>> /\ freeList[n][Len(freeList[n])] = s
              /\ allocated' = [allocated EXCEPT ![n][s] = TRUE]
              /\ generations' = [generations EXCEPT ![n][s] = g]
              /\ freeList' = [freeList EXCEPT ![n] = SubSeq(@, 1, Len(@) - 1)]
              /\ held' = held \union {h}
              /\ returned' = returned
<1>1. PICK n \in Nodes :
        /\ HasCapacity(n)
        /\ LET s == freeList[n][Len(freeList[n])]
               g == generations[n][s] + 1
           IN /\ g <= MaxGeneration
              /\ allocated' = [allocated EXCEPT ![n][s] = TRUE]
              /\ generations' = [generations EXCEPT ![n][s] = g]
              /\ freeList' = [freeList EXCEPT ![n] = SubSeq(@, 1, Len(@) - 1)]
              /\ held' = held \union {[node |-> n, slot |-> s, generation |-> g]}
              /\ UNCHANGED returned
  BY DEF Allocate, ServedBy
<1> DEFINE s == freeList[n][Len(freeList[n])]
<1>2. freeList[n] \in Seq(Slots) /\ freeList[n] # <<>>
  BY <1>1 DEF SlabInv, SlabTypeOK, HasCapacity
<1>3. Len(freeList[n]) \in 1..Len(freeList[n]) /\ s \in Slots
  BY <1>2
<1>4. ~allocated[n][s]
  BY <1>3 DEF SlabInv, FreeListsAgree
<1>5. generations[n][s] \in 0..MaxGeneration
  BY <1>3 DEF SlabInv, SlabTypeOK
<1>6. generations[n][s] + 1 \in 0..MaxGeneration
  BY <1>1, <1>5, SlabConstants
<1> QED
  BY <1>1, <1>2, <1>3, <1>4, <1>6

LEMMA AllocateKeepsInv ==
  ASSUME SlabInv, NEW preferred \in NodeIds, Allocate(preferred)
  PROVE  SlabInv'
<1>1. PICK n \in Nodes, s \in Slots :
        LET g == generations[n][s] + 1
            h == [node |-> n, slot |-> s, generation |-> g]
        IN /\ ~allocated[n][s] /\ g \in 0..MaxGeneration
           /\ freeList[n] # <<>> /\ freeList[n][Len(freeList[n])] = s
           /\ allocated' = [allocated EXCEPT ![n][s] = TRUE]
           /\ generations' = [generations EXCEPT ![n][s] = g]
           /\ freeList' = [freeList EXCEPT ![n] = SubSeq(@, 1, Len(@) - 1)]
           /\ held' = held \union {h}
           /\ returned' = returned
  BY AllocateStep
<1> DEFINE g == generations[n][s] + 1
           h == [node |-> n, slot |-> s, generation |-> g]
           list == freeList[n]
<1>2. /\ list \in Seq(Slots) /\ list # <<>> /\ Len(list) \in Nat \ {0}
      /\ list[Len(list)] = s
  BY <1>1 DEF SlabInv, SlabTypeOK
<1>3. /\ freeList'[n] \in Seq(Slots) /\ Len(freeList'[n]) = Len(list) - 1
      /\ \A i \in 1..(Len(list) - 1) : freeList'[n][i] = list[i]
  <2>1. freeList'[n] = SubSeq(list, 1, Len(list) - 1)
    BY <1>1 DEF SlabInv, SlabTypeOK
  <2>2. \A i \in 1..(Len(list) - 1) : list[i] \in Slots
    BY <1>2
  <2> DEFINE last == Len(list) - 1
  <2>3. last \in Nat
    BY <1>2
  <2> HIDE DEF list, last
  <2>4. \A i \in 1..last : list[i] \in Slots
    BY <2>2 DEF last
  <2>5. /\ SubSeq(list, 1, last) \in Seq(Slots)
        /\ Len(SubSeq(list, 1, last)) = IF 1 <= last THEN last - 1 + 1 ELSE 0
        /\ \A i \in 1..(last - 1 + 1) : SubSeq(list, 1, last)[i] = list[1 + i - 1]
    BY <2>3, <2>4, SubSeqProperties
  <2>6. Len(SubSeq(list, 1, last)) = last /\ last - 1 + 1 = last
    BY <2>3, <2>5
  <2>7. \A i \in 1..last : 1 + i - 1 = i
    BY <2>3
  <2>8. \A i \in 1..last : SubSeq(list, 1, last)[i] = list[i]
    BY <2>5, <2>6, <2>7
  <2> QED
    BY <2>1, <2>8, <2>5, <2>6 DEF last
<1>4. /\ allocated'[n][s] = TRUE /\ generations'[n][s] = g
      /\ \A m \in Nodes, t \in Slots :
           ~(m = n /\ t = s) =>
             allocated'[m][t] = allocated[m][t] /\ generations'[m][t] = generations[m][t]
      /\ \A m \in Nodes \ {n} : freeList'[m] = freeList[m]
  BY <1>1 DEF SlabInv, SlabTypeOK
<1>5. h \in Handles /\ h.node = n /\ h.slot = s /\ h.generation = g
  BY <1>1, SlabFacts DEF Handles
<1>6. SlabTypeOK'
  <2>1. allocated' \in [Nodes -> [Slots -> BOOLEAN]]
    BY <1>1 DEF SlabInv, SlabTypeOK
  <2>2. generations' \in [Nodes -> [Slots -> 0..MaxGeneration]]
    BY <1>1 DEF SlabInv, SlabTypeOK
  <2>3. freeList' \in [Nodes -> Seq(Slots)]
    BY <1>1, <1>3 DEF SlabInv, SlabTypeOK
  <2> QED
    BY <1>1, <1>5, <2>1, <2>2, <2>3 DEF SlabInv, SlabTypeOK
<1>7. FreeListsAgree'
  <2> SUFFICES ASSUME NEW m \in Nodes
               PROVE  /\ \A i, j \in 1..Len(freeList'[m]) :
                           freeList'[m][i] = freeList'[m][j] => i = j
                      /\ \A t \in Slots : ~allocated'[m][t] <=> Listed(m, t)'
    BY DEF FreeListsAgree, Listed
  <2>1. CASE m # n
    BY <1>4, <2>1 DEF SlabInv, FreeListsAgree, Listed
  <2>2. CASE m = n
    <3>1. \A i, j \in 1..Len(list) : list[i] = list[j] => i = j
      BY DEF SlabInv, FreeListsAgree
    <3>2. \A t \in Slots \ {s} : ~allocated[n][t] <=> \E i \in 1..(Len(list) - 1) : list[i] = t
      BY <1>2 DEF SlabInv, FreeListsAgree
    <3> HIDE DEF list
    <3>3. \A i \in 1..(Len(list) - 1) : list[i] # s
      BY <1>2, <3>1
    <3>4. \A i, j \in 1..Len(freeList'[n]) : freeList'[n][i] = freeList'[n][j] => i = j
      <4>1. PICK shorter : shorter = freeList'[n]
        OBVIOUS
      <4>2. \A i, j \in 1..(Len(list) - 1) : shorter[i] = shorter[j] => i = j
        BY <1>2, <1>3, <3>1, <4>1
      <4> QED
        BY <1>3, <4>1, <4>2
    <3>5. \A t \in Slots \ {s} : ~allocated'[n][t] <=> Listed(n, t)'
      BY SMTT(30), <1>2, <1>3, <1>4, <3>2 DEF Listed
    <3>6. ~Listed(n, s)'
      BY <1>2, <1>3, <3>3 DEF Listed
    <3> QED
      BY <1>4, <2>2, <3>4, <3>5, <3>6
  <2> QED
    BY <2>1, <2>2
<1>8. \A k \in Handles : k.node = n /\ k.slot = s => k \notin held
  BY <1>1 DEF SlabInv, HandlesAreExclusive, IsValid
<1>9. \A k \in Handles : k \in held' <=> IsValid(k)'
  <2> TAKE k \in Handles
  <2>1. CASE k.node = n /\ k.slot = s
    <3>1. k \in held' <=> k = h
      BY <1>1, <1>8, <2>1
    <3>2. IsValid(k)' <=> k.generation = g
      BY <1>4, <2>1 DEF IsValid
    <3> QED
      BY <1>5, <2>1, <3>1, <3>2, SlabFacts
  <2>2. CASE ~(k.node = n /\ k.slot = s)
    <3>1. k \in held' <=> k \in held
      BY <1>1, <2>2
    <3>2. IsValid(k)' <=> IsValid(k)
      BY <1>4, <2>2, SlabFacts DEF IsValid
    <3> QED
      BY <3>1, <3>2 DEF SlabInv, HandlesAreExclusive
  <2> QED
    BY <2>1, <2>2
<1>10. HandlesAreExclusive'
  <2>1. held' \subseteq Handles
    BY <1>6 DEF SlabTypeOK
  <2> QED
    BY <1>9, <2>1, SlabFacts DEF HandlesAreExclusive, IsValid
<1>11. \A m \in Nodes, t \in Slots : generations[m][t] \in Nat
  BY SlabConstants DEF SlabInv, SlabTypeOK
<1>12. \A k \in held \union returned : k \in Handles /\ k.node \in Nodes /\ k.slot \in Slots
                                         /\ k.generation \in Nat
  BY SlabFacts, SlabConstants DEF SlabInv, SlabTypeOK, GenerationsCover
<1>13. \A k \in held \union returned : k.generation <= generations'[k.node][k.slot]
  <2> TAKE k \in held \union returned
  <2>1. k.generation <= generations[k.node][k.slot]
    BY DEF SlabInv, GenerationsCover
  <2>2. generations[k.node][k.slot] <= generations'[k.node][k.slot]
    BY <1>4, <1>11, <1>12
  <2>3. generations'[k.node][k.slot] \in Nat
    BY <1>6, <1>12, SlabConstants DEF SlabTypeOK
  <2> QED
    BY <1>11, <1>12, <2>1, <2>2, <2>3
<1>14. GenerationsCover'
  BY <1>1, <1>4, <1>5, <1>11, <1>12, <1>13 DEF GenerationsCover
<1>15. StaleHandlesFreeNothing'
  <2> SUFFICES ASSUME NEW k \in returned PROVE ~IsValid(k)'
    BY <1>1 DEF StaleHandlesFreeNothing
  <2>1. CASE k.node = n /\ k.slot = s
    <3>1. k.generation < g
      BY <1>11, <1>12, <2>1 DEF SlabInv, GenerationsCover
    <3> QED
      BY <1>4, <1>12, <2>1, <3>1 DEF IsValid
  <2>2. CASE ~(k.node = n /\ k.slot = s)
    BY <1>4, <1>12, <2>2 DEF IsValid, SlabInv, StaleHandlesFreeNothing
  <2> QED
    BY <2>1, <2>2
<1> QED
  BY <1>6, <1>7, <1>10, <1>14, <1>15 DEF SlabInv

-----------------------------------------------------------------------------
LEMMA DeallocateKeepsInv ==
  ASSUME SlabInv, NEW h \in Handles, Deallocate(h)
  PROVE  SlabInv'
<1> DEFINE n == h.node
           s == h.slot
           list == freeList[n]
<1>1. /\ n \in Nodes /\ s \in Slots /\ allocated[n][s] /\ generations[n][s] = h.generation
      /\ h \in held
  BY SlabFacts DEF Deallocate, IsValid, SlabInv, HandlesAreExclusive
<1>2. list \in Seq(Slots) /\ Len(list) \in Nat
  BY <1>1 DEF SlabInv, SlabTypeOK
<1>3. /\ freeList'[n] \in Seq(Slots) /\ Len(freeList'[n]) = Len(list) + 1
      /\ \A i \in 1..Len(list) : freeList'[n][i] = list[i]
      /\ freeList'[n][Len(list) + 1] = s
  BY <1>1, <1>2 DEF Deallocate, SlabInv, SlabTypeOK
<1>4. /\ ~allocated'[n][s] /\ UNCHANGED generations
      /\ \A m \in Nodes, t \in Slots :
           ~(m = n /\ t = s) => allocated'[m][t] = allocated[m][t]
      /\ \A m \in Nodes \ {n} : freeList'[m] = freeList[m]
      /\ held' = held \ {h} /\ returned' = returned \union {h}
  BY <1>1 DEF Deallocate, SlabInv, SlabTypeOK
<1>5. SlabTypeOK'
  <2>1. allocated' \in [Nodes -> [Slots -> BOOLEAN]]
    BY <1>1 DEF Deallocate, SlabInv, SlabTypeOK
  <2>2. freeList' \in [Nodes -> Seq(Slots)]
    BY <1>1, <1>2 DEF Deallocate, SlabInv, SlabTypeOK
  <2> QED
    BY <1>4, <2>1, <2>2 DEF SlabInv, SlabTypeOK
<1>6. FreeListsAgree'
  <2> SUFFICES ASSUME NEW m \in Nodes
               PROVE  /\ \A i, j \in 1..Len(freeList'[m]) :
                           freeList'[m][i] = freeList'[m][j] => i = j
                      /\ \A t \in Slots : ~allocated'[m][t] <=> Listed(m, t)'
    BY DEF FreeListsAgree, Listed
  <2>1. CASE m # n
    BY <1>4, <2>1 DEF SlabInv, FreeListsAgree, Listed
  <2>2. CASE m = n
    <3>1. \A i, j \in 1..Len(list) : list[i] = list[j] => i = j
      BY <1>1 DEF SlabInv, FreeListsAgree
    <3>2. \A t \in Slots : ~allocated[n][t] <=> \E i \in 1..Len(list) : list[i] = t
      BY <1>1 DEF SlabInv, FreeListsAgree
    <3>3. \A i \in 1..Len(list) : list[i] # s
      BY <1>1, <3>2
    <3> HIDE DEF list
    <3>4. \A i, j \in 1..Len(freeList'[n]) : freeList'[n][i] = freeList'[n][j] => i = j
      BY <1>2, <1>3, <3>1, <3>3
    <3>5. \A t \in Slots \ {s} : ~allocated'[n][t] <=> Listed(n, t)'
      BY SMTT(30), <1>1, <1>2, <1>3, <1>4, <3>2 DEF Listed
    <3>6. Listed(n, s)'
      BY <1>2, <1>3 DEF Listed
    <3> QED
      BY <1>4, <2>2, <3>4, <3>5, <3>6
  <2> QED
    BY <2>1, <2>2
<1>7. \A k \in Handles : k \in held' <=> IsValid(k)'
  <2> TAKE k \in Handles
  <2>1. CASE k.node = n /\ k.slot = s
    <3>1. ~IsValid(k)'
      BY <1>4, <2>1 DEF IsValid
    <3>2. k \notin held'
      BY <1>1, <1>4, <2>1 DEF SlabInv, HandlesAreExclusive
    <3> QED
      BY <3>1, <3>2
  <2>2. CASE ~(k.node = n /\ k.slot = s)
    <3>1. k \in held' <=> k \in held
      BY <1>4, <2>2
    <3>2. IsValid(k)' <=> IsValid(k)
      BY <1>4, <2>2, SlabFacts DEF IsValid
    <3> QED
      BY <3>1, <3>2 DEF SlabInv, HandlesAreExclusive
  <2> QED
    BY <2>1, <2>2
<1>8. HandlesAreExclusive'
  BY <1>4, <1>7 DEF SlabInv, HandlesAreExclusive
<1>9. GenerationsCover'
  BY <1>1, <1>4 DEF SlabInv, GenerationsCover
<1>10. StaleHandlesFreeNothing'
  <2> SUFFICES ASSUME NEW k \in returned' PROVE ~IsValid(k)'
    BY DEF StaleHandlesFreeNothing
  <2>1. k \in Handles
    BY <1>4 DEF SlabInv, SlabTypeOK
  <2>2. CASE k = h
    BY <1>4, <2>2 DEF IsValid
  <2>3. CASE k # h
    <3>1. k \in returned /\ ~IsValid(k)
      BY <1>4, <2>3 DEF SlabInv, StaleHandlesFreeNothing
    <3>2. k \notin held'
      BY <1>4, <2>1, <3>1 DEF SlabInv, HandlesAreExclusive
    <3> QED
      BY <1>7, <2>1, <3>2
  <2> QED
    BY <2>2, <2>3
<1> QED
  BY <1>5, <1>6, <1>8, <1>9, <1>10 DEF SlabInv

LEMMA SlabInvHolds == SlabSpec => []SlabInv
<1>1. SlabInv /\ [SlabNext]_slabVars => SlabInv'
  <2> SUFFICES ASSUME SlabInv, [SlabNext]_slabVars PROVE SlabInv'
    OBVIOUS
  <2>1. CASE UNCHANGED slabVars
    <3>1. SlabTypeOK' /\ FreeListsAgree'
      BY <2>1 DEF slabVars, SlabInv, SlabTypeOK, FreeListsAgree
    <3>2. HandlesAreExclusive' /\ StaleHandlesFreeNothing'
      BY <2>1 DEF slabVars, SlabInv, HandlesAreExclusive, IsValid, StaleHandlesFreeNothing
    <3>3. GenerationsCover'
      BY <2>1 DEF slabVars, SlabInv, GenerationsCover, IsValid
    <3> QED
      BY <3>1, <3>2, <3>3 DEF SlabInv
  <2> QED
    BY <2>1, AllocateKeepsInv, DeallocateKeepsInv DEF SlabNext
<1> QED
  BY <1>1, SlabInitInv, PTL DEF SlabSpec

-----------------------------------------------------------------------------
\* Through any sequence of allocations and releases, forged and repeated ones
\* too, no slot is lost and none listed twice, a slot has one holder at a time,
\* who can free it, and a handle that was freed frees nothing again (allocate,
\* deallocate, the generation of a slot).
THEOREM SlabSound == SlabSpec => []SlabIsSound
<1>1. SlabInv => SlabIsSound
  BY DEF SlabInv, SlabIsSound
<1> QED
  BY <1>1, SlabInvHolds, PTL

-----------------------------------------------------------------------------
(* SchedulerLoop                                                             *)

HostcallTask(n) == [seq |-> n, kind |-> "hostcall", call |-> "call", outcome |-> "outcome"]
EventTask(n)    == [seq |-> n, kind |-> "event", event |-> "event"]
LoopTasks == TimerTasks \union {HostcallTask(n) : n \in Nat} \union {EventTask(n) : n \in Nat}

Fates == {"set", "cleared", "fired"}

LoopInv ==
  /\ Sched(scheduler, LoopTasks) /\ now \in Nat
  /\ DOMAIN fate \in SUBSET Nat /\ \A n \in DOMAIN fate : n < scheduler.seq
  /\ TimersMeetTheirFate

(* Every fired timer is a task of the loop.                                    *)
LEMMA LoopTasksHaveTimers == HasTimers(LoopTasks)
<1>1. \A n \in Nat : HostcallTask(n).seq = n /\ EventTask(n).seq = n
  BY DEF HostcallTask, EventTask
<1>2. \A n \in Nat, id \in TimerIds : TimerTask(n, id).seq = n
  BY DEF TimerTask
<1> QED
  BY <1>1, <1>2 DEF HasTimers, LoopTasks, TimerTasks

(* Only what waits to run has a number below the scheduler's.                    *)
IsTimer(t) == t.kind = "timer"
Newer(t) == t.seq >= scheduler.seq /\ IsTimer(t)

(* The tasks that wait have numbers below the next.                            *)
LEMMA OldTasks ==
  ASSUME LoopInv
  PROVE  \A t \in Range(scheduler.tasks) : ~Newer(t)
<1>1. scheduler.tasks \in Seq(LoopTasks) /\ scheduler.seq \in Nat
  BY DEF LoopInv, Sched, Schedulers
<1>2. ASSUME NEW i \in 1..Len(scheduler.tasks)
      PROVE  ~(scheduler.tasks[i].seq >= scheduler.seq)
  <2>1. scheduler.tasks[i] \in LoopTasks
    BY <1>1
  <2>2. scheduler.tasks[i].seq \in Nat
    BY <2>1, LoopTasksHaveTimers DEF HasTimers
  <2>3. scheduler.tasks[i].seq < scheduler.seq
    BY DEF LoopInv, Sched, TasksInOrder
  <2> QED
    BY <1>1, <2>2, <2>3
<1>3. DOMAIN scheduler.tasks = 1..Len(scheduler.tasks)
  BY <1>1
<1> QED
  BY <1>2, <1>3 DEF Newer, Range

(* What the steps do with what was done.                                        *)
Final == \A n \in DOMAIN fate : fate[n] # "set" => fate'[n] = fate[n]

Added == {t \in Range(scheduler'.tasks) : Newer(t)}
Entry(t) == CHOOSE e \in scheduler.heap : e.id = t.id
Stable == \A t, u \in Added : t.seq < u.seq => Earlier(Entry(t), Entry(u))

(* A new scheduler meets the invariant.                                        *)
LEMMA LoopInit == SchedulerInit => LoopInv
<1> SUFFICES ASSUME SchedulerInit PROVE LoopInv
  OBVIOUS
<1>1. Sched(scheduler, LoopTasks)
  BY EmptyIsSched DEF SchedulerInit
<1>2. now \in Nat /\ DOMAIN fate = {}
  BY DEF SchedulerInit
<1> QED
  BY <1>1, <1>2 DEF LoopInv, TimersMeetTheirFate

(* A new timer is set and not yet fired.                                       *)
LEMMA SetHolds ==
  ASSUME LoopInv, NEW delay \in 0..MaxDelay, Set(delay)
  PROVE  LoopInv' /\ Final /\ Stable
<1>1. PICK s, r : s = scheduler /\ r = scheduler'
  OBVIOUS
<1>2. Sched(s, LoopTasks) /\ s.seq \in Nat /\ IsFiniteSet(s.heap) /\ s.heap \in SUBSET Entries
  BY <1>1 DEF LoopInv, Sched, Schedulers
<1>3. FreeIds(s) # {}
  <2>1. s.ids = {e.id : e \in s.heap}
    BY <1>2 DEF Sched, IdsAgree
  <2>2. IsFiniteSet(s.ids) /\ Cardinality(s.ids) <= Cardinality(s.heap)
        /\ Cardinality(s.heap) \in Nat /\ Cardinality(s.ids) \in Nat
    <3>1. PICK f : f = [e \in s.heap |-> e.id]
      OBVIOUS
    <3>2. f \in Surjection(s.heap, s.ids)
      BY <2>1, <3>1 DEF Surjection
    <3>3. IsFiniteSet(s.ids) /\ Cardinality(s.ids) <= Cardinality(s.heap)
      BY <1>2, <3>2, FS_Surjection
    <3> QED
      BY <1>2, <3>3, FS_CardinalityType
  <2>3. IsFiniteSet(TimerIds) /\ Cardinality(TimerIds) = MaxTimerId
    BY MaxTimerIdAssumption, FS_Interval DEF TimerIds
  <2>4. Cardinality(s.heap) < MaxTimerId
    BY <1>1 DEF Set
  <2>5. TimerIds # s.ids
    BY <2>2, <2>3, <2>4, MaxTimerIdAssumption
  <2>6. s.ids \in SUBSET TimerIds
    BY <1>2 DEF Sched, Schedulers
  <2> QED
    BY <2>5, <2>6 DEF FreeIds
<1>4. now \in Int /\ delay \in Int
  BY LoopConstants DEF LoopInv
<1>5. PICK id : id = NewTimerId(s)
  OBVIOUS
<1>6. r = SetTimeout(s, now, delay)
  BY <1>1 DEF Set
<1>7. Sched(r, LoopTasks) /\ r.tasks = s.tasks /\ id \in TimerIds \ s.ids
  BY <1>2, <1>3, <1>4, <1>5, <1>6, LoopTasksHaveTimers, SetTimeoutKeeps
<1>8. PICK e : e = [id |-> id, deadline |-> now + delay, seq |-> s.seq]
  OBVIOUS
<1>9. r.heap = s.heap \union {e} /\ r.cancelled = s.cancelled /\ r.seq = s.seq + 1
      /\ e.id = id /\ e.seq = s.seq
  <2>1. s \in Schedulers(LoopTasks)
    BY <1>2 DEF Sched
  <2>2. r = [s EXCEPT !.seq = @ + 1, !.heap = @ \union {e}, !.ids = @ \union {id},
                      !.nextId = After(id)]
    BY <1>3, <1>5, <1>6, <1>8 DEF SetTimeout
  <2> QED
    BY <1>8, <2>1, <2>2 DEF Schedulers
<1>10. id \notin s.cancelled
  BY <1>2, <1>7 DEF Sched, IdsAgree
<1>11. LiveTimers(r) = LiveTimers(s) \union {e}
  BY <1>9, <1>10 DEF LiveTimers
<1>12. /\ DOMAIN fate' = DOMAIN fate \union {s.seq}
       /\ fate'[s.seq] = "set"
       /\ \A n \in DOMAIN fate : n # s.seq => fate'[n] = fate[n]
  BY <1>1 DEF Set, With
<1>13. s.seq \notin DOMAIN fate
  BY <1>1, <1>2 DEF LoopInv
<1>14. TimersMeetTheirFate'
  <2>1. ASSUME NEW n \in DOMAIN fate'
        PROVE  fate'[n] = "set" <=> \E f \in LiveTimers(r) : f.seq = n
    <3>1. CASE n = s.seq
      BY <1>9, <1>11, <1>12, <3>1
    <3>2. CASE n # s.seq
      BY <1>1, <1>9, <1>11, <1>12, <3>2 DEF LoopInv, TimersMeetTheirFate
    <3> QED
      BY <3>1, <3>2
  <2> QED
    BY <1>1, <2>1 DEF TimersMeetTheirFate
<1>15. LoopInv'
  <2>1. now' = now
    BY DEF Set
  <2>2. DOMAIN fate' \in SUBSET Nat /\ \A n \in DOMAIN fate' : n < r.seq
    BY <1>1, <1>2, <1>9, <1>12 DEF LoopInv
  <2> QED
    BY <1>1, <1>7, <1>14, <2>1, <2>2 DEF LoopInv
<1>16. Added = {}
  BY <1>1, <1>7, OldTasks DEF Added
<1> QED
  BY <1>12, <1>13, <1>15, <1>16 DEF Final, Stable

(* A cleared timer leaves the live ones, and only it.                          *)
LEMMA ClearHolds ==
  ASSUME LoopInv, NEW id \in TimerIds, Clear(id)
  PROVE  LoopInv' /\ Final /\ Stable
<1>1. PICK s, r : s = scheduler /\ r = scheduler'
  OBVIOUS
<1>2. Sched(s, LoopTasks)
  BY <1>1 DEF LoopInv
<1>3. r = ClearTimeout(s, id)
  BY <1>1 DEF Clear
<1>4. Sched(r, LoopTasks) /\ r.tasks = s.tasks /\ r.heap = s.heap /\ r.seq = s.seq
  BY <1>2, <1>3, ClearTimeoutKeeps
<1>5. LiveTimers(r) = LiveTimers(s) \ {e \in s.heap : CanClear(s, id) /\ e.id = id}
  <2>1. r.cancelled = IF CanClear(s, id) THEN s.cancelled \union {id} ELSE s.cancelled
    BY <1>2, <1>3 DEF ClearTimeout, Sched, Schedulers
  <2> QED
    BY <1>4, <2>1 DEF LiveTimers
<1>6. DOMAIN fate' = DOMAIN fate
  BY DEF Clear
<1>7. \A n \in DOMAIN fate :
        IF CanClear(s, id) /\ \E e \in s.heap : e.id = id /\ e.seq = n
        THEN fate'[n] = "cleared" ELSE fate'[n] = fate[n]
  BY <1>1 DEF Clear
<1>8. \A n \in DOMAIN fate : CanClear(s, id) /\ (\E e \in s.heap : e.id = id /\ e.seq = n)
        => fate[n] = "set" /\ ~\E e \in LiveTimers(r) : e.seq = n
  <2> SUFFICES ASSUME NEW n \in DOMAIN fate, CanClear(s, id),
                      NEW e \in s.heap, e.id = id, e.seq = n
               PROVE  fate[n] = "set" /\ ~\E f \in LiveTimers(r) : f.seq = n
    OBVIOUS
  <2>1. e \in LiveTimers(s)
    BY DEF CanClear, LiveTimers
  <2>2. fate[n] = "set"
    BY <1>1, <2>1 DEF LoopInv, TimersMeetTheirFate
  <2>3. \A f \in s.heap : f.seq = n => f = e
    BY <1>2 DEF Sched
  <2>4. LiveTimers(r) \subseteq s.heap
    BY <1>4 DEF LiveTimers
  <2> QED
    BY <1>5, <2>2, <2>3, <2>4
<1>9. TimersMeetTheirFate'
  <2>1. ASSUME NEW n \in DOMAIN fate
        PROVE  fate'[n] = "set" <=> \E f \in LiveTimers(r) : f.seq = n
    <3>1. CASE CanClear(s, id) /\ \E e \in s.heap : e.id = id /\ e.seq = n
      BY <1>7, <1>8, <3>1
    <3>2. CASE ~(CanClear(s, id) /\ \E e \in s.heap : e.id = id /\ e.seq = n)
      <4>1. fate'[n] = fate[n]
        BY <1>7, <3>2
      <4>2. \A f : f.seq = n => (f \in LiveTimers(r) <=> f \in LiveTimers(s))
        BY <1>5, <3>2
      <4> QED
        BY <1>1, <4>1, <4>2 DEF LoopInv, TimersMeetTheirFate
    <3> QED
      BY <3>1, <3>2
  <2> QED
    BY <1>1, <1>6, <2>1 DEF TimersMeetTheirFate
<1>10. LoopInv'
  <2>1. now' = now
    BY DEF Clear
  <2> QED
    BY <1>1, <1>4, <1>6, <1>9, <2>1 DEF LoopInv
<1>11. Final
  BY <1>7, <1>8 DEF Final
<1>12. Added = {}
  BY <1>1, <1>4, OldTasks DEF Added
<1> QED
  BY <1>10, <1>11, <1>12 DEF Stable

(* Complete and Event: a macrotask that is no timer joins the queue.             *)
LEMMA MacrotaskHolds ==
  ASSUME LoopInv, NEW task \in LoopTasks, task.seq = scheduler.seq, ~IsTimer(task),
         scheduler' = Enqueued(scheduler, task),
         UNCHANGED <<now, fate>>
  PROVE  LoopInv' /\ Final /\ Stable
<1>1. PICK s, r : s = scheduler /\ r = scheduler'
  OBVIOUS
<1>2. Sched(s, LoopTasks) /\ s.seq \in Nat /\ s.tasks \in Seq(LoopTasks)
  BY <1>1 DEF LoopInv, Sched, Schedulers
<1>3. Sched(r, LoopTasks) /\ r.tasks = Append(s.tasks, task) /\ r.heap = s.heap
  <2>1. task.seq = s.seq /\ r = Enqueued(s, task)
    BY <1>1
  <2>2. Sched(s, LoopTasks)
    BY <1>2
  <2> QED
    BY <2>1, <2>2, LoopTasksHaveTimers, EnqueueKeeps
<1>4. r.cancelled = s.cancelled /\ r.seq = s.seq + 1
  BY <1>1, <1>2 DEF Sched, Schedulers, Enqueued
<1>5. LiveTimers(r) = LiveTimers(s)
  BY <1>3, <1>4 DEF LiveTimers
<1>6. LoopInv'
  <2>1. TimersMeetTheirFate'
    BY <1>1, <1>5 DEF LoopInv, TimersMeetTheirFate
  <2>2. \A n \in DOMAIN fate' : n < r.seq
    BY <1>1, <1>2, <1>4 DEF LoopInv
  <2> QED
    BY <1>1, <1>3, <2>1, <2>2 DEF LoopInv
<1>7. Range(r.tasks) = Range(s.tasks) \union {task}
  <2>1. PICK q : q = Append(s.tasks, task)
    OBVIOUS
  <2>2. /\ DOMAIN q = 1..(Len(s.tasks) + 1) /\ Len(s.tasks) \in Nat /\ DOMAIN s.tasks = 1..Len(s.tasks)
        /\ q[Len(s.tasks) + 1] = task
        /\ \A i \in 1..Len(s.tasks) : q[i] = s.tasks[i]
    BY <1>2, <2>1
  <2>3. \A i \in DOMAIN q : i \in 1..Len(s.tasks) \/ i = Len(s.tasks) + 1
    BY <2>2
  <2>4. 1..Len(s.tasks) \subseteq DOMAIN q /\ Len(s.tasks) + 1 \in DOMAIN q
    BY <2>2
  <2> QED
    BY <1>3, <2>1, <2>2, <2>3, <2>4 DEF Range
<1>8. Added = {}
  BY <1>1, <1>7, OldTasks DEF Added, Newer
<1> QED
  BY <1>6, <1>8 DEF Final, Stable

(* The due timers that are alive fire, in the order of their deadlines.        *)
LEMMA TickHolds ==
  ASSUME LoopInv, Tick
  PROVE  LoopInv' /\ Final /\ Stable
<1>1. PICK s, r, m : s = scheduler /\ r = scheduler' /\ m = MoveDueTimers(s, now)
  OBVIOUS
<1>2. Sched(s, LoopTasks) /\ s.seq \in Nat /\ s.tasks \in Seq(LoopTasks) /\ now \in Int
      /\ s.heap \in SUBSET Entries
  BY <1>1 DEF LoopInv, Sched, Schedulers
<1>20. Sched(s, LoopTasks) /\ now \in Int
  BY <1>2
<1>3. r = AfterTick(s, now) /\ m = MoveDueTimers(s, now)
  BY <1>1 DEF Tick
<1>4. /\ Sched(r, LoopTasks)
      /\ Ready(s, now) = m.tasks /\ m.tasks \in Seq(LoopTasks)
      /\ m.tasks = <<>> => r.tasks = <<>>
      /\ m.tasks # <<>> => r.tasks = Tail(m.tasks)
      /\ r.heap = m.heap /\ r.cancelled = m.cancelled /\ r.ids = m.ids /\ r.seq = m.seq
  BY SMTT(30), <1>20, <1>3, LoopTasksHaveTimers, TickKeeps
<1> DEFINE D == Due(s, now)
<1>5. m.heap = s.heap \ D /\ m.cancelled = s.cancelled \cap m.ids /\ Moves(s, now, m)
  BY <1>20, <1>3, LoopTasksHaveTimers, MoveDueKeeps
<1>6. PICK n \in Nat : \E fired \in [1..n -> D \cap LiveTimers(s)] : Moved(s, now, m, n, fired)
  BY <1>5 DEF Moves
<1>7. PICK fired \in [1..n -> D \cap LiveTimers(s)] :
              /\ Len(m.tasks) = Len(s.tasks) + n
              /\ m.seq = s.seq + n
              /\ \A i \in 1..Len(s.tasks) : m.tasks[i] = s.tasks[i]
              /\ \A i \in 1..n : m.tasks[Len(s.tasks) + i] = TimerTask(s.seq + i - 1, fired[i].id)
              /\ \A e \in D \cap LiveTimers(s) : \E i \in 1..n : fired[i] = e
              /\ \A i, j \in 1..n : i < j => Earlier(fired[i], fired[j])
  BY <1>6 DEF Moved
<1>8. Len(s.tasks) \in Nat
  BY <1>2
<1>9. D \in SUBSET s.heap /\ LiveTimers(s) \in SUBSET s.heap
  BY DEF Due, LiveTimers
<1>10. LiveTimers(r) = LiveTimers(s) \ D
  <2>1. \A e \in s.heap \ D : e.id \in m.ids
    BY <1>4, <1>5 DEF Sched, IdsAgree
  <2> QED
    BY <1>4, <1>5, <2>1 DEF LiveTimers
<1>11. \A k, id : TimerTask(k, id).seq = k /\ TimerTask(k, id).id = id
  BY DEF TimerTask
<1>12. ASSUME NEW k \in Nat
       PROVE (\E i \in 1..Len(m.tasks) : i > Len(s.tasks) /\ \E e \in D : e.seq = k /\ e.id = m.tasks[i].id)
             <=> \E e \in D \cap LiveTimers(s) : e.seq = k
  <2>1. ASSUME NEW i \in 1..Len(m.tasks), i > Len(s.tasks), NEW e \in D, e.seq = k, e.id = m.tasks[i].id
        PROVE  e \in LiveTimers(s)
    <3>1. PICK j \in 1..n : i = Len(s.tasks) + j
      <4>1. i - Len(s.tasks) \in 1..n /\ i = Len(s.tasks) + (i - Len(s.tasks))
        BY <1>7, <1>8, <2>1
      <4> QED
        BY <4>1
    <3>2. e.id = fired[j].id
      <4>1. m.tasks[i] = TimerTask(s.seq + j - 1, fired[j].id)
        BY <1>7, <3>1
      <4> QED
        BY <1>11, <2>1, <4>1
    <3>3. fired[j] \in LiveTimers(s)
      BY <1>7
    <3>4. e = fired[j]
      BY <1>2, <1>9, <3>2, <3>3 DEF Sched, IdsAgree
    <3> QED
      BY <3>3, <3>4
  <2>2. ASSUME NEW e \in D \cap LiveTimers(s), e.seq = k
        PROVE  \E i \in 1..Len(m.tasks) : i > Len(s.tasks) /\ \E f \in D : f.seq = k /\ f.id = m.tasks[i].id
    <3>1. PICK j \in 1..n : fired[j] = e
      BY <1>7
    <3>2. Len(s.tasks) + j \in 1..Len(m.tasks) /\ Len(s.tasks) + j > Len(s.tasks)
      BY <1>7, <1>8
    <3>3. m.tasks[Len(s.tasks) + j].id = e.id
      <4>1. m.tasks[Len(s.tasks) + j] = TimerTask(s.seq + j - 1, e.id)
        BY <1>7, <3>1
      <4> QED
        BY <1>11, <4>1
    <3> QED
      BY <2>2, <3>2, <3>3
  <2> QED
    BY <2>1, <2>2
<1>13. DOMAIN fate' = DOMAIN fate
  BY DEF Tick
<1>14. \A k \in DOMAIN fate :
         IF \E e \in D \cap LiveTimers(s) : e.seq = k
         THEN fate'[k] = "fired" ELSE fate'[k] = fate[k]
  <2> TAKE k \in DOMAIN fate
  <2>1. k \in Nat
    BY DEF LoopInv
  <2>2. fate'[k] = IF \E i \in 1..Len(m.tasks) : i > Len(s.tasks) /\ \E e \in D : e.seq = k /\ e.id = m.tasks[i].id
                   THEN "fired" ELSE fate[k]
    BY <1>1, <1>4 DEF Tick
  <2> QED
    BY <1>12, <2>1, <2>2
<1>15. ASSUME NEW k \in DOMAIN fate
       PROVE  /\ fate'[k] = "set" <=> \E f \in LiveTimers(r) : f.seq = k
              /\ fate[k] # "set" => fate'[k] = fate[k]
  <2>1. fate[k] = "set" <=> \E f \in LiveTimers(s) : f.seq = k
    BY <1>1 DEF LoopInv, TimersMeetTheirFate
  <2>2. CASE \E e \in D \cap LiveTimers(s) : e.seq = k
    <3>1. PICK e \in D \cap LiveTimers(s) : e.seq = k
      BY <2>2
    <3>2. \A f \in LiveTimers(s) : f.seq = k => f = e
      BY <1>2, <1>9, <3>1 DEF Sched
    <3>3. ~\E f \in LiveTimers(r) : f.seq = k
      BY <1>10, <3>1, <3>2
    <3> QED
      BY <1>14, <2>1, <2>2, <3>1, <3>3
  <2>3. CASE ~\E e \in D \cap LiveTimers(s) : e.seq = k
    BY <1>10, <1>14, <2>1, <2>3
  <2> QED
    BY <2>2, <2>3
<1>16. LoopInv'
  <2>1. now' = now
    BY DEF Tick
  <2>2. TimersMeetTheirFate'
    BY <1>1, <1>13, <1>15 DEF TimersMeetTheirFate
  <2>3. ASSUME NEW k \in DOMAIN fate PROVE k < r.seq
    <3>1. k \in Nat /\ k < s.seq
      BY <1>1 DEF LoopInv
    <3> QED
      BY <1>2, <1>4, <1>7, <3>1
  <2> QED
    BY <1>1, <1>4, <1>13, <2>1, <2>2, <2>3 DEF LoopInv
<1>17. Final
  BY <1>15 DEF Final
<1>18. ASSUME NEW t \in Added
       PROVE  \E j \in 1..n : t.seq = s.seq + j - 1 /\ Entry(t) = fired[j]
  <2>1. t \in Range(r.tasks) /\ Newer(t)
    BY <1>1 DEF Added
  <2>2. t \in Range(m.tasks)
    <3>1. CASE m.tasks = <<>>
      <4>1. Range(r.tasks) = {}
        BY <1>4, <3>1 DEF Range
      <4> QED
        BY <2>1, <4>1
    <3>2. CASE m.tasks # <<>>
      <4>1. PICK q : q = Tail(m.tasks)
        OBVIOUS
      <4>2. DOMAIN q = 1..(Len(m.tasks) - 1) /\ Len(m.tasks) \in Nat
            /\ DOMAIN m.tasks = 1..Len(m.tasks)
        BY <1>4, <3>2, <4>1
      <4>3. \A i \in DOMAIN q : q[i] = m.tasks[i + 1] /\ i + 1 \in DOMAIN m.tasks
        BY <1>4, <3>2, <4>1, <4>2
      <4>4. PICK i \in DOMAIN q : t = q[i]
        BY <1>4, <2>1, <3>2, <4>1 DEF Range
      <4> QED
        BY <4>3, <4>4 DEF Range
    <3> QED
      BY <3>1, <3>2
  <2>3. PICK i \in 1..Len(m.tasks) : t = m.tasks[i]
    BY <1>4, <2>2 DEF Range
  <2>4. i \notin 1..Len(s.tasks)
    <3> SUFFICES ASSUME i \in 1..Len(s.tasks) PROVE FALSE
      OBVIOUS
    <3>1. t = s.tasks[i] /\ i \in DOMAIN s.tasks
      <4>1. m.tasks[i] = s.tasks[i]
        BY <1>7
      <4>2. i \in DOMAIN s.tasks
        BY <1>2
      <4> QED
        BY <2>3, <4>1, <4>2
    <3>2. t \in Range(scheduler.tasks)
      BY <1>1, <3>1 DEF Range
    <3> QED
      BY <2>1, <3>2, OldTasks
  <2>5. PICK j \in 1..n : i = Len(s.tasks) + j
    <3>1. i - Len(s.tasks) \in 1..n /\ i = Len(s.tasks) + (i - Len(s.tasks))
      BY <1>7, <1>8, <2>3, <2>4
    <3> QED
      BY <3>1
  <2>6. t = TimerTask(s.seq + j - 1, fired[j].id)
    BY <1>7, <2>3, <2>5
  <2>7. t.seq = s.seq + j - 1 /\ t.id = fired[j].id
    BY <1>11, <2>6
  <2>8. fired[j] \in s.heap /\ \A e \in s.heap : e.id = t.id => e = fired[j]
    BY <1>2, <1>7, <1>9, <2>7 DEF Sched, IdsAgree
  <2>9. Entry(t) = fired[j]
    BY <1>1, <2>7, <2>8 DEF Entry
  <2> QED
    BY <2>7, <2>9
<1>19. Stable
  <2> SUFFICES ASSUME NEW t \in Added, NEW u \in Added, t.seq < u.seq
               PROVE  Earlier(Entry(t), Entry(u))
    BY DEF Stable
  <2>1. PICK i \in 1..n : t.seq = s.seq + i - 1 /\ Entry(t) = fired[i]
    BY <1>18
  <2>2. PICK j \in 1..n : u.seq = s.seq + j - 1 /\ Entry(u) = fired[j]
    BY <1>18
  <2>3. i < j
    BY <1>2, <2>1, <2>2
  <2> QED
    BY <1>7, <2>1, <2>2, <2>3
<1> QED
  BY <1>16, <1>17, <1>19

(* Every step keeps the invariant, the fates and the order.                    *)
LEMMA LoopStep ==
  ASSUME LoopInv, SchedulerNext
  PROVE  LoopInv' /\ Final /\ Stable
<1>1. ASSUME NEW delay \in 0..MaxDelay, Set(delay) PROVE LoopInv' /\ Final /\ Stable
  BY <1>1, SetHolds
<1>2. ASSUME NEW id \in TimerIds, Clear(id) PROVE LoopInv' /\ Final /\ Stable
  BY <1>2, ClearHolds
<1>3. CASE Complete
  <2>1. scheduler.seq \in Nat
    BY DEF LoopInv, Sched, Schedulers
  <2>2. HostcallTask(scheduler.seq) \in LoopTasks
    BY <2>1 DEF LoopTasks
  <2>3. HostcallTask(scheduler.seq).seq = scheduler.seq /\ ~IsTimer(HostcallTask(scheduler.seq))
    BY DEF HostcallTask, IsTimer
  <2>4. scheduler' = Enqueued(scheduler, HostcallTask(scheduler.seq))
        /\ UNCHANGED <<now, fate>>
    BY <1>3 DEF Complete, EnqueueHostcallComplete, HostcallTask, Enqueued
  <2> QED
    BY <2>2, <2>3, <2>4, MacrotaskHolds
<1>4. CASE Event
  <2>1. scheduler.seq \in Nat
    BY DEF LoopInv, Sched, Schedulers
  <2>2. EventTask(scheduler.seq) \in LoopTasks
    BY <2>1 DEF LoopTasks
  <2>3. EventTask(scheduler.seq).seq = scheduler.seq /\ ~IsTimer(EventTask(scheduler.seq))
    BY DEF EventTask, IsTimer
  <2>4. scheduler' = Enqueued(scheduler, EventTask(scheduler.seq))
        /\ UNCHANGED <<now, fate>>
    BY <1>4 DEF Event, EnqueueEvent, EventTask, Enqueued
  <2> QED
    BY <2>2, <2>3, <2>4, MacrotaskHolds
<1>5. CASE Tick
  BY <1>5, TickHolds
<1>6. CASE Clock
  <2>1. now' \in Nat
    BY <1>6, LoopConstants DEF Clock
  <2>2. scheduler' = scheduler /\ fate' = fate
    BY <1>6 DEF Clock
  <2>3. LoopInv'
    BY <2>1, <2>2 DEF LoopInv, TimersMeetTheirFate
  <2>4. Added = {}
    BY <2>2, OldTasks DEF Added
  <2> QED
    BY <2>2, <2>3, <2>4 DEF Final, Stable
<1> QED
  BY <1>1, <1>2, <1>3, <1>4, <1>5, <1>6 DEF SchedulerNext

(* The scheduler numbers each task once and runs them in order, no timer is lost  *)
(* or fires after it was cleared, and due timers fire by deadline and then in the  *)
(* order in which they were set: for any number of ids, which may wrap around,    *)
(* and any clock.                                                              *)
THEOREM TimeIsKept == SchedulerSpec => SchedulerKeepsTime
<1>1. LoopInv /\ [SchedulerNext]_schedulerVars => LoopInv'
  <2>1. CASE UNCHANGED schedulerVars
    BY <2>1 DEF LoopInv, TimersMeetTheirFate, schedulerVars
  <2> QED
    BY <2>1, LoopStep
<1>2. LoopInv => SchedulerInOrder /\ SchedulerIdsAgree /\ TimersMeetTheirFate
  BY DEF LoopInv, Sched, SchedulerInOrder, SchedulerIdsAgree
<1>3. LoopInv /\ [SchedulerNext]_schedulerVars =>
        [\A n \in DOMAIN fate : fate[n] # "set" => fate'[n] = fate[n]]_schedulerVars
  BY LoopStep DEF Final
<1>4. LoopInv /\ [SchedulerNext]_schedulerVars =>
        [LET added == {t \in Range(scheduler'.tasks) : t.seq >= scheduler.seq /\ t.kind = "timer"}
             entry(t) == CHOOSE e \in scheduler.heap : e.id = t.id
         IN \A t, u \in added :
              t.seq < u.seq =>
                \/ entry(t).deadline < entry(u).deadline
                \/ entry(t).deadline = entry(u).deadline /\ entry(t).seq < entry(u).seq]_schedulerVars
  BY LoopStep DEF Stable, Added, Newer, IsTimer, Entry, Earlier
<1> QED
  BY <1>1, <1>2, <1>3, <1>4, LoopInit, PTL
     DEF SchedulerSpec, SchedulerKeepsTime, FateIsFinal, TimersAreStable

-----------------------------------------------------------------------------
(* S3-FIFO policy                                                            *)

Tiers    == {"none", "small", "main"}
Reasons  == {"none", "signalQuality", "fairness"}
Signals  == [ghostHit : BOOLEAN, rejected : BOOLEAN]

Policies ==
  [small : Seq(Keys), main : Seq(Keys), order : [1..MaxPolicyGen -> Keys \union {NoKey}],
   lookup : [Keys -> 0..MaxPolicyGen], gen : 0..MaxPolicyGen, tier : [Keys -> Tiers],
   owner : [Keys -> Owners \union {NoOwner}], count : [Owners -> Nat],
   signals : Seq(Signals), reason : Reasons]

(* A policy put together from its parts.                                     *)
Pol(sm, mn, og, lk, ge, ti, ow, co, si, re) ==
  [small |-> sm, main |-> mn, order |-> og, lookup |-> lk, gen |-> ge, tier |-> ti,
   owner |-> ow, count |-> co, signals |-> si, reason |-> re]

PolTypes(p) ==
  /\ p.small \in Seq(Keys) /\ p.main \in Seq(Keys)
  /\ p.order \in [1..MaxPolicyGen -> Keys \union {NoKey}]
  /\ p.lookup \in [Keys -> 0..MaxPolicyGen] /\ p.gen \in 0..MaxPolicyGen
  /\ p.tier \in [Keys -> Tiers] /\ p.owner \in [Keys -> Owners \union {NoOwner}]
  /\ p.count \in [Owners -> Nat] /\ p.signals \in Seq(Signals) /\ p.reason \in Reasons

(* A queue has the keys of its tier, once; a key in a queue has an owner.       *)
Holds(queue, tier, t) ==
  Distinct(queue) /\ Members(queue) = {k \in Keys : tier[k] = t}
Owned(tier, owner) == \A k \in Keys : tier[k] # "none" => owner[k] \in Owners

Placed(p) ==
  /\ Holds(p.small, p.tier, "small") /\ Holds(p.main, p.tier, "main")
  /\ Owned(p.tier, p.owner)

LiveOf(p, o) == {k \in Keys : p.tier[k] # "none" /\ p.owner[k] = o}
Counted(p) ==
  \A o \in Owners : IsFiniteSet(LiveOf(p, o)) /\ p.count[o] = Cardinality(LiveOf(p, o))

(* The maps of the ghosts are inverse, and generations given out are used up.   *)
GhostMaps(p) ==
  /\ \A k \in Keys, g \in 1..MaxPolicyGen : p.lookup[k] = g <=> p.order[g] = k
  /\ \A g \in 1..MaxPolicyGen : p.order[g] # NoKey => g <= p.gen
  /\ IsFiniteSet(PolicyGhosts(p))

AreDead(keys, tier) == \A k \in keys : tier[k] = "none"
GhostsAreDead(p) == AreDead(PolicyGhosts(p), p.tier)

InPlace(p) ==
  /\ p \in Policies /\ Placed(p) /\ Counted(p)
  /\ GhostMaps(p) /\ Cardinality(PolicyGhosts(p)) <= GhostSize /\ GhostsAreDead(p)

(* What the operations on ghosts leave alone.                                *)
SameQueues(p, q) ==
  /\ q.small = p.small /\ q.main = p.main /\ q.tier = p.tier /\ q.owner = p.owner
  /\ q.count = p.count /\ q.signals = p.signals /\ q.reason = p.reason

LEMMA PolFields ==
  ASSUME NEW sm, NEW mn, NEW og, NEW lk, NEW ge, NEW ti, NEW ow, NEW co, NEW si, NEW re,
         NEW p, p = Pol(sm, mn, og, lk, ge, ti, ow, co, si, re)
  PROVE  /\ p.small = sm /\ p.main = mn /\ p.order = og /\ p.lookup = lk /\ p.gen = ge
         /\ p.tier = ti /\ p.owner = ow /\ p.count = co /\ p.signals = si /\ p.reason = re
  BY DEF Pol

LEMMA PolForm ==
  ASSUME NEW p \in Policies
  PROVE  /\ PolTypes(p)
         /\ p = Pol(p.small, p.main, p.order, p.lookup, p.gen, p.tier, p.owner, p.count,
                    p.signals, p.reason)
  BY DEF Policies, PolTypes, Pol

LEMMA PolFormed ==
  ASSUME NEW p, PolTypes(p),
         p = Pol(p.small, p.main, p.order, p.lookup, p.gen, p.tier, p.owner, p.count,
                 p.signals, p.reason)
  PROVE  p \in Policies
  BY DEF Policies, PolTypes, Pol

-----------------------------------------------------------------------------
(* One ghost goes, from both maps.                                           *)
GhostGone(p, q, key) ==
  /\ q \in Policies /\ SameQueues(p, q) /\ q.gen = p.gen /\ GhostMaps(q)
  /\ PolicyGhosts(q) = PolicyGhosts(p) \ {key}

LEMMA GhostRemovedAgrees ==
  ASSUME NEW p \in Policies, GhostMaps(p), NEW key \in Keys, NEW q, q = RemoveGhost(p, key)
  PROVE  GhostGone(p, q, key)
<1>1. PolTypes(p) /\ NoKey \notin Keys /\ MaxPolicyGen \in Nat
  BY PolForm, PolicyConstants
<1>2. CASE p.lookup[key] = 0
  <2>1. q = p /\ PolicyGhosts(q) = PolicyGhosts(p) \ {key}
    BY <1>2 DEF RemoveGhost, PolicyGhosts
  <2> QED
    BY <2>1 DEF GhostGone, SameQueues
<1>3. CASE p.lookup[key] # 0
  <2>1. PICK g : g = p.lookup[key]
    OBVIOUS
  <2>2. g \in 1..MaxPolicyGen
    BY <1>1, <1>3, <2>1 DEF PolTypes
  <2>3. q = Pol(p.small, p.main, [p.order EXCEPT ![g] = NoKey], [p.lookup EXCEPT ![key] = 0],
                p.gen, p.tier, p.owner, p.count, p.signals, p.reason)
    BY <1>3, <2>1 DEF RemoveGhost, Policies, Pol
  <2>4. /\ q.order = [p.order EXCEPT ![g] = NoKey] /\ q.lookup = [p.lookup EXCEPT ![key] = 0]
        /\ q.gen = p.gen /\ SameQueues(p, q)
    BY <2>3, PolFields DEF SameQueues
  <2>5. /\ \A h \in 1..MaxPolicyGen : q.order[h] = IF h = g THEN NoKey ELSE p.order[h]
        /\ \A k \in Keys : q.lookup[k] = IF k = key THEN 0 ELSE p.lookup[k]
    BY <1>1, <2>2, <2>4 DEF PolTypes
  <2>6. q \in Policies
    <3>1. q.order \in [1..MaxPolicyGen -> Keys \union {NoKey}]
      BY <1>1, <2>4 DEF PolTypes
    <3>2. q.lookup \in [Keys -> 0..MaxPolicyGen]
      BY <1>1, <2>4 DEF PolTypes
    <3>3. PolTypes(q)
      BY <1>1, <2>4, <3>1, <3>2 DEF PolTypes, SameQueues
    <3> QED
      BY <2>3, <2>4, <3>3, PolFormed DEF SameQueues
  <2>7. PolicyGhosts(q) = PolicyGhosts(p) \ {key}
    BY <2>5 DEF PolicyGhosts
  <2>8. ASSUME NEW k \in Keys, NEW h \in 1..MaxPolicyGen
        PROVE  q.lookup[k] = h <=> q.order[h] = k
    <3>1. (p.lookup[k] = h <=> p.order[h] = k) /\ (p.lookup[key] = h <=> p.order[h] = key)
      BY DEF GhostMaps
    <3>2. p.order[g] = key
      BY <2>1, <2>2 DEF GhostMaps
    <3>3. h # 0 /\ k # NoKey
      BY <1>1
    <3>4. CASE h = g
      BY <2>1, <2>5, <3>1, <3>2, <3>3, <3>4
    <3>5. CASE h # g
      BY <2>1, <2>5, <3>1, <3>2, <3>3, <3>5
    <3> QED
      BY <3>4, <3>5
  <2>9. \A h \in 1..MaxPolicyGen : q.order[h] # NoKey => h <= q.gen
    BY <2>4, <2>5 DEF GhostMaps
  <2>10. IsFiniteSet(PolicyGhosts(q))
    BY <2>7, FS_RemoveElement DEF GhostMaps
  <2>11. GhostMaps(q)
    BY <2>8, <2>9, <2>10 DEF GhostMaps
  <2> QED
    BY <2>4, <2>6, <2>7, <2>11 DEF GhostGone
<1> QED
  BY <1>2, <1>3

(* A key becomes the newest ghost; generations may have started over.        *)
Stamped(p, q, key) ==
  /\ q \in Policies /\ SameQueues(p, q) /\ GhostMaps(q)
  /\ PolicyGhosts(q) = PolicyGhosts(p) \union {key} \/ PolicyGhosts(q) = {key}

LEMMA GhostsForgotten ==
  ASSUME NEW p \in Policies, NEW q,
         q = [p EXCEPT !.gen = 0, !.order = NewPolicy.order, !.lookup = NewPolicy.lookup]
  PROVE  q \in Policies /\ SameQueues(p, q) /\ GhostMaps(q) /\ PolicyGhosts(q) = {} /\ q.gen = 0
<1>1. PolTypes(p) /\ NoKey \notin Keys /\ MaxPolicyGen \in Nat
  BY PolForm, PolicyConstants
<1>2. PICK og, lk : og = [g \in 1..MaxPolicyGen |-> NoKey] /\ lk = [k \in Keys |-> 0]
  OBVIOUS
<1>3. NewPolicy.order = og /\ NewPolicy.lookup = lk
  BY <1>2 DEF NewPolicy
<1>4. q = Pol(p.small, p.main, og, lk, 0, p.tier, p.owner, p.count, p.signals, p.reason)
  BY <1>3 DEF Policies, Pol
<1>5. q.order = og /\ q.lookup = lk /\ q.gen = 0 /\ SameQueues(p, q)
  <2> PICK zero : zero = 0
    OBVIOUS
  <2>1. q = Pol(p.small, p.main, og, lk, zero, p.tier, p.owner, p.count, p.signals, p.reason)
    BY <1>4
  <2>2. q.order = og /\ q.lookup = lk /\ q.gen = zero
    BY ONLY <2>1, PolFields
  <2>3. SameQueues(p, q)
    BY ONLY <2>1, PolFields DEF SameQueues
  <2> QED
    BY <2>2, <2>3
<1>6. /\ \A g \in 1..MaxPolicyGen : q.order[g] = NoKey
      /\ \A k \in Keys : q.lookup[k] = 0
  BY <1>2, <1>5
<1>7. q \in Policies
  <2>1. og \in [1..MaxPolicyGen -> Keys \union {NoKey}] /\ lk \in [Keys -> 0..MaxPolicyGen]
    BY <1>1, <1>2
  <2>2. PolTypes(q)
    BY <1>1, <1>5, <2>1 DEF PolTypes, SameQueues
  <2>3. q = Pol(q.small, q.main, q.order, q.lookup, q.gen, q.tier, q.owner, q.count, q.signals, q.reason)
    BY <1>4, <1>5 DEF SameQueues
  <2> QED
    BY <2>2, <2>3, PolFormed
<1>8. PolicyGhosts(q) = {}
  BY <1>6 DEF PolicyGhosts
<1>9. \A k \in Keys, g \in 1..MaxPolicyGen : q.lookup[k] = g <=> q.order[g] = k
  BY <1>1, <1>6
<1> QED
  BY <1>5, <1>6, <1>7, <1>8, <1>9, FS_EmptySet DEF GhostMaps

LEMMA StampAgrees ==
  ASSUME NEW p \in Policies, GhostMaps(p), NEW key \in Keys, NEW n, n = StampGhost(p, key)
  PROVE  Stamped(p, n, key)
<1>0. MaxPolicyGen \in Nat \ {0} /\ NoKey \notin Keys
  BY PolicyConstants
<1>1. PICK q : q = IF p.gen = MaxPolicyGen
                   THEN [p EXCEPT !.gen = 0, !.order = NewPolicy.order, !.lookup = NewPolicy.lookup]
                   ELSE p
  OBVIOUS
<1>2. /\ q \in Policies /\ SameQueues(p, q) /\ GhostMaps(q) /\ q.gen < MaxPolicyGen
      /\ PolicyGhosts(q) = PolicyGhosts(p) \/ PolicyGhosts(q) = {}
  <2>1. CASE p.gen = MaxPolicyGen
    <3>1. q = [p EXCEPT !.gen = 0, !.order = NewPolicy.order, !.lookup = NewPolicy.lookup]
      BY <1>1, <2>1
    <3>2. q \in Policies /\ SameQueues(p, q) /\ GhostMaps(q) /\ PolicyGhosts(q) = {} /\ q.gen = 0
      BY <3>1, GhostsForgotten
    <3> QED
      BY <1>0, <3>2
  <2>2. CASE p.gen # MaxPolicyGen
    <3>1. p.gen \in 0..MaxPolicyGen
      BY PolForm DEF PolTypes
    <3> QED
      BY <1>0, <1>1, <2>2, <3>1 DEF SameQueues
  <2> QED
    BY <2>1, <2>2
<1>3. PICK r : r = RemoveGhost(q, key)
  OBVIOUS
<1>4. GhostGone(q, r, key)
  BY <1>2, <1>3, GhostRemovedAgrees
<1>5. /\ r \in Policies /\ PolTypes(r) /\ SameQueues(p, r) /\ r.gen = q.gen /\ GhostMaps(r)
      /\ PolicyGhosts(r) = PolicyGhosts(q) \ {key}
  BY <1>2, <1>4, PolForm DEF GhostGone, SameQueues
<1>6. PICK g : g = r.gen + 1
  OBVIOUS
<1>7. g \in 1..MaxPolicyGen /\ r.gen \in Nat
  BY <1>0, <1>2, <1>5, <1>6 DEF PolTypes
<1>8. n = Pol(r.small, r.main, [r.order EXCEPT ![g] = key], [r.lookup EXCEPT ![key] = g], g,
              r.tier, r.owner, r.count, r.signals, r.reason)
  <2>1. n = [r EXCEPT !.gen = @ + 1, !.order[r.gen + 1] = key, !.lookup[key] = r.gen + 1]
    BY <1>1, <1>3 DEF StampGhost
  <2> QED
    BY <1>5, <1>6, <2>1 DEF Policies, Pol
<1>9. /\ n.order = [r.order EXCEPT ![g] = key] /\ n.lookup = [r.lookup EXCEPT ![key] = g]
      /\ n.gen = g /\ SameQueues(r, n)
  BY <1>8, PolFields DEF SameQueues
<1>10. /\ \A h \in 1..MaxPolicyGen : n.order[h] = IF h = g THEN key ELSE r.order[h]
       /\ \A k \in Keys : n.lookup[k] = IF k = key THEN g ELSE r.lookup[k]
  BY <1>5, <1>7, <1>9 DEF PolTypes
<1>11. n \in Policies
  <2>1. /\ n.order \in [1..MaxPolicyGen -> Keys \union {NoKey}]
        /\ n.lookup \in [Keys -> 0..MaxPolicyGen]
    BY <1>5, <1>7, <1>9 DEF PolTypes
  <2> QED
    BY <1>5, <1>7, <1>8, <1>9, <2>1, PolFormed DEF PolTypes, SameQueues
<1>12. PolicyGhosts(n) = PolicyGhosts(r) \union {key}
  BY <1>7, <1>10 DEF PolicyGhosts
<1>13. ASSUME NEW k \in Keys, NEW h \in 1..MaxPolicyGen
       PROVE  n.lookup[k] = h <=> n.order[h] = k
  <2>1. r.lookup[k] = h <=> r.order[h] = k
    BY <1>5 DEF GhostMaps
  <2>2. r.order[g] = NoKey
    BY <1>5, <1>6, <1>7 DEF GhostMaps
  <2>3. r.lookup[k] # g
    BY <1>0, <1>5, <1>7, <2>2 DEF GhostMaps
  <2>4. r.order[h] # key
    <3>1. r.lookup[key] = 0
      BY <1>5 DEF PolicyGhosts
    <3> QED
      BY <1>5, <3>1 DEF GhostMaps
  <2> QED
    BY <1>10, <2>1, <2>3, <2>4
<1>14. \A h \in 1..MaxPolicyGen : n.order[h] # NoKey => h <= n.gen
  <2> SUFFICES ASSUME NEW h \in 1..MaxPolicyGen, n.order[h] # NoKey PROVE h <= n.gen
    OBVIOUS
  <2>1. CASE h = g
    BY <1>7, <1>9, <2>1
  <2>2. CASE h # g
    <3>1. h <= r.gen
      BY <1>5, <1>10, <2>2 DEF GhostMaps
    <3> QED
      BY <1>6, <1>7, <1>9, <3>1
  <2> QED
    BY <2>1, <2>2
<1>15. IsFiniteSet(PolicyGhosts(n))
  <2>1. IsFiniteSet(PolicyGhosts(r))
    BY <1>5 DEF GhostMaps
  <2> QED
    BY <1>12, <2>1, FS_AddElement
<1>16. GhostMaps(n)
  BY <1>13, <1>14, <1>15 DEF GhostMaps
<1>17. SameQueues(p, n)
  BY <1>5, <1>9 DEF SameQueues
<1>18. PolicyGhosts(n) = PolicyGhosts(p) \union {key} \/ PolicyGhosts(n) = {key}
  BY <1>2, <1>5, <1>12
<1> QED
  BY <1>11, <1>16, <1>17, <1>18 DEF Stamped

(* There is an oldest ghost if there is any.                                 *)
LEMMA OldestIsGhost ==
  ASSUME NEW p \in Policies, GhostMaps(p), PolicyGhosts(p) # {}
  PROVE  OldestGhost(p) \in PolicyGhosts(p)
<1> DEFINE T == {g \in 1..MaxPolicyGen : p.order[g] # NoKey}
<1>0. PolTypes(p) /\ NoKey \notin Keys /\ MaxPolicyGen \in Nat
  BY PolForm, PolicyConstants
<1>1. PICK k \in Keys : p.lookup[k] # 0
  BY DEF PolicyGhosts
<1>2. p.lookup[k] \in 1..MaxPolicyGen
  BY <1>0, <1>1 DEF PolTypes
<1>3. p.order[p.lookup[k]] = k
  BY <1>2 DEF GhostMaps
<1>4. T \in SUBSET Nat /\ p.lookup[k] \in T
  BY <1>0, <1>2, <1>3
<1>5. PICK least \in T : \A g \in T : least <= g
  <2> HIDE DEF T
  <2> QED
    BY <1>4, LeastExists
<1>6. /\ least \in 1..MaxPolicyGen /\ p.order[least] # NoKey
      /\ \A h \in 1..(least - 1) : p.order[h] = NoKey
  <2>1. least \in 1..MaxPolicyGen /\ p.order[least] # NoKey
    OBVIOUS
  <2>2. ASSUME NEW h \in 1..(least - 1) PROVE p.order[h] = NoKey
    <3>1. h \in 1..MaxPolicyGen /\ ~(least <= h)
      BY <1>0, <2>1
    <3> QED
      BY <1>5, <3>1
  <2> QED
    BY <2>1, <2>2
<1>7. PICK g \in 1..MaxPolicyGen : OldestGhost(p) = p.order[g] /\ p.order[g] # NoKey
  <2> DEFINE g == CHOOSE g \in 1..MaxPolicyGen :
                    p.order[g] # NoKey /\ \A h \in 1..(g - 1) : p.order[h] = NoKey
  <2>1. g \in 1..MaxPolicyGen /\ p.order[g] # NoKey
    BY <1>6
  <2>2. OldestGhost(p) = p.order[g]
    BY DEF OldestGhost
  <2> HIDE DEF g
  <2> QED
    BY <2>1, <2>2
<1>8. p.order[g] \in Keys
  BY <1>0, <1>7 DEF PolTypes
<1>9. p.lookup[p.order[g]] = g /\ g # 0
  BY <1>8 DEF GhostMaps
<1> QED
  BY <1>7, <1>8, <1>9 DEF PolicyGhosts

(* A key becomes a ghost, and the oldest one goes if there are too many.     *)
GhostPushed(p, q, key) ==
  /\ q \in Policies /\ SameQueues(p, q) /\ GhostMaps(q)
  /\ Cardinality(PolicyGhosts(q)) <= GhostSize
  /\ PolicyGhosts(q) \subseteq PolicyGhosts(p) \union {key}

LEMMA PushAgrees ==
  ASSUME NEW p \in Policies, GhostMaps(p), Cardinality(PolicyGhosts(p)) <= GhostSize,
         NEW key \in Keys, NEW q, q = PushGhost(p, key)
  PROVE  GhostPushed(p, q, key)
<1>0. GhostSize \in Nat \ {0}
  BY PolicyConstants
<1>1. PICK n : n = StampGhost(p, key)
  OBVIOUS
<1>2. Stamped(p, n, key)
  BY <1>1, StampAgrees
<1>3. /\ n \in Policies /\ SameQueues(p, n) /\ GhostMaps(n) /\ IsFiniteSet(PolicyGhosts(n))
      /\ PolicyGhosts(n) \subseteq PolicyGhosts(p) \union {key}
  BY <1>2 DEF Stamped, GhostMaps
<1>4. PICK G, H : G = PolicyGhosts(p) /\ H = PolicyGhosts(n)
  OBVIOUS
<1>5. /\ Cardinality(G) \in Nat /\ Cardinality(H) \in Nat /\ IsFiniteSet(H)
      /\ Cardinality(H) <= GhostSize + 1
  <2>1. IsFiniteSet(G) /\ IsFiniteSet(H) /\ Cardinality(G) <= GhostSize
    BY <1>3, <1>4 DEF GhostMaps
  <2>2. Cardinality(G) \in Nat /\ Cardinality(H) \in Nat
    BY <2>1, FS_CardinalityType
  <2>3. CASE H = G \union {key}
    <3>1. Cardinality(H) = IF key \in G THEN Cardinality(G) ELSE Cardinality(G) + 1
      BY <2>1, <2>3, FS_AddElement
    <3> QED
      BY <1>0, <2>1, <2>2, <3>1
  <2>4. CASE H = {key}
    <3>1. Cardinality(H) = 1
      BY <2>4, FS_Singleton
    <3> QED
      BY <1>0, <2>1, <2>2, <3>1
  <2> QED
    BY <1>2, <1>4, <2>3, <2>4 DEF Stamped
<1>6. q = IF Cardinality(H) > GhostSize THEN RemoveGhost(n, OldestGhost(n)) ELSE n
  BY <1>1, <1>4 DEF PushGhost
<1>7. CASE Cardinality(H) > GhostSize
  <2>1. PICK oldest : oldest = OldestGhost(n)
    OBVIOUS
  <2>2. H # {}
    BY <1>0, <1>7, FS_EmptySet
  <2>3. oldest \in H /\ oldest \in Keys
    BY <1>3, <1>4, <2>1, <2>2, OldestIsGhost DEF PolicyGhosts
  <2>4. GhostGone(n, q, oldest)
    BY <1>3, <1>6, <1>7, <2>1, <2>3, GhostRemovedAgrees
  <2>5. /\ q \in Policies /\ SameQueues(n, q) /\ GhostMaps(q)
        /\ PolicyGhosts(q) = H \ {oldest}
    BY <1>4, <2>4 DEF GhostGone
  <2>6. Cardinality(H \ {oldest}) = Cardinality(H) - 1
    BY <1>5, <2>3, FS_RemoveElement
  <2>7. Cardinality(PolicyGhosts(q)) <= GhostSize
    BY <1>0, <1>5, <2>5, <2>6
  <2>8. SameQueues(p, q)
    BY <1>3, <2>5 DEF SameQueues
  <2>9. PolicyGhosts(q) \subseteq PolicyGhosts(p) \union {key}
    BY <1>3, <1>4, <2>5
  <2> QED
    BY <2>5, <2>7, <2>8, <2>9 DEF GhostPushed
<1>8. CASE ~(Cardinality(H) > GhostSize)
  <2>1. q = n /\ Cardinality(H) <= GhostSize
    BY <1>0, <1>5, <1>6, <1>8
  <2> QED
    BY <1>3, <1>4, <2>1 DEF GhostPushed
<1> QED
  BY <1>7, <1>8

-----------------------------------------------------------------------------
IsLive(p, key) == p.tier[key] # "none"

(* What an owner's count has to do when one key changes.                     *)
ChangesAt(f, g, key, v) == \A k \in Keys : g[k] = IF k = key THEN v ELSE f[k]
OneLess(c, d, o) == d = [c EXCEPT ![o] = @ - 1]
OneMore(c, d, o) == d = [c EXCEPT ![o] = @ + 1]

CountedDown(p, u) ==
  /\ Counted(u) /\ u.count \in [Owners -> Nat]
  /\ \A x \in Owners : u.count[x] <= p.count[x]
CountedUp(p, u, o) ==
  /\ Counted(u) /\ u.count \in [Owners -> Nat]
  /\ \A x \in Owners : u.count[x] = IF x = o THEN p.count[x] + 1 ELSE p.count[x]

LEMMA CountDown ==
  ASSUME NEW p, NEW u, Counted(p), NEW key \in Keys, IsLive(p, key),
         NEW o \in Owners, p.owner[key] = o, p.count \in [Owners -> Nat],
         ChangesAt(p.tier, u.tier, key, "none"), ChangesAt(p.owner, u.owner, key, NoOwner),
         OneLess(p.count, u.count, o)
  PROVE  CountedDown(p, u)
<1>1. ASSUME NEW x \in Owners
      PROVE  /\ IsFiniteSet(LiveOf(u, x)) /\ u.count[x] = Cardinality(LiveOf(u, x))
             /\ u.count[x] \in Nat /\ u.count[x] <= p.count[x]
  <2>1. PICK L : L = LiveOf(p, x)
    OBVIOUS
  <2>2. IsFiniteSet(L) /\ p.count[x] = Cardinality(L) /\ p.count[x] \in Nat
    BY <2>1 DEF Counted
  <2>3. LiveOf(u, x) = L \ {key}
    BY <2>1, PolicyConstants DEF LiveOf, ChangesAt
  <2>4. /\ IsFiniteSet(L \ {key})
        /\ Cardinality(L \ {key}) = IF key \in L THEN Cardinality(L) - 1 ELSE Cardinality(L)
    BY <2>2, FS_RemoveElement
  <2>5. Cardinality(L \ {key}) \in Nat
    BY <2>4, FS_CardinalityType
  <2>6. key \in L <=> x = o
    BY <2>1 DEF LiveOf, IsLive
  <2>7. u.count[x] = IF x = o THEN p.count[x] - 1 ELSE p.count[x]
    BY DEF OneLess
  <2> QED
    BY <2>2, <2>3, <2>4, <2>5, <2>6, <2>7
<1>2. u.count \in [Owners -> Nat]
  <2>1. DOMAIN u.count = Owners /\ u.count = [x \in Owners |-> u.count[x]]
    BY DEF OneLess
  <2> QED
    BY <1>1, <2>1
<1> QED
  BY <1>1, <1>2 DEF Counted, CountedDown

LEMMA CountUp ==
  ASSUME NEW p, NEW u, Counted(p), NEW key \in Keys, p.tier[key] = "none",
         NEW o \in Owners, p.count \in [Owners -> Nat], NEW t, t # "none",
         ChangesAt(p.tier, u.tier, key, t), ChangesAt(p.owner, u.owner, key, o),
         OneMore(p.count, u.count, o)
  PROVE  CountedUp(p, u, o)
<1>1. ASSUME NEW x \in Owners
      PROVE  /\ IsFiniteSet(LiveOf(u, x)) /\ u.count[x] = Cardinality(LiveOf(u, x))
             /\ u.count[x] \in Nat
             /\ u.count[x] = IF x = o THEN p.count[x] + 1 ELSE p.count[x]
  <2>1. PICK L : L = LiveOf(p, x)
    OBVIOUS
  <2>2. IsFiniteSet(L) /\ p.count[x] = Cardinality(L) /\ p.count[x] \in Nat /\ key \notin L
    BY <2>1 DEF Counted, LiveOf
  <2>3. LiveOf(u, x) = IF x = o THEN L \union {key} ELSE L
    BY <2>1 DEF LiveOf, ChangesAt
  <2>4. /\ IsFiniteSet(L \union {key})
        /\ Cardinality(L \union {key}) = Cardinality(L) + 1
    BY <2>2, FS_AddElement
  <2>5. u.count[x] = IF x = o THEN p.count[x] + 1 ELSE p.count[x]
    BY DEF OneMore
  <2> QED
    BY <2>2, <2>3, <2>4, <2>5
<1>2. u.count \in [Owners -> Nat]
  <2>1. DOMAIN u.count = Owners /\ u.count = [x \in Owners |-> u.count[x]]
    BY DEF OneMore
  <2> QED
    BY <1>1, <2>1
<1> QED
  BY <1>1, <1>2 DEF Counted, CountedUp

SameLife(p, u) ==
  /\ u.owner = p.owner /\ u.count = p.count
  /\ \A k \in Keys : u.tier[k] = "none" <=> p.tier[k] = "none"

LEMMA CountSame ==
  ASSUME NEW p, NEW u, Counted(p), SameLife(p, u)
  PROVE  Counted(u)
<1>1. \A o \in Owners : LiveOf(u, o) = LiveOf(p, o)
  BY DEF LiveOf, SameLife
<1> QED
  BY <1>1 DEF Counted, SameLife

-----------------------------------------------------------------------------
(* The operations on the queues                                              *)

(* Whatever becomes of queues, tiers, owners and counts, if they fit and every *)
(* ghost is in no queue, the policy is in place; its ghosts are untouched.     *)
Rearranging(p, sm, mn, ti, ow, co, si, re, u) ==
  /\ InPlace(p) /\ sm \in Seq(Keys) /\ mn \in Seq(Keys) /\ ti \in [Keys -> Tiers]
  /\ ow \in [Keys -> Owners \union {NoOwner}] /\ co \in [Owners -> Nat]
  /\ si \in Seq(Signals) /\ re \in Reasons
  /\ u = Pol(sm, mn, p.order, p.lookup, p.gen, ti, ow, co, si, re)
  /\ Holds(sm, ti, "small") /\ Holds(mn, ti, "main") /\ Owned(ti, ow)
  /\ AreDead(PolicyGhosts(p), ti) /\ Counted(u)

LEMMA Rearranged ==
  ASSUME NEW p, NEW sm, NEW mn, NEW ti, NEW ow, NEW co, NEW si, NEW re, NEW u,
         Rearranging(p, sm, mn, ti, ow, co, si, re, u)
  PROVE  InPlace(u) /\ PolicyGhosts(u) = PolicyGhosts(p)
<1>0. /\ InPlace(p) /\ sm \in Seq(Keys) /\ mn \in Seq(Keys) /\ ti \in [Keys -> Tiers]
      /\ ow \in [Keys -> Owners \union {NoOwner}] /\ co \in [Owners -> Nat]
      /\ si \in Seq(Signals) /\ re \in Reasons
      /\ u = Pol(sm, mn, p.order, p.lookup, p.gen, ti, ow, co, si, re)
      /\ Holds(sm, ti, "small") /\ Holds(mn, ti, "main") /\ Owned(ti, ow)
      /\ AreDead(PolicyGhosts(p), ti) /\ Counted(u)
  BY DEF Rearranging
<1>1. p \in Policies /\ PolTypes(p)
  BY <1>0, PolForm DEF InPlace
<1>2. /\ u.small = sm /\ u.main = mn /\ u.order = p.order /\ u.lookup = p.lookup
      /\ u.gen = p.gen /\ u.tier = ti /\ u.owner = ow /\ u.count = co
      /\ u.signals = si /\ u.reason = re
  BY <1>0, PolFields
<1>3. u \in Policies
  <2>1. PolTypes(u)
    BY <1>0, <1>1, <1>2 DEF PolTypes
  <2> QED
    BY <1>0, <1>2, <2>1, PolFormed
<1>4. Placed(u)
  BY <1>0, <1>2 DEF Placed
<1>5. PolicyGhosts(u) = PolicyGhosts(p)
  BY <1>2 DEF PolicyGhosts
<1>6. GhostMaps(u) /\ Cardinality(PolicyGhosts(u)) <= GhostSize
  <2>1. GhostMaps(p) /\ Cardinality(PolicyGhosts(p)) <= GhostSize
    BY <1>0 DEF InPlace
  <2> QED
    BY <1>2, <1>5, <2>1 DEF GhostMaps
<1>7. GhostsAreDead(u)
  BY <1>0, <1>2, <1>5 DEF GhostsAreDead
<1> QED
  BY <1>0, <1>3, <1>4, <1>5, <1>6, <1>7 DEF InPlace

(* A policy whose ghosts changed and nothing else is in place if they are dead. *)
LEMMA GhostsChanged ==
  ASSUME NEW p, InPlace(p), NEW q \in Policies, SameQueues(p, q), GhostMaps(q),
         Cardinality(PolicyGhosts(q)) <= GhostSize,
         AreDead(PolicyGhosts(q), p.tier)
  PROVE  InPlace(q)
<1>1. Placed(p) /\ Counted(p)
  BY DEF InPlace
<1>2. Placed(q)
  BY <1>1 DEF Placed, SameQueues
<1>3. Counted(q)
  <2>1. \A o \in Owners : LiveOf(q, o) = LiveOf(p, o)
    BY DEF LiveOf, SameQueues
  <2> QED
    BY <1>1, <2>1 DEF Counted, SameQueues
<1>4. GhostsAreDead(q)
  BY DEF GhostsAreDead, SameQueues
<1> QED
  BY <1>2, <1>3, <1>4 DEF InPlace

(* A key leaves its queue and becomes a ghost.                               *)
Evicted(p, q) ==
  /\ InPlace(q) /\ q.signals = p.signals /\ q.reason = p.reason
  /\ \A o \in Owners : q.count[o] <= p.count[o]

Leaves(queue, left, key) ==
  Distinct(queue) => Distinct(left) /\ Members(left) = Members(queue) \ {key}

Dropping(p, key, o, ti, ow, co) ==
  /\ ti = [p.tier EXCEPT ![key] = "none"] /\ ow = [p.owner EXCEPT ![key] = NoOwner]
  /\ co = [p.count EXCEPT ![o] = @ - 1]

KeyGone(p, key, o, sm, mn, ti, ow, co, u) ==
  /\ InPlace(p) /\ key \in Keys /\ IsLive(p, key) /\ o = p.owner[key]
  /\ sm \in Seq(Keys) /\ Leaves(p.small, sm, key)
  /\ mn \in Seq(Keys) /\ Leaves(p.main, mn, key)
  /\ Dropping(p, key, o, ti, ow, co)
  /\ u = Pol(sm, mn, p.order, p.lookup, p.gen, ti, ow, co, p.signals, p.reason)

LEMMA KeyDropped ==
  ASSUME NEW p, NEW key, NEW o, NEW sm, NEW mn, NEW ti, NEW ow, NEW co, NEW u,
         KeyGone(p, key, o, sm, mn, ti, ow, co, u), NEW q, q = PushGhost(u, key)
  PROVE  Evicted(p, q) /\ q.small = sm /\ q.main = mn
<1>0. /\ InPlace(p) /\ key \in Keys /\ IsLive(p, key) /\ o = p.owner[key]
      /\ sm \in Seq(Keys) /\ Leaves(p.small, sm, key)
      /\ mn \in Seq(Keys) /\ Leaves(p.main, mn, key)
      /\ Dropping(p, key, o, ti, ow, co)
      /\ u = Pol(sm, mn, p.order, p.lookup, p.gen, ti, ow, co, p.signals, p.reason)
  BY DEF KeyGone
<1>1. PolTypes(p) /\ Placed(p) /\ Counted(p) /\ GhostsAreDead(p)
  BY <1>0, PolForm DEF InPlace
<1>2. o \in Owners
  BY <1>0, <1>1 DEF Placed, Owned, IsLive
<1>5. /\ u.small = sm /\ u.main = mn /\ u.tier = ti /\ u.owner = ow /\ u.count = co
      /\ u.signals = p.signals /\ u.reason = p.reason
  BY <1>0, PolFields
<1>6. /\ ti \in [Keys -> Tiers] /\ ow \in [Keys -> Owners \union {NoOwner}]
      /\ ChangesAt(p.tier, ti, key, "none") /\ ChangesAt(p.owner, ow, key, NoOwner)
      /\ OneLess(p.count, co, o)
  BY <1>0, <1>1 DEF PolTypes, Tiers, ChangesAt, Dropping, OneLess
<1>7. p.count \in [Owners -> Nat]
  BY <1>0, <1>1 DEF PolTypes
<1>8. CountedDown(p, u)
  <2>1. /\ ChangesAt(p.tier, u.tier, key, "none") /\ ChangesAt(p.owner, u.owner, key, NoOwner)
        /\ OneLess(p.count, u.count, o)
    BY <1>5, <1>6
  <2> QED
    BY <1>0, <1>1, <1>2, <1>7, <2>1, CountDown
<1>8a. /\ Counted(u) /\ co \in [Owners -> Nat]
       /\ \A x \in Owners : u.count[x] <= p.count[x]
  BY <1>5, <1>8 DEF CountedDown
<1>9. InPlace(u) /\ PolicyGhosts(u) = PolicyGhosts(p)
  <2>1. Holds(sm, ti, "small") /\ Holds(mn, ti, "main")
    BY <1>0, <1>1, <1>6 DEF Placed, Holds, Leaves, ChangesAt
  <2>2. Owned(ti, ow)
    BY <1>0, <1>1, <1>6 DEF Placed, Owned, ChangesAt
  <2>3. AreDead(PolicyGhosts(p), ti)
    BY <1>0, <1>1, <1>6 DEF GhostsAreDead, AreDead, ChangesAt, PolicyGhosts
  <2>4. p.signals \in Seq(Signals) /\ p.reason \in Reasons
    BY <1>0, <1>1 DEF PolTypes
  <2>5. Rearranging(p, sm, mn, ti, ow, co, p.signals, p.reason, u)
    BY <1>0, <1>6, <1>8a, <2>1, <2>2, <2>3, <2>4 DEF Rearranging
  <2> QED
    BY <2>5, Rearranged
<1>10. GhostPushed(u, q, key)
  <2>1. u \in Policies /\ GhostMaps(u) /\ Cardinality(PolicyGhosts(u)) <= GhostSize
    BY <1>9 DEF InPlace
  <2> QED
    BY <1>0, <2>1, PushAgrees
<1>11. /\ q \in Policies /\ SameQueues(u, q) /\ GhostMaps(q)
       /\ Cardinality(PolicyGhosts(q)) <= GhostSize
       /\ PolicyGhosts(q) \subseteq PolicyGhosts(u) \union {key}
  BY <1>10 DEF GhostPushed
<1>12. AreDead(PolicyGhosts(q), u.tier)
  <2>1. u.tier[key] = "none"
    BY <1>0, <1>5, <1>6 DEF ChangesAt
  <2>2. AreDead(PolicyGhosts(u), u.tier)
    BY <1>9 DEF InPlace, GhostsAreDead
  <2> QED
    BY <1>11, <2>1, <2>2 DEF AreDead
<1>13. InPlace(q)
  BY <1>9, <1>11, <1>12, GhostsChanged
<1>14. /\ q.small = sm /\ q.main = mn /\ q.signals = p.signals /\ q.reason = p.reason
       /\ q.count = u.count
  BY <1>5, <1>11 DEF SameQueues
<1> QED
  BY <1>8a, <1>13, <1>14 DEF Evicted

LEMMA EvictSmall ==
  ASSUME NEW p, InPlace(p), p.small # <<>>, NEW q, q = Evict(p, "small")
  PROVE  Evicted(p, q) /\ q.main = p.main /\ Len(q.small) = Len(p.small) - 1
<1>1. PolTypes(p) /\ Placed(p) /\ p \in Policies
  BY PolForm DEF InPlace
<1>2. PICK key, o : key = Head(p.small) /\ o = p.owner[key]
  OBVIOUS
<1>3. p.small \in Seq(Keys) /\ p.main \in Seq(Keys)
  BY <1>1 DEF PolTypes
<1>4. key \in Members(p.small) /\ key \in Keys
  BY <1>2, <1>3 DEF Members
<1>5. PICK sm : sm = Tail(p.small)
  OBVIOUS
<1>6. sm \in Seq(Keys) /\ Leaves(p.small, sm, key) /\ Len(sm) = Len(p.small) - 1
  BY <1>1, <1>2, <1>3, <1>5, MembersOfTail, HeadTailProperties DEF Placed, Holds, Leaves
<1>7. p.tier[key] = "small" /\ IsLive(p, key) /\ p.tier[key] # "main"
  BY <1>1, <1>4 DEF Placed, Holds, IsLive
<1>8. Leaves(p.main, p.main, key)
  BY <1>1, <1>7 DEF Placed, Holds, Leaves
<1>9. PICK u : u = [p EXCEPT !["small"] = Tail(@), !.tier[key] = "none", !.owner[key] = NoOwner,
                             !.count[p.owner[key]] = @ - 1]
  OBVIOUS
<1>10. PICK ti, ow, co : /\ ti = [p.tier EXCEPT ![key] = "none"]
                         /\ ow = [p.owner EXCEPT ![key] = NoOwner]
                         /\ co = [p.count EXCEPT ![o] = @ - 1]
  OBVIOUS
<1>11. Dropping(p, key, o, ti, ow, co)
  BY <1>10 DEF Dropping
<1>12. u = Pol(sm, p.main, p.order, p.lookup, p.gen, ti, ow, co, p.signals, p.reason)
  BY <1>1, <1>2, <1>5, <1>9, <1>10 DEF Policies, Pol
<1>13. q = PushGhost(u, key)
  BY <1>2, <1>9 DEF Evict
<1>14. Evicted(p, q) /\ q.small = sm /\ q.main = p.main
  <2>1. KeyGone(p, key, o, sm, p.main, ti, ow, co, u)
    BY <1>2, <1>3, <1>4, <1>6, <1>7, <1>8, <1>11, <1>12 DEF KeyGone
  <2> QED
    BY ONLY <2>1, <1>13, KeyDropped
<1> QED
  BY <1>6, <1>14

LEMMA EvictMain ==
  ASSUME NEW p, InPlace(p), p.main # <<>>, NEW q, q = Evict(p, "main")
  PROVE  Evicted(p, q) /\ q.small = p.small /\ Len(q.main) = Len(p.main) - 1
<1>1. PolTypes(p) /\ Placed(p) /\ p \in Policies
  BY PolForm DEF InPlace
<1>2. PICK key, o : key = Head(p.main) /\ o = p.owner[key]
  OBVIOUS
<1>3. p.small \in Seq(Keys) /\ p.main \in Seq(Keys)
  BY <1>1 DEF PolTypes
<1>4. key \in Members(p.main) /\ key \in Keys
  BY <1>2, <1>3 DEF Members
<1>5. PICK mn : mn = Tail(p.main)
  OBVIOUS
<1>6. mn \in Seq(Keys) /\ Leaves(p.main, mn, key) /\ Len(mn) = Len(p.main) - 1
  BY <1>1, <1>2, <1>3, <1>5, MembersOfTail, HeadTailProperties DEF Placed, Holds, Leaves
<1>7. p.tier[key] = "main" /\ IsLive(p, key) /\ p.tier[key] # "small"
  BY <1>1, <1>4 DEF Placed, Holds, IsLive
<1>8. Leaves(p.small, p.small, key)
  BY <1>1, <1>7 DEF Placed, Holds, Leaves
<1>9. PICK u : u = [p EXCEPT !["main"] = Tail(@), !.tier[key] = "none", !.owner[key] = NoOwner,
                             !.count[p.owner[key]] = @ - 1]
  OBVIOUS
<1>10. PICK ti, ow, co : /\ ti = [p.tier EXCEPT ![key] = "none"]
                         /\ ow = [p.owner EXCEPT ![key] = NoOwner]
                         /\ co = [p.count EXCEPT ![o] = @ - 1]
  OBVIOUS
<1>11. Dropping(p, key, o, ti, ow, co)
  BY <1>10 DEF Dropping
<1>12. u = Pol(p.small, mn, p.order, p.lookup, p.gen, ti, ow, co, p.signals, p.reason)
  BY <1>1, <1>2, <1>5, <1>9, <1>10 DEF Policies, Pol
<1>13. q = PushGhost(u, key)
  BY <1>2, <1>9 DEF Evict
<1>14. Evicted(p, q) /\ q.main = mn /\ q.small = p.small
  <2>1. KeyGone(p, key, o, p.small, mn, ti, ow, co, u)
    BY <1>2, <1>3, <1>4, <1>6, <1>7, <1>8, <1>11, <1>12 DEF KeyGone
  <2> QED
    BY ONLY <2>1, <1>13, KeyDropped
<1> QED
  BY <1>6, <1>14

-----------------------------------------------------------------------------
(* A key that is in no queue joins one.                                      *)
Joins(queue, joined, key) ==
  Distinct(queue) /\ key \notin Members(queue)
    => Distinct(joined) /\ Members(joined) = Members(queue) \union {key}

Grown(p, u, o) ==
  /\ InPlace(u) /\ u.signals = p.signals /\ u.reason = p.reason
  /\ \A x \in Owners : u.count[x] = IF x = o THEN p.count[x] + 1 ELSE p.count[x]

Admitting(p, key, o, t, ti, ow, co) ==
  /\ ti = [p.tier EXCEPT ![key] = t] /\ ow = [p.owner EXCEPT ![key] = o]
  /\ co = [p.count EXCEPT ![o] = @ + 1]

KeyCome(p, key, o, t, sm, mn, ti, ow, co, u) ==
  /\ InPlace(p) /\ key \in Keys /\ ~IsLive(p, key) /\ key \notin PolicyGhosts(p)
  /\ o \in Owners /\ t \in {"small", "main"}
  /\ sm \in Seq(Keys) /\ IF t = "small" THEN Joins(p.small, sm, key) ELSE sm = p.small
  /\ mn \in Seq(Keys) /\ IF t = "main" THEN Joins(p.main, mn, key) ELSE mn = p.main
  /\ Admitting(p, key, o, t, ti, ow, co)
  /\ u = Pol(sm, mn, p.order, p.lookup, p.gen, ti, ow, co, p.signals, p.reason)

LEMMA KeyAdmitted ==
  ASSUME NEW p, NEW key, NEW o, NEW t, NEW sm, NEW mn, NEW ti, NEW ow, NEW co, NEW u,
         KeyCome(p, key, o, t, sm, mn, ti, ow, co, u)
  PROVE  Grown(p, u, o) /\ u.small = sm /\ u.main = mn
<1>0. /\ InPlace(p) /\ key \in Keys /\ p.tier[key] = "none" /\ key \notin PolicyGhosts(p)
      /\ o \in Owners /\ t \in {"small", "main"}
      /\ sm \in Seq(Keys) /\ IF t = "small" THEN Joins(p.small, sm, key) ELSE sm = p.small
      /\ mn \in Seq(Keys) /\ IF t = "main" THEN Joins(p.main, mn, key) ELSE mn = p.main
      /\ Admitting(p, key, o, t, ti, ow, co)
      /\ u = Pol(sm, mn, p.order, p.lookup, p.gen, ti, ow, co, p.signals, p.reason)
  BY DEF KeyCome, IsLive
<1>1. PolTypes(p) /\ Placed(p) /\ Counted(p) /\ GhostsAreDead(p)
  BY <1>0, PolForm DEF InPlace
<1>2. /\ u.small = sm /\ u.main = mn /\ u.tier = ti /\ u.owner = ow /\ u.count = co
      /\ u.signals = p.signals /\ u.reason = p.reason
  BY <1>0, PolFields
<1>3. /\ ti \in [Keys -> Tiers] /\ ow \in [Keys -> Owners \union {NoOwner}]
      /\ ChangesAt(p.tier, ti, key, t) /\ ChangesAt(p.owner, ow, key, o)
      /\ OneMore(p.count, co, o)
  BY <1>0, <1>1 DEF PolTypes, Tiers, ChangesAt, Admitting, OneMore
<1>4. CountedUp(p, u, o)
  <2>1. /\ ChangesAt(p.tier, u.tier, key, t) /\ ChangesAt(p.owner, u.owner, key, o)
        /\ OneMore(p.count, u.count, o)
    BY <1>2, <1>3
  <2>2. p.count \in [Owners -> Nat] /\ t # "none" /\ ~IsLive(p, key)
    BY <1>0, <1>1 DEF PolTypes, IsLive
  <2> QED
    BY <1>0, <1>1, <2>1, <2>2, CountUp
<1>5. /\ Counted(u) /\ co \in [Owners -> Nat]
      /\ \A x \in Owners : u.count[x] = IF x = o THEN p.count[x] + 1 ELSE p.count[x]
  BY <1>2, <1>4 DEF CountedUp
<1>6. key \notin Members(p.small) /\ key \notin Members(p.main)
  BY <1>0, <1>1 DEF Placed, Holds
<1>7. Holds(sm, ti, "small") /\ Holds(mn, ti, "main")
  <2>1. CASE t = "small"
    <3>1. Members(sm) = Members(p.small) \union {key} /\ Distinct(sm) /\ mn = p.main
      BY <1>0, <1>1, <1>6, <2>1 DEF Joins, Placed, Holds
    <3> QED
      BY <1>0, <1>1, <1>3, <2>1, <3>1 DEF Placed, Holds, ChangesAt
  <2>2. CASE t = "main"
    <3>1. Members(mn) = Members(p.main) \union {key} /\ Distinct(mn) /\ sm = p.small
      BY <1>0, <1>1, <1>6, <2>2 DEF Joins, Placed, Holds
    <3> QED
      BY <1>0, <1>1, <1>3, <2>2, <3>1 DEF Placed, Holds, ChangesAt
  <2> QED
    BY <1>0, <2>1, <2>2
<1>8. Owned(ti, ow)
  BY <1>0, <1>1, <1>3 DEF Placed, Owned, ChangesAt
<1>9. AreDead(PolicyGhosts(p), ti)
  BY <1>0, <1>1, <1>3 DEF GhostsAreDead, AreDead, ChangesAt, PolicyGhosts
<1>10. p.signals \in Seq(Signals) /\ p.reason \in Reasons
  BY <1>1 DEF PolTypes
<1>11. InPlace(u)
  <2>1. Rearranging(p, sm, mn, ti, ow, co, p.signals, p.reason, u)
    BY <1>0, <1>3, <1>5, <1>7, <1>8, <1>9, <1>10 DEF Rearranging
  <2> QED
    BY <2>1, Rearranged
<1> QED
  BY <1>2, <1>5, <1>11 DEF Grown

(* A key that is a ghost no longer can be admitted.                          *)
LEMMA GhostTaken ==
  ASSUME NEW p, InPlace(p), NEW key \in Keys, NEW q, q = RemoveGhost(p, key)
  PROVE  InPlace(q) /\ SameQueues(p, q) /\ key \notin PolicyGhosts(q)
<1>1. p \in Policies /\ GhostMaps(p) /\ IsFiniteSet(PolicyGhosts(p))
  BY DEF InPlace, GhostMaps
<1>2. GhostGone(p, q, key)
  BY <1>1, GhostRemovedAgrees
<1>3. /\ q \in Policies /\ SameQueues(p, q) /\ GhostMaps(q)
      /\ PolicyGhosts(q) = PolicyGhosts(p) \ {key}
  BY <1>2 DEF GhostGone
<1>4. Cardinality(PolicyGhosts(q)) <= GhostSize
  <2>1. PICK G : G = PolicyGhosts(p)
    OBVIOUS
  <2>2. IsFiniteSet(G) /\ Cardinality(G) <= GhostSize /\ Cardinality(G) \in Nat /\ GhostSize \in Nat
    BY <1>1, <2>1, FS_CardinalityType, PolicyConstants DEF InPlace
  <2>3. Cardinality(G \ {key}) = IF key \in G THEN Cardinality(G) - 1 ELSE Cardinality(G)
    BY <2>2, FS_RemoveElement
  <2> QED
    BY <1>3, <2>1, <2>2, <2>3
<1>5. AreDead(PolicyGhosts(q), p.tier)
  BY <1>3 DEF InPlace, GhostsAreDead, AreDead
<1>6. InPlace(q)
  BY <1>3, <1>4, <1>5, GhostsChanged
<1> QED
  BY <1>3, <1>6

LEMMA LiveSmall ==
  ASSUME NEW p, InPlace(p), NEW key \in Keys, ~IsLive(p, key), key \notin PolicyGhosts(p),
         NEW o \in Owners, NEW u, u = Live(p, key, o, "small")
  PROVE  Grown(p, u, o) /\ Len(u.small) = Len(p.small) + 1 /\ u.main = p.main
<1>1. PolTypes(p) /\ p \in Policies
  BY PolForm DEF InPlace
<1>2. p.small \in Seq(Keys) /\ p.main \in Seq(Keys)
  BY <1>1 DEF PolTypes
<1>3. PICK sm : sm = Append(p.small, key)
  OBVIOUS
<1>4. sm \in Seq(Keys) /\ Joins(p.small, sm, key) /\ Len(sm) = Len(p.small) + 1
  BY <1>2, <1>3, MembersOfAppend DEF Joins
<1>5. PICK ti, ow, co : Admitting(p, key, o, "small", ti, ow, co)
  BY DEF Admitting
<1>6. u = Pol(sm, p.main, p.order, p.lookup, p.gen, ti, ow, co, p.signals, p.reason)
  BY <1>1, <1>3, <1>5 DEF Live, Admitting, Policies, Pol
<1>7. KeyCome(p, key, o, "small", sm, p.main, ti, ow, co, u)
  BY <1>2, <1>4, <1>5, <1>6 DEF KeyCome
<1>8. Grown(p, u, o) /\ u.small = sm /\ u.main = p.main
  BY ONLY <1>7, KeyAdmitted
<1> QED
  BY <1>4, <1>8

LEMMA LiveMain ==
  ASSUME NEW p, InPlace(p), NEW key \in Keys, ~IsLive(p, key), key \notin PolicyGhosts(p),
         NEW o \in Owners, NEW u, u = Live(p, key, o, "main")
  PROVE  Grown(p, u, o) /\ Len(u.main) = Len(p.main) + 1 /\ u.small = p.small
<1>1. PolTypes(p) /\ p \in Policies
  BY PolForm DEF InPlace
<1>2. p.small \in Seq(Keys) /\ p.main \in Seq(Keys)
  BY <1>1 DEF PolTypes
<1>3. PICK mn : mn = Append(p.main, key)
  OBVIOUS
<1>4. mn \in Seq(Keys) /\ Joins(p.main, mn, key) /\ Len(mn) = Len(p.main) + 1
  BY <1>2, <1>3, MembersOfAppend DEF Joins
<1>5. PICK ti, ow, co : Admitting(p, key, o, "main", ti, ow, co)
  BY DEF Admitting
<1>6. u = Pol(p.small, mn, p.order, p.lookup, p.gen, ti, ow, co, p.signals, p.reason)
  BY <1>1, <1>3, <1>5 DEF Live, Admitting, Policies, Pol
<1>7. KeyCome(p, key, o, "main", p.small, mn, ti, ow, co, u)
  BY <1>2, <1>4, <1>5, <1>6 DEF KeyCome
<1>8. Grown(p, u, o) /\ u.small = p.small /\ u.main = mn
  BY ONLY <1>7, KeyAdmitted
<1> QED
  BY <1>4, <1>8

-----------------------------------------------------------------------------
(* The decisions                                                             *)

Fits(p)     == Len(p.small) <= SmallSize /\ Len(p.main) <= MainSize
InBudget(p) == \A o \in Owners : p.count[o] <= OwnerBudget

(* A decision leaves a policy in place, within its capacities, and does not     *)
(* judge itself.                                                             *)
Decided(p, q) ==
  InPlace(q) /\ Fits(q) /\ InBudget(q) /\ q.signals = p.signals /\ q.reason = p.reason

LEMMA SmallEnforced ==
  ASSUME NEW p, InPlace(p), Len(p.small) <= SmallSize + 1, Len(p.main) <= MainSize,
         NEW q, q = EnforceSmall(p)
  PROVE  Evicted(p, q) /\ Fits(q)
<1>1. /\ p.small \in Seq(Keys) /\ p.main \in Seq(Keys) /\ p.count \in [Owners -> Nat]
      /\ SmallSize \in Nat
  BY PolForm, PolicyConstants DEF InPlace, PolTypes
<1>2. CASE Len(p.small) > SmallSize
  <2>1. p.small # <<>> /\ q = Evict(p, "small")
    BY <1>1, <1>2 DEF EnforceSmall
  <2>2. Evicted(p, q) /\ q.main = p.main /\ Len(q.small) = Len(p.small) - 1
    BY <2>1, EvictSmall
  <2> QED
    BY <1>1, <2>2 DEF Fits
<1>3. CASE ~(Len(p.small) > SmallSize)
  <2>1. q = p /\ Fits(q)
    BY <1>1, <1>3 DEF EnforceSmall, Fits
  <2> QED
    BY <1>1, <2>1 DEF Evicted
<1> QED
  BY <1>2, <1>3

LEMMA MainEnforced ==
  ASSUME NEW p, InPlace(p), Len(p.small) <= SmallSize, Len(p.main) <= MainSize + 1,
         NEW q, q = EnforceMain(p)
  PROVE  Evicted(p, q) /\ Fits(q)
<1>1. /\ p.small \in Seq(Keys) /\ p.main \in Seq(Keys) /\ p.count \in [Owners -> Nat]
      /\ MainSize \in Nat
  BY PolForm, PolicyConstants DEF InPlace, PolTypes, MainSize
<1>2. CASE Len(p.main) > MainSize
  <2>1. p.main # <<>> /\ q = Evict(p, "main")
    BY <1>1, <1>2 DEF EnforceMain
  <2>2. Evicted(p, q) /\ q.small = p.small /\ Len(q.main) = Len(p.main) - 1
    BY <2>1, EvictMain
  <2> QED
    BY <1>1, <2>2 DEF Fits
<1>3. CASE ~(Len(p.main) > MainSize)
  <2>1. q = p /\ Fits(q)
    BY <1>1, <1>3 DEF EnforceMain, Fits
  <2> QED
    BY <1>1, <2>1 DEF Evicted
<1> QED
  BY <1>2, <1>3

(* An owner below its budget is within it after one more key.                *)
LEMMA GrownInBudget ==
  ASSUME NEW p, PolTypes(p), InBudget(p), NEW o \in Owners, ~AtBudget(p, o),
         NEW r, SameQueues(p, r), NEW u, Grown(r, u, o), NEW q, Evicted(u, q), Fits(q)
  PROVE  Decided(p, q)
<1>1. /\ OwnerBudget \in Nat /\ p.count \in [Owners -> Nat] /\ r.count = p.count
      /\ InPlace(u) /\ InPlace(q)
  BY PolicyConstants DEF PolTypes, SameQueues, Grown, Evicted
<1>2. u.count \in [Owners -> Nat] /\ q.count \in [Owners -> Nat]
  BY <1>1, PolForm DEF InPlace, PolTypes
<1>3. ASSUME NEW x \in Owners PROVE q.count[x] <= OwnerBudget
  <2>1. /\ u.count[x] = IF x = o THEN p.count[x] + 1 ELSE p.count[x]
        /\ q.count[x] <= u.count[x] /\ p.count[x] <= OwnerBudget
        /\ ~(p.count[o] >= OwnerBudget)
    BY <1>1 DEF Grown, Evicted, InBudget, AtBudget
  <2>2. q.count[x] \in Nat /\ u.count[x] \in Nat /\ p.count[x] \in Nat /\ p.count[o] \in Nat
    BY <1>1, <1>2
  <2> QED
    BY <1>1, <2>1, <2>2
<1>4. q.signals = p.signals /\ q.reason = p.reason
  BY DEF Evicted, Grown, SameQueues
<1> QED
  BY <1>1, <1>3, <1>4 DEF Decided, InBudget

LEMMA SmallAdmitted ==
  ASSUME NEW p, InPlace(p), Fits(p), InBudget(p), NEW o \in Owners, NEW key \in Keys,
         ~IsLive(p, key), ~AtBudget(p, o), NEW q, q = AdmitSmall(p, o, key)
  PROVE  Decided(p, q)
<1>1. PICK r, u : r = RemoveGhost(p, key) /\ u = Live(r, key, o, "small")
  OBVIOUS
<1>2. InPlace(r) /\ SameQueues(p, r) /\ key \notin PolicyGhosts(r)
  BY <1>1, GhostTaken
<1>3. ~IsLive(r, key) /\ Len(r.small) <= SmallSize /\ Len(r.main) <= MainSize
  BY <1>2 DEF IsLive, SameQueues, Fits
<1>4. Grown(r, u, o) /\ Len(u.small) = Len(r.small) + 1 /\ u.main = r.main
  BY <1>1, <1>2, <1>3, LiveSmall
<1>5. Evicted(u, q) /\ Fits(q)
  <2>1. q = EnforceSmall(u)
    BY <1>1 DEF AdmitSmall
  <2>2. r.small \in Seq(Keys) /\ SmallSize \in Nat /\ InPlace(u)
    BY <1>2, <1>4, PolForm, PolicyConstants DEF InPlace, PolTypes, Grown
  <2>3. Len(u.small) <= SmallSize + 1 /\ Len(u.main) <= MainSize
    BY <1>3, <1>4, <2>2
  <2> QED
    BY <2>1, <2>2, <2>3, SmallEnforced
<1>6. PolTypes(p)
  BY PolForm DEF InPlace
<1> QED
  BY <1>2, <1>4, <1>5, <1>6, GrownInBudget

LEMMA GhostAdmitted ==
  ASSUME NEW p, InPlace(p), Fits(p), InBudget(p), NEW o \in Owners, NEW key \in Keys,
         ~IsLive(p, key), ~AtBudget(p, o), NEW q, q = AdmitFromGhost(p, o, key)
  PROVE  Decided(p, q)
<1>1. PICK r, u : r = RemoveGhost(p, key) /\ u = Live(r, key, o, "main")
  OBVIOUS
<1>2. InPlace(r) /\ SameQueues(p, r) /\ key \notin PolicyGhosts(r)
  BY <1>1, GhostTaken
<1>3. ~IsLive(r, key) /\ Len(r.small) <= SmallSize /\ Len(r.main) <= MainSize
  BY <1>2 DEF IsLive, SameQueues, Fits
<1>4. Grown(r, u, o) /\ Len(u.main) = Len(r.main) + 1 /\ u.small = r.small
  BY <1>1, <1>2, <1>3, LiveMain
<1>5. Evicted(u, q) /\ Fits(q)
  <2>1. q = EnforceMain(u)
    BY <1>1 DEF AdmitFromGhost
  <2>2. r.main \in Seq(Keys) /\ MainSize \in Nat /\ InPlace(u)
    BY <1>2, <1>4, PolForm, PolicyConstants DEF InPlace, PolTypes, Grown, MainSize
  <2>3. Len(u.main) <= MainSize + 1 /\ Len(u.small) <= SmallSize
    BY <1>3, <1>4, <2>2
  <2> QED
    BY <2>1, <2>2, <2>3, MainEnforced
<1>6. PolTypes(p)
  BY PolForm DEF InPlace
<1> QED
  BY <1>2, <1>4, <1>5, <1>6, GrownInBudget

(* A key that is asked for again moves to the back of the protected queue.    *)
KeyMoved(p, u) ==
  /\ InPlace(u) /\ u.count = p.count /\ u.signals = p.signals /\ u.reason = p.reason

Moving(p, key, sm, mn, ti, u) ==
  /\ InPlace(p) /\ key \in Keys /\ IsLive(p, key) /\ ti = [p.tier EXCEPT ![key] = "main"]
  /\ sm \in Seq(Keys) /\ Distinct(sm) /\ Members(sm) = Members(p.small) \ {key}
  /\ mn \in Seq(Keys) /\ Distinct(mn) /\ Members(mn) = Members(p.main) \union {key}
  /\ u = Pol(sm, mn, p.order, p.lookup, p.gen, ti, p.owner, p.count, p.signals, p.reason)

LEMMA KeyAgain ==
  ASSUME NEW p, NEW key, NEW sm, NEW mn, NEW ti, NEW u, Moving(p, key, sm, mn, ti, u)
  PROVE  KeyMoved(p, u) /\ u.small = sm /\ u.main = mn
<1>0. /\ InPlace(p) /\ key \in Keys /\ IsLive(p, key) /\ ti = [p.tier EXCEPT ![key] = "main"]
      /\ sm \in Seq(Keys) /\ Distinct(sm) /\ Members(sm) = Members(p.small) \ {key}
      /\ mn \in Seq(Keys) /\ Distinct(mn) /\ Members(mn) = Members(p.main) \union {key}
      /\ u = Pol(sm, mn, p.order, p.lookup, p.gen, ti, p.owner, p.count, p.signals, p.reason)
  BY DEF Moving
<1>1. PolTypes(p) /\ Placed(p) /\ Counted(p) /\ GhostsAreDead(p)
  BY <1>0, PolForm DEF InPlace
<1>2. /\ u.small = sm /\ u.main = mn /\ u.tier = ti /\ u.owner = p.owner /\ u.count = p.count
      /\ u.signals = p.signals /\ u.reason = p.reason
  BY <1>0, PolFields
<1>3. ti \in [Keys -> Tiers] /\ ChangesAt(p.tier, ti, key, "main")
  BY <1>0, <1>1 DEF PolTypes, Tiers, ChangesAt
<1>4. Counted(u)
  <2>1. SameLife(p, u)
    BY <1>0, <1>2, <1>3 DEF ChangesAt, IsLive, SameLife
  <2> QED
    BY <1>1, <1>2, <2>1, CountSame
<1>5. Holds(sm, ti, "small") /\ Holds(mn, ti, "main")
  BY <1>0, <1>1, <1>3 DEF Placed, Holds, ChangesAt
<1>6. Owned(ti, p.owner)
  BY <1>0, <1>1, <1>3 DEF Placed, Owned, ChangesAt, IsLive
<1>7. AreDead(PolicyGhosts(p), ti)
  BY <1>0, <1>1, <1>3 DEF GhostsAreDead, AreDead, ChangesAt, PolicyGhosts, IsLive
<1>8. /\ p.signals \in Seq(Signals) /\ p.reason \in Reasons /\ p.count \in [Owners -> Nat]
      /\ p.owner \in [Keys -> Owners \union {NoOwner}]
  BY <1>1 DEF PolTypes
<1>9. InPlace(u)
  <2>1. Rearranging(p, sm, mn, ti, p.owner, p.count, p.signals, p.reason, u)
    BY <1>0, <1>3, <1>4, <1>5, <1>6, <1>7, <1>8 DEF Rearranging
  <2> QED
    BY <2>1, Rearranged
<1> QED
  BY <1>2, <1>9 DEF KeyMoved

LEMMA Promoted ==
  ASSUME NEW p, InPlace(p), Fits(p), InBudget(p), NEW key \in Keys, p.tier[key] = "small",
         NEW q, q = PromoteSmallToMain(p, key)
  PROVE  Decided(p, q)
<1>1. PolTypes(p) /\ Placed(p) /\ p \in Policies
  BY PolForm DEF InPlace
<1>2. p.small \in Seq(Keys) /\ p.main \in Seq(Keys) /\ SmallSize \in Nat /\ MainSize \in Nat
  BY <1>1, PolicyConstants DEF PolTypes, MainSize
<1>3. IsLive(p, key) /\ key \in Members(p.small) /\ key \notin Members(p.main)
  BY <1>1 DEF IsLive, Placed, Holds
<1>4. PICK sm, mn, ti : /\ sm = Without(p.small, {key}) /\ mn = Append(p.main, key)
                        /\ ti = [p.tier EXCEPT ![key] = "main"]
  OBVIOUS
<1>5. /\ sm \in Seq(Keys) /\ Distinct(sm) /\ Members(sm) = Members(p.small) \ {key}
      /\ Len(sm) = Len(p.small) - 1
  BY <1>1, <1>2, <1>3, <1>4, WithoutKeeps, LengthWithoutOne DEF Placed, Holds
<1>6. /\ mn \in Seq(Keys) /\ Distinct(mn) /\ Members(mn) = Members(p.main) \union {key}
      /\ Len(mn) = Len(p.main) + 1
  BY <1>1, <1>2, <1>3, <1>4, MembersOfAppend DEF Placed, Holds
<1>7. PICK u : u = [p EXCEPT !.small = Without(@, {key}), !.main = Append(@, key),
                             !.tier[key] = "main"]
  OBVIOUS
<1>8. q = EnforceMain(u)
  BY <1>7 DEF PromoteSmallToMain
<1>9. KeyMoved(p, u) /\ u.small = sm /\ u.main = mn
  <2>1. u = Pol(sm, mn, p.order, p.lookup, p.gen, ti, p.owner, p.count, p.signals, p.reason)
    BY <1>1, <1>4, <1>7 DEF Policies, Pol
  <2>2. Moving(p, key, sm, mn, ti, u)
    BY <1>3, <1>4, <1>5, <1>6, <2>1 DEF Moving
  <2> QED
    BY <2>2, KeyAgain
<1>10. Evicted(u, q) /\ Fits(q)
  <2>1. InPlace(u) /\ Len(u.small) <= SmallSize /\ Len(u.main) <= MainSize + 1
    BY <1>2, <1>5, <1>6, <1>9 DEF KeyMoved, Fits
  <2> QED
    BY <1>8, <2>1, MainEnforced
<1>11. InBudget(q)
  <2>1. /\ OwnerBudget \in Nat /\ p.count \in [Owners -> Nat] /\ u.count = p.count /\ InPlace(q)
        /\ \A x \in Owners : q.count[x] <= u.count[x]
    BY <1>1, <1>9, <1>10, PolicyConstants DEF PolTypes, KeyMoved, Evicted
  <2>2. q.count \in [Owners -> Nat]
    BY <2>1, PolForm DEF InPlace, PolTypes
  <2>3. ASSUME NEW x \in Owners PROVE q.count[x] <= OwnerBudget
    <3>1. /\ q.count[x] \in Nat /\ p.count[x] \in Nat /\ p.count[x] <= OwnerBudget
          /\ q.count[x] <= p.count[x]
      BY <2>1, <2>2 DEF InBudget
    <3> QED
      BY <2>1, <3>1
  <2> QED
    BY <2>3 DEF InBudget
<1> QED
  BY <1>9, <1>10, <1>11 DEF Decided, Evicted, KeyMoved

LEMMA Touched ==
  ASSUME NEW p, InPlace(p), Fits(p), InBudget(p), NEW key \in Keys, p.tier[key] = "main",
         NEW q, q = TouchMain(p, key)
  PROVE  Decided(p, q)
<1>1. PolTypes(p) /\ Placed(p) /\ p \in Policies
  BY PolForm DEF InPlace
<1>2. p.small \in Seq(Keys) /\ p.main \in Seq(Keys) /\ p.tier \in [Keys -> Tiers]
  BY <1>1 DEF PolTypes
<1>3. IsLive(p, key) /\ key \in Members(p.main) /\ key \notin Members(p.small)
  BY <1>1 DEF IsLive, Placed, Holds
<1>4. PICK kept, mn, ti : /\ kept = Without(p.main, {key}) /\ mn = Append(kept, key)
                          /\ ti = [p.tier EXCEPT ![key] = "main"]
  OBVIOUS
<1>5. /\ kept \in Seq(Keys) /\ Distinct(kept) /\ Members(kept) = Members(p.main) \ {key}
      /\ Len(kept) = Len(p.main) - 1
  <2>1. Distinct(p.main)
    BY <1>1 DEF Placed, Holds
  <2>2. kept \in Seq(Keys) /\ Distinct(kept) /\ Members(kept) = Members(p.main) \ {key}
    BY <1>2, <1>4, <2>1, WithoutKeeps
  <2>3. Len(kept) = Len(p.main) - 1
    BY <1>2, <1>3, <1>4, <2>1, LengthWithoutOne
  <2> QED
    BY <2>2, <2>3
<1>6. mn \in Seq(Keys) /\ Distinct(mn) /\ Members(mn) = Members(kept) \union {key}
  <2>1. kept \in Seq(Keys) /\ Distinct(kept) /\ key \notin Members(kept) /\ mn = Append(kept, key)
    BY <1>4, <1>5
  <2>2. mn \in Seq(Keys)
    BY <2>1
  <2> QED
    BY <2>1, <2>2, MembersOfAppend
<1>7. Members(mn) = Members(p.main) \union {key}
  BY <1>3, <1>5, <1>6
<1>8. Len(mn) = Len(p.main)
  BY <1>2, <1>4, <1>5
<1>9. Distinct(p.small) /\ Members(p.small) = Members(p.small) \ {key}
  BY <1>1, <1>3 DEF Placed, Holds
<1>10. ti = p.tier
  BY <1>2, <1>4
<1>11. q = Pol(p.small, mn, p.order, p.lookup, p.gen, ti, p.owner, p.count, p.signals, p.reason)
  BY <1>1, <1>4, <1>10 DEF TouchMain, Policies, Pol
<1>12. KeyMoved(p, q) /\ q.small = p.small /\ q.main = mn
  <2>1. Moving(p, key, p.small, mn, ti, q)
    BY <1>2, <1>3, <1>4, <1>6, <1>7, <1>9, <1>11 DEF Moving
  <2> QED
    BY <2>1, KeyAgain
<1>13. Fits(q) /\ InBudget(q)
  BY <1>8, <1>12 DEF Fits, InBudget, KeyMoved
<1> QED
  BY <1>12, <1>13 DEF Decided, KeyMoved

LEMMA DecideKeeps ==
  ASSUME NEW p, InPlace(p), Fits(p), InBudget(p), NEW owner \in Owners, NEW key \in Keys,
         NEW q, q = Decide(p, owner, key)
  PROVE  Decided(p, q)
<1>1. p.tier[key] \in Tiers
  BY PolForm DEF InPlace, PolTypes
<1>2. CASE p.tier[key] = "main"
  <2>1. Kind(p, owner, key) = "HitMain"
    BY <1>2 DEF Kind
  <2>2. q = TouchMain(p, key)
    BY <2>1 DEF Decide
  <2> QED
    BY <1>2, <2>2, Touched
<1>3. CASE p.tier[key] = "small"
  <2>1. Kind(p, owner, key) = "PromoteSmallToMain"
    BY <1>3 DEF Kind
  <2>2. q = PromoteSmallToMain(p, key)
    BY <2>1 DEF Decide
  <2> QED
    BY <1>3, <2>2, Promoted
<1>4. CASE p.tier[key] = "none" /\ AtBudget(p, owner)
  <2>1. Kind(p, owner, key) = "RejectFairnessBudget"
    BY <1>4 DEF Kind
  <2>2. q = p
    BY <2>1 DEF Decide
  <2> QED
    BY <2>2 DEF Decided
<1>5. CASE p.tier[key] = "none" /\ ~AtBudget(p, owner) /\ key \in PolicyGhosts(p)
  <2>1. Kind(p, owner, key) = "AdmitFromGhost"
    BY <1>5 DEF Kind
  <2>2. q = AdmitFromGhost(p, owner, key) /\ ~IsLive(p, key)
    BY <1>5, <2>1 DEF Decide, IsLive
  <2> QED
    BY <1>5, <2>2, GhostAdmitted
<1>6. CASE p.tier[key] = "none" /\ ~AtBudget(p, owner) /\ key \notin PolicyGhosts(p)
  <2>1. Kind(p, owner, key) = "AdmitSmall"
    BY <1>6 DEF Kind
  <2>2. q = AdmitSmall(p, owner, key) /\ ~IsLive(p, key)
    BY <1>6, <2>1 DEF Decide, IsLive
  <2> QED
    BY <1>6, <2>2, SmallAdmitted
<1> QED
  BY <1>1, <1>2, <1>3, <1>4, <1>5, <1>6 DEF Tiers

(* The policy's judgement of itself touches nothing else.                    *)
Judging(p, si, re, q) ==
  /\ InPlace(p) /\ Fits(p) /\ InBudget(p) /\ si \in Seq(Signals) /\ re \in Reasons
  /\ q = [p EXCEPT !.signals = si, !.reason = re]

LEMMA Judged ==
  ASSUME NEW p, NEW si, NEW re, NEW q, Judging(p, si, re, q)
  PROVE  InPlace(q) /\ Fits(q) /\ InBudget(q) /\ q.signals = si /\ q.reason = re
<1>0. /\ InPlace(p) /\ Fits(p) /\ InBudget(p) /\ si \in Seq(Signals) /\ re \in Reasons
      /\ q = [p EXCEPT !.signals = si, !.reason = re]
  BY DEF Judging
<1>1. PolTypes(p) /\ Placed(p) /\ Counted(p) /\ GhostsAreDead(p) /\ p \in Policies
  BY <1>0, PolForm DEF InPlace
<1>2. q = Pol(p.small, p.main, p.order, p.lookup, p.gen, p.tier, p.owner, p.count, si, re)
  BY <1>0, <1>1 DEF Policies, Pol
<1>3. /\ q.small = p.small /\ q.main = p.main /\ q.tier = p.tier /\ q.owner = p.owner
      /\ q.count = p.count /\ q.signals = si /\ q.reason = re
  BY <1>2, PolFields
<1>4. Counted(q)
  <2>1. SameLife(p, q)
    BY <1>3 DEF SameLife
  <2> QED
    BY <1>1, <2>1, CountSame
<1>5. /\ Holds(p.small, p.tier, "small") /\ Holds(p.main, p.tier, "main")
      /\ Owned(p.tier, p.owner) /\ AreDead(PolicyGhosts(p), p.tier)
  BY <1>1 DEF Placed, GhostsAreDead
<1>6. /\ p.small \in Seq(Keys) /\ p.main \in Seq(Keys) /\ p.tier \in [Keys -> Tiers]
      /\ p.owner \in [Keys -> Owners \union {NoOwner}] /\ p.count \in [Owners -> Nat]
  BY <1>1 DEF PolTypes
<1>7. InPlace(q)
  <2>1. Rearranging(p, p.small, p.main, p.tier, p.owner, p.count, si, re, q)
    BY <1>0, <1>2, <1>4, <1>5, <1>6 DEF Rearranging
  <2> QED
    BY <2>1, Rearranged
<1> QED
  BY <1>0, <1>3, <1>7 DEF Fits, InBudget

-----------------------------------------------------------------------------
PolicyInv ==
  /\ InPlace(policy) /\ Fits(policy) /\ InBudget(policy)
  /\ Len(policy.signals) = seen /\ seen \in 0..Window
  /\ policy.reason # "none" => seen = Window

(* The signals are a window over the last ones, with the new one at the end.   *)
LEMMA SignalRecorded ==
  ASSUME NEW s \in Seq(Signals), Len(s) \in 0..Window, NEW signal \in Signals,
         NEW r, r = IF Len(s) = Window THEN Append(Tail(s), signal) ELSE Append(s, signal)
  PROVE  /\ r \in Seq(Signals)
         /\ Len(r) = IF Len(s) = Window THEN Len(s) ELSE Len(s) + 1
<1>1. Window \in Nat \ {0}
  BY PolicyConstants
<1>2. CASE Len(s) = Window
  <2>1. s # <<>>
    BY <1>1, <1>2
  <2>2. PICK t \in Seq(Signals) : t = Tail(s) /\ Len(t) = Len(s) - 1
    BY <2>1, HeadTailProperties
  <2>3. r = Append(t, signal)
    BY <1>2, <2>2
  <2> QED
    BY <1>1, <1>2, <2>2, <2>3
<1>3. CASE Len(s) # Window
  <2>1. r = Append(s, signal)
    BY <1>3
  <2> QED
    BY <1>3, <2>1
<1> QED
  BY <1>2, <1>3

LEMMA PolicyStarts == PolicyInit => PolicyInv
<1> SUFFICES ASSUME PolicyInit PROVE PolicyInv
  OBVIOUS
<1>1. policy = NewPolicy /\ seen = 0
  BY DEF PolicyInit
<1>2. PICK og, lk, ti, ow, co :
        /\ og = [g \in 1..MaxPolicyGen |-> NoKey] /\ lk = [k \in Keys |-> 0]
        /\ ti = [k \in Keys |-> "none"] /\ ow = [k \in Keys |-> NoOwner]
        /\ co = [o \in Owners |-> 0]
  OBVIOUS
<1>3. policy = Pol(<<>>, <<>>, og, lk, 0, ti, ow, co, <<>>, "none")
  BY <1>1, <1>2 DEF NewPolicy, Pol
<1>4. /\ policy.small = <<>> /\ policy.main = <<>> /\ policy.order = og /\ policy.lookup = lk
      /\ policy.gen = 0 /\ policy.tier = ti /\ policy.owner = ow /\ policy.count = co
      /\ policy.signals = <<>> /\ policy.reason = "none"
  <2> PICK zero, none : zero = 0 /\ none = "none"
    OBVIOUS
  <2>1. policy = Pol(<<>>, <<>>, og, lk, zero, ti, ow, co, <<>>, none)
    BY <1>3
  <2>2. /\ policy.small = <<>> /\ policy.main = <<>> /\ policy.order = og /\ policy.lookup = lk
        /\ policy.gen = zero /\ policy.tier = ti /\ policy.owner = ow /\ policy.count = co
        /\ policy.signals = <<>> /\ policy.reason = none
    BY ONLY <2>1, PolFields
  <2> QED
    BY <2>2
<1>5. /\ MaxPolicyGen \in Nat /\ NoKey \notin Keys /\ NoOwner \notin Owners /\ Window \in Nat
      /\ SmallSize \in Nat /\ MainSize \in Nat /\ OwnerBudget \in Nat /\ GhostSize \in Nat
  BY PolicyConstants DEF MainSize
<1>6. policy \in Policies
  <2>1. /\ og \in [1..MaxPolicyGen -> Keys \union {NoKey}] /\ lk \in [Keys -> 0..MaxPolicyGen]
        /\ ti \in [Keys -> Tiers] /\ ow \in [Keys -> Owners \union {NoOwner}]
        /\ co \in [Owners -> Nat]
    BY <1>2, <1>5 DEF Tiers
  <2>2. PolTypes(policy)
    BY <1>4, <1>5, <2>1 DEF PolTypes, Reasons
  <2>3. policy = Pol(policy.small, policy.main, policy.order, policy.lookup, policy.gen,
                     policy.tier, policy.owner, policy.count, policy.signals, policy.reason)
    BY <1>3, <1>4
  <2> QED
    BY <2>2, <2>3, PolFormed
<1>7. Placed(policy)
  BY <1>2, <1>4 DEF Placed, Holds, Owned, Distinct, Members
<1>8. Counted(policy)
  <2>1. \A o \in Owners : LiveOf(policy, o) = {}
    BY <1>2, <1>4 DEF LiveOf
  <2> QED
    BY <1>2, <1>4, <2>1, FS_EmptySet DEF Counted
<1>9. PolicyGhosts(policy) = {}
  BY <1>2, <1>4 DEF PolicyGhosts
<1>10. GhostMaps(policy)
  <2>1. \A k \in Keys, g \in 1..MaxPolicyGen : policy.lookup[k] = g <=> policy.order[g] = k
    BY <1>2, <1>4, <1>5
  <2>2. \A g \in 1..MaxPolicyGen : policy.order[g] # NoKey => g <= policy.gen
    BY <1>2, <1>4
  <2> QED
    BY <1>9, <2>1, <2>2, FS_EmptySet DEF GhostMaps
<1>11. InPlace(policy)
  BY <1>5, <1>6, <1>7, <1>8, <1>9, <1>10, FS_EmptySet DEF InPlace, GhostsAreDead, AreDead
<1>12. Fits(policy) /\ InBudget(policy)
  BY <1>2, <1>4, <1>5 DEF Fits, InBudget
<1> QED
  BY <1>1, <1>4, <1>5, <1>11, <1>12 DEF PolicyInv

LEMMA PolicyStep == PolicyInv /\ [PolicyNext]_policyVars => PolicyInv'
<1> SUFFICES ASSUME PolicyInv, [PolicyNext]_policyVars PROVE PolicyInv'
  OBVIOUS
<1>0. /\ InPlace(policy) /\ Fits(policy) /\ InBudget(policy) /\ PolTypes(policy)
      /\ policy \in Policies /\ Window \in Nat \ {0}
      /\ Len(policy.signals) = seen /\ seen \in 0..Window
  BY PolForm, PolicyConstants DEF PolicyInv, InPlace
<1>1. ASSUME NEW owner \in Owners, NEW key \in Keys, Access(owner, key) PROVE PolicyInv'
  <2>1. PICK d, signal : d = Decide(policy, owner, key) /\ signal = Signal(policy, owner, key)
    OBVIOUS
  <2>2. Decided(policy, d)
    BY <1>0, <2>1, DecideKeeps
  <2>3. /\ InPlace(d) /\ Fits(d) /\ InBudget(d) /\ d \in Policies /\ d.signals = policy.signals
        /\ d.reason = "none"
    BY <1>1, <2>2 DEF Decided, InPlace, Access
  <2>4. PICK si : si = IF Len(d.signals) = Window THEN Append(Tail(d.signals), signal)
                       ELSE Append(d.signals, signal)
    OBVIOUS
  <2>5. /\ si \in Seq(Signals)
        /\ Len(si) = IF seen = Window THEN seen ELSE seen + 1
    <3>1. signal \in Signals
      BY <2>1 DEF Signal, Signals
    <3>2. d.signals \in Seq(Signals) /\ Len(d.signals) \in 0..Window /\ Len(d.signals) = seen
      BY <1>0, <2>3 DEF PolTypes
    <3> QED
      BY <2>4, <3>1, <3>2, SignalRecorded
  <2>6. PICK n : n = RecordSignal(d, signal)
    OBVIOUS
  <2>7. n = [d EXCEPT !.signals = si]
    BY <2>4, <2>6 DEF RecordSignal
  <2>8. n.signals = si
    BY <2>3, <2>7 DEF Policies
  <2>9. PICK re : re = IF Len(n.signals) < Window THEN "none"
                       ELSE IF GhostHits(n) < MinGhostHits THEN "signalQuality"
                       ELSE IF Rejections(n) > MaxRejections THEN "fairness" ELSE "none"
    OBVIOUS
  <2>10. re \in Reasons /\ (Len(si) < Window => re = "none")
    BY <2>8, <2>9 DEF Reasons
  <2>11. policy' = [n EXCEPT !.reason = re]
    BY <1>1, <2>1, <2>6, <2>9 DEF Access, EvaluateFallback
  <2>12. policy' = [d EXCEPT !.signals = si, !.reason = re]
    BY <2>3, <2>7, <2>11 DEF Policies
  <2>13. /\ InPlace(policy') /\ Fits(policy') /\ InBudget(policy')
         /\ policy'.signals = si /\ policy'.reason = re
    <3>1. Judging(d, si, re, policy')
      BY <2>3, <2>5, <2>10, <2>12 DEF Judging
    <3> QED
      BY <3>1, Judged
  <2>14. seen' = Len(si) /\ seen' \in 0..Window
    BY <1>0, <1>1, <2>5 DEF Access
  <2>15. policy'.reason # "none" => seen' = Window
    BY <1>0, <2>10, <2>13, <2>14
  <2> QED
    BY <2>13, <2>14, <2>15 DEF PolicyInv
<1>2. ASSUME NEW owner \in Owners, NEW key \in Keys, Bypass(owner, key) PROVE PolicyInv'
  BY <1>2 DEF Bypass, PolicyInv
<1>3. ASSUME ClearFallback PROVE PolicyInv'
  <2>1. PICK si, re : si = <<>> /\ re = "none"
    OBVIOUS
  <2>2. policy' = [policy EXCEPT !.signals = si, !.reason = re]
    BY <1>0, <1>3, <2>1 DEF ClearFallback, Policies
  <2>3. si \in Seq(Signals) /\ re \in Reasons
    BY <2>1 DEF Reasons
  <2>4. /\ InPlace(policy') /\ Fits(policy') /\ InBudget(policy')
        /\ policy'.signals = si /\ policy'.reason = re
    <3>1. Judging(policy, si, re, policy')
      BY <1>0, <2>2, <2>3 DEF Judging
    <3> QED
      BY <3>1, Judged
  <2> QED
    BY <1>0, <1>3, <2>1, <2>4 DEF ClearFallback, PolicyInv
<1>4. ASSUME UNCHANGED policyVars PROVE PolicyInv'
  BY <1>4 DEF policyVars, PolicyInv
<1> QED
  BY <1>1, <1>2, <1>3, <1>4 DEF PolicyNext

(* How often a queue has a key that it has once or not at all.               *)
LEMMA OccursOnce ==
  ASSUME NEW queue \in Seq(Keys), Distinct(queue), NEW k
  PROVE  Occurrences(queue, k) = IF k \in Members(queue) THEN 1 ELSE 0
<1>1. CASE k \in Members(queue)
  <2>1. PICK i \in 1..Len(queue) : queue[i] = k
    BY <1>1 DEF Members
  <2>2. {j \in 1..Len(queue) : queue[j] = k} = {i}
    BY <2>1 DEF Distinct
  <2> QED
    BY <1>1, <2>2, FS_Singleton DEF Occurrences
<1>2. CASE k \notin Members(queue)
  <2>1. {j \in 1..Len(queue) : queue[j] = k} = {}
    BY <1>2 DEF Members
  <2> QED
    BY <1>2, <2>1, FS_EmptySet DEF Occurrences
<1> QED
  BY <1>1, <1>2

LEMMA PolicyInvSound == PolicyInv => PolicyIsSound
<1> SUFFICES ASSUME PolicyInv PROVE PolicyIsSound
  OBVIOUS
<1>1. /\ PolTypes(policy) /\ Placed(policy) /\ Counted(policy) /\ GhostMaps(policy)
      /\ Cardinality(PolicyGhosts(policy)) <= GhostSize /\ GhostsAreDead(policy)
      /\ Fits(policy) /\ InBudget(policy) /\ Window \in Nat
      /\ Len(policy.signals) = seen /\ seen \in 0..Window
      /\ policy.reason # "none" => seen = Window
  BY PolForm, PolicyConstants DEF PolicyInv, InPlace
<1>2. PolicyTypeOK
  BY <1>1 DEF PolicyTypeOK, PolTypes, Fits, Tiers, Reasons
<1>3. EachKeyInOnePlace
  <2> SUFFICES ASSUME NEW k \in Keys
               PROVE  /\ Occurrences(policy.small, k) = IF policy.tier[k] = "small" THEN 1 ELSE 0
                      /\ Occurrences(policy.main, k) = IF policy.tier[k] = "main" THEN 1 ELSE 0
                      /\ k \in PolicyGhosts(policy) => policy.tier[k] = "none"
    BY DEF EachKeyInOnePlace
  <2>1. /\ policy.small \in Seq(Keys) /\ Distinct(policy.small)
        /\ policy.main \in Seq(Keys) /\ Distinct(policy.main)
        /\ k \in Members(policy.small) <=> policy.tier[k] = "small"
        /\ k \in Members(policy.main) <=> policy.tier[k] = "main"
    BY <1>1 DEF PolTypes, Placed, Holds
  <2>2. /\ Occurrences(policy.small, k) = IF k \in Members(policy.small) THEN 1 ELSE 0
        /\ Occurrences(policy.main, k) = IF k \in Members(policy.main) THEN 1 ELSE 0
    BY <2>1, OccursOnce
  <2>3. k \in PolicyGhosts(policy) => policy.tier[k] = "none"
    BY <1>1 DEF GhostsAreDead, AreDead
  <2> QED
    BY <2>1, <2>2, <2>3
<1>4. CountsAreExact
  BY <1>1 DEF CountsAreExact, Counted, LiveOf, InBudget
<1>5. PolicyGhostsAgree
  BY <1>1 DEF PolicyGhostsAgree, GhostMaps
<1>6. FallbackIsJustified
  BY <1>1 DEF FallbackIsJustified
<1> QED
  BY <1>2, <1>3, <1>4, <1>5, <1>6 DEF PolicyIsSound

(* Whatever is asked of the S3-FIFO policy, however large its capacities, each *)
(* live key is in one queue, owners are charged for what they hold and within  *)
(* their budget, the ghosts' maps agree also when generations start over, and  *)
(* it gives up only on a full window of its own signals.                      *)
THEOREM PolicySound == PolicySpec => []PolicyIsSound
  BY PolicyStarts, PolicyStep, PolicyInvSound, PTL DEF PolicySpec

-----------------------------------------------------------------------------
(* Repair planning                                                           *)

LEMMA ProposalType ==
  ASSUME NEW p \in Catalogue
  PROVE  MaxRisk(p) \in {0, 1} /\ Len(p.ops) \in Nat /\ p.confidence \in Nat /\ p.rule \in Nat
BY RepairAssumption DEF MaxRisk

(* compare_proposals is a strict weak order.                                  *)
LEMMA BeforeIsOrder ==
  ASSUME NEW p \in Catalogue, NEW q \in Catalogue, NEW r \in Catalogue
  PROVE  /\ ~Before(p, p)
         /\ Before(p, q) => ~Before(q, p)
         /\ Before(p, q) /\ Before(q, r) => Before(p, r)
         /\ Before(p, q) /\ Tie(q, r) => Before(p, r)
         /\ Tie(p, q) /\ Before(q, r) => Before(p, r)
         /\ Tie(p, q) /\ Tie(q, r) => Tie(p, r)
<1>1. /\ MaxRisk(p) \in Nat /\ Len(p.ops) \in Nat /\ p.confidence \in Nat /\ p.rule \in Nat
      /\ MaxRisk(q) \in Nat /\ Len(q.ops) \in Nat /\ q.confidence \in Nat /\ q.rule \in Nat
      /\ MaxRisk(r) \in Nat /\ Len(r.ops) \in Nat /\ r.confidence \in Nat /\ r.rule \in Nat
  BY ProposalType
<1>2. PICK a1, a2, a3, a4 \in Nat :
        a1 = MaxRisk(p) /\ a2 = Len(p.ops) /\ a3 = p.confidence /\ a4 = p.rule
  BY <1>1
<1>3. PICK b1, b2, b3, b4 \in Nat :
        b1 = MaxRisk(q) /\ b2 = Len(q.ops) /\ b3 = q.confidence /\ b4 = q.rule
  BY <1>1
<1>4. PICK c1, c2, c3, c4 \in Nat :
        c1 = MaxRisk(r) /\ c2 = Len(r.ops) /\ c3 = r.confidence /\ c4 = r.rule
  BY <1>1
<1> DEFINE Less(x1, x2, x3, x4, y1, y2, y3, y4) ==
             \/ x1 < y1
             \/ x1 = y1 /\ x2 < y2
             \/ x1 = y1 /\ x2 = y2 /\ x3 > y3
             \/ x1 = y1 /\ x2 = y2 /\ x3 = y3 /\ x4 < y4
<1>5. /\ Before(p, p) = Less(a1, a2, a3, a4, a1, a2, a3, a4)
      /\ Before(p, q) = Less(a1, a2, a3, a4, b1, b2, b3, b4)
      /\ Before(q, p) = Less(b1, b2, b3, b4, a1, a2, a3, a4)
      /\ Before(q, r) = Less(b1, b2, b3, b4, c1, c2, c3, c4)
      /\ Before(r, q) = Less(c1, c2, c3, c4, b1, b2, b3, b4)
      /\ Before(p, r) = Less(a1, a2, a3, a4, c1, c2, c3, c4)
      /\ Before(r, p) = Less(c1, c2, c3, c4, a1, a2, a3, a4)
  BY <1>2, <1>3, <1>4, Zenon DEF Before
<1>6. /\ ~Less(a1, a2, a3, a4, a1, a2, a3, a4)
      /\ Less(a1, a2, a3, a4, b1, b2, b3, b4) => ~Less(b1, b2, b3, b4, a1, a2, a3, a4)
      /\ Less(a1, a2, a3, a4, b1, b2, b3, b4) /\ Less(b1, b2, b3, b4, c1, c2, c3, c4)
           => Less(a1, a2, a3, a4, c1, c2, c3, c4)
  OBVIOUS
<1>7. /\ ~Less(a1, a2, a3, a4, b1, b2, b3, b4) /\ ~Less(b1, b2, b3, b4, a1, a2, a3, a4)
           => a1 = b1 /\ a2 = b2 /\ a3 = b3 /\ a4 = b4
      /\ ~Less(b1, b2, b3, b4, c1, c2, c3, c4) /\ ~Less(c1, c2, c3, c4, b1, b2, b3, b4)
           => b1 = c1 /\ b2 = c2 /\ b3 = c3 /\ b4 = c4
  OBVIOUS
<1> HIDE DEF Less
<1> QED
  BY <1>5, <1>6, <1>7, Zenon DEF Tie

(* The order of the stable sort is strict and total.                          *)
SoonerPairs(ps) == {e \in (DOMAIN ps) \X (DOMAIN ps) : Sooner(ps, e[1], e[2])}

LEMMA SoonerIsOrder ==
  ASSUME NEW ps \in Seq(Catalogue)
  PROVE  OrderOn(SoonerPairs(ps), DOMAIN ps)
<1>1. \A i, j \in DOMAIN ps : <<i, j>> \in SoonerPairs(ps) <=> Sooner(ps, i, j)
  BY DEF SoonerPairs
<1>2. \A i \in DOMAIN ps : i \in Nat /\ ps[i] \in Catalogue
  OBVIOUS
<1>3. ASSUME NEW i \in DOMAIN ps PROVE ~Sooner(ps, i, i)
  BY <1>2, BeforeIsOrder DEF Sooner
<1>4. ASSUME NEW i \in DOMAIN ps, NEW j \in DOMAIN ps, i # j
      PROVE  Sooner(ps, i, j) \/ Sooner(ps, j, i)
  BY <1>2, <1>4 DEF Sooner, Tie
<1>5. ASSUME NEW i \in DOMAIN ps, NEW j \in DOMAIN ps, NEW k \in DOMAIN ps,
             Sooner(ps, i, j), Sooner(ps, j, k)
      PROVE  Sooner(ps, i, k)
  <2>1. i < j /\ j < k => i < k
    BY <1>2
  <2>2. ps[i] \in Catalogue /\ ps[j] \in Catalogue /\ ps[k] \in Catalogue
    BY <1>2
  <2>3. /\ Before(ps[i], ps[j]) /\ Before(ps[j], ps[k]) => Before(ps[i], ps[k])
        /\ Before(ps[i], ps[j]) /\ Tie(ps[j], ps[k]) => Before(ps[i], ps[k])
        /\ Tie(ps[i], ps[j]) /\ Before(ps[j], ps[k]) => Before(ps[i], ps[k])
        /\ Tie(ps[i], ps[j]) /\ Tie(ps[j], ps[k]) => Tie(ps[i], ps[k])
    BY <2>2, BeforeIsOrder
  <2> QED
    BY <1>5, <2>1, <2>3, Zenon DEF Sooner
<1> QED
  BY <1>1, <1>3, <1>4, <1>5 DEF OrderOn

(* What the sort returns: every index once, the sooner ones first.            *)
LEMMA RankedLists ==
  ASSUME NEW ps \in Seq(Catalogue)
  PROVE  /\ Ranked(ps) \in [1..Len(ps) -> DOMAIN ps]
         /\ \A i \in DOMAIN ps : \E n \in 1..Len(ps) : Ranked(ps)[n] = i
         /\ \A m, n \in 1..Len(ps) : m < n => Sooner(ps, Ranked(ps)[m], Ranked(ps)[n])
<1> DEFINE S == DOMAIN ps
           R == SoonerPairs(ps)
<1>1. IsFiniteSet(S) /\ Cardinality(S) = Len(ps) /\ S = 1..Len(ps) /\ Len(ps) \in Nat
  <2>1. S = 1..Len(ps) /\ Len(ps) \in Nat
    OBVIOUS
  <2>2. IsFiniteSet(1..Len(ps)) /\ Cardinality(1..Len(ps)) = Len(ps)
    BY <2>1, FS_Interval
  <2> QED
    BY <2>1, <2>2
<1>2. OrderOn(R, S)
  BY SoonerIsOrder
<1>3. \A i, j \in S : <<i, j>> \in R <=> Sooner(ps, i, j)
  BY DEF SoonerPairs
<1>4. Ranked(ps) = ListedBy(S, R)
  <2>1. ASSUME NEW i \in S PROVE {j \in S : Sooner(ps, j, i)} = {j \in S : <<j, i>> \in R}
    BY <1>3
  <2>2. ASSUME NEW n \in S
        PROVE  (CHOOSE i \in S : Cardinality({j \in S : Sooner(ps, j, i)}) = n - 1)
                 = (CHOOSE i \in S : Cardinality({j \in S : <<j, i>> \in R}) = n - 1)
    <3>1. \A i \in S : (Cardinality({j \in S : Sooner(ps, j, i)}) = n - 1)
                         <=> (Cardinality({j \in S : <<j, i>> \in R}) = n - 1)
      BY <2>1
    <3> HIDE DEF R, S
    <3> QED
      BY <3>1, Zenon
  <2> DEFINE ByOrder(n) == CHOOSE i \in S : Cardinality({j \in S : Sooner(ps, j, i)}) = n - 1
             ByPairs(n) == CHOOSE i \in S : Cardinality({j \in S : <<j, i>> \in R}) = n - 1
  <2>3. Ranked(ps) = [n \in S |-> ByOrder(n)] /\ ListedBy(S, R) = [n \in S |-> ByPairs(n)]
    BY <1>1 DEF Ranked, ListedBy
  <2>4. \A n \in S : ByOrder(n) = ByPairs(n)
    BY <2>2
  <2> HIDE DEF ByOrder, ByPairs, S, R
  <2> QED
    BY <2>3, <2>4
<1>5. /\ ListedBy(S, R) \in [1..Len(ps) -> S]
      /\ \A e \in S : \E i \in 1..Len(ps) : ListedBy(S, R)[i] = e
      /\ \A i, j \in 1..Len(ps) : i < j => <<ListedBy(S, R)[i], ListedBy(S, R)[j]>> \in R
  <2> HIDE DEF S, R
  <2> QED
    BY <1>1, <1>2, OrderLists
<1> QED
  BY <1>3, <1>4, <1>5

(* Of any candidates, one is sooner than the others.                          *)
LEMMA SoonestExists ==
  ASSUME NEW ps \in Seq(Catalogue), NEW I \in SUBSET DOMAIN ps, I # {}
  PROVE  \E i \in I : \A j \in I : ~Sooner(ps, j, i)
<1>1. PICK r, L : r = Ranked(ps) /\ L = Len(ps)
  OBVIOUS
<1>2. /\ L \in Nat /\ r \in [1..L -> DOMAIN ps]
      /\ \A i \in DOMAIN ps : \E n \in 1..L : r[n] = i
      /\ \A m, n \in 1..L : m < n => Sooner(ps, r[m], r[n])
  <2>1. Len(ps) \in Nat
    OBVIOUS
  <2> QED
    BY <1>1, <2>1, RankedLists
<1>3. PICK places : places = {n \in 1..L : r[n] \in I}
  OBVIOUS
<1>4. places \in SUBSET Nat /\ places # {}
  BY <1>2, <1>3
<1>5. PICK m \in places : \A n \in places : m <= n
  BY <1>4, LeastExists
<1>6. m \in 1..L /\ r[m] \in I /\ r[m] \in DOMAIN ps
  BY <1>3, <1>5
<1>7. ASSUME NEW j \in I, Sooner(ps, j, r[m]) PROVE FALSE
  <2>1. PICK n \in 1..L : r[n] = j
    BY <1>2
  <2>2. n \in places /\ m <= n
    BY <1>3, <1>5, <2>1
  <2>3. \A i, k \in DOMAIN ps : ~Sooner(ps, i, i) /\ ~(Sooner(ps, i, k) /\ Sooner(ps, k, i))
    <3>1. OrderOn(SoonerPairs(ps), DOMAIN ps)
      BY SoonerIsOrder
    <3>2. \A i, k \in DOMAIN ps : <<i, k>> \in SoonerPairs(ps) <=> Sooner(ps, i, k)
      BY DEF SoonerPairs
    <3> QED
      BY <3>1, <3>2 DEF OrderOn
  <2>4. j \in DOMAIN ps
    OBVIOUS
  <2>5. CASE m = n
    BY <1>6, <1>7, <2>1, <2>3, <2>4, <2>5
  <2>6. CASE m # n
    <3>1. m < n
      BY <1>2, <1>6, <2>2, <2>6
    <3>2. Sooner(ps, r[m], j)
      BY <1>2, <1>6, <2>1, <3>1
    <3> QED
      BY <1>6, <1>7, <2>3, <2>4, <3>2
  <2> QED
    BY <2>5, <2>6
<1> QED
  BY <1>6, <1>7

(* `taken` is what the greedy pass goes through.                              *)
Taking(taken, ps) ==
  /\ taken \in [0..Len(ps) -> SUBSET DOMAIN ps]
  /\ ResolveConflicts(ps) = taken[Len(ps)]
  /\ taken[0] = {}
  /\ \A n \in 1..Len(ps) : taken[n] = Accept(ps, taken[n - 1], Ranked(ps)[n])

LEMMA TakingRecurs ==
  ASSUME NEW ps \in Seq(Catalogue)
  PROVE  \E taken : Taking(taken, ps)
<1> DEFINE L == Len(ps)
           D == SUBSET DOMAIN ps
           step == [x \in (1..L) \X D |-> Accept(ps, x[2], Ranked(ps)[x[1]])]
           Is(f) == f = [n \in 0..L |-> IF n = 0 THEN {} ELSE Accept(ps, f[n - 1], Ranked(ps)[n])]
<1>1. L \in Nat /\ {} \in D
  OBVIOUS
<1>2. step \in [(1..L) \X D -> D]
  <2>1. ASSUME NEW x \in (1..L) \X D
        PROVE  Accept(ps, x[2], Ranked(ps)[x[1]]) \in D
    <3>1. Ranked(ps)[x[1]] \in DOMAIN ps /\ x[2] \in D
      BY RankedLists
    <3> QED
      BY <3>1 DEF Accept
  <2> QED
    BY <2>1
<1>4. PICK f \in [0..L -> D] : f[0] = {} /\ \A n \in 1..L : f[n] = step[<<n, f[n - 1]>>]
  <2>1. PICK top, E, does, base : top = L /\ E = D /\ does = step /\ base = {}
    OBVIOUS
  <2>2. top \in Nat /\ base \in E /\ does \in [(1..top) \X E -> E]
    <3> HIDE DEF step, L, D
    <3> QED
      BY <1>1, <1>2, <2>1
  <2>3. PICK f : Recurs(f, top, E, base, does)
    BY <2>2, Recursion
  <2> HIDE DEF L, step, D
  <2> QED
    BY <2>1, <2>3 DEF Recurs
<1>5. ASSUME NEW n \in 1..L
      PROVE  f[n] = Accept(ps, f[n - 1], Ranked(ps)[n])
  <2>1. n - 1 \in 0..L
    BY <1>1
  <2>2. PICK k \in D : k = f[n - 1]
    BY <1>4, <2>1
  <2>3. step[<<n, k>>] = Accept(ps, k, Ranked(ps)[n])
    OBVIOUS
  <2> QED
    BY <1>4, <2>2, <2>3
<1>6. Is(f)
  <2>1. \A n \in 0..L : n = 0 \/ n \in 1..L
    BY <1>1
  <2>2. \A n \in 0..L : f[n] = IF n = 0 THEN {} ELSE Accept(ps, f[n - 1], Ranked(ps)[n])
    BY <1>4, <1>5, <2>1
  <2> QED
    BY <1>4, <2>2
<1> DEFINE accepted == CHOOSE g : Is(g)
<1>7. Is(accepted)
  BY <1>6
<1>8. ResolveConflicts(ps) = accepted[L]
  BY DEF ResolveConflicts
<1>9. accepted = f
  <2> DEFINE S == {n \in 0..L : accepted[n] = f[n]}
  <2>1. 0 \in S
    <3> HIDE DEF accepted
    <3>1. 0 \in 0..L
      BY <1>1
    <3>2. accepted[0] = IF 0 = 0 THEN {} ELSE Accept(ps, accepted[0 - 1], Ranked(ps)[0])
      <4> HIDE DEF L
      <4> QED
        BY <1>7, <3>1
    <3> QED
      BY <1>4, <3>1, <3>2
  <2>2. ASSUME NEW n \in Nat, n \in S, n < L
        PROVE  n + 1 \in S
    <3>1. PICK m \in 1..L : m = n + 1
      BY <1>1, <2>2
    <3>2. m \in 0..L /\ m # 0 /\ m - 1 = n
      BY <1>1, <2>2, <3>1
    <3>3. accepted[m] = Accept(ps, accepted[n], Ranked(ps)[m])
      <4> HIDE DEF accepted
      <4> QED
        BY <1>7, <3>2
    <3>4. f[m] = Accept(ps, f[n], Ranked(ps)[m])
      BY <1>5, <3>2
    <3> QED
      BY <2>2, <3>1, <3>2, <3>3, <3>4
  <2>3. 0..L \subseteq S
    <3> HIDE DEF S, L
    <3> QED
      BY <1>1, <2>1, <2>2, AllUpTo
  <2>4. DOMAIN accepted = 0..L /\ accepted = [n \in 0..L |-> accepted[n]]
    <3> HIDE DEF accepted
    <3> QED
      BY <1>7
  <2> HIDE DEF accepted
  <2> QED
    BY <1>4, <2>3, <2>4
<1>10. /\ f \in [0..Len(ps) -> SUBSET DOMAIN ps]
       /\ ResolveConflicts(ps) = f[Len(ps)]
       /\ f[0] = {}
       /\ \A n \in 1..Len(ps) : f[n] = Accept(ps, f[n - 1], Ranked(ps)[n])
  <2> HIDE DEF accepted
  <2> QED
    BY <1>4, <1>5, <1>8, <1>9
<1> QED
  BY <1>10 DEF Taking

(* Which candidates the greedy pass keeps: those that conflict with no sooner   *)
(* one that it keeps.                                                        *)
LEMMA Greedy ==
  ASSUME NEW ps \in Seq(Catalogue)
  PROVE  /\ ResolveConflicts(ps) \in SUBSET DOMAIN ps
         /\ \A i \in DOMAIN ps :
              i \in ResolveConflicts(ps)
                <=> \A k \in ResolveConflicts(ps) : Sooner(ps, k, i) => ~Conflict(ps[k], ps[i])
<1>1. PICK r, L : r = Ranked(ps) /\ L = Len(ps)
  OBVIOUS
<1>2. /\ L \in Nat /\ r \in [1..L -> DOMAIN ps]
      /\ \A i \in DOMAIN ps : \E n \in 1..L : r[n] = i
      /\ \A m, n \in 1..L : m < n => Sooner(ps, r[m], r[n])
  BY <1>1, RankedLists
<1>3. PICK t : Taking(t, ps)
  BY TakingRecurs
<1>4. /\ t \in [0..L -> SUBSET DOMAIN ps] /\ ResolveConflicts(ps) = t[L] /\ t[0] = {}
      /\ \A n \in 1..L : t[n] = Accept(ps, t[n - 1], r[n])
  BY <1>1, <1>3 DEF Taking
<1>5. \A i, k \in DOMAIN ps : ~Sooner(ps, i, i) /\ ~(Sooner(ps, i, k) /\ Sooner(ps, k, i))
  <2>1. OrderOn(SoonerPairs(ps), DOMAIN ps)
    BY SoonerIsOrder
  <2>2. \A i, k \in DOMAIN ps : <<i, k>> \in SoonerPairs(ps) <=> Sooner(ps, i, k)
    BY DEF SoonerPairs
  <2> QED
    BY <2>1, <2>2 DEF OrderOn
<1>6. \A m, n \in 1..L : Sooner(ps, r[m], r[n]) <=> m < n
  <2> SUFFICES ASSUME NEW m \in 1..L, NEW n \in 1..L, Sooner(ps, r[m], r[n]) PROVE m < n
    BY <1>2
  <2>1. r[m] \in DOMAIN ps /\ r[n] \in DOMAIN ps
    BY <1>2
  <2>2. m # n /\ ~(n < m)
    BY <1>2, <1>5, <2>1
  <2> QED
    BY <1>2, <2>2
<1> DEFINE Good(n) ==
             /\ t[n] \subseteq {r[m] : m \in 1..n}
             /\ \A m \in 1..n : r[m] \in t[n]
                                  <=> \A k \in t[n] : Sooner(ps, k, r[m]) => ~Conflict(ps[k], ps[r[m]])
           S == {n \in 0..L : Good(n)}
<1>7. 0 \in S
  BY <1>2, <1>4
<1>8. ASSUME NEW n \in Nat, n \in S, n < L PROVE n + 1 \in S
  <2>1. PICK b \in 1..L : b = n + 1
    BY <1>2, <1>8
  <2>2. PICK x : x = r[b]
    OBVIOUS
  <2>3. x \in DOMAIN ps /\ b - 1 = n /\ t[b] = Accept(ps, t[n], x) /\ n \in 0..L /\ b \in 0..L
    BY <1>2, <1>4, <1>8, <2>1, <2>2
  <2>4. /\ t[n] \subseteq {r[m] : m \in 1..n}
        /\ \A m \in 1..n : r[m] \in t[n]
              <=> \A k \in t[n] : Sooner(ps, k, r[m]) => ~Conflict(ps[k], ps[r[m]])
    BY <1>8
  <2>5. /\ \A m \in 1..b : m \in 1..n \/ m = b
        /\ \A m \in 1..n : m \in 1..b /\ m \in 1..L /\ m < b
        /\ b \in 1..b
    BY <1>2, <1>8, <2>1
  <2>6. \A m \in 1..n : Sooner(ps, r[m], x) /\ ~Sooner(ps, x, r[m]) /\ r[m] # x
    <3> SUFFICES ASSUME NEW m \in 1..n
                 PROVE  Sooner(ps, r[m], x) /\ ~Sooner(ps, x, r[m]) /\ r[m] # x
      OBVIOUS
    <3>1. m \in 1..L /\ m < b /\ r[m] \in DOMAIN ps
      BY <1>2, <2>5
    <3>2. Sooner(ps, r[m], x)
      BY <1>2, <2>2, <3>1
    <3> QED
      BY <1>5, <2>3, <3>1, <3>2
  <2>7. \A k \in t[n] : Sooner(ps, k, x) /\ k # x
    BY <2>4, <2>6
  <2>8. t[b] \subseteq t[n] \cup {x} /\ t[n] \subseteq t[b]
        /\ (x \in t[b] <=> \A k \in t[n] : ~Conflict(ps[k], ps[x]))
    BY <2>3, <2>7 DEF Accept
  <2>9. t[b] \subseteq {r[m] : m \in 1..b}
    BY <2>2, <2>4, <2>5, <2>8
  <2>10. ASSUME NEW m \in 1..b
         PROVE  r[m] \in t[b]
                  <=> \A k \in t[b] : Sooner(ps, k, r[m]) => ~Conflict(ps[k], ps[r[m]])
    <3>1. CASE m \in 1..n
      <4>1. \A k \in t[b] : Sooner(ps, k, r[m]) => k \in t[n]
        BY <2>6, <2>8, <3>1
      <4>2. r[m] \in t[b] <=> r[m] \in t[n]
        BY <2>6, <2>8, <3>1
      <4> QED
        BY <2>4, <2>8, <3>1, <4>1, <4>2
    <3>2. CASE m = b
      <4>1. r[m] = x /\ ~Sooner(ps, x, x)
        BY <1>5, <2>2, <2>3, <3>2
      <4> QED
        BY <2>7, <2>8, <4>1
    <3> QED
      BY <2>5, <3>1, <3>2
  <2>11. Good(b)
    BY <2>9, <2>10
  <2> HIDE DEF Good
  <2> QED
    BY <2>1, <2>3, <2>11
<1>9. L \in S
  <2>1. 0..L \subseteq S
    <3>1. L \in Nat
      BY <1>2
    <3> HIDE DEF S, Good
    <3> QED
      BY <1>7, <1>8, <3>1, AllUpTo
  <2> HIDE DEF S
  <2> QED
    BY <1>2, <2>1
<1>10. Good(L)
  BY <1>9
<1>11. t[L] \in SUBSET DOMAIN ps
  BY <1>2, <1>4
<1> QED
  BY <1>2, <1>4, <1>10, <1>11

LEMMA ConflictSymmetric ==
  ASSUME NEW p, NEW q
  PROVE  Conflict(p, q) <=> Conflict(q, p)
BY DEF Conflict, OpsConflict

LEMMA SoonerFacts ==
  ASSUME NEW ps \in Seq(Catalogue), NEW i \in DOMAIN ps, NEW j \in DOMAIN ps
  PROVE  /\ ~Sooner(ps, i, i)
         /\ i # j => Sooner(ps, i, j) \/ Sooner(ps, j, i)
         /\ Sooner(ps, i, j) => ~Sooner(ps, j, i) /\ ~Before(ps[j], ps[i])
<1>1. OrderOn(SoonerPairs(ps), DOMAIN ps)
  BY SoonerIsOrder
<1>2. \A m, n \in DOMAIN ps : <<m, n>> \in SoonerPairs(ps) <=> Sooner(ps, m, n)
  BY DEF SoonerPairs
<1>3. Sooner(ps, i, j) => ~Sooner(ps, j, i)
  BY <1>1, <1>2 DEF OrderOn
<1> QED
  BY <1>1, <1>2, <1>3 DEF OrderOn, Sooner

LEMMA Justified ==
  ASSUME NEW ps \in Seq(Catalogue), NEW kept, kept = ResolveConflicts(ps)
  PROVE  /\ \A i, j \in kept : i # j => ~Conflict(ps[i], ps[j])
         /\ \A i \in DOMAIN ps \ kept :
              \E k \in kept : Conflict(ps[i], ps[k]) /\ ~Before(ps[i], ps[k])
<1>1. /\ kept \in SUBSET DOMAIN ps
      /\ \A i \in DOMAIN ps :
           i \in kept <=> \A k \in kept : Sooner(ps, k, i) => ~Conflict(ps[k], ps[i])
  BY Greedy
<1>2. ASSUME NEW i \in kept, NEW j \in kept, i # j PROVE ~Conflict(ps[i], ps[j])
  <2>1. i \in DOMAIN ps /\ j \in DOMAIN ps
    BY <1>1
  <2>2. Sooner(ps, i, j) \/ Sooner(ps, j, i)
    BY <1>2, <2>1, SoonerFacts
  <2> QED
    BY <1>1, <2>1, <2>2, ConflictSymmetric
<1>3. ASSUME NEW i \in DOMAIN ps \ kept
      PROVE  \E k \in kept : Conflict(ps[i], ps[k]) /\ ~Before(ps[i], ps[k])
  <2>1. PICK k \in kept : Sooner(ps, k, i) /\ Conflict(ps[k], ps[i])
    BY <1>1
  <2>2. k \in DOMAIN ps /\ i \in DOMAIN ps
    BY <1>1
  <2> QED
    BY <2>1, <2>2, SoonerFacts, ConflictSymmetric
<1> QED
  BY <1>2, <1>3

(* What is selected: the first of the best candidates the mode allows.        *)
Selects(best, ps, m) ==
  \/ best = 0 /\ \A i \in DOMAIN ps : ~IsAllowedBy(ps[i], m)
  \/ /\ best \in DOMAIN ps /\ IsAllowedBy(ps[best], m)
     /\ \A i \in DOMAIN ps : IsAllowedBy(ps[i], m) => ~Sooner(ps, i, best)

LEMMA SelectBestSelects ==
  ASSUME NEW ps \in Seq(Catalogue), NEW m
  PROVE  Selects(SelectBest(ps, m), ps, m)
<1> DEFINE allowed == {i \in DOMAIN ps : IsAllowedBy(ps[i], m)}
           best == {i \in allowed : \A j \in allowed : ~Before(ps[j], ps[i])}
<1>1. SelectBest(ps, m) = IF best = {} THEN 0 ELSE CHOOSE i \in best : \A j \in best : i <= j
  BY DEF SelectBest
<1>2. CASE allowed = {}
  <2>1. best = {}
    BY <1>2
  <2>2. SelectBest(ps, m) = 0
    BY <1>1, <2>1
  <2>3. \A i \in DOMAIN ps : ~IsAllowedBy(ps[i], m)
    BY <1>2
  <2> QED
    BY <2>2, <2>3 DEF Selects
<1>3. CASE allowed # {}
  <2>1. PICK s \in allowed : \A j \in allowed : ~Sooner(ps, j, s)
    <3>1. allowed \in SUBSET DOMAIN ps
      OBVIOUS
    <3> HIDE DEF allowed
    <3> QED
      BY <1>3, <3>1, SoonestExists
  <2>2. s \in best
    BY <2>1 DEF Sooner
  <2>3. best \in SUBSET Nat /\ best # {}
    BY <2>2
  <2>4. PICK b \in best : \A j \in best : b <= j
    <3> HIDE DEF best
    <3> QED
      BY <2>3, LeastExists
  <2>5. PICK c : c = SelectBest(ps, m)
    OBVIOUS
  <2>6. c \in best /\ \A j \in best : c <= j
    <3> HIDE DEF best, allowed
    <3> QED
      BY <1>1, <2>3, <2>4, <2>5
  <2>7. c \in DOMAIN ps /\ IsAllowedBy(ps[c], m) /\ \A j \in allowed : ~Before(ps[j], ps[c])
    BY <2>6
  <2>8. ASSUME NEW i \in DOMAIN ps, IsAllowedBy(ps[i], m), Sooner(ps, i, c)
        PROVE  FALSE
    <3>1. i \in allowed /\ ~Before(ps[i], ps[c])
      BY <2>7, <2>8
    <3>2. Tie(ps[i], ps[c]) /\ i < c
      BY <2>8, <3>1 DEF Sooner
    <3>3. ASSUME NEW j \in allowed PROVE ~Before(ps[j], ps[i])
      <4>1. ps[j] \in Catalogue /\ ps[i] \in Catalogue /\ ps[c] \in Catalogue
        BY <2>7
      <4>2. Before(ps[j], ps[i]) /\ Tie(ps[i], ps[c]) => Before(ps[j], ps[c])
        BY <4>1, BeforeIsOrder
      <4> QED
        BY <2>7, <3>2, <4>2
    <3>4. i \in best
      BY <3>1, <3>3
    <3>5. i \in Nat /\ c \in Nat /\ c <= i
      BY <2>6, <2>7, <3>4
    <3> QED
      BY <3>2, <3>5
  <2> QED
    BY <2>5, <2>7, <2>8 DEF Selects
<1> QED
  BY <1>2, <1>3

(* A candidate that ranks no worse than an allowed one is allowed.            *)
LEMMA SoonerIsAllowed ==
  ASSUME NEW ps \in Seq(Catalogue), NEW m \in RepairModes,
         NEW i \in DOMAIN ps, NEW j \in DOMAIN ps, Sooner(ps, i, j), IsAllowedBy(ps[j], m)
  PROVE  IsAllowedBy(ps[i], m)
<1>1. MaxRisk(ps[i]) \in {0, 1} /\ MaxRisk(ps[j]) \in {0, 1}
  BY ProposalType
<1>2. ~(MaxRisk(ps[j]) < MaxRisk(ps[i]))
  <2>1. ~Before(ps[j], ps[i])
    BY SoonerFacts
  <2> QED
    BY <2>1 DEF Before
<1>3. AllowsAggressive(m) => ShouldApply(m)
  BY DEF AllowsAggressive, ShouldApply
<1> QED
  BY <1>1, <1>2, <1>3 DEF IsAllowedBy

LEMMA BestIsKept ==
  ASSUME NEW ps \in Seq(Catalogue), NEW m \in RepairModes, SelectBest(ps, m) # 0
  PROVE  SelectBest(ps, m) \in ResolveConflicts(ps)
<1>1. PICK b : b = SelectBest(ps, m)
  OBVIOUS
<1>2. /\ b \in DOMAIN ps /\ IsAllowedBy(ps[b], m)
      /\ \A i \in DOMAIN ps : IsAllowedBy(ps[i], m) => ~Sooner(ps, i, b)
  BY <1>1, SelectBestSelects DEF Selects
<1>3. \A k \in DOMAIN ps : ~Sooner(ps, k, b)
  BY <1>2, SoonerIsAllowed
<1> QED
  BY <1>1, <1>2, <1>3, Greedy

(* No two different candidates tie.                                           *)
Untied(ps) == \A i, j \in DOMAIN ps : Tie(ps[i], ps[j]) => ps[i] = ps[j]

(* The proposals that are kept.                                              *)
KeptProposals(ps) == {ps[i] : i \in ResolveConflicts(ps)}

(* Without ties, the proposals kept are those that conflict with no better one  *)
(* that is kept.                                                             *)
LEMMA KeptIsGreedy ==
  ASSUME NEW ps \in Seq(Catalogue), Untied(ps), NEW i \in DOMAIN ps
  PROVE  ps[i] \in KeptProposals(ps)
           <=> \A q \in KeptProposals(ps) : Before(q, ps[i]) => ~Conflict(q, ps[i])
<1>1. PICK kept : kept = ResolveConflicts(ps)
  OBVIOUS
<1>2. /\ kept \in SUBSET DOMAIN ps
      /\ \A j \in DOMAIN ps :
           j \in kept <=> \A k \in kept : Sooner(ps, k, j) => ~Conflict(ps[k], ps[j])
  BY <1>1, Greedy
<1>3. KeptProposals(ps) = {ps[k] : k \in kept}
  BY <1>1 DEF KeptProposals
<1>4. ASSUME ps[i] \in KeptProposals(ps), NEW q \in KeptProposals(ps), Before(q, ps[i])
      PROVE  ~Conflict(q, ps[i])
  <2>1. PICK j \in kept : ps[j] = ps[i]
    BY <1>3, <1>4
  <2>2. PICK k \in kept : ps[k] = q
    BY <1>3, <1>4
  <2>3. Sooner(ps, k, j)
    BY <1>4, <2>1, <2>2 DEF Sooner
  <2> QED
    BY <1>2, <2>1, <2>2, <2>3
<1>5. ASSUME \A q \in KeptProposals(ps) : Before(q, ps[i]) => ~Conflict(q, ps[i])
      PROVE  ps[i] \in KeptProposals(ps)
  <2> DEFINE same == {j \in DOMAIN ps : ps[j] = ps[i]}
  <2>1. same \in SUBSET DOMAIN ps /\ same # {}
    OBVIOUS
  <2>2. PICK j \in same : \A k \in same : ~Sooner(ps, k, j)
    <3> HIDE DEF same
    <3> QED
      BY <2>1, SoonestExists
  <2>3. j \in DOMAIN ps /\ ps[j] = ps[i]
    OBVIOUS
  <2>4. ASSUME NEW k \in kept, Sooner(ps, k, j) PROVE ~Conflict(ps[k], ps[j])
    <3>1. k \in DOMAIN ps /\ ps[k] \in KeptProposals(ps)
      BY <1>2, <1>3
    <3>2. ~Tie(ps[k], ps[j])
      <4> SUFFICES ASSUME Tie(ps[k], ps[j]) PROVE FALSE
        OBVIOUS
      <4>1. ps[k] = ps[i]
        BY <2>3, <3>1 DEF Untied
      <4>2. k \in same
        BY <3>1, <4>1
      <4> QED
        BY <2>2, <2>4, <4>2
    <3>3. Before(ps[k], ps[i])
      BY <2>3, <2>4, <3>2 DEF Sooner
    <3> QED
      BY <1>5, <2>3, <3>1, <3>3
  <2>5. j \in kept
    BY <1>2, <2>3, <2>4
  <2> QED
    BY <1>3, <2>3, <2>5
<1> QED
  BY <1>4, <1>5

(* One list of candidates is another in a different order.                    *)
Reorders(order, ps, qs) ==
  /\ ps \in Seq(Catalogue) /\ qs \in Seq(Catalogue)
  /\ order \in Bijection(DOMAIN ps, DOMAIN ps)
  /\ DOMAIN qs = DOMAIN ps
  /\ \A i \in DOMAIN ps : qs[i] = ps[order[i]]

LEMMA ReorderedAlike ==
  ASSUME NEW ps, NEW qs, NEW order, Reorders(order, ps, qs), Untied(ps)
  PROVE  /\ Untied(qs)
         /\ \A i \in DOMAIN ps : order[i] \in DOMAIN ps /\ qs[i] = ps[order[i]]
         /\ \A i \in DOMAIN ps : \E j \in DOMAIN qs : qs[j] = ps[i]
<1>1. /\ DOMAIN qs = DOMAIN ps
      /\ \A i \in DOMAIN ps : order[i] \in DOMAIN ps /\ qs[i] = ps[order[i]]
  BY DEF Reorders, Bijection, Injection
<1>2. \A i \in DOMAIN ps : \E j \in DOMAIN qs : qs[j] = ps[i]
  BY <1>1 DEF Reorders, Bijection, Surjection
<1>3. Untied(qs)
  BY <1>1 DEF Untied
<1> QED
  BY <1>1, <1>2, <1>3

LEMMA KeptIgnoresOrder ==
  ASSUME NEW ps, NEW qs, NEW order, Reorders(order, ps, qs), Untied(ps)
  PROVE  KeptProposals(qs) = KeptProposals(ps)
<1>1. /\ ps \in Seq(Catalogue) /\ qs \in Seq(Catalogue) /\ Untied(qs)
      /\ \A i \in DOMAIN qs : \E j \in DOMAIN ps : qs[i] = ps[j]
      /\ \A i \in DOMAIN ps : \E j \in DOMAIN qs : qs[j] = ps[i]
  <2>1. ps \in Seq(Catalogue) /\ qs \in Seq(Catalogue) /\ DOMAIN qs = DOMAIN ps
    BY DEF Reorders
  <2>2. /\ Untied(qs)
        /\ \A i \in DOMAIN ps : order[i] \in DOMAIN ps /\ qs[i] = ps[order[i]]
        /\ \A i \in DOMAIN ps : \E j \in DOMAIN qs : qs[j] = ps[i]
    BY ReorderedAlike
  <2> QED
    BY <2>1, <2>2
<1>2. /\ \A p \in KeptProposals(ps) : \E i \in DOMAIN ps : ps[i] = p
      /\ \A p \in KeptProposals(qs) : \E i \in DOMAIN ps : ps[i] = p
  <2>1. ResolveConflicts(ps) \in SUBSET DOMAIN ps /\ ResolveConflicts(qs) \in SUBSET DOMAIN qs
    BY <1>1, Greedy
  <2> QED
    BY <1>1, <2>1 DEF KeptProposals
<1> DEFINE differ == {i \in DOMAIN ps :
                        ~(ps[i] \in KeptProposals(ps) <=> ps[i] \in KeptProposals(qs))}
<1>3. differ = {}
  <2> SUFFICES ASSUME differ # {} PROVE FALSE
    OBVIOUS
  <2>1. PICK i \in differ : \A j \in differ : ~Sooner(ps, j, i)
    <3>1. differ \in SUBSET DOMAIN ps
      OBVIOUS
    <3> HIDE DEF differ
    <3> QED
      BY <1>1, <3>1, SoonestExists
  <2>2. i \in DOMAIN ps /\ ~(ps[i] \in KeptProposals(ps) <=> ps[i] \in KeptProposals(qs))
    BY <2>1
  <2>3. ASSUME NEW q, Before(q, ps[i]), q \in KeptProposals(ps) \/ q \in KeptProposals(qs)
        PROVE  q \in KeptProposals(ps) /\ q \in KeptProposals(qs)
    <3>1. PICK j \in DOMAIN ps : ps[j] = q
      BY <1>2, <2>3
    <3>2. Sooner(ps, j, i)
      BY <2>3, <3>1 DEF Sooner
    <3>3. j \notin differ
      BY <2>1, <3>2
    <3> QED
      BY <2>3, <3>1, <3>3
  <2>4. ps[i] \in KeptProposals(ps) <=> \A q \in KeptProposals(ps) : Before(q, ps[i]) => ~Conflict(q, ps[i])
    BY <1>1, <2>2, KeptIsGreedy
  <2>5. PICK j \in DOMAIN qs : qs[j] = ps[i]
    BY <1>1, <2>2
  <2>6. qs[j] \in KeptProposals(qs) <=> \A q \in KeptProposals(qs) : Before(q, qs[j]) => ~Conflict(q, qs[j])
    BY <1>1, KeptIsGreedy
  <2>7. ps[i] \in KeptProposals(qs) <=> \A q \in KeptProposals(qs) : Before(q, ps[i]) => ~Conflict(q, ps[i])
    BY <2>5, <2>6
  <2> HIDE DEF differ
  <2> QED
    BY <2>2, <2>3, <2>4, <2>7
<1>4. \A i \in DOMAIN ps : ps[i] \in KeptProposals(ps) <=> ps[i] \in KeptProposals(qs)
  BY <1>3
<1> QED
  BY <1>2, <1>4

LEMMA BestIgnoresOrder ==
  ASSUME NEW ps, NEW qs, NEW order, Reorders(order, ps, qs), Untied(ps), NEW m,
         NEW b, NEW d, Selects(b, ps, m), Selects(d, qs, m)
  PROVE  /\ (b = 0) = (d = 0)
         /\ b # 0 => qs[d] = ps[b]
<1>1. /\ ps \in Seq(Catalogue) /\ qs \in Seq(Catalogue) /\ DOMAIN qs = DOMAIN ps
      /\ \A i \in DOMAIN ps : order[i] \in DOMAIN ps /\ qs[i] = ps[order[i]]
      /\ \A i \in DOMAIN ps : \E j \in DOMAIN qs : qs[j] = ps[i]
  BY ReorderedAlike DEF Reorders
<1>2. 0 \notin DOMAIN ps
  BY <1>1
<1>3. CASE b = 0
  <2>1. \A i \in DOMAIN ps : ~IsAllowedBy(ps[i], m)
    BY <1>2, <1>3 DEF Selects
  <2>2. \A i \in DOMAIN qs : ~IsAllowedBy(qs[i], m)
    BY <1>1, <2>1
  <2>3. d = 0
    BY <2>2 DEF Selects
  <2> QED
    BY <1>3, <2>3
<1>4. CASE b # 0
  <2>1. /\ b \in DOMAIN ps /\ IsAllowedBy(ps[b], m)
        /\ \A i \in DOMAIN ps : IsAllowedBy(ps[i], m) => ~Sooner(ps, i, b)
    BY <1>4 DEF Selects
  <2>2. PICK j \in DOMAIN qs : qs[j] = ps[b]
    BY <1>1, <2>1
  <2>3. /\ d # 0 /\ d \in DOMAIN qs /\ IsAllowedBy(qs[d], m)
        /\ \A i \in DOMAIN qs : IsAllowedBy(qs[i], m) => ~Sooner(qs, i, d)
    BY <1>1, <1>2, <2>1, <2>2 DEF Selects
  <2>4. PICK k \in DOMAIN ps : ps[k] = qs[d]
    BY <1>1, <2>3
  <2>5. ~Before(ps[k], ps[b])
    BY <2>1, <2>3, <2>4 DEF Sooner
  <2>6. ~Before(ps[b], ps[k])
    BY <2>1, <2>2, <2>3, <2>4 DEF Sooner
  <2>7. ps[k] = ps[b]
    BY <2>1, <2>5, <2>6 DEF Untied, Tie
  <2> QED
    BY <1>4, <2>3, <2>4, <2>7
<1> QED
  BY <1>3, <1>4

-----------------------------------------------------------------------------
RepairTypeOK == candidates \in Seq(Catalogue) /\ mode \in RepairModes

LEMMA ChoiceHolds ==
  ASSUME RepairTypeOK
  PROVE  ChoiceIgnoresOrder
<1> DEFINE Alike(order) ==
             LET other == [i \in DOMAIN candidates |-> candidates[order[i]]]
                 best == SelectBest(candidates, mode)
             IN  /\ {other[i] : i \in ResolveConflicts(other)} = Surviving
                 /\ (best = 0) = (SelectBest(other, mode) = 0)
                 /\ best # 0 => other[SelectBest(other, mode)] = candidates[best]
<1>1. candidates \in Seq(Catalogue)
  BY DEF RepairTypeOK
<1>2. ASSUME Untied(candidates), NEW order \in Bijection(DOMAIN candidates, DOMAIN candidates)
      PROVE  Alike(order)
  <2>1. PICK ps, qs, b, d :
          /\ ps = candidates /\ qs = [i \in DOMAIN candidates |-> candidates[order[i]]]
          /\ b = SelectBest(ps, mode) /\ d = SelectBest(qs, mode)
    OBVIOUS
  <2>2. ps \in Seq(Catalogue) /\ Untied(ps) /\ order \in Bijection(DOMAIN ps, DOMAIN ps)
    BY <1>1, <1>2, <2>1
  <2>3. DOMAIN qs = DOMAIN ps /\ \A i \in DOMAIN ps : qs[i] = ps[order[i]]
    BY <2>1
  <2>4. \A i \in DOMAIN ps : order[i] \in DOMAIN ps
    BY <2>2 DEF Bijection, Injection
  <2>5. PICK L \in Nat : DOMAIN ps = 1..L
    BY <2>2
  <2>6. qs \in Seq(Catalogue)
    <3>1. \A i \in 1..L : qs[i] \in Catalogue
      BY <2>2, <2>3, <2>4, <2>5
    <3>2. qs = [i \in 1..L |-> qs[i]]
      BY <2>1, <2>3, <2>5
    <3> QED
      BY <3>1, <3>2
  <2>7. Reorders(order, ps, qs)
    BY <2>2, <2>3, <2>6 DEF Reorders
  <2>8. KeptProposals(qs) = KeptProposals(ps)
    BY <2>2, <2>7, KeptIgnoresOrder
  <2>9. Selects(b, ps, mode) /\ Selects(d, qs, mode)
    BY <2>1, <2>2, <2>6, SelectBestSelects
  <2>10. (b = 0) = (d = 0) /\ (b # 0 => qs[d] = ps[b])
    BY <2>2, <2>7, <2>9, BestIgnoresOrder
  <2>11. Surviving = KeptProposals(ps)
    BY <2>1 DEF KeptProposals, Surviving
  <2>12. /\ {qs[i] : i \in ResolveConflicts(qs)} = Surviving
         /\ (b = 0) = (d = 0)
         /\ b # 0 => qs[d] = ps[b]
    BY <2>8, <2>10, <2>11 DEF KeptProposals
  <2> QED
    BY <2>1, <2>12
<1>3. Untied(candidates)
        => \A order \in Bijection(DOMAIN candidates, DOMAIN candidates) : Alike(order)
  BY <1>2
<1> QED
  BY <1>3 DEF ChoiceIgnoresOrder, Untied

LEMMA AllowedIsWithinPolicy ==
  ASSUME NEW p \in Catalogue, NEW m \in RepairModes, ValidationErrors(p, m) = {}
  PROVE  /\ ShouldApply(m)
         /\ \A op \in Range(p.ops) : op.inside
         /\ \A op \in Range(p.ops) : op.kind \in AggressiveKinds => m = "AutoStrict"
<1>1. p.ops # <<>>
  BY DEF ValidationErrors
<1>2. \A e \in {"DisallowedOp", "RiskExceedsMode", "UnknownRule", "MonotonicityViolation"} :
        ~ CASE e = "DisallowedOp" -> \E op \in Range(p.ops) : op.kind \notin AllowedKinds(m)
            [] e = "RiskExceedsMode" -> ~IsAllowedBy(p, m)
            [] e = "UnknownRule" -> p.rule # 0 /\ p.rule \notin KnownRules
            [] OTHER -> \E op \in Range(p.ops) : ~op.inside
  BY <1>1 DEF ValidationErrors
<1>3. \A op \in Range(p.ops) : op.kind \in AllowedKinds(m)
  BY <1>2
<1>4. \A op \in Range(p.ops) : op.inside
  BY <1>2
<1>5. \E op \in Range(p.ops) : TRUE
  <2>1. PICK ops, T : ops = p.ops /\ T = Range(p.ops)
    OBVIOUS
  <2>2. ops \in Seq(T) /\ ops # <<>>
    BY <1>1, <2>1, RepairAssumption
  <2>3. 1 \in DOMAIN ops /\ ops[1] \in T
    BY <2>2
  <2> QED
    BY <2>1, <2>3
<1>6. ShouldApply(m)
  BY <1>3, <1>5 DEF AllowedKinds, AllowsAggressive, ShouldApply
<1>7. \A op \in Range(p.ops) : op.kind \in AggressiveKinds => m = "AutoStrict"
  BY <1>3 DEF AllowedKinds, AllowsAggressive, AggressiveKinds, SafeKinds
<1> QED
  BY <1>4, <1>6, <1>7

LEMMA RepairHolds ==
  ASSUME RepairTypeOK
  PROVE  RepairIsSound
<1>1. ResolutionIsJustified
  BY Justified DEF ResolutionIsJustified, RepairTypeOK
<1>2. BestSurvives
  BY BestIsKept DEF BestSurvives, Surviving, RepairTypeOK
<1>3. AppliedIsWithinPolicy
  <2>1. Range(candidates) \in SUBSET Catalogue
    BY DEF RepairTypeOK, Range
  <2> QED
    BY <2>1, AllowedIsWithinPolicy DEF AppliedIsWithinPolicy, RepairTypeOK
<1> QED
  BY <1>1, <1>2, <1>3, ChoiceHolds DEF RepairIsSound

(* The repair that is applied is justified, the best that the policy allows and *)
(* independent of the order in which the proposals were generated, for every    *)
(* catalogue of proposals and every number of them.                          *)
THEOREM RepairSound == RepairSpec => []RepairIsSound
<1>1. RepairInit => RepairTypeOK
  BY DEF RepairInit, RepairTypeOK
<1>2. RepairTypeOK /\ [RepairNext]_repairVars => RepairTypeOK'
  BY DEF RepairTypeOK, RepairNext, Offer, repairVars
<1>3. RepairTypeOK => RepairIsSound
  BY RepairHolds
<1> QED
  BY <1>1, <1>2, <1>3, PTL DEF RepairSpec
=============================================================================
