----------------------------- MODULE S3FifoPolicy -----------------------------
(***************************************************************************)
(* The admission policy of the host-call queues as a policy of its own:    *)
(* live keys in a probationary queue (small) and a protected one (main),   *)
(* evicted ones remembered as ghosts, a budget of live keys per owner, and *)
(* a fallback when the last signals say that the policy does not help.     *)
(* Source: src/e-agent-node-runtime/src/hostcall_s3_fifo.rs.               *)
(***************************************************************************)
EXTENDS Integers, Sequences, FiniteSets, SequencesExt, Selection

CONSTANTS
  Keys, NoKey,
  Owners, NoOwner,
  LiveSize,          \* S3FifoConfig as `new` normalises it
  SmallSize,
  GhostSize,
  OwnerBudget,
  Window,
  MinGhostHits,
  MaxRejections,
  MaxPolicyGen       \* stands for u64::MAX of ghost_gen

ASSUME PolicyConstants ==
  /\ NoKey \notin Keys /\ NoOwner \notin Owners
  /\ LiveSize \in Nat /\ SmallSize \in 1..(LiveSize - 1)
  /\ GhostSize \in Nat \ {0} /\ OwnerBudget \in Nat \ {0} /\ Window \in Nat \ {0}
  /\ MinGhostHits \in 0..Window /\ MaxRejections \in 0..Window
  /\ MaxPolicyGen \in Nat /\ MaxPolicyGen > GhostSize

VARIABLES
  policy,      \* S3FifoPolicy
  decision,    \* the last S3FifoDecision: its kind, or "none" after clear_fallback
  seen         \* history: accesses since clear_fallback that gave a signal, up to Window

policyVars == <<policy, decision, seen>>

\* The two maps of the ghosts: order is by generation, lookup by key (0: none).
NewPolicy == [small |-> <<>>, main |-> <<>>,
              order |-> [g \in 1..MaxPolicyGen |-> NoKey],
              lookup |-> [k \in Keys |-> 0], gen |-> 0,
              tier |-> [k \in Keys |-> "none"], owner |-> [k \in Keys |-> NoOwner],
              count |-> [o \in Owners |-> 0],
              signals |-> <<>>, reason |-> "none"]

MainSize == LiveSize - SmallSize
PolicyGhosts(p) == {k \in Keys : p.lookup[k] # 0}

RemoveGhost(p, key) ==
  IF p.lookup[key] = 0 THEN p
  ELSE [p EXCEPT !.order[p.lookup[key]] = NoKey, !.lookup[key] = 0]

\* When the generations are used up all ghosts are forgotten; a key that is a
\* ghost already gets the new generation.
StampGhost(p, key) ==
  LET q == IF p.gen = MaxPolicyGen
           THEN [p EXCEPT !.gen = 0, !.order = NewPolicy.order, !.lookup = NewPolicy.lookup]
           ELSE p
      r == RemoveGhost(q, key)
  IN [r EXCEPT !.gen = @ + 1, !.order[r.gen + 1] = key, !.lookup[key] = r.gen + 1]

OldestGhost(p) ==
  p.order[CHOOSE g \in 1..MaxPolicyGen :
            p.order[g] # NoKey /\ \A h \in 1..(g - 1) : p.order[h] = NoKey]

\* One key at a time becomes a ghost, so that at most one has to go.
PushGhost(p, key) ==
  LET q == StampGhost(p, key)
  IN IF Cardinality(PolicyGhosts(q)) > GhostSize THEN RemoveGhost(q, OldestGhost(q)) ELSE q

\* Mutant: the owner of an evicted key keeps it in its count.
EvictUncounted(p, queue) ==
  LET key == Head(p[queue])
  IN PushGhost([p EXCEPT ![queue] = Tail(@), !.tier[key] = "none", !.owner[key] = NoOwner], key)

\* The front of a queue becomes a ghost.
Evict(p, queue) ==
  LET key == Head(p[queue])
  IN PushGhost([p EXCEPT ![queue] = Tail(@), !.tier[key] = "none", !.owner[key] = NoOwner,
                         !.count[p.owner[key]] = @ - 1], key)

\* A queue grows by one key at a time: its capacity asks for at most one eviction,
\* after which the live capacity holds by itself.
EnforceSmall(p) == IF Len(p.small) > SmallSize THEN Evict(p, "small") ELSE p
EnforceMain(p)  == IF Len(p.main) > MainSize THEN Evict(p, "main") ELSE p

AtBudget(p, owner) == p.count[owner] >= OwnerBudget

Live(p, key, owner, queue) ==
  [p EXCEPT ![queue] = Append(@, key), !.tier[key] = queue, !.owner[key] = owner,
            !.count[owner] = @ + 1]

AdmitSmall(p, owner, key) == EnforceSmall(Live(RemoveGhost(p, key), key, owner, "small"))

AdmitFromGhost(p, owner, key) == EnforceMain(Live(RemoveGhost(p, key), key, owner, "main"))

\* The owner stays the one who had the key admitted, whoever asks for it now.
PromoteSmallToMain(p, key) ==
  EnforceMain([p EXCEPT !.small = Without(@, {key}), !.main = Append(@, key),
                        !.tier[key] = "main"])

TouchMain(p, key) == [p EXCEPT !.main = Append(Without(@, {key}), key)]

Kind(p, owner, key) ==
  CASE p.tier[key] = "main"  -> "HitMain"
    [] p.tier[key] = "small" -> "PromoteSmallToMain"
    [] p.tier[key] = "none" /\ AtBudget(p, owner) -> "RejectFairnessBudget"
    [] OTHER -> IF key \in PolicyGhosts(p) THEN "AdmitFromGhost" ELSE "AdmitSmall"

Decide(p, owner, key) ==
  CASE Kind(p, owner, key) = "HitMain" -> TouchMain(p, key)
    [] Kind(p, owner, key) = "PromoteSmallToMain" -> PromoteSmallToMain(p, key)
    [] Kind(p, owner, key) = "AdmitFromGhost" -> AdmitFromGhost(p, owner, key)
    [] Kind(p, owner, key) = "AdmitSmall" -> AdmitSmall(p, owner, key)
    [] OTHER -> p

Signal(p, owner, key) ==
  [ghostHit |-> p.tier[key] = "none" /\ key \in PolicyGhosts(p),
   rejected |-> Kind(p, owner, key) = "RejectFairnessBudget"]

RecordSignal(p, signal) ==
  [p EXCEPT !.signals = IF Len(@) = Window THEN Append(Tail(@), signal) ELSE Append(@, signal)]

GhostHits(p)  == Cardinality({i \in 1..Len(p.signals) : p.signals[i].ghostHit})
Rejections(p) == Cardinality({i \in 1..Len(p.signals) : p.signals[i].rejected})

EvaluateFallback(p) ==
  [p EXCEPT !.reason = IF Len(p.signals) < Window THEN "none"
                       ELSE IF GhostHits(p) < MinGhostHits THEN "signalQuality"
                       ELSE IF Rejections(p) > MaxRejections THEN "fairness" ELSE "none"]

PolicyInit == policy = NewPolicy /\ decision = "none" /\ seen = 0

Access(owner, key) ==
  /\ policy.reason = "none"
  /\ policy' = EvaluateFallback(RecordSignal(Decide(policy, owner, key),
                                             Signal(policy, owner, key)))
  /\ decision' = Kind(policy, owner, key)
  /\ seen' = IF seen = Window THEN seen ELSE seen + 1

Bypass(owner, key) ==
  /\ policy.reason # "none"
  /\ decision' = "FallbackBypass"
  /\ UNCHANGED <<policy, seen>>

ClearFallback ==
  /\ policy' = [policy EXCEPT !.reason = "none", !.signals = <<>>]
  /\ decision' = "none" /\ seen' = 0

PolicyNext ==
  \/ \E owner \in Owners, key \in Keys : Access(owner, key) \/ Bypass(owner, key)
  \/ ClearFallback

PolicySpec == PolicyInit /\ [][PolicyNext]_policyVars

(***************************************************************************)
(* Properties.                                                             *)
(***************************************************************************)
PolicyTypeOK ==
  /\ policy.small \in Seq(Keys) /\ Len(policy.small) <= SmallSize
  /\ policy.main \in Seq(Keys) /\ Len(policy.main) <= MainSize
  /\ policy.lookup \in [Keys -> 0..MaxPolicyGen] /\ policy.gen \in 0..MaxPolicyGen
  /\ policy.order \in [1..MaxPolicyGen -> Keys \union {NoKey}]
  /\ policy.tier \in [Keys -> {"none", "small", "main"}]
  /\ policy.owner \in [Keys -> Owners \union {NoOwner}]
  /\ policy.count \in [Owners -> Nat]
  /\ Len(policy.signals) <= Window
  /\ policy.reason \in {"none", "signalQuality", "fairness"}
  /\ seen \in 0..Window

Occurrences(queue, key) == Cardinality({i \in 1..Len(queue) : queue[i] = key})

\* A key is in the queue its tier names, once, and in no other; only a key in no
\* queue is a ghost (access, evict_*, purge_key).
EachKeyInOnePlace ==
  \A k \in Keys :
    /\ Occurrences(policy.small, k) = IF policy.tier[k] = "small" THEN 1 ELSE 0
    /\ Occurrences(policy.main, k) = IF policy.tier[k] = "main" THEN 1 ELSE 0
    /\ k \in PolicyGhosts(policy) => policy.tier[k] = "none"

\* What an owner is held to is what it has: its count is the number of live keys
\* admitted for it, never above its budget, although others may promote and
\* evict them (increment_owner, decrement_owner).
CountsAreExact ==
  \A o \in Owners :
    /\ policy.count[o] = Cardinality({k \in Keys : policy.tier[k] # "none" /\ policy.owner[k] = o})
    /\ policy.count[o] <= OwnerBudget

\* The two maps of the ghosts are inverse to each other and within capacity, also
\* when generations start over (push_ghost, remove_ghost).
PolicyGhostsAgree ==
  /\ \A k \in Keys, g \in 1..MaxPolicyGen : policy.lookup[k] = g <=> policy.order[g] = k
  /\ Cardinality(PolicyGhosts(policy)) <= GhostSize

\* The policy gives up only on a full window of signals of its own, none from
\* before the fallback was last cleared (evaluate_fallback, clear_fallback).
FallbackIsJustified ==
  policy.reason # "none" => seen = Window /\ Len(policy.signals) = Window

\* Keys, counts and ghosts agree through every promotion, eviction and rejection,
\* and the policy gives up only for a reason.
PolicyIsSound ==
  /\ PolicyTypeOK
  /\ EachKeyInOnePlace
  /\ CountsAreExact
  /\ PolicyGhostsAgree
  /\ FallbackIsJustified
=============================================================================
