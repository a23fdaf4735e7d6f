--------------------------- MODULE RepairPlanning ---------------------------
(* The choice among repair proposals for a broken extension (runtime.rs):    *)
(* proposals are ranked, those that conflict with a better one are dropped,  *)
(* and one is applied only if the repair mode, the rule registry and the     *)
(* extension's root allow every operation of it.  The functions are pure;    *)
(* the state is the list of candidates the caller hands to them.             *)
(*                                                                         *)
(* A proposal is [rule, confidence, ops]; an operation is [kind, key, inside]: *)
(* `key` stands for what ops_conflict compares (the source path, the module, *)
(* the virtual path, or module and specifier), `inside` for the outcome of   *)
(* the test that its paths stay below the extension's root.                  *)
EXTENDS Naturals, Sequences, FiniteSets, Functions

CONSTANTS
    Catalogue,      \* the proposals a caller may offer
    KnownRules,     \* the ids of REPAIR_RULES, as numbers in their order
    MaxCandidates   \* bound: candidates in one call

ASSUME RepairAssumption ==
    /\ MaxCandidates \in Nat
    /\ KnownRules \subseteq Nat
    /\ \A p \in Catalogue : /\ p.rule \in Nat /\ p.confidence \in Nat
                           /\ p.ops \in Seq(Range(p.ops))

VARIABLES
    mode,        \* RepairMode
    candidates   \* the proposals, in the order they were generated

repairVars == <<mode, candidates>>

RepairModes == {"Off", "Suggest", "AutoSafe", "AutoStrict"}
SafeKinds == {"replace_module_path", "rewrite_require"}
AggressiveKinds == {"add_export", "remove_import", "inject_stub"}

(* RepairMode::should_apply, RepairMode::allows_aggressive                   *)
ShouldApply(m) == m \in {"AutoSafe", "AutoStrict"}
AllowsAggressive(m) == m = "AutoStrict"

AllowedKinds(m) ==
    (IF ShouldApply(m) THEN SafeKinds ELSE {})
        \cup (IF AllowsAggressive(m) THEN AggressiveKinds ELSE {})

MaxRisk(p) == IF \E op \in Range(p.ops) : op.kind \in AggressiveKinds THEN 1 ELSE 0

IsAllowedBy(p, m) == IF MaxRisk(p) = 0 THEN ShouldApply(m) ELSE AllowsAggressive(m)

OpsConflict(a, b) == a.kind = b.kind /\ a.key = b.key

Conflict(p, q) == \E a \in Range(p.ops), b \in Range(q.ops) : OpsConflict(a, b)

(* compare_proposals: the rank of a proposal, compared component by component: *)
(* risk, number of operations, confidence (descending), rule id.             *)
Before(p, q) ==
    \/ MaxRisk(p) < MaxRisk(q)
    \/ MaxRisk(p) = MaxRisk(q) /\ Len(p.ops) < Len(q.ops)
    \/ MaxRisk(p) = MaxRisk(q) /\ Len(p.ops) = Len(q.ops) /\ p.confidence > q.confidence
    \/ MaxRisk(p) = MaxRisk(q) /\ Len(p.ops) = Len(q.ops) /\ p.confidence = q.confidence
         /\ p.rule < q.rule

Tie(p, q) == ~Before(p, q) /\ ~Before(q, p)

(* The first of the minimal candidates that the mode allows; 0 if none is.   *)
SelectBest(ps, m) ==
    LET allowed == {i \in DOMAIN ps : IsAllowedBy(ps[i], m)}
        best == {i \in allowed : \A j \in allowed : ~Before(ps[j], ps[i])}
    IN  IF best = {} THEN 0 ELSE CHOOSE i \in best : \A j \in best : i <= j

(* Mutant: resolution in the order of generation.                            *)
RankedAsGenerated(ps) == [i \in DOMAIN ps |-> i]

(* The order of a stable sort, the indices in that order, and the greedy pass  *)
(* over them.                                                              *)
Sooner(ps, i, j) == Before(ps[i], ps[j]) \/ (Tie(ps[i], ps[j]) /\ i < j)

Ranked(ps) ==
    [n \in DOMAIN ps |->
        CHOOSE i \in DOMAIN ps :
            Cardinality({j \in DOMAIN ps : Sooner(ps, j, i)}) = n - 1]

Accept(ps, accepted, i) ==
    IF \A k \in accepted : ~Conflict(ps[k], ps[i]) THEN accepted \cup {i} ELSE accepted

ResolveConflicts(ps) ==
    LET accepted[n \in 0..Len(ps)] ==
            IF n = 0 THEN {} ELSE Accept(ps, accepted[n - 1], Ranked(ps)[n])
    IN  accepted[Len(ps)]

(* validate_proposal: the errors found; an empty proposal has that one only. *)
ValidationErrors(p, m) ==
    IF p.ops = <<>> THEN {"EmptyProposal"}
    ELSE {e \in {"DisallowedOp", "RiskExceedsMode", "UnknownRule", "MonotonicityViolation"} :
            CASE e = "DisallowedOp" -> \E op \in Range(p.ops) : op.kind \notin AllowedKinds(m)
              [] e = "RiskExceedsMode" -> ~IsAllowedBy(p, m)
              [] e = "UnknownRule" -> p.rule # 0 /\ p.rule \notin KnownRules
              [] OTHER -> \E op \in Range(p.ops) : ~op.inside}

-----------------------------------------------------------------------------
RepairInit == mode \in RepairModes /\ candidates = <<>>

Offer ==
    /\ Len(candidates) < MaxCandidates
    /\ \E p \in Catalogue : candidates' = Append(candidates, p)
    /\ UNCHANGED mode

RepairNext == Offer

RepairSpec == RepairInit /\ [][RepairNext]_repairVars

-----------------------------------------------------------------------------
Surviving == {candidates[i] : i \in ResolveConflicts(candidates)}

(* Conflict resolution returns a conflict-free set, and what it drops it drops *)
(* for something kept that ranks at least as well ("the lower-ranked one is    *)
(* dropped"): no candidate goes without a reason.                             *)
ResolutionIsJustified ==
    LET kept == ResolveConflicts(candidates) IN
    /\ \A i, j \in kept : i # j => ~Conflict(candidates[i], candidates[j])
    /\ \A i \in DOMAIN candidates \ kept :
         \E k \in kept : Conflict(candidates[i], candidates[k])
                           /\ ~Before(candidates[i], candidates[k])

(* Which proposals survive and which is best does not depend on the order they *)
(* were generated in, as long as no two different ones tie in every criterion. *)
ChoiceIgnoresOrder ==
    (\A i, j \in DOMAIN candidates :
        Tie(candidates[i], candidates[j]) => candidates[i] = candidates[j])
      => \A order \in Bijection(DOMAIN candidates, DOMAIN candidates) :
           LET other == [i \in DOMAIN candidates |-> candidates[order[i]]]
               best == SelectBest(candidates, mode)
           IN  /\ {other[i] : i \in ResolveConflicts(other)} = Surviving
               /\ (best = 0) = (SelectBest(other, mode) = 0)
               /\ best # 0 => other[SelectBest(other, mode)] = candidates[best]

(* The best candidate the mode allows is never lost to conflict resolution.  *)
BestSurvives ==
    LET best == SelectBest(candidates, mode) IN
    best # 0 => candidates[best] \in Surviving

(* What validation lets through changes code only in AutoStrict mode and stays *)
(* below the extension's root, whatever operation of it comes first.          *)
AppliedIsWithinPolicy ==
    \A p \in Range(candidates) :
        ValidationErrors(p, mode) = {} =>
            /\ ShouldApply(mode)
            /\ \A op \in Range(p.ops) : op.inside
            /\ \A op \in Range(p.ops) : op.kind \in AggressiveKinds => mode = "AutoStrict"

(* The repair that is applied is the best the policy allows, for a reason, and  *)
(* the same whatever order the proposals came in.                            *)
RepairIsSound ==
    /\ ResolutionIsJustified
    /\ ChoiceIgnoresOrder
    /\ BestSurvives
    /\ AppliedIsWithinPolicy
=============================================================================
