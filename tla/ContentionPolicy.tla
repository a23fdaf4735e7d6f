--------------------------- MODULE ContentionPolicy ---------------------------
(***************************************************************************)
(* BravoContentionState: a lock's bias towards readers or writers, decided *)
(* window by window from how often and how long each waited.               *)
(* Source: src/e-agent-node-runtime/src/hostcall_queue.rs.                 *)
(***************************************************************************)
EXTENDS Integers

CONSTANTS
  MinAcquires,           \* BravoContentionConfig, field by field
  ReadDominant,
  MixedFloor,
  MixedCeiling,
  StarvationWait,
  StarvationTimeouts,
  MaxBiasWindows,
  RecoveryWindows,
  Acquires,              \* numbers of acquisitions a window may have seen
  Waits,                 \* 95th percentiles of the writers' waits
  Timeouts               \* numbers of writers that gave up

ASSUME ContentionConstants ==
  /\ \A n \in {MinAcquires, ReadDominant, MixedFloor, MixedCeiling, StarvationWait,
               StarvationTimeouts, MaxBiasWindows, RecoveryWindows} : n \in Nat
  /\ Acquires \subseteq Nat /\ Waits \subseteq Nat /\ Timeouts \subseteq Nat

VARIABLES
  bias,        \* "balanced", "read" or "recovery"
  biasRun,     \* consecutive_read_bias_windows
  recovery,    \* writer_recovery_remaining
  decided,     \* the last BravoPolicyDecision, without the modes
  biased,      \* history: windows in a row that were spent read-biased
  calm         \* history: windows of this recovery since writers last starved

contentionVars == <<bias, biasRun, recovery, decided, biased, calm>>

Samples == [reads : Acquires, writes : Acquires, wait : Waits, timeouts : Timeouts]

AtLeastOne(n) == IF n = 0 THEN 1 ELSE n
AtMostAll(n)  == IF n > 1000 THEN 1000 ELSE n

ReadRatio(sample) ==
  LET total == sample.reads + sample.writes
  IN IF total = 0 THEN 0 ELSE (sample.reads * 1000) \div total

\* Starvation goes before the ratio of readers.
Classify(sample) ==
  LET ratio   == ReadRatio(sample)
      floor   == AtMostAll(MixedFloor)
      ceiling == IF MixedCeiling < floor THEN floor ELSE AtMostAll(MixedCeiling)
  IN CASE sample.reads + sample.writes < MinAcquires -> "insufficient"
       [] /\ sample.reads + sample.writes >= MinAcquires
          /\ \/ sample.wait >= StarvationWait
             \/ sample.timeouts >= StarvationTimeouts -> "starvation"
       [] OTHER -> IF ratio >= AtMostAll(ReadDominant) THEN "readDominant"
                   ELSE IF floor <= ratio /\ ratio <= ceiling THEN "mixed"
                   ELSE "writeDominant"

ContentionInit ==
  /\ bias = "balanced" /\ biasRun = 0 /\ recovery = 0
  /\ decided = [signature |-> "insufficient", rollback |-> FALSE]
  /\ biased = 0 /\ calm = 0

StartRecovery(rollback) ==
  /\ bias' = "recovery" /\ recovery' = AtLeastOne(RecoveryWindows) /\ biasRun' = 0
  /\ decided'.rollback = rollback

ObserveBalanced(signature) ==
  /\ bias = "balanced"
  /\ IF signature = "starvation" THEN StartRecovery(TRUE)
     ELSE IF signature \in {"readDominant", "mixed"}
     THEN bias' = "read" /\ biasRun' = 1 /\ decided'.rollback = FALSE /\ UNCHANGED recovery
     ELSE biasRun' = 0 /\ decided'.rollback = FALSE /\ UNCHANGED <<bias, recovery>>

\* Readers have had their windows, or writers starve.
ObserveReadBiased(signature) ==
  /\ bias = "read"
  /\ IF signature = "starvation" \/ biasRun + 1 >= AtLeastOne(MaxBiasWindows)
     THEN StartRecovery(signature = "starvation")
     ELSE /\ decided'.rollback = FALSE
          /\ IF signature \in {"insufficient", "writeDominant"}
             THEN bias' = "balanced" /\ biasRun' = 0
             ELSE bias' = bias /\ biasRun' = biasRun + 1
          /\ UNCHANGED recovery

\* Mutant: a writer that starves again does not start the recovery over.
ObserveRecoveryOnce(signature) ==
  /\ bias = "recovery"
  /\ biasRun' = 0 /\ decided'.rollback = FALSE
  /\ recovery' = recovery - 1
  /\ bias' = IF recovery' = 0 THEN "balanced" ELSE bias

ObserveRecovery(signature) ==
  /\ bias = "recovery"
  /\ biasRun' = 0 /\ decided'.rollback = FALSE
  /\ recovery' = IF signature = "starvation" THEN AtLeastOne(RecoveryWindows)
                 ELSE IF recovery > 0 THEN recovery - 1 ELSE recovery
  /\ bias' = IF recovery' = 0 THEN "balanced" ELSE bias

ObserveWindow(sample) ==
  LET signature == Classify(sample) IN
    /\ decided' \in [signature : {signature}, rollback : BOOLEAN]
    /\ \/ ObserveBalanced(signature)
       \/ ObserveReadBiased(signature)
       \/ ObserveRecovery(signature)
    /\ biased' = IF bias = "read" THEN biased + 1 ELSE 0
    /\ calm' = IF bias # "recovery" \/ signature = "starvation" THEN 0 ELSE calm + 1

ContentionNext == \E sample \in Samples : ObserveWindow(sample)

ContentionSpec == ContentionInit /\ [][ContentionNext]_contentionVars

(***************************************************************************)
(* Properties.                                                             *)
(***************************************************************************)

\* The counters stay within their limits, each zero unless its mode needs it:
\* one that survived a change of mode would shorten the next window of grace.
ContentionTypeOK ==
  /\ bias \in {"balanced", "read", "recovery"}
  /\ biasRun \in Nat /\ (biasRun > 0 <=> bias = "read")
  /\ recovery \in 0..AtLeastOne(RecoveryWindows) /\ (recovery > 0 <=> bias = "recovery")
  /\ decided \in [signature : {"insufficient", "starvation", "readDominant", "mixed",
                               "writeDominant"}, rollback : BOOLEAN]
  /\ biased \in Nat /\ calm \in Nat

\* Readers are not favoured for more windows in a row than the configuration
\* says, however read-dominant the load is (max_consecutive_read_bias_windows).
ReadBiasIsBounded == biased <= AtLeastOne(MaxBiasWindows)

\* Writers that were seen starving are favoured from the next window on ...
StarvationIsAnswered ==
  [][decided'.signature = "starvation" => bias' = "recovery"]_contentionVars

\* ... until they have not starved for as many windows as a recovery takes.
RecoveryIsServed ==
  [][bias = "recovery" /\ bias' # "recovery" => calm' >= RecoveryWindows]_contentionVars

\* Neither side is favoured for ever: readers give way, and starved writers get
\* the windows they were promised.
WindowsAreServed == []ReadBiasIsBounded /\ StarvationIsAnswered /\ RecoveryIsServed
=============================================================================
