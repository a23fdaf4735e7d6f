-------------------------- MODULE HostParts_proofs --------------------------
(***************************************************************************)
(* Proofs about parts that face the program's hosts: ExtensionCalls, the   *)
(* calls of programs into native extensions, for any number of sessions and *)
(* calls; ExtensionScopes, Pi extensions in one JavaScript runtime, for any *)
(* extensions and any number of tasks, calls and callbacks; PiRuntime, the *)
(* runtime's commands, for any number of commands and staged actions;      *)
(* TerminalModes, which has no constants, for a terminal that fails any    *)
(* command at any time, with or without effect; ExtensionRegistry, for     *)
(* any extensions, names, functions and number of registrations and loads; *)
(* and ProviderStream, for conversations of any length.                    *)
(***************************************************************************)
EXTENDS ExtensionCalls, ExtensionScopes, ExtensionRegistry, PiRuntime, ProviderStream, TerminalModes,
        SequenceTheorems, FiniteSetTheorems, SequenceLemmas, TLAPS

-----------------------------------------------------------------------------
(* ExtensionCalls                                                            *)

Owners == Sessions \union {NoSession}

ExtTypes ==
  /\ lock \in Owners /\ currentSession \in Owners
  /\ program \in [Sessions -> {"none", "queued", "running"}]
  /\ closed \in [Sessions -> BOOLEAN]
  /\ cancelled \in BOOLEAN /\ abandoned \in BOOLEAN
  /\ call \in [NativeCalls -> [session : Owners, at : Places, signalled : BOOLEAN]]
  /\ touched \in [NativeCalls -> SUBSET Owners]
  /\ states \subseteq Owners /\ slipped \subseteq NativeCalls

\* Every place among the waiters is that of a program that waits ...
WaitersAreQueued ==
  /\ waiters \in Seq(Sessions)
  /\ \A i \in 1..Len(waiters) : program[waiters[i]] = "queued"
  /\ \A i, j \in 1..Len(waiters) : waiters[i] = waiters[j] => i = j

\* ... and every program that waits has one.
HasPlace(s) == \E i \in 1..Len(waiters) : waiters[i] = s
QueuedHavePlaces == \A s \in Sessions : program[s] = "queued" => HasPlace(s)

\* Who waits for the lock or holds it was not dropped.
OpenWhileBusy == \A s \in Sessions : program[s] # "none" => ~closed[s]

\* As long as no call was left behind, whatever is under way belongs to the
\* program that runs, and past its first step finds its own session in the slot.
OwnProgramRuns(c) ==
  /\ call[c].session \in Sessions
  /\ program[call[c].session] = "running"
OwnSessionIsCurrent(c) == currentSession = call[c].session
CallsAreCurrent ==
  ~abandoned =>
    \A c \in NativeCalls :
      /\ UnderWay(c) => OwnProgramRuns(c)
      /\ call[c].at \in {"started", "checked", "waiting"} => OwnSessionIsCurrent(c)

UnusedTouchNothing == \A c \in NativeCalls : call[c].at = "unused" => touched[c] = {}

ExtInv ==
  /\ ExtTypes /\ OneProgram /\ OpenWhileBusy
  /\ WaitersAreQueued /\ QueuedHavePlaces
  /\ CallsAreCurrent /\ UnusedTouchNothing
  /\ StatesArePrivate /\ DroppedStaysDropped

-----------------------------------------------------------------------------
LEMMA ExtInitInv == ExtInit => ExtInv
<1> SUFFICES ASSUME ExtInit PROVE ExtInv
  OBVIOUS
<1>1. ExtTypes
  BY DEF ExtInit, ExtTypes, Owners, Places
<1>2. OneProgram /\ WaitersAreQueued /\ QueuedHavePlaces /\ OpenWhileBusy
  BY ExtensionConstants
  DEF ExtInit, OneProgram, WaitersAreQueued, QueuedHavePlaces, OpenWhileBusy
<1>3. CallsAreCurrent /\ UnusedTouchNothing
  BY DEF ExtInit, CallsAreCurrent, UnusedTouchNothing, UnderWay
<1>4. StatesArePrivate /\ DroppedStaysDropped
  BY DEF ExtInit, StatesArePrivate, DroppedStaysDropped
<1> QED
  BY <1>1, <1>2, <1>3, <1>4 DEF ExtInv

\* The steps of the programs, the lock and the sessions.
LEMMA ProgramStepsKeepTypes ==
  ASSUME ExtTypes, NEW s \in Sessions,
         \/ BeginProgram(s) \/ Acquire(s) \/ EndProgram(s) \/ AbortQueued(s) \/ DropSession(s)
         \/ \E c \in NativeCalls : Invoke(s, c)
  PROVE  ExtTypes'
<1>1. CASE BeginProgram(s)
  BY <1>1 DEF BeginProgram, ExtTypes
<1>2. CASE Acquire(s)
  BY <1>2 DEF Acquire, ExtTypes, Owners
<1>3. CASE EndProgram(s)
  BY <1>3 DEF EndProgram, ExtTypes, Owners
<1>4. CASE AbortQueued(s)
  BY <1>4 DEF AbortQueued, ExtTypes
<1>5. CASE DropSession(s)
  BY <1>5 DEF DropSession, ExtTypes
<1>6. ASSUME NEW c \in NativeCalls, Invoke(s, c) PROVE ExtTypes'
  BY <1>6 DEF Invoke, ExtTypes, Owners, Places
<1> QED
  BY <1>1, <1>2, <1>3, <1>4, <1>5, <1>6

LEMMA CallStepsKeepTypes ==
  ASSUME ExtTypes, NEW c \in NativeCalls, TaskStep(c) \/ UseState(c)
  PROVE  ExtTypes'
<1>1. CASE SetCurrent(c)
  BY <1>1 DEF SetCurrent, Step, ExtTypes, Places
<1>2. CASE CheckCancelled(c)
  BY <1>2 DEF CheckCancelled, Step, ExtTypes, Places
<1>3. CASE Subscribe(c)
  BY <1>3 DEF Subscribe, Step, ExtTypes, Places
<1>4. CASE ReturnResult(c)
  BY <1>4 DEF ReturnResult, Step, ExtTypes, Places
<1>5. CASE SeeSignal(c)
  BY <1>5 DEF SeeSignal, Step, ExtTypes, Places
<1>6. CASE UseState(c)
  BY <1>6 DEF UseState, ExtTypes
<1> QED
  BY <1>1, <1>2, <1>3, <1>4, <1>5, <1>6 DEF TaskStep

\* The queue for the lock: a program enters it once and leaves it when it gets
\* the lock or gives up.
LEMMA WaitersStayQueued ==
  ASSUME ExtTypes, OneProgram, WaitersAreQueued, QueuedHavePlaces, NEW s \in Sessions,
         \/ BeginProgram(s) \/ Acquire(s) \/ EndProgram(s) \/ AbortQueued(s) \/ DropSession(s)
         \/ \E c \in NativeCalls : Invoke(s, c)
  PROVE  WaitersAreQueued' /\ QueuedHavePlaces'
<1>1. CASE BeginProgram(s)
  <2>1. \A i \in 1..Len(waiters) : waiters[i] # s
    BY <1>1 DEF BeginProgram, WaitersAreQueued
  <2>2. /\ waiters' \in Seq(Sessions) /\ Len(waiters') = Len(waiters) + 1
        /\ \A i \in 1..Len(waiters) : waiters'[i] = waiters[i]
        /\ waiters'[Len(waiters) + 1] = s
    BY <1>1 DEF BeginProgram, WaitersAreQueued
  <2>3. program'[s] = "queued" /\ \A t \in Sessions \ {s} : program'[t] = program[t]
    BY <1>1 DEF BeginProgram, ExtTypes
  <2>4. QueuedHavePlaces'
    <3> SUFFICES ASSUME NEW t \in Sessions, program'[t] = "queued"
                 PROVE  HasPlace(t)'
      BY DEF QueuedHavePlaces
    <3>1. CASE t = s
      BY <2>2, <3>1 DEF WaitersAreQueued, HasPlace
    <3>2. CASE t # s
      <4>1. PICK i \in 1..Len(waiters) : waiters[i] = t
        BY <2>3, <3>2 DEF QueuedHavePlaces, HasPlace
      <4> QED
        BY <2>2, <4>1 DEF WaitersAreQueued, HasPlace
    <3> QED
      BY <3>1, <3>2
  <2> QED
    BY <2>1, <2>2, <2>3, <2>4 DEF WaitersAreQueued
<1>2. CASE Acquire(s)
  <2>1. /\ waiters' \in Seq(Sessions) /\ Len(waiters') = Len(waiters) - 1
        /\ \A i \in 1..(Len(waiters) - 1) : waiters'[i] = waiters[i + 1]
        /\ waiters[1] = s /\ Len(waiters) \in Nat \ {0}
    BY <1>2 DEF Acquire, WaitersAreQueued
  <2>2. program'[s] = "running" /\ \A t \in Sessions \ {s} : program'[t] = program[t]
    BY <1>2 DEF Acquire, ExtTypes
  <2>3. QueuedHavePlaces'
    <3> SUFFICES ASSUME NEW t \in Sessions, program'[t] = "queued"
                 PROVE  HasPlace(t)'
      BY DEF QueuedHavePlaces
    <3>1. PICK i \in 1..Len(waiters) : waiters[i] = t /\ i # 1
      BY <2>1, <2>2 DEF QueuedHavePlaces, HasPlace
    <3>2. i - 1 \in 1..Len(waiters') /\ waiters'[i - 1] = t
      BY <2>1, <3>1
    <3> QED
      BY <3>2 DEF HasPlace
  <2>4. \A i \in 1..Len(waiters') : program'[waiters'[i]] = "queued"
    <3> SUFFICES ASSUME NEW i \in 1..(Len(waiters) - 1)
                 PROVE  program'[waiters'[i]] = "queued"
      BY <2>1
    <3>1. i + 1 \in 1..Len(waiters) /\ 1 \in 1..Len(waiters) /\ i + 1 # 1
      BY <2>1
    <3>2. waiters'[i] = waiters[i + 1] /\ waiters[i + 1] # s
      BY <2>1, <3>1 DEF WaitersAreQueued
    <3>3. waiters[i + 1] \in Sessions /\ program[waiters[i + 1]] = "queued"
      BY <3>1 DEF WaitersAreQueued
    <3> QED
      BY <2>2, <3>2, <3>3
  <2>5. \A i, j \in 1..Len(waiters') : waiters'[i] = waiters'[j] => i = j
    <3> SUFFICES ASSUME NEW i \in 1..(Len(waiters) - 1), NEW j \in 1..(Len(waiters) - 1),
                        waiters'[i] = waiters'[j]
                 PROVE  i = j
      BY <2>1
    <3>1. i + 1 \in 1..Len(waiters) /\ j + 1 \in 1..Len(waiters)
      BY <2>1
    <3>2. waiters[i + 1] = waiters[j + 1]
      BY <2>1
    <3>3. i + 1 = j + 1
      BY <3>1, <3>2 DEF WaitersAreQueued
    <3> QED
      BY <3>3
  <2> QED
    BY <2>1, <2>3, <2>4, <2>5 DEF WaitersAreQueued
<1>3. CASE EndProgram(s)
  BY <1>3 DEF EndProgram, ExtTypes, WaitersAreQueued, QueuedHavePlaces, HasPlace
<1>4. CASE AbortQueued(s)
  <2>1. PICK i \in 1..Len(waiters) : waiters[i] = s /\ waiters' = RemoveAt(waiters, i)
    BY <1>4 DEF AbortQueued
  <2> DEFINE before == SubSeq(waiters, 1, i - 1)
             after  == SubSeq(waiters, i + 1, Len(waiters))
             was(j) == IF j < i THEN j ELSE j + 1
  <2>2. /\ before \in Seq(Sessions) /\ Len(before) = i - 1
        /\ \A j \in 1..(i - 1) : before[j] = waiters[j]
    BY <2>1 DEF WaitersAreQueued
  <2>3. /\ after \in Seq(Sessions) /\ Len(after) = Len(waiters) - i
        /\ \A j \in 1..(Len(waiters) - i) : after[j] = waiters[i + j]
    BY <2>1 DEF WaitersAreQueued
  <2>4. waiters' = before \o after
    BY <2>1 DEF RemoveAt
  <2> HIDE DEF before, after
  <2>11. /\ before \o after \in Seq(Sessions)
         /\ Len(before \o after) = Len(before) + Len(after)
         /\ \A j \in 1..(Len(before) + Len(after)) :
              (before \o after)[j] = IF j <= Len(before) THEN before[j]
                                     ELSE after[j - Len(before)]
    <3>1. before \in Seq(Sessions) /\ after \in Seq(Sessions)
      BY <2>2, <2>3
    <3> QED
      BY <3>1, ConcatProperties
  <2>12. Len(waiters) \in Nat /\ i \in 1..Len(waiters)
    BY DEF WaitersAreQueued
  <2>5. waiters' \in Seq(Sessions) /\ Len(waiters') = Len(waiters) - 1
    BY <2>2, <2>3, <2>4, <2>11, <2>12
  <2>6. \A j \in 1..Len(waiters') : waiters'[j] = waiters[was(j)]
    BY <2>2, <2>3, <2>4, <2>5, <2>11, <2>12
  <2>7. \A j \in 1..Len(waiters') : was(j) \in (1..Len(waiters)) \ {i}
    BY <2>5 DEF WaitersAreQueued
  <2>8. \A j, k \in 1..Len(waiters') : was(j) = was(k) => j = k
    BY <2>5 DEF WaitersAreQueued
  <2>9. program'[s] = "none" /\ \A t \in Sessions \ {s} : program'[t] = program[t]
    BY <1>4 DEF AbortQueued, ExtTypes
  <2>10. \A k \in (1..Len(waiters)) \ {i} : waiters[k] \in Sessions \ {s}
    BY <2>1 DEF WaitersAreQueued
  <2>13. QueuedHavePlaces'
    <3> SUFFICES ASSUME NEW t \in Sessions, program'[t] = "queued"
                 PROVE  HasPlace(t)'
      BY DEF QueuedHavePlaces
    <3>1. PICK k \in 1..Len(waiters) : waiters[k] = t /\ k # i
      BY <2>1, <2>9 DEF QueuedHavePlaces, HasPlace
    <3>2. PICK j \in 1..Len(waiters') : was(j) = k
      <4>1. CASE k < i
        BY <2>5, <2>12, <4>1
      <4>2. CASE k > i
        <5>1. k - 1 \in 1..Len(waiters') /\ was(k - 1) = k
          BY <2>5, <2>12, <4>2
        <5> QED
          BY <5>1
      <4> QED
        BY <2>12, <3>1, <4>1, <4>2
    <3> QED
      BY <2>6, <3>1, <3>2 DEF HasPlace
  <2> HIDE DEF was
  <2>14. \A j \in 1..Len(waiters') : program'[waiters'[j]] = "queued"
    BY <2>6, <2>7, <2>9, <2>10 DEF WaitersAreQueued
  <2>15. ASSUME NEW j \in 1..Len(waiters'), NEW k \in 1..Len(waiters'), waiters'[j] = waiters'[k]
         PROVE  j = k
    <3>1. waiters[was(j)] = waiters[was(k)]
      BY <2>6, <2>15
    <3>2. was(j) \in 1..Len(waiters) /\ was(k) \in 1..Len(waiters)
      BY <2>7
    <3>3. was(j) = was(k)
      BY <3>1, <3>2 DEF WaitersAreQueued
    <3> QED
      BY <2>8, <3>3
  <2> QED
    BY <2>5, <2>13, <2>14, <2>15 DEF WaitersAreQueued
<1>5. CASE DropSession(s)
  BY <1>5 DEF DropSession, WaitersAreQueued, QueuedHavePlaces, HasPlace
<1>6. ASSUME NEW c \in NativeCalls, Invoke(s, c)
      PROVE  WaitersAreQueued' /\ QueuedHavePlaces'
  BY <1>6 DEF Invoke, WaitersAreQueued, QueuedHavePlaces, HasPlace
<1> QED
  BY <1>1, <1>2, <1>3, <1>4, <1>5, <1>6

-----------------------------------------------------------------------------
LEMMA ProgramStepsKeepInv ==
  ASSUME ExtInv, NEW s \in Sessions,
         \/ BeginProgram(s) \/ Acquire(s) \/ EndProgram(s) \/ AbortQueued(s) \/ DropSession(s)
         \/ \E c \in NativeCalls : Invoke(s, c)
  PROVE  ExtInv'
<1>0. ExtTypes' /\ WaitersAreQueued' /\ QueuedHavePlaces'
  BY ProgramStepsKeepTypes, WaitersStayQueued DEF ExtInv
<1> USE DEF ExtInv
<1>1. CASE BeginProgram(s)
  <2>1. OneProgram' /\ OpenWhileBusy'
    BY <1>1 DEF BeginProgram, ExtTypes, OneProgram, OpenWhileBusy
  <2>2. CallsAreCurrent'
    BY <1>1 DEF BeginProgram, ExtTypes, CallsAreCurrent, UnderWay, OwnProgramRuns,
                OwnSessionIsCurrent
  <2> QED
    BY <1>0, <1>1, <2>1, <2>2
    DEF BeginProgram, UnusedTouchNothing, StatesArePrivate, DroppedStaysDropped
<1>2. CASE Acquire(s)
  <2>1. OneProgram' /\ OpenWhileBusy'
    <3>1. waiters[1] = s /\ program[s] = "queued"
      BY <1>2 DEF Acquire, WaitersAreQueued
    <3> QED
      BY <1>2, <3>1, ExtensionConstants DEF Acquire, ExtTypes, OneProgram, OpenWhileBusy
  <2>2. CallsAreCurrent'
    BY <1>2 DEF Acquire, ExtTypes, CallsAreCurrent, UnderWay, OwnProgramRuns,
                OwnSessionIsCurrent
  <2> QED
    BY <1>0, <1>2, <2>1, <2>2
    DEF Acquire, UnusedTouchNothing, StatesArePrivate, DroppedStaysDropped
<1>3. CASE EndProgram(s)
  <2>1. OneProgram' /\ OpenWhileBusy'
    BY <1>3, ExtensionConstants DEF EndProgram, ExtTypes, OneProgram, OpenWhileBusy
  <2>2. ASSUME ~abandoned' PROVE \A c \in NativeCalls : ~UnderWay(c)
    <3>1. ~abandoned /\ CallsOf(s) = {}
      BY <1>3, <2>2 DEF EndProgram, ExtTypes
    <3>2. lock = s
      BY <1>3 DEF EndProgram, OneProgram
    <3>3. ASSUME NEW c \in NativeCalls, UnderWay(c) PROVE call[c].session = s
      BY <3>1, <3>2, <3>3 DEF CallsAreCurrent, OwnProgramRuns, OneProgram
    <3> QED
      BY <3>1, <3>3 DEF CallsOf
  <2>3. CallsAreCurrent'
    BY <1>3, <2>2 DEF EndProgram, CallsAreCurrent, UnderWay
  <2> QED
    BY <1>0, <1>3, <2>1, <2>3
    DEF EndProgram, ExtTypes, UnusedTouchNothing, StatesArePrivate, DroppedStaysDropped
<1>4. CASE AbortQueued(s)
  <2>1. OneProgram' /\ OpenWhileBusy'
    BY <1>4 DEF AbortQueued, ExtTypes, OneProgram, OpenWhileBusy
  <2>2. CallsAreCurrent'
    BY <1>4 DEF AbortQueued, ExtTypes, CallsAreCurrent, UnderWay, OwnProgramRuns,
                OwnSessionIsCurrent
  <2> QED
    BY <1>0, <1>4, <2>1, <2>2
    DEF AbortQueued, UnusedTouchNothing, StatesArePrivate, DroppedStaysDropped
<1>5. CASE DropSession(s)
  <2>1. OneProgram' /\ OpenWhileBusy'
    BY <1>5 DEF DropSession, ExtTypes, OneProgram, OpenWhileBusy
  <2>2. CallsAreCurrent'
    BY <1>5 DEF DropSession, CallsAreCurrent, UnderWay, OwnProgramRuns, OwnSessionIsCurrent
  <2>3. DroppedStaysDropped'
    BY <1>5 DEF DropSession, ExtTypes, DroppedStaysDropped
  <2> QED
    BY <1>0, <1>5, <2>1, <2>2, <2>3 DEF DropSession, UnusedTouchNothing, StatesArePrivate
<1>6. ASSUME NEW c \in NativeCalls, Invoke(s, c) PROVE ExtInv'
  <2>1. call'[c].session = s /\ call'[c].at = "spawned"
    BY <1>6 DEF Invoke, ExtTypes
  <2>2. \A d \in NativeCalls \ {c} : call'[d] = call[d]
    BY <1>6 DEF Invoke, ExtTypes
  <2>5. program[s] = "running" /\ UNCHANGED <<program, currentSession, abandoned>>
    BY <1>6 DEF Invoke
  <2>3. CallsAreCurrent'
    BY <2>1, <2>2, <2>5 DEF CallsAreCurrent, UnderWay, OwnProgramRuns, OwnSessionIsCurrent
  <2>4. UnusedTouchNothing' /\ StatesArePrivate'
    BY <1>6, <2>1, <2>2 DEF Invoke, UnusedTouchNothing, StatesArePrivate
  <2> QED
    BY <1>0, <1>6, <2>3, <2>4 DEF Invoke, OneProgram, OpenWhileBusy, DroppedStaysDropped
<1> QED
  BY <1>1, <1>2, <1>3, <1>4, <1>5, <1>6

\* A call that takes a step of its task keeps its session and stays used.
LEMMA TaskStepChanges ==
  ASSUME ExtTypes, NEW c \in NativeCalls, TaskStep(c)
  PROVE  /\ \A d \in NativeCalls : call'[d].session = call[d].session
         /\ \A d \in NativeCalls \ {c} : call'[d] = call[d]
         /\ UnderWay(c) /\ call'[c].at # "unused"
         /\ UNCHANGED <<lock, program, closed, states, touched, abandoned>>
<1>1. CASE SetCurrent(c)
  BY <1>1 DEF SetCurrent, Step, ExtTypes, UnderWay
<1>2. CASE CheckCancelled(c)
  BY <1>2 DEF CheckCancelled, Step, ExtTypes, UnderWay
<1>3. CASE Subscribe(c)
  BY <1>3 DEF Subscribe, Step, ExtTypes, UnderWay
<1>4. CASE ReturnResult(c)
  BY <1>4 DEF ReturnResult, Step, ExtTypes, UnderWay
<1>5. CASE SeeSignal(c)
  BY <1>5 DEF SeeSignal, Step, ExtTypes, UnderWay
<1> QED
  BY <1>1, <1>2, <1>3, <1>4, <1>5 DEF TaskStep

LEMMA CallStepsKeepInv ==
  ASSUME ExtInv, NEW c \in NativeCalls, TaskStep(c) \/ UseState(c)
  PROVE  ExtInv'
<1>0. ExtTypes' /\ WaitersAreQueued' /\ QueuedHavePlaces'
  <2>1. UNCHANGED <<waiters, program>>
    BY DEF TaskStep, SetCurrent, CheckCancelled, Subscribe, ReturnResult, SeeSignal, UseState
  <2> QED
    BY <2>1, CallStepsKeepTypes DEF ExtInv, WaitersAreQueued, QueuedHavePlaces, HasPlace
<1> USE DEF ExtInv
<1>1. CASE TaskStep(c)
  <2>1. /\ \A d \in NativeCalls : call'[d].session = call[d].session
        /\ \A d \in NativeCalls \ {c} : call'[d] = call[d]
        /\ UnderWay(c) /\ call'[c].at # "unused"
        /\ UNCHANGED <<lock, program, closed, states, touched, abandoned>>
    BY <1>1, TaskStepChanges
  <2>2. ASSUME ~abandoned, NEW d \in NativeCalls, UnderWay(d)'
        PROVE  OwnProgramRuns(d)'
    BY <2>1, <2>2 DEF CallsAreCurrent, UnderWay, OwnProgramRuns
  <2>3. ASSUME ~abandoned, NEW d \in NativeCalls,
               call'[d].at \in {"started", "checked", "waiting"}
        PROVE  OwnSessionIsCurrent(d)'
    <3>1. CASE SetCurrent(c)
      <4>1. UnderWay(d)
        BY <2>1, <2>3 DEF UnderWay
      <4>2. call[d].session = lock /\ call[c].session = lock
        BY <2>1, <2>3, <4>1 DEF CallsAreCurrent, OwnProgramRuns, OneProgram
      <4> QED
        BY <2>1, <3>1, <4>2 DEF SetCurrent, OwnSessionIsCurrent
    <3>2. CASE ~SetCurrent(c)
      <4>1. currentSession' = currentSession
        BY <1>1, <3>2 DEF TaskStep, CheckCancelled, Subscribe, ReturnResult, SeeSignal
      <4>2. call[c].at \in {"started", "checked", "waiting"}
        BY <1>1, <3>2
        DEF TaskStep, CheckCancelled, Subscribe, ReturnResult, SeeSignal, Step
      <4> QED
        BY <2>1, <2>3, <4>1, <4>2 DEF CallsAreCurrent, OwnSessionIsCurrent
    <3> QED
      BY <3>1, <3>2
  <2>4. CallsAreCurrent'
    BY <2>1, <2>2, <2>3 DEF CallsAreCurrent
  <2>5. UnusedTouchNothing'
    BY <2>1 DEF UnusedTouchNothing
  <2> QED
    BY <1>0, <2>1, <2>4, <2>5
    DEF OneProgram, OpenWhileBusy, StatesArePrivate, DroppedStaysDropped
<1>2. CASE UseState(c)
  <2>1. ~abandoned => currentSession = call[c].session /\ OwnProgramRuns(c)
    BY <1>2 DEF UseState, CallsAreCurrent, UnderWay, OwnSessionIsCurrent
  <2>2. StatesArePrivate'
    BY <1>2, <2>1 DEF UseState, ExtTypes, StatesArePrivate
  <2>3. DroppedStaysDropped'
    BY <1>2, <2>1 DEF UseState, OwnProgramRuns, OpenWhileBusy, DroppedStaysDropped
  <2>4. UnusedTouchNothing'
    BY <1>2 DEF UseState, ExtTypes, UnusedTouchNothing
  <2>5. CallsAreCurrent'
    BY <1>2 DEF UseState, CallsAreCurrent, UnderWay, OwnProgramRuns, OwnSessionIsCurrent
  <2> QED
    BY <1>0, <1>2, <2>2, <2>3, <2>4, <2>5 DEF UseState, OneProgram, OpenWhileBusy
<1> QED
  BY <1>1, <1>2

\* A cancel changes no call but for its signal.
LEMMA CancelKeepsInv ==
  ASSUME ExtInv, CancelTurn
  PROVE  ExtInv'
<1>1. ExtTypes' /\ WaitersAreQueued' /\ QueuedHavePlaces'
  <2>1. ExtTypes'
    BY DEF ExtInv, ExtTypes, CancelTurn
  <2> QED
    BY <2>1 DEF ExtInv, WaitersAreQueued, QueuedHavePlaces, HasPlace, CancelTurn
<1>2. \A c \in NativeCalls : call'[c].session = call[c].session /\ call'[c].at = call[c].at
  BY DEF ExtInv, ExtTypes, CancelTurn
<1>3. CallsAreCurrent'
  BY <1>2 DEF ExtInv, CancelTurn, CallsAreCurrent, UnderWay, OwnProgramRuns,
              OwnSessionIsCurrent
<1> QED
  BY <1>1, <1>2, <1>3
  DEF ExtInv, CancelTurn, OneProgram, OpenWhileBusy, UnusedTouchNothing, StatesArePrivate,
      DroppedStaysDropped

LEMMA ExtInvHolds == ExtSpec => []ExtInv
<1>1. ExtInv /\ [ExtNext]_extVars => ExtInv'
  <2> SUFFICES ASSUME ExtInv, [ExtNext]_extVars PROVE ExtInv'
    OBVIOUS
  <2>1. CASE UNCHANGED extVars
    BY <2>1
    DEF extVars, ExtInv, ExtTypes, OneProgram, WaitersAreQueued, QueuedHavePlaces, HasPlace,
        OpenWhileBusy, CallsAreCurrent, UnderWay,
        OwnProgramRuns, OwnSessionIsCurrent, UnusedTouchNothing, StatesArePrivate,
        DroppedStaysDropped
  <2> QED
    BY <2>1, ProgramStepsKeepInv, CallStepsKeepInv, CancelKeepsInv DEF ExtNext
<1> QED
  BY <1>1, ExtInitInv, PTL DEF ExtSpec

-----------------------------------------------------------------------------
\* The variables keep their types, and a program waits for NODE exactly while it
\* has its place in the queue, also when it is aborted there (PiCompat::execute).
THEOREM ExtTypeCorrect == ExtSpec => []ExtTypeOK
<1>1. ExtInv => ExtTypeOK
  <2> SUFFICES ASSUME ExtInv PROVE ExtTypeOK
    OBVIOUS
  <2>1. \A s \in Sessions : program[s] = "queued" <=> \E i \in DOMAIN waiters : waiters[i] = s
    BY DEF ExtInv, WaitersAreQueued, QueuedHavePlaces, HasPlace
  <2> QED
    BY <2>1 DEF ExtInv, ExtTypes, WaitersAreQueued, ExtTypeOK, Owners
<1> QED
  BY <1>1, ExtInvHolds, PTL

\* However programs wait, run, end and are dropped, one runs at a time: the one
\* that holds NODE (PiCompat::execute).
THEOREM ProgramsTakeTurns == ExtSpec => []OneProgram
<1>1. ExtInv => OneProgram
  BY DEF ExtInv
<1> QED
  BY <1>1, ExtInvHolds, PTL

\* One slot for the current session is enough as long as no program ends before
\* its calls: each call uses the state of its own session (state.rs).
THEOREM SlotSuffices == ExtSpec => []StatesArePrivate
<1>1. ExtInv => StatesArePrivate
  BY DEF ExtInv
<1> QED
  BY <1>1, ExtInvHolds, PTL

\* ... and no call brings back the state of a session that was dropped.
THEOREM DroppedIsGone == ExtSpec => []DroppedStaysDropped
<1>1. ExtInv => DroppedStaysDropped
  BY DEF ExtInv
<1> QED
  BY <1>1, ExtInvHolds, PTL

-----------------------------------------------------------------------------
\* The flag is set before the signal is sent and looked at before the signal is
\* subscribed to: only a cancel between the two is missed (until_cancelled).
THEOREM CancelIsSeen == ExtSpec => []CancelReachesCalls
<1>1. ExtInit => CancelReachesCalls
  BY DEF ExtInit, CancelReachesCalls
<1>2. ExtTypes /\ CancelReachesCalls /\ [ExtNext]_extVars => CancelReachesCalls'
  <2> SUFFICES ASSUME ExtTypes, CancelReachesCalls, [ExtNext]_extVars
               PROVE  CancelReachesCalls'
    OBVIOUS
  <2> USE DEF CancelReachesCalls
  <2>1. ASSUME NEW s \in Sessions, Acquire(s) PROVE CancelReachesCalls'
    BY <2>1 DEF Acquire
  <2>2. ASSUME NEW s \in Sessions,
               BeginProgram(s) \/ EndProgram(s) \/ AbortQueued(s) \/ DropSession(s)
        PROVE  CancelReachesCalls'
    BY <2>2 DEF BeginProgram, EndProgram, AbortQueued, DropSession
  <2>3. ASSUME NEW s \in Sessions, NEW c \in NativeCalls, Invoke(s, c)
        PROVE  CancelReachesCalls'
    BY <2>3 DEF Invoke, ExtTypes
  <2>4. ASSUME NEW c \in NativeCalls, TaskStep(c) PROVE CancelReachesCalls'
    <3>1. UNCHANGED <<cancelled, slipped>>
      BY <2>4 DEF TaskStep, SetCurrent, CheckCancelled, Subscribe, ReturnResult, SeeSignal
    <3>2. ASSUME NEW d \in NativeCalls, call'[d].at \in {"checked", "waiting"}, cancelled
          PROVE  /\ call[d].at \in {"checked", "waiting"}
                 /\ call'[d].signalled = call[d].signalled
      <4>1. CASE SetCurrent(c)
        BY <3>2, <4>1 DEF SetCurrent, Step, ExtTypes
      <4>2. CASE CheckCancelled(c)
        BY <3>2, <4>2 DEF CheckCancelled, Step, ExtTypes
      <4>3. CASE Subscribe(c)
        BY <3>2, <4>3 DEF Subscribe, Step, ExtTypes
      <4>4. CASE ReturnResult(c)
        BY <3>2, <4>4 DEF ReturnResult, Step, ExtTypes
      <4>5. CASE SeeSignal(c)
        BY <3>2, <4>5 DEF SeeSignal, Step, ExtTypes
      <4> QED
        BY <2>4, <4>1, <4>2, <4>3, <4>4, <4>5 DEF TaskStep
    <3> QED
      BY <3>1, <3>2
  <2>5. ASSUME NEW c \in NativeCalls, UseState(c) PROVE CancelReachesCalls'
    BY <2>5 DEF UseState
  <2>6. CASE CancelTurn
    BY <2>6 DEF CancelTurn, ExtTypes
  <2>7. CASE UNCHANGED extVars
    BY <2>7 DEF extVars
  <2> QED
    BY <2>1, <2>2, <2>3, <2>4, <2>5, <2>6, <2>7 DEF ExtNext
<1>3. ExtInv => ExtTypes
  BY DEF ExtInv
<1> QED
  BY <1>1, <1>2, <1>3, ExtInvHolds, PTL DEF ExtSpec

\* Any number of sessions share NODE, the flag and the slot without seeing each
\* other's state, as long as no program leaves a call behind.
THEOREM SessionsApart == ExtSpec => []SessionsAreApart
  BY ProgramsTakeTurns, SlotSuffices, DroppedIsGone, PTL DEF SessionsAreApart

-----------------------------------------------------------------------------
(* ExtensionScopes                                                           *)

Outcomes == {"open", "settled", "refused"}
FrameRec == [ext : Extensions, task : Nat, waits : Nat, open : BOOLEAN]
TaskRec == [rest : Seq(Extensions), strict : BOOLEAN, state : {"pending", "resolved", "rejected"}]
CallRec == [by : Extensions, ext : Extensions \union {NoExtension}, waiter : Nat,
            at : Outcomes, late : BOOLEAN]
CallbackRec == [ext : Extensions, at : {"set", "due", "fired", "dropped"}]
Stages == {"idle", "drain", "dispatch", "drain again", "dispatch again"} \union Ticks
Macrotasks == {"completion", "timeout", "callback"} \X Nat

ScopeTypes ==
  /\ activeScope \in Extensions \union {NoExtension} /\ leases \in Nat
  /\ frames \in Seq(FrameRec) /\ tasks \in Seq(TaskRec)
  /\ calls \in Seq(CallRec) /\ callbacks \in Seq(CallbackRec)
  /\ requested \in Seq(Nat) /\ batch \in Seq(Nat) /\ macrotasks \in Seq(Macrotasks)
  /\ awaited \in Nat /\ stage \in Stages

\* Whatever names a task, a call, a frame or a callback names one there is.
Linked ==
  /\ \A f \in DOMAIN frames : frames[f].task \in 0..Len(tasks) /\ frames[f].waits \in 0..Len(calls)
  /\ \A c \in DOMAIN calls : calls[c].waiter \in 0..Len(frames)
  /\ \A i \in DOMAIN requested : requested[i] \in DOMAIN calls
  /\ \A i \in DOMAIN batch : batch[i] \in DOMAIN calls
  /\ \A i \in DOMAIN macrotasks :
       macrotasks[i][2] \in IF macrotasks[i][1] = "callback" THEN DOMAIN callbacks ELSE DOMAIN calls
  /\ awaited \in 0..Len(tasks) /\ (awaited = 0 <=> stage = "idle")

\* Outside the two dispatches nothing is drained that was not performed.
BatchHolds == stage \in {"idle", "drain", "last tick", "drain again"} => batch = <<>>

\* At most one piece of JavaScript can run: a handler that waits for nothing, the
\* dispatch of a task no handler of which is open, or what follows a call.
JobHolds ==
  /\ stage = "idle" => jobs = <<>>
  /\ \/ jobs = <<>>
     \/ \E f \in DOMAIN frames : jobs = <<Frame(f)>> /\ frames[f].open /\ frames[f].waits = 0
     \/ \E t \in DOMAIN tasks :
          /\ jobs = <<Handlers(t)>> /\ tasks[t].state = "pending"
          /\ \A f \in OpenFrames : frames[f].task # t
     \/ \E c \in DOMAIN calls : jobs = <<Then(c)>> /\ calls[c].waiter = 0

\* A handler waits for an open call of its own, made in its scope; only a call nobody
\* waits for may have been made in another scope than its maker's.
WaitersHold ==
  /\ \A c \in DOMAIN calls : calls[c].waiter # 0 => calls[c].by = frames[calls[c].waiter].ext
  /\ \A c \in DOMAIN calls : calls[c].waiter # 0 /\ calls[c].at = "open" =>
       frames[calls[c].waiter].open /\ frames[calls[c].waiter].waits = c
  /\ \A f \in OpenFrames : frames[f].waits # 0 =>
       calls[frames[f].waits].waiter = f /\ calls[frames[f].waits].at = "open"
  /\ \A c \in DOMAIN calls :
       calls[c].ext # calls[c].by =>
         /\ calls[c].waiter = 0
         /\ \E d \in 1..(c - 1) : calls[d].waiter = 0 /\ calls[d].by = calls[c].by

\* A task has one handler at a time; until an outcome is refused only the awaited
\* task is pending.
Ending == {"last tick", "drain again", "dispatch again", "tick again"}
TasksHold ==
  /\ \A f \in OpenFrames : frames[f].task # 0 => tasks[frames[f].task].state = "pending"
  /\ \A f, g \in OpenFrames : frames[f].task = frames[g].task /\ frames[f].task # 0 => f = g
  /\ \A f \in DOMAIN frames : frames[f].task = 0 => callbacks # <<>>
  /\ stage \in Ending => tasks[awaited].state # "pending"
  /\ RefusedCalls = {} => \A t \in DOMAIN tasks : tasks[t].state = "pending" => t = awaited

\* Until then, an open call is on its way or has timed out.
WayHolds ==
  RefusedCalls = {} =>
    \A c \in DOMAIN calls : calls[c].at = "open" => OnItsWay(c) \/ calls[c].late

ScopeInv ==
  /\ ScopeTypes /\ Linked /\ BatchHolds /\ JobHolds /\ ScopesAgree
  /\ WaitersHold /\ TasksHold /\ WayHolds

-----------------------------------------------------------------------------
(* Facts                                                                     *)

LEMMA Appended ==
  ASSUME NEW S, NEW s \in Seq(S), NEW e \in S
  PROVE  /\ Append(s, e) \in Seq(S) /\ Len(Append(s, e)) = Len(s) + 1
         /\ \A i \in 1..Len(s) : Append(s, e)[i] = s[i]
         /\ Append(s, e)[Len(s) + 1] = e
OBVIOUS

LEMMA Behead ==
  ASSUME NEW S, NEW s \in Seq(S), s # <<>>
  PROVE  /\ Tail(s) \in Seq(S) /\ Len(Tail(s)) = Len(s) - 1 /\ Len(s) \in Nat \ {0}
         /\ \A i \in 1..(Len(s) - 1) : Tail(s)[i] = s[i + 1]
         /\ Head(s) = s[1] /\ Head(s) \in S
OBVIOUS

LEMMA Updated ==
  ASSUME NEW S, NEW s \in Seq(S), NEW i \in 1..Len(s), NEW e \in S,
         NEW new, new = [s EXCEPT ![i] = e]
  PROVE  /\ new \in Seq(S) /\ Len(new) = Len(s) /\ DOMAIN new = 1..Len(s)
         /\ new[i] = e /\ \A j \in 1..Len(s) : j # i => new[j] = s[j]
OBVIOUS

LEMMA NothingIn == DOMAIN <<>> = {} /\ \A S : <<>> \in Seq(S)
<1>1. /\ <<>> \in Seq({}) /\ Len(<<>>) = 0
      /\ \A S : <<>> \in Seq(S)
  OBVIOUS
<1> QED
  BY <1>1

(* A sequence with one more, and without its first.                           *)
LEMMA Parts ==
  ASSUME NEW S, NEW s \in Seq(S)
  PROVE  /\ Len(s) \in Nat /\ DOMAIN s = 1..Len(s) /\ \A i \in DOMAIN s : s[i] \in S
         /\ s # <<>> => Len(s) # 0 /\ Head(s) = s[1] /\ 1 \in DOMAIN s
OBVIOUS

LEMMA Single ==
  ASSUME NEW j
  PROVE  <<j>> # <<>> /\ Head(<<j>>) = j /\ Tail(<<j>>) = <<>> /\ \A k : <<j>> = <<k>> => j = k
OBVIOUS

(* An open frame comes, or goes.                                             *)
LEMMA OpenFramesFinite ==
  ASSUME ScopeTypes
  PROVE  IsFiniteSet(OpenFrames) /\ Cardinality(OpenFrames) \in Nat
<1>1. OpenFrames \subseteq 1..Len(frames) /\ Len(frames) \in Nat
  BY DEF ScopeTypes, OpenFrames
<1>2. IsFiniteSet(1..Len(frames))
  BY <1>1, FS_Interval
<1> QED
  BY <1>1, <1>2, FS_Subset, FS_CardinalityType

LEMMA ScopesStart ==
  ASSUME ScopesInit
  PROVE  ScopeInv
<1>1. /\ <<>> \in Seq(FrameRec) /\ <<>> \in Seq(TaskRec) /\ <<>> \in Seq(CallRec)
      /\ <<>> \in Seq(CallbackRec) /\ <<>> \in Seq(Nat) /\ <<>> \in Seq(Macrotasks)
  OBVIOUS
<1>2. ScopeTypes
  BY <1>1 DEF ScopesInit, ScopeTypes, Stages
<1>3. OpenFrames = {}
  BY DEF ScopesInit, OpenFrames
<1>4. ScopesAgree
  BY <1>3, FS_EmptySet DEF ScopesInit, ScopesAgree
<1>5. Linked /\ BatchHolds /\ JobHolds /\ WaitersHold /\ WayHolds
  BY <1>3 DEF ScopesInit, Linked, BatchHolds, JobHolds, WaitersHold, WayHolds
<1>6. TasksHold
  BY <1>3 DEF ScopesInit, TasksHold, Ending
<1> QED
  BY <1>2, <1>4, <1>5, <1>6 DEF ScopeInv

-----------------------------------------------------------------------------
(* JavaScript                                                                *)

LEMMA OneJob ==
  ASSUME ScopeInv, jobs # <<>>
  PROVE  /\ Tail(jobs) = <<>> /\ stage # "idle"
         /\ \A f \in DOMAIN frames : Running(Frame(f)) =>
              /\ jobs = <<Frame(f)>> /\ frames[f].open /\ frames[f].waits = 0
              /\ frames[f] \in FrameRec /\ frames[f].ext = activeScope
         /\ \A t \in DOMAIN tasks : Running(Handlers(t)) =>
              /\ jobs = <<Handlers(t)>> /\ tasks[t].state = "pending" /\ tasks[t] \in TaskRec
              /\ \A f \in OpenFrames : frames[f].task # t
         /\ \A c \in DOMAIN calls : Running(Then(c)) =>
              jobs = <<Then(c)>> /\ calls[c].waiter = 0 /\ calls[c] \in CallRec
<1>1. PICK j : jobs = <<j>>
  BY DEF ScopeInv, JobHolds
<1>2. Tail(jobs) = <<>> /\ Head(jobs) = j /\ \A k : jobs = <<k>> => j = k
  BY <1>1
<1>3. stage # "idle"
  BY DEF ScopeInv, JobHolds
<1>4. ASSUME NEW f \in DOMAIN frames, Running(Frame(f))
      PROVE  /\ jobs = <<Frame(f)>> /\ frames[f].open /\ frames[f].waits = 0
             /\ frames[f] \in FrameRec /\ frames[f].ext = activeScope
  <2>1. j = <<"frame", f>>
    BY <1>2, <1>4 DEF Running, Frame
  <2>2. frames[f].open /\ frames[f].waits = 0
    BY <1>1, <1>2, <2>1 DEF ScopeInv, JobHolds, Frame, Handlers, Then
  <2> QED
    BY <1>1, <2>1, <2>2 DEF Frame, ScopeInv, ScopesAgree, OpenFrames, ScopeTypes
<1>5. ASSUME NEW t \in DOMAIN tasks, Running(Handlers(t))
      PROVE  /\ jobs = <<Handlers(t)>> /\ tasks[t].state = "pending" /\ tasks[t] \in TaskRec
             /\ \A f \in OpenFrames : frames[f].task # t
  <2>1. j = <<"handlers", t>>
    BY <1>2, <1>5 DEF Running, Handlers
  <2>2. tasks[t].state = "pending" /\ \A f \in OpenFrames : frames[f].task # t
    BY <1>1, <1>2, <2>1 DEF ScopeInv, JobHolds, Frame, Handlers, Then
  <2> QED
    BY <1>1, <1>5, <2>1, <2>2 DEF Handlers, ScopeInv, ScopeTypes
<1>6. ASSUME NEW c \in DOMAIN calls, Running(Then(c))
      PROVE  jobs = <<Then(c)>> /\ calls[c].waiter = 0 /\ calls[c] \in CallRec
  <2>1. j = <<"then", c>>
    BY <1>2, <1>6 DEF Running, Then
  <2>2. calls[c].waiter = 0
    BY <1>1, <1>2, <2>1 DEF ScopeInv, JobHolds, Frame, Handlers, Then
  <2> QED
    BY <1>1, <1>6, <2>1, <2>2 DEF Then, ScopeInv, ScopeTypes
<1> QED
  BY <1>2, <1>3, <1>4, <1>5, <1>6

(* A call that nobody awaits, made in its own scope or after one like it.      *)
LEMMA DetachedCall ==
  ASSUME ScopeInv, NEW by \in Extensions, MakeCall(by, 0),
         activeScope # by => \E d \in 1..Len(calls) : calls[d].waiter = 0 /\ calls[d].by = by,
         jobs' \in {jobs, <<>>},
         UNCHANGED <<activeScope, leases, frames, tasks, callbacks, batch, macrotasks, awaited,
                     stage>>
  PROVE  ScopeInv'
<1> DEFINE new == [by |-> by, ext |-> activeScope, waiter |-> 0, at |-> "open", late |-> FALSE]
<1>1. PICK N \in Nat : N = Len(calls)
  BY DEF ScopeInv, ScopeTypes
<1>2. /\ calls' \in Seq(CallRec) /\ Len(calls') = N + 1 /\ calls'[N + 1] = new
      /\ \A c \in 1..N : calls'[c] = calls[c]
  <2>1. new \in CallRec
    BY DEF ScopeInv, ScopeTypes, CallRec, Outcomes
  <2> QED
    BY <1>1, <2>1, Appended DEF MakeCall, ScopeInv, ScopeTypes
<1>3. PICK R \in Nat : R = Len(requested)
  BY DEF ScopeInv, ScopeTypes
<1>4. /\ requested' \in Seq(Nat) /\ Len(requested') = R + 1 /\ requested'[R + 1] = N + 1
      /\ \A i \in 1..R : requested'[i] = requested[i]
  BY <1>1, <1>3, Appended DEF MakeCall, ScopeInv, ScopeTypes
<1>5. DOMAIN calls = 1..N /\ DOMAIN calls' = 1..(N + 1)
      /\ DOMAIN requested = 1..R /\ DOMAIN requested' = 1..(R + 1)
  BY <1>1, <1>2, <1>3, <1>4 DEF ScopeInv, ScopeTypes
<1>6. OpenFrames' = OpenFrames
  BY DEF OpenFrames
<1>7. ScopeTypes'
  BY <1>2, <1>4 DEF ScopeInv, ScopeTypes
<1>8. Linked'
  <2>1. Linked /\ new.waiter = 0 /\ Len(frames) \in Nat
    BY DEF ScopeInv, ScopeTypes
  <2> HIDE DEF new
  <2>2. \A c \in DOMAIN calls' : calls'[c].waiter \in 0..Len(frames)
    BY <1>2, <1>5, <2>1 DEF Linked
  <2>3. \A f \in DOMAIN frames : frames[f].task \in 0..Len(tasks) /\ frames[f].waits \in 0..(N + 1)
    BY <1>1, <2>1 DEF Linked
  <2>4. \A i \in DOMAIN requested' : requested'[i] \in 1..(N + 1)
    BY SMTT(30), <1>4, <1>5, <2>1 DEF Linked
  <2>5. \A i \in DOMAIN batch : batch[i] \in 1..(N + 1)
    BY <1>5, <2>1 DEF Linked
  <2>6. \A i \in DOMAIN macrotasks : macrotasks[i][2] \in
          IF macrotasks[i][1] = "callback" THEN DOMAIN callbacks ELSE 1..(N + 1)
    BY <1>5, <2>1 DEF Linked
  <2> QED
    BY <1>2, <1>5, <2>1, <2>2, <2>3, <2>4, <2>5, <2>6 DEF Linked
<1>9. JobHolds' /\ BatchHolds'
  <2>1. BatchHolds'
    BY DEF ScopeInv, BatchHolds
  <2>2. \A c \in DOMAIN calls : c \in DOMAIN calls' /\ calls'[c] = calls[c]
    BY <1>2, <1>5
  <2> QED
    BY <1>6, <2>1, <2>2 DEF ScopeInv, JobHolds
<1>10. ScopesAgree'
  BY <1>6 DEF ScopeInv, ScopesAgree
<1>11. WaitersHold'
  <2> HIDE DEF new
  <2>1. new.by = by /\ new.ext = activeScope /\ new.waiter = 0
    BY DEF new
  <2>2. \A f \in OpenFrames : frames[f].waits \in 0..N
    BY <1>1 DEF ScopeInv, Linked, OpenFrames
  <2>3. \A c \in DOMAIN calls' : calls'[c].waiter # 0 => c \in 1..N /\ calls'[c] = calls[c]
    BY <1>2, <1>5, <2>1
  <2>4. \A f \in OpenFrames' : frames'[f].waits # 0 => calls'[frames'[f].waits] = calls[frames[f].waits]
    BY <1>2, <1>6, <2>2
  <2>5. \A c \in DOMAIN calls' :
          calls'[c].ext # calls'[c].by =>
            /\ calls'[c].waiter = 0
            /\ \E d \in 1..(c - 1) : calls'[d].waiter = 0 /\ calls'[d].by = calls'[c].by
    <3>1. ASSUME NEW c \in 1..N, calls[c].ext # calls[c].by
          PROVE  /\ calls'[c].waiter = 0
                 /\ \E d \in 1..(c - 1) : calls'[d].waiter = 0 /\ calls'[d].by = calls'[c].by
      <4>1. PICK d \in 1..(c - 1) : calls[d].waiter = 0 /\ calls[d].by = calls[c].by
        BY <1>5, <3>1 DEF ScopeInv, WaitersHold
      <4>2. calls[c].waiter = 0
        BY <1>5, <3>1 DEF ScopeInv, WaitersHold
      <4>3. d \in 1..N
        BY <1>1
      <4> QED
        BY <1>2, <4>1, <4>2, <4>3
    <3>2. activeScope # by => \E d \in 1..N : calls'[d].waiter = 0 /\ calls'[d].by = by
      BY <1>1, <1>2
    <3>3. \A c \in DOMAIN calls' : c \in 1..N \/ c = N + 1
      BY <1>1, <1>5
    <3> QED
      BY <1>1, <1>2, <2>1, <3>1, <3>2, <3>3
  <2> QED
    BY <1>5, <1>6, <2>3, <2>4, <2>5 DEF ScopeInv, WaitersHold
<1>12. TasksHold'
  <2>1. RefusedCalls' = {} => RefusedCalls = {}
    BY <1>1, <1>2, <1>5 DEF RefusedCalls
  <2> QED
    BY <1>6, <2>1 DEF ScopeInv, TasksHold
<1>13. WayHolds'
  <2>1. RefusedCalls' = {} => RefusedCalls = {}
    BY <1>1, <1>2, <1>5 DEF RefusedCalls
  <2>2. \A c \in 1..N : OnItsWay(c) => OnItsWay(c)'
    BY <1>3, <1>4, <1>5 DEF OnItsWay, Range
  <2>3. OnItsWay(N + 1)'
    BY <1>3, <1>4, <1>5 DEF OnItsWay, Range
  <2> QED
    BY <1>1, <1>2, <1>5, <2>1, <2>2, <2>3 DEF ScopeInv, WayHolds
<1> QED
  BY <1>7, <1>8, <1>9, <1>10, <1>11, <1>12, <1>13 DEF ScopeInv

LEMMA FireAndForgetHolds ==
  ASSUME ScopeInv, NEW f \in DOMAIN frames, FireAndForget(f)
  PROVE  ScopeInv'
<1>1. frames[f] \in FrameRec /\ frames[f].ext = activeScope
  BY OneJob DEF FireAndForget, Running
<1> QED
  BY <1>1, DetachedCall DEF FireAndForget, FrameRec

LEMMA ContinueHolds ==
  ASSUME ScopeInv, NEW c \in DOMAIN calls, Continue(c)
  PROVE  ScopeInv'
<1>1. /\ jobs = <<Then(c)>> /\ calls[c].waiter = 0 /\ calls[c] \in CallRec /\ Tail(jobs) = <<>>
      /\ stage # "idle"
  BY OneJob DEF Continue, Running
<1>2. CASE MakeCall(calls[c].by, 0)
  <2>1. calls[c].by \in Extensions
    BY <1>1 DEF CallRec
  <2>2. jobs' = <<>>
    BY <1>1 DEF Continue
  <2>3. c \in 1..Len(calls)
    BY DEF ScopeInv, ScopeTypes
  <2>4. UNCHANGED <<activeScope, leases, frames, tasks, callbacks, batch, macrotasks, awaited,
                    stage>>
    BY DEF Continue
  <2> QED
    BY <1>1, <1>2, <2>1, <2>2, <2>3, <2>4, DetachedCall
<1>3. CASE UNCHANGED <<calls, requested>>
  <2>1. jobs' = <<>>
    BY <1>1 DEF Continue
  <2>2. UNCHANGED <<activeScope, leases, frames, tasks, calls, callbacks, requested, batch,
                    macrotasks, awaited, stage>>
    BY <1>3 DEF Continue
  <2>3. OpenFrames' = OpenFrames /\ RefusedCalls' = RefusedCalls
    BY <2>2 DEF OpenFrames, RefusedCalls
  <2>4. ScopeTypes' /\ Linked' /\ BatchHolds'
    BY <2>2 DEF ScopeInv, ScopeTypes, Linked, BatchHolds
  <2>5. JobHolds' /\ ScopesAgree' /\ WaitersHold' /\ TasksHold'
    BY <2>1, <2>2, <2>3 DEF ScopeInv, JobHolds, ScopesAgree, WaitersHold, TasksHold
  <2>6. WayHolds'
    BY <2>2, <2>3 DEF ScopeInv, WayHolds, OnItsWay
  <2> QED
    BY <2>4, <2>5, <2>6 DEF ScopeInv
<1> QED
  BY <1>2, <1>3 DEF Continue

LEMMA AwaitCallHolds ==
  ASSUME ScopeInv, NEW f \in DOMAIN frames, AwaitCall(f)
  PROVE  ScopeInv'
<1> DEFINE new == [by |-> frames[f].ext, ext |-> activeScope, waiter |-> f, at |-> "open",
                   late |-> FALSE]
<1>1. /\ jobs = <<Frame(f)>> /\ frames[f].open /\ frames[f].waits = 0
      /\ frames[f] \in FrameRec /\ frames[f].ext = activeScope /\ Tail(jobs) = <<>>
  BY OneJob DEF AwaitCall, Running
<1>2. PICK N \in Nat : N = Len(calls)
  BY DEF ScopeInv, ScopeTypes
<1>3. PICK F \in Nat : F = Len(frames) /\ DOMAIN frames = 1..F
  BY DEF ScopeInv, ScopeTypes
<1>4. /\ calls' \in Seq(CallRec) /\ Len(calls') = N + 1 /\ calls'[N + 1] = new
      /\ \A c \in 1..N : calls'[c] = calls[c]
  <2>1. new \in CallRec
    BY <1>1, <1>3 DEF ScopeInv, ScopeTypes, CallRec, FrameRec, Outcomes
  <2> QED
    BY <1>2, <2>1, Appended DEF AwaitCall, MakeCall, ScopeInv, ScopeTypes
<1>5. PICK R \in Nat : R = Len(requested)
  BY DEF ScopeInv, ScopeTypes
<1>6. /\ requested' \in Seq(Nat) /\ Len(requested') = R + 1 /\ requested'[R + 1] = N + 1
      /\ \A i \in 1..R : requested'[i] = requested[i]
  BY <1>2, <1>5, Appended DEF AwaitCall, MakeCall, ScopeInv, ScopeTypes
<1>7. DOMAIN calls = 1..N /\ DOMAIN calls' = 1..(N + 1)
      /\ DOMAIN requested = 1..R /\ DOMAIN requested' = 1..(R + 1)
  BY <1>2, <1>4, <1>5, <1>6 DEF ScopeInv, ScopeTypes
<1>8. /\ frames' \in Seq(FrameRec) /\ Len(frames') = F /\ DOMAIN frames' = 1..F
      /\ frames'[f] = [frames[f] EXCEPT !.waits = N + 1]
      /\ \A g \in 1..F : g # f => frames'[g] = frames[g]
  <2>1. [frames[f] EXCEPT !.waits = N + 1] \in FrameRec
    BY <1>1, <1>2 DEF FrameRec
  <2>2. frames' = [frames EXCEPT ![f] = [frames[f] EXCEPT !.waits = N + 1]]
    BY <1>2 DEF AwaitCall
  <2>3. frames \in Seq(FrameRec)
    BY DEF ScopeInv, ScopeTypes
  <2> QED
    BY <1>3, <2>1, <2>2, <2>3, Updated
<1>9. \A g \in 1..F : /\ frames'[g].open = frames[g].open /\ frames'[g].ext = frames[g].ext
                      /\ frames'[g].task = frames[g].task
                      /\ frames'[g].waits = IF g = f THEN N + 1 ELSE frames[g].waits
  <2>1. PICK waiting : waiting = [frames[f] EXCEPT !.waits = N + 1]
    OBVIOUS
  <2>2. /\ waiting.open = frames[f].open /\ waiting.ext = frames[f].ext
        /\ waiting.task = frames[f].task /\ waiting.waits = N + 1
    BY <1>1, <2>1 DEF FrameRec
  <2> QED
    BY <1>8, <2>1, <2>2
<1>10. OpenFrames' = OpenFrames /\ f \in OpenFrames /\ OpenFrames \subseteq 1..F
  BY <1>1, <1>3, <1>8, <1>9 DEF OpenFrames
<1>11. UNCHANGED <<activeScope, leases, tasks, callbacks, batch, macrotasks, awaited, stage>>
       /\ jobs' = <<>>
  BY <1>1 DEF AwaitCall
<1>12. ScopeTypes'
  BY <1>4, <1>6, <1>8, <1>11 DEF ScopeInv, ScopeTypes
<1>13. Linked'
  <2>1. \A g \in DOMAIN frames' : frames'[g].task \in 0..Len(tasks) /\ frames'[g].waits \in 0..(N + 1)
    BY <1>2, <1>3, <1>8, <1>9 DEF ScopeInv, Linked
  <2>2. \A c \in DOMAIN calls' : calls'[c].waiter \in 0..F
    <3>1. new.waiter \in 0..F
      BY <1>3
    <3>2. \A c \in 1..N : calls'[c].waiter \in 0..F
      BY <1>3, <1>4, <1>7 DEF ScopeInv, Linked
    <3> QED
      BY <1>4, <1>7, <3>1, <3>2
  <2>3. \A i \in DOMAIN requested' : requested'[i] \in DOMAIN calls'
    BY <1>2, <1>5, <1>6, <1>7 DEF ScopeInv, Linked
  <2>4. \A i \in DOMAIN batch : batch[i] \in DOMAIN calls'
    BY <1>2, <1>7 DEF ScopeInv, Linked
  <2>5. \A i \in DOMAIN macrotasks : macrotasks[i][2] \in
          IF macrotasks[i][1] = "callback" THEN DOMAIN callbacks ELSE DOMAIN calls'
    BY <1>2, <1>7 DEF ScopeInv, Linked
  <2> QED
    BY <1>4, <1>8, <1>11, <2>1, <2>2, <2>3, <2>4, <2>5 DEF ScopeInv, Linked
<1>14. JobHolds' /\ ScopesAgree' /\ BatchHolds'
  BY <1>9, <1>10, <1>11 DEF ScopeInv, JobHolds, ScopesAgree, BatchHolds
<1> HIDE DEF new
<1>15. WaitersHold'
  <2>1. new.by = activeScope /\ new.ext = activeScope /\ new.waiter = f /\ new.at = "open"
    BY <1>1 DEF new
  <2>2. \A g \in OpenFrames : frames[g].waits \in 0..N
    BY <1>2, <1>3, <1>10 DEF ScopeInv, Linked
  <2>3. \A c \in 1..N : calls[c].waiter \in 0..F
    BY <1>3, <1>7 DEF ScopeInv, Linked
  <2>4. \A c \in 1..N : calls[c].at = "open" => calls[c].waiter # f
    BY <1>1, <1>3, <1>7 DEF ScopeInv, WaitersHold
  <2>5. \A c \in DOMAIN calls' : calls'[c].waiter # 0 => calls'[c].by = frames'[calls'[c].waiter].ext
    <3>1. ASSUME NEW c \in 1..N, calls[c].waiter # 0
          PROVE  calls'[c].by = frames'[calls'[c].waiter].ext
      <4>1. calls[c].by = frames[calls[c].waiter].ext
        BY <1>7, <3>1 DEF ScopeInv, WaitersHold
      <4>2. calls[c].waiter \in 1..F /\ calls'[c] = calls[c]
        BY <1>3, <1>4, <2>3, <3>1
      <4> QED
        BY <1>9, <4>1, <4>2
    <3>2. calls'[N + 1].by = frames'[calls'[N + 1].waiter].ext
      BY <1>1, <1>3, <1>4, <1>9, <2>1
    <3> QED
      BY <1>4, <1>7, <3>1, <3>2
  <2>6. \A c \in DOMAIN calls' : calls'[c].waiter # 0 /\ calls'[c].at = "open" =>
          frames'[calls'[c].waiter].open /\ frames'[calls'[c].waiter].waits = c
    <3>1. ASSUME NEW c \in 1..N, calls[c].waiter # 0, calls[c].at = "open"
          PROVE  frames'[calls'[c].waiter].open /\ frames'[calls'[c].waiter].waits = c
      <4>1. frames[calls[c].waiter].open /\ frames[calls[c].waiter].waits = c
        BY <1>7, <3>1 DEF ScopeInv, WaitersHold
      <4>2. calls[c].waiter \in 1..F /\ calls[c].waiter # f /\ calls'[c] = calls[c]
        BY <1>3, <1>4, <2>3, <2>4, <3>1
      <4> QED
        BY <1>9, <4>1, <4>2
    <3>2. frames'[calls'[N + 1].waiter].open /\ frames'[calls'[N + 1].waiter].waits = N + 1
      BY <1>1, <1>3, <1>4, <1>9, <2>1
    <3> QED
      BY <1>4, <1>7, <3>1, <3>2
  <2>7. \A g \in OpenFrames' : frames'[g].waits # 0 =>
          calls'[frames'[g].waits].waiter = g /\ calls'[frames'[g].waits].at = "open"
    BY <1>2, <1>4, <1>9, <1>10, <2>1, <2>2 DEF ScopeInv, WaitersHold
  <2>8. \A c \in DOMAIN calls' :
          calls'[c].ext # calls'[c].by =>
            /\ calls'[c].waiter = 0
            /\ \E d \in 1..(c - 1) : calls'[d].waiter = 0 /\ calls'[d].by = calls'[c].by
    BY <1>2, <1>4, <1>7, <2>1 DEF ScopeInv, WaitersHold
  <2> QED
    BY <2>5, <2>6, <2>7, <2>8 DEF WaitersHold
<1>16. TasksHold' /\ (RefusedCalls' = {} => RefusedCalls = {})
  <2>1. RefusedCalls' = {} => RefusedCalls = {}
    BY <1>2, <1>4, <1>7 DEF RefusedCalls
  <2> QED
    BY <1>3, <1>8, <1>9, <1>10, <1>11, <2>1 DEF ScopeInv, TasksHold
<1>17. WayHolds'
  <2>1. \A c \in 1..N : OnItsWay(c) => OnItsWay(c)'
    BY <1>5, <1>6, <1>7, <1>11 DEF OnItsWay, Range
  <2>2. OnItsWay(N + 1)'
    BY <1>5, <1>6, <1>7 DEF OnItsWay, Range
  <2> QED
    BY <1>2, <1>4, <1>7, <1>16, <2>1, <2>2 DEF ScopeInv, WayHolds
<1> QED
  BY <1>12, <1>13, <1>14, <1>15, <1>16, <1>17 DEF ScopeInv

LEMMA SetCallbackHolds ==
  ASSUME ScopeInv, NEW f \in DOMAIN frames, SetCallback(f)
  PROVE  ScopeInv'
<1>1. frames[f] \in FrameRec /\ frames[f].ext = activeScope
  BY OneJob DEF SetCallback, Running
<1>2. PICK N \in Nat : N = Len(callbacks) /\ DOMAIN callbacks = 1..N
  BY DEF ScopeInv, ScopeTypes
<1>3. /\ callbacks' \in Seq(CallbackRec) /\ Len(callbacks') = N + 1
      /\ callbacks' # <<>> /\ DOMAIN callbacks' = 1..(N + 1)
  <2>1. [ext |-> activeScope, at |-> "set"] \in CallbackRec
    BY <1>1 DEF CallbackRec, FrameRec
  <2>2. callbacks' \in Seq(CallbackRec) /\ Len(callbacks') = N + 1
    BY <1>2, <2>1, Appended DEF SetCallback, ScopeInv, ScopeTypes
  <2> QED
    BY <2>2
<1>4. UNCHANGED <<activeScope, leases, frames, tasks, calls, jobs, requested, batch, macrotasks,
                  awaited, stage>>
  BY DEF SetCallback
<1>5. OpenFrames' = OpenFrames /\ RefusedCalls' = RefusedCalls
  BY <1>4 DEF OpenFrames, RefusedCalls
<1>6. ScopeTypes'
  BY <1>3, <1>4 DEF ScopeInv, ScopeTypes
<1>7. Linked'
  BY <1>2, <1>3, <1>4 DEF ScopeInv, Linked
<1>8. JobHolds' /\ ScopesAgree' /\ WaitersHold' /\ BatchHolds'
  BY <1>4, <1>5 DEF ScopeInv, JobHolds, ScopesAgree, WaitersHold, BatchHolds
<1>9. TasksHold'
  BY <1>3, <1>4, <1>5 DEF ScopeInv, TasksHold
<1>10. WayHolds'
  BY <1>4, <1>5 DEF ScopeInv, WayHolds, OnItsWay
<1> QED
  BY <1>6, <1>7, <1>8, <1>9, <1>10 DEF ScopeInv

(* The scope agrees with the open frames when one comes and when one goes.     *)
LEMMA Entered ==
  ASSUME ScopeInv, NEW e \in Extensions, MayEnter(e), NEW task \in Nat, EnterScope(e, task, <<>>)
  PROVE  LET F == Len(frames) IN
         /\ F \in Nat /\ DOMAIN frames = 1..F
         /\ frames' \in Seq(FrameRec) /\ Len(frames') = F + 1 /\ DOMAIN frames' = 1..(F + 1)
         /\ \A f \in 1..F : frames'[f] = frames[f]
         /\ frames'[F + 1] = [ext |-> e, task |-> task, waits |-> 0, open |-> TRUE]
         /\ OpenFrames' = OpenFrames \union {F + 1} /\ OpenFrames \subseteq 1..F
         /\ activeScope' \in Extensions /\ leases' \in Nat
         /\ jobs' = <<Frame(F + 1)>>
         /\ ScopesAgree'
<1> DEFINE new == [ext |-> e, task |-> task, waits |-> 0, open |-> TRUE]
<1>1. PICK F \in Nat : F = Len(frames) /\ DOMAIN frames = 1..F
  BY DEF ScopeInv, ScopeTypes
<1>2. /\ frames' \in Seq(FrameRec) /\ Len(frames') = F + 1 /\ DOMAIN frames' = 1..(F + 1)
      /\ frames'[F + 1] = new /\ \A f \in 1..F : frames'[f] = frames[f]
  <2>1. new \in FrameRec
    BY DEF FrameRec
  <2>2. frames \in Seq(FrameRec)
    BY DEF ScopeInv, ScopeTypes
  <2> QED
    BY <1>1, <2>1, <2>2, Appended DEF EnterScope
<1>3. activeScope' = e /\ leases' = leases + 1 /\ leases \in Nat
  BY DEF EnterScope, ScopeInv, ScopeTypes
<1>4. jobs' = <<Frame(F + 1)>>
  BY <1>1 DEF EnterScope
<1>5. OpenFrames' = OpenFrames \union {F + 1} /\ OpenFrames \subseteq 1..F
  BY <1>1, <1>2 DEF OpenFrames
<1>6. \A f \in OpenFrames : frames[f].ext = e
  <2>1. OpenFrames # {} => activeScope \in Extensions
    <3> SUFFICES ASSUME NEW f \in OpenFrames PROVE activeScope \in Extensions
      OBVIOUS
    <3>1. f \in DOMAIN frames /\ frames[f].ext = activeScope
      BY DEF ScopeInv, ScopesAgree, OpenFrames
    <3>2. frames[f] \in FrameRec
      BY <1>1, <3>1 DEF ScopeInv, ScopeTypes
    <3> QED
      BY <3>1, <3>2 DEF FrameRec
  <2> QED
    BY <2>1, ScopeConstants DEF MayEnter, ScopeInv, ScopesAgree
<1>7. Cardinality(OpenFrames') = Cardinality(OpenFrames) + 1
  <2>1. IsFiniteSet(OpenFrames) /\ F + 1 \notin OpenFrames
    BY <1>1, <1>5, OpenFramesFinite DEF ScopeInv
  <2> QED
    BY <1>5, <2>1, FS_AddElement
<1>8. ScopesAgree'
  BY <1>2, <1>3, <1>5, <1>6, <1>7 DEF ScopeInv, ScopesAgree
<1> QED
  BY <1>1, <1>2, <1>3, <1>4, <1>5, <1>8

LEMMA Left ==
  ASSUME ScopeInv, NEW f \in DOMAIN frames, frames[f].open, NEW outcome, LeaveScope(f, outcome)
  PROVE  LET F == Len(frames) IN
         /\ F \in Nat /\ DOMAIN frames = 1..F
         /\ frames' \in Seq(FrameRec) /\ Len(frames') = F /\ DOMAIN frames' = 1..F
         /\ \A g \in 1..F : g # f => frames'[g] = frames[g]
         /\ \A g \in 1..F : /\ frames'[g].ext = frames[g].ext /\ frames'[g].task = frames[g].task
                            /\ frames'[g].waits = frames[g].waits
         /\ OpenFrames' = OpenFrames \ {f} /\ OpenFrames \subseteq 1..F /\ f \in OpenFrames
         /\ activeScope' \in Extensions \union {NoExtension} /\ leases' \in Nat
         /\ ScopesAgree'
<1>1. PICK F \in Nat : F = Len(frames) /\ DOMAIN frames = 1..F
  BY DEF ScopeInv, ScopeTypes
<1> DEFINE new == [frames[f] EXCEPT !.open = FALSE]
<1>2. frames[f] \in FrameRec /\ frames \in Seq(FrameRec)
  BY DEF ScopeInv, ScopeTypes
<1>3. new \in FrameRec
  BY <1>2 DEF FrameRec
<1>4. frames' = [frames EXCEPT ![f] = new]
  BY DEF LeaveScope
<1>5. /\ frames' \in Seq(FrameRec) /\ Len(frames') = F /\ DOMAIN frames' = 1..F
      /\ frames'[f] = new /\ \A g \in 1..F : g # f => frames'[g] = frames[g]
  <2> HIDE DEF new
  <2> QED
    BY <1>1, <1>2, <1>3, <1>4, Updated
<1>6. \A g \in 1..F : /\ frames'[g].ext = frames[g].ext /\ frames'[g].task = frames[g].task
                      /\ frames'[g].waits = frames[g].waits
  BY <1>2, <1>5 DEF FrameRec
<1>7. OpenFrames' = OpenFrames \ {f} /\ OpenFrames \subseteq 1..F /\ f \in OpenFrames
  <2>1. ~frames'[f].open
    BY <1>2, <1>5 DEF FrameRec
  <2> QED
    BY <1>1, <1>5, <2>1 DEF OpenFrames
<1>8. Cardinality(OpenFrames') = Cardinality(OpenFrames) - 1 /\ Cardinality(OpenFrames) \in Nat
      /\ IsFiniteSet(OpenFrames')
  BY <1>7, OpenFramesFinite, FS_RemoveElement DEF ScopeInv
<1>9. /\ leases = Cardinality(OpenFrames) /\ leases' = leases - 1
      /\ activeScope' = IF leases' = 0 THEN NoExtension ELSE activeScope
  BY DEF LeaveScope, ScopeInv, ScopesAgree
<1>10. leases' = Cardinality(OpenFrames') /\ (leases' = 0 <=> OpenFrames' = {}) /\ leases' \in Nat
  BY <1>8, <1>9, FS_EmptySet, FS_CardinalityType
<1>11. ScopesAgree'
  BY <1>6, <1>7, <1>9, <1>10 DEF ScopeInv, ScopesAgree
<1> QED
  BY <1>1, <1>5, <1>6, <1>7, <1>9, <1>10, <1>11 DEF ScopeInv, ScopeTypes

LEMMA EndHandlerHolds ==
  ASSUME ScopeInv, NEW f \in DOMAIN frames, NEW outcome \in {"value", "stop", "throw"},
         EndHandler(f, outcome)
  PROVE  ScopeInv'
<1>1. /\ jobs = <<Frame(f)>> /\ frames[f].open /\ frames[f].waits = 0
      /\ frames[f] \in FrameRec /\ Tail(jobs) = <<>>
  BY OneJob DEF EndHandler, Running
<1>2. PICK F \in Nat : F = Len(frames) /\ DOMAIN frames = 1..F
  BY DEF ScopeInv, ScopeTypes
<1>3. /\ frames' \in Seq(FrameRec) /\ Len(frames') = F /\ DOMAIN frames' = 1..F
      /\ \A g \in 1..F : g # f => frames'[g] = frames[g]
      /\ \A g \in 1..F : /\ frames'[g].ext = frames[g].ext /\ frames'[g].task = frames[g].task
                         /\ frames'[g].waits = frames[g].waits
      /\ OpenFrames' = OpenFrames \ {f} /\ OpenFrames \subseteq 1..F /\ f \in OpenFrames
      /\ activeScope' \in Extensions \union {NoExtension} /\ leases' \in Nat
      /\ ScopesAgree'
  BY <1>1, <1>2, Left DEF EndHandler
<1>4. PICK t : t = frames[f].task
  OBVIOUS
<1>5. PICK T \in Nat : T = Len(tasks) /\ DOMAIN tasks = 1..T
  BY DEF ScopeInv, ScopeTypes
<1>6. t \in 0..T /\ (t # 0 => tasks[t].state = "pending")
      /\ (t # 0 => \A g \in OpenFrames' : frames[g].task # t)
  BY <1>2, <1>3, <1>4, <1>5 DEF ScopeInv, Linked, TasksHold
<1>7. UNCHANGED <<calls, callbacks, requested, batch, macrotasks, awaited, stage>>
  BY DEF EndHandler
<1>8. /\ tasks' \in Seq(TaskRec) /\ Len(tasks') = T /\ DOMAIN tasks' = 1..T
      /\ \A u \in 1..T : tasks'[u] = tasks[u] \/ (u = t /\ tasks'[u].state # "pending")
      /\ \/ jobs' = <<>>
         \/ t # 0 /\ jobs' = <<Handlers(t)>> /\ tasks' = tasks
  <2>1. tasks \in Seq(TaskRec)
    BY DEF ScopeInv, ScopeTypes
  <2>2. CASE t # 0 /\ (outcome = "stop" \/ (outcome = "throw" /\ tasks[t].strict))
    <3>1. PICK ended :
            /\ \E state \in {"resolved", "rejected"} : ended = [tasks[t] EXCEPT !.state = state]
            /\ tasks' = [tasks EXCEPT ![t] = ended] /\ jobs' = <<>>
      BY <1>1, <1>4, <2>2 DEF EndHandler
    <3>2. tasks[t] \in TaskRec /\ t \in 1..T
      BY <1>5, <1>6, <2>1, <2>2
    <3>3. ended \in TaskRec /\ ended.state # "pending"
      BY <3>1, <3>2 DEF TaskRec
    <3>4. /\ tasks' \in Seq(TaskRec) /\ Len(tasks') = T /\ DOMAIN tasks' = 1..T
          /\ tasks'[t] = ended
          /\ \A u \in 1..T : u # t => tasks'[u] = tasks[u]
      BY <1>5, <2>1, <3>1, <3>2, <3>3, Updated
    <3> QED
      BY <3>1, <3>3, <3>4
  <2>3. CASE ~(t # 0 /\ (outcome = "stop" \/ (outcome = "throw" /\ tasks[t].strict)))
    <3>1. tasks' = tasks /\ jobs' = IF t = 0 THEN <<>> ELSE Append(<<>>, Handlers(t))
      BY <1>1, <1>4, <2>3 DEF EndHandler
    <3>2. Append(<<>>, Handlers(t)) = <<Handlers(t)>>
      OBVIOUS
    <3> QED
      BY <1>5, <2>1, <3>1, <3>2
  <2> QED
    BY <2>2, <2>3
<1>9. RefusedCalls' = RefusedCalls
  BY <1>7 DEF RefusedCalls
<1>10. ScopeTypes'
  BY <1>3, <1>7, <1>8 DEF ScopeInv, ScopeTypes
<1>11. Linked'
  BY <1>2, <1>3, <1>5, <1>7, <1>8 DEF ScopeInv, Linked
<1>12. JobHolds'
  <2>1. stage # "idle"
    BY <1>1, OneJob
  <2>2. CASE jobs' = <<>>
    BY <2>2 DEF JobHolds
  <2>3. CASE t # 0 /\ jobs' = <<Handlers(t)>> /\ tasks' = tasks
    <3>1. t \in DOMAIN tasks' /\ tasks'[t].state = "pending"
      BY <1>5, <1>6, <2>3
    <3>2. \A g \in OpenFrames' : frames'[g].task # t
      BY <1>3, <1>6, <2>3
    <3> QED
      BY <1>7, <2>1, <2>3, <3>1, <3>2 DEF JobHolds
  <2> QED
    BY <1>8, <2>2, <2>3
<1>13. WaitersHold'
  <2>1. \A c \in DOMAIN calls : calls[c].waiter \in 0..F
    BY <1>2 DEF ScopeInv, Linked
  <2>2. \A c \in DOMAIN calls : calls[c].waiter # 0 =>
          frames'[calls[c].waiter].ext = frames[calls[c].waiter].ext
    BY <1>3, <2>1
  <2>3. \A c \in DOMAIN calls : calls[c].waiter # 0 /\ calls[c].at = "open" =>
          frames'[calls[c].waiter] = frames[calls[c].waiter]
    <3>1. \A c \in DOMAIN calls : c # 0
      BY DEF ScopeInv, ScopeTypes
    <3>2. \A c \in DOMAIN calls : calls[c].waiter # 0 /\ calls[c].at = "open" => calls[c].waiter # f
      BY <1>1, <3>1 DEF ScopeInv, WaitersHold
    <3> QED
      BY <1>3, <2>1, <3>2
  <2>4. \A g \in OpenFrames' : g \in OpenFrames /\ frames'[g] = frames[g]
    BY <1>3
  <2> QED
    BY <1>7, <2>2, <2>3, <2>4 DEF ScopeInv, WaitersHold
<1>14. TasksHold'
  <2>1. \A g \in OpenFrames' : g \in OpenFrames /\ frames'[g] = frames[g] /\ g \in 1..F
    BY <1>3
  <2>2. \A g \in OpenFrames' : frames'[g].task # 0 => tasks'[frames'[g].task].state = "pending"
    BY <1>2, <1>5, <1>6, <1>8, <2>1 DEF ScopeInv, TasksHold, Linked
  <2>3. \A g, h \in OpenFrames' : frames'[g].task = frames'[h].task /\ frames'[g].task # 0 => g = h
    BY <2>1 DEF ScopeInv, TasksHold
  <2>4. \A g \in DOMAIN frames' : frames'[g].task = 0 => callbacks' # <<>>
    BY <1>2, <1>3, <1>7 DEF ScopeInv, TasksHold
  <2>5. stage' \in Ending => tasks'[awaited'].state # "pending"
    <3>1. stage \in Ending => awaited \in 1..T
      <4>1. awaited \in 0..T /\ (awaited = 0 <=> stage = "idle")
        BY <1>5 DEF ScopeInv, Linked
      <4>2. stage \in Ending => stage # "idle"
        BY DEF Ending
      <4> QED
        BY <4>1, <4>2
    <3> QED
      BY <1>7, <1>8, <3>1 DEF ScopeInv, TasksHold
  <2>6. RefusedCalls' = {} => \A u \in DOMAIN tasks' : tasks'[u].state = "pending" => u = awaited'
    BY <1>5, <1>7, <1>8, <1>9 DEF ScopeInv, TasksHold
  <2> QED
    BY <2>2, <2>3, <2>4, <2>5, <2>6 DEF TasksHold
<1>15. WayHolds' /\ BatchHolds'
  BY <1>7, <1>9 DEF ScopeInv, WayHolds, OnItsWay, BatchHolds
<1> QED
  BY <1>3, <1>10, <1>11, <1>12, <1>13, <1>14, <1>15 DEF ScopeInv

(* The dispatch goes on without entering a scope.                              *)
LEMMA StayedOutside ==
  ASSUME ScopeInv, NEW t \in DOMAIN tasks, Running(Handlers(t)),
         NEW turned \in TaskRec, tasks' = [tasks EXCEPT ![t] = turned],
         \/ turned.state # "pending" /\ jobs' = <<>>
         \/ turned.state = "pending" /\ jobs' = jobs,
         UNCHANGED <<activeScope, leases, frames, calls, callbacks, requested, batch, macrotasks,
                     awaited, stage>>
  PROVE  ScopeInv'
<1>1. /\ jobs = <<Handlers(t)>> /\ tasks[t].state = "pending" /\ stage # "idle"
      /\ \A f \in OpenFrames : frames[f].task # t
  <2>1. jobs # <<>>
    BY DEF Running
  <2> QED
    BY <2>1, OneJob
<1>2. PICK T \in Nat : T = Len(tasks) /\ DOMAIN tasks = 1..T
  <2>1. tasks \in Seq(TaskRec)
    BY DEF ScopeInv, ScopeTypes
  <2> QED
    BY <2>1
<1>3. /\ tasks' \in Seq(TaskRec) /\ Len(tasks') = T /\ DOMAIN tasks' = 1..T
      /\ tasks'[t] = turned /\ \A u \in 1..T : u # t => tasks'[u] = tasks[u]
  BY <1>2, Updated DEF ScopeInv, ScopeTypes
<1>4. OpenFrames' = OpenFrames /\ RefusedCalls' = RefusedCalls
  BY DEF OpenFrames, RefusedCalls
<1>5. ScopeTypes'
  BY <1>1, <1>3 DEF ScopeInv, ScopeTypes
<1>6. Linked'
  BY <1>2, <1>3 DEF ScopeInv, Linked
<1>7. JobHolds'
  BY <1>1, <1>2, <1>3, <1>4 DEF JobHolds
<1>8. ScopesAgree' /\ WaitersHold'
  BY <1>4 DEF ScopeInv, ScopesAgree, WaitersHold
<1>9. TasksHold'
  <2>1. \A f \in OpenFrames : frames[f].task # 0 => frames[f].task \in 1..T /\ frames[f].task # t
    BY <1>1, <1>2 DEF ScopeInv, Linked, OpenFrames
  <2>2. \A f \in OpenFrames' : frames'[f].task # 0 => tasks'[frames'[f].task].state = "pending"
    BY <1>3, <1>4, <2>1 DEF ScopeInv, TasksHold
  <2>3. stage' \in Ending => tasks'[awaited'].state # "pending"
    <3>1. stage \in Ending => awaited \in 1..T
      <4>1. awaited \in 0..T /\ (awaited = 0 <=> stage = "idle")
        BY <1>2 DEF ScopeInv, Linked
      <4> QED
        BY <1>1, <4>1
    <3>2. stage \in Ending => awaited # t
      BY <1>1 DEF ScopeInv, TasksHold
    <3> QED
      BY <1>3, <3>1, <3>2 DEF ScopeInv, TasksHold
  <2>4. RefusedCalls' = {} => \A u \in DOMAIN tasks' : tasks'[u].state = "pending" => u = awaited'
    BY <1>1, <1>2, <1>3, <1>4 DEF ScopeInv, TasksHold
  <2> QED
    BY <1>4, <2>2, <2>3, <2>4 DEF ScopeInv, TasksHold
<1>10. WayHolds' /\ BatchHolds'
  BY <1>4 DEF ScopeInv, WayHolds, OnItsWay, BatchHolds
<1> QED
  BY <1>5, <1>6, <1>7, <1>8, <1>9, <1>10 DEF ScopeInv

(* It enters the scope of its next handler.                                   *)
LEMMA HandlerEntered ==
  ASSUME ScopeInv, NEW t \in DOMAIN tasks, Running(Handlers(t)),
         NEW e \in Extensions, MayEnter(e), EnterScope(e, t, <<>>),
         NEW turned \in TaskRec, tasks' = [tasks EXCEPT ![t] = turned], turned.state = "pending",
         UNCHANGED <<calls, callbacks, requested, batch, macrotasks, awaited, stage>>
  PROVE  ScopeInv'
<1>1. /\ jobs = <<Handlers(t)>> /\ tasks[t].state = "pending" /\ stage # "idle"
      /\ \A f \in OpenFrames : frames[f].task # t
  <2>1. jobs # <<>>
    BY DEF Running
  <2> QED
    BY <2>1, OneJob
<1>2. PICK T \in Nat : T = Len(tasks) /\ DOMAIN tasks = 1..T
  <2>1. tasks \in Seq(TaskRec)
    BY DEF ScopeInv, ScopeTypes
  <2> QED
    BY <2>1
<1>3. /\ tasks' \in Seq(TaskRec) /\ Len(tasks') = T /\ DOMAIN tasks' = 1..T
      /\ tasks'[t] = turned /\ \A u \in 1..T : u # t => tasks'[u] = tasks[u]
  BY <1>2, Updated DEF ScopeInv, ScopeTypes
<1>4. PICK F : F = Len(frames)
  OBVIOUS
<1>5. /\ F \in Nat /\ DOMAIN frames = 1..F
      /\ frames' \in Seq(FrameRec) /\ Len(frames') = F + 1 /\ DOMAIN frames' = 1..(F + 1)
      /\ \A f \in 1..F : frames'[f] = frames[f]
      /\ frames'[F + 1] = [ext |-> e, task |-> t, waits |-> 0, open |-> TRUE]
      /\ OpenFrames' = OpenFrames \union {F + 1} /\ OpenFrames \subseteq 1..F
      /\ activeScope' \in Extensions /\ leases' \in Nat
      /\ jobs' = <<Frame(F + 1)>>
      /\ ScopesAgree'
  BY <1>2, <1>4, Entered
<1>6. frames'[F + 1].task = t /\ frames'[F + 1].waits = 0 /\ frames'[F + 1].open /\ F + 1 \in 1..(F + 1)
  BY <1>5
<1>7. RefusedCalls' = RefusedCalls
  BY DEF RefusedCalls
<1>8. ScopeTypes'
  BY <1>3, <1>5 DEF ScopeInv, ScopeTypes
<1>9. Linked'
  <2>1. \A f \in DOMAIN frames' : frames'[f].task \in 0..T /\ frames'[f].waits \in 0..Len(calls)
    <3>1. \A f \in 1..F : frames'[f].task \in 0..T /\ frames'[f].waits \in 0..Len(calls)
      BY <1>2, <1>5 DEF ScopeInv, Linked
    <3>2. frames'[F + 1].task \in 0..T /\ frames'[F + 1].waits \in 0..Len(calls)
      BY <1>2, <1>6 DEF ScopeInv, ScopeTypes
    <3> QED
      BY <1>5, <3>1, <3>2
  <2>2. \A c \in DOMAIN calls : calls[c].waiter \in 0..(F + 1)
    BY <1>4, <1>5 DEF ScopeInv, Linked
  <2> QED
    BY <1>2, <1>3, <1>5, <2>1, <2>2 DEF ScopeInv, Linked
<1>10. JobHolds'
  BY <1>1, <1>5, <1>6 DEF JobHolds
<1>11. WaitersHold'
  <2>1. \A c \in DOMAIN calls : calls[c].waiter # 0 => frames'[calls[c].waiter] = frames[calls[c].waiter]
    <3>1. \A c \in DOMAIN calls : calls[c].waiter \in 0..F
      BY <1>4 DEF ScopeInv, Linked
    <3> QED
      BY <1>5, <3>1
  <2>2. \A f \in OpenFrames' : frames'[f].waits # 0 => f \in OpenFrames /\ frames'[f] = frames[f]
    BY <1>5, <1>6
  <2> QED
    BY <2>1, <2>2 DEF ScopeInv, WaitersHold
<1>12. TasksHold'
  <2>1. \A f \in OpenFrames : /\ frames'[f] = frames[f] /\ frames[f].task # t
                              /\ (frames[f].task # 0 => frames[f].task \in 1..T)
    BY <1>1, <1>2, <1>5 DEF ScopeInv, Linked
  <2>2. \A f \in OpenFrames' : frames'[f].task # 0 => tasks'[frames'[f].task].state = "pending"
    BY <1>3, <1>5, <1>6, <2>1 DEF ScopeInv, TasksHold
  <2>3. \A f, g \in OpenFrames' : frames'[f].task = frames'[g].task /\ frames'[f].task # 0 => f = g
    BY <1>5, <1>6, <2>1 DEF ScopeInv, TasksHold
  <2>4. \A f \in DOMAIN frames' : frames'[f].task = 0 => callbacks' # <<>>
    BY <1>2, <1>5, <1>6 DEF ScopeInv, TasksHold
  <2>5. stage' \in Ending => tasks'[awaited'].state # "pending"
    <3>1. stage \in Ending => awaited \in 1..T
      <4>1. awaited \in 0..T /\ (awaited = 0 <=> stage = "idle")
        BY <1>2 DEF ScopeInv, Linked
      <4> QED
        BY <1>1, <4>1
    <3>2. stage \in Ending => awaited # t
      BY <1>1 DEF ScopeInv, TasksHold
    <3> QED
      BY <1>3, <3>1, <3>2 DEF ScopeInv, TasksHold
  <2>6. RefusedCalls' = {} => \A u \in DOMAIN tasks' : tasks'[u].state = "pending" => u = awaited'
    BY <1>1, <1>2, <1>3, <1>7 DEF ScopeInv, TasksHold
  <2> QED
    BY <2>2, <2>3, <2>4, <2>5, <2>6 DEF TasksHold
<1>13. WayHolds' /\ BatchHolds'
  BY <1>7 DEF ScopeInv, WayHolds, OnItsWay, BatchHolds
<1> QED
  BY <1>5, <1>8, <1>9, <1>10, <1>11, <1>12, <1>13 DEF ScopeInv

LEMMA NextHandlerHolds ==
  ASSUME ScopeInv, NEW t \in DOMAIN tasks, NextHandler(t)
  PROVE  ScopeInv'
<1>1. /\ Running(Handlers(t)) /\ tasks[t].state = "pending" /\ tasks[t] \in TaskRec
      /\ Tail(jobs) = <<>>
  BY OneJob DEF NextHandler, Running
<1>2. UNCHANGED <<calls, callbacks, requested, batch, macrotasks, awaited, stage>>
  BY DEF NextHandler
<1>3. PICK rest \in Seq(Extensions) : rest = tasks[t].rest
  BY <1>1 DEF TaskRec
<1>4. CASE rest = <<>>
  <2>1. PICK turned : turned = [tasks[t] EXCEPT !.state = "resolved"]
    OBVIOUS
  <2>2. turned \in TaskRec /\ turned.state = "resolved"
    BY <1>1, <2>1 DEF TaskRec
  <2>3. tasks' = [tasks EXCEPT ![t] = turned] /\ jobs' = <<>>
    BY <1>1, <1>3, <1>4, <2>1 DEF NextHandler
  <2>4. UNCHANGED <<activeScope, leases, frames>>
    BY <1>3, <1>4 DEF NextHandler
  <2> QED
    BY <1>1, <1>2, <2>2, <2>3, <2>4, StayedOutside
<1>5. CASE rest # <<>> /\ MayEnter(Head(rest))
  <2>1. PICK turned, e : turned = [tasks[t] EXCEPT !.rest = Tail(rest)] /\ e = Head(rest)
    OBVIOUS
  <2>2. e \in Extensions /\ Tail(rest) \in Seq(Extensions)
    BY <1>3, <1>5, <2>1
  <2>3. turned \in TaskRec /\ turned.state = "pending"
    BY <1>1, <2>1, <2>2 DEF TaskRec
  <2>4. tasks' = [tasks EXCEPT ![t] = turned] /\ EnterScope(e, t, <<>>) /\ MayEnter(e)
    BY <1>1, <1>3, <1>5, <2>1 DEF NextHandler
  <2> QED
    BY <1>1, <1>2, <2>2, <2>3, <2>4, HandlerEntered
<1>6. CASE rest # <<>> /\ ~MayEnter(Head(rest))
  <2>1. PICK turned : turned = [tasks[t] EXCEPT !.rest = Tail(rest),
                                  !.state = IF tasks[t].strict THEN "rejected" ELSE @]
    OBVIOUS
  <2>2. Tail(rest) \in Seq(Extensions)
    BY <1>3, <1>6
  <2>3. turned \in TaskRec /\ turned.state = IF tasks[t].strict THEN "rejected" ELSE "pending"
    BY <1>1, <2>1, <2>2 DEF TaskRec
  <2>4. /\ tasks' = [tasks EXCEPT ![t] = turned]
        /\ jobs' = IF tasks[t].strict THEN <<>> ELSE jobs
    BY <1>1, <1>3, <1>6, <2>1 DEF NextHandler
  <2>5. UNCHANGED <<activeScope, leases, frames>>
    BY <1>3, <1>6 DEF NextHandler
  <2> QED
    BY <1>1, <1>2, <2>3, <2>4, <2>5, StayedOutside
<1> QED
  BY <1>4, <1>5, <1>6

LEMMA JavaScriptHolds ==
  ASSUME ScopeInv, JavaScriptRuns
  PROVE  ScopeInv'
BY FireAndForgetHolds, AwaitCallHolds, SetCallbackHolds, EndHandlerHolds, NextHandlerHolds,
   ContinueHolds DEF JavaScriptRuns

-----------------------------------------------------------------------------
(* The thread                                                                *)

LEMMA StartTaskHolds ==
  ASSUME ScopeInv, NEW handlers \in Seq(Extensions), NEW strict \in BOOLEAN,
         StartTask(handlers, strict)
  PROVE  ScopeInv'
<1> DEFINE new == [rest |-> handlers, strict |-> strict, state |-> "pending"]
<1>1. PICK T \in Nat : T = Len(tasks) /\ DOMAIN tasks = 1..T
  BY DEF ScopeInv, ScopeTypes
<1>2. /\ tasks' \in Seq(TaskRec) /\ Len(tasks') = T + 1 /\ DOMAIN tasks' = 1..(T + 1)
      /\ tasks'[T + 1] = new /\ \A t \in 1..T : tasks'[t] = tasks[t]
  <2>1. new \in TaskRec
    BY DEF TaskRec
  <2>2. tasks \in Seq(TaskRec)
    BY DEF ScopeInv, ScopeTypes
  <2> QED
    BY <1>1, <2>1, <2>2, Appended DEF StartTask
<1>3. /\ stage = "idle" /\ awaited = 0 /\ jobs = <<>> /\ stage' = "drain" /\ awaited' = T + 1
  BY <1>1 DEF StartTask, ScopeInv, JobHolds, Linked
<1>4. jobs' = <<Handlers(T + 1)>>
  <2>1. Append(<<>>, Handlers(T + 1)) = <<Handlers(T + 1)>>
    OBVIOUS
  <2> QED
    BY <1>1, <1>3, <2>1 DEF StartTask
<1>5. UNCHANGED <<activeScope, leases, frames, calls, callbacks, requested, batch, macrotasks>>
  BY DEF StartTask
<1>6. OpenFrames' = OpenFrames /\ RefusedCalls' = RefusedCalls
  BY <1>5 DEF OpenFrames, RefusedCalls
<1>7. \A f \in OpenFrames : frames[f].task \in 0..T
  BY <1>1 DEF ScopeInv, Linked, OpenFrames
<1>8. ScopeTypes'
  BY <1>1, <1>2, <1>3, <1>5 DEF ScopeInv, ScopeTypes, Stages
<1>9. Linked'
  BY <1>1, <1>2, <1>3, <1>5 DEF ScopeInv, Linked
<1>10. JobHolds'
  <2>1. T + 1 \in DOMAIN tasks' /\ tasks'[T + 1].state = "pending"
    BY <1>2
  <2>2. \A f \in OpenFrames' : frames'[f].task # T + 1
    BY <1>5, <1>6, <1>7
  <2> QED
    BY <1>3, <1>4, <2>1, <2>2 DEF JobHolds
<1>11. ScopesAgree' /\ WaitersHold'
  BY <1>5, <1>6 DEF ScopeInv, ScopesAgree, WaitersHold
<1>12. TasksHold'
  <2>1. \A f \in OpenFrames' : frames'[f].task # 0 => tasks'[frames'[f].task].state = "pending"
    BY <1>2, <1>5, <1>6, <1>7 DEF ScopeInv, TasksHold
  <2>2. stage' \notin Ending
    BY <1>3 DEF Ending
  <2>3. RefusedCalls' = {} => \A t \in DOMAIN tasks' : tasks'[t].state = "pending" => t = awaited'
    BY <1>1, <1>2, <1>3, <1>6 DEF ScopeInv, TasksHold
  <2> QED
    BY <1>5, <1>6, <2>1, <2>2, <2>3 DEF ScopeInv, TasksHold
<1>13. WayHolds' /\ BatchHolds'
  BY <1>3, <1>5, <1>6 DEF ScopeInv, WayHolds, OnItsWay, BatchHolds
<1> QED
  BY <1>8, <1>9, <1>10, <1>11, <1>12, <1>13 DEF ScopeInv

(* Steps of the loop that leave JavaScript as it is.                           *)
JavaScriptStays ==
  UNCHANGED <<activeScope, leases, frames, tasks, calls, callbacks, jobs>>

LEMMA LoopGoesOn ==
  ASSUME ScopeInv, JavaScriptStays, JavaScriptIsIdle,
         ScopeTypes', Linked', BatchHolds',
         stage' \in Ending => tasks[awaited'].state # "pending",
         RefusedCalls = {} =>
           /\ \A t \in DOMAIN tasks : tasks[t].state = "pending" => t = awaited'
           /\ \A c \in DOMAIN calls : 
                calls[c].at = "open" /\ OnItsWay(c) => OnItsWay(c)' \/ calls[c].late
  PROVE  ScopeInv'
<1>1. OpenFrames' = OpenFrames /\ RefusedCalls' = RefusedCalls
  BY DEF JavaScriptStays, OpenFrames, RefusedCalls
<1>2. JobHolds'
  BY DEF JobHolds, JavaScriptStays, JavaScriptIsIdle
<1>3. ScopesAgree' /\ WaitersHold'
  BY <1>1 DEF ScopeInv, ScopesAgree, WaitersHold, JavaScriptStays
<1>4. TasksHold'
  BY <1>1 DEF ScopeInv, TasksHold, JavaScriptStays
<1>5. WayHolds'
  BY <1>1 DEF ScopeInv, WayHolds, JavaScriptStays
<1> QED
  BY <1>2, <1>3, <1>4, <1>5 DEF ScopeInv

LEMMA DrainHolds ==
  ASSUME ScopeInv, Drain("drain", "dispatch") \/ Drain("drain again", "dispatch again")
  PROVE  ScopeInv'
<1>1. JavaScriptStays /\ JavaScriptIsIdle /\ UNCHANGED <<macrotasks, awaited>>
  BY DEF Drain, JavaScriptStays
<1>2. /\ batch' = requested /\ requested' = <<>>
      /\ \/ stage = "drain" /\ stage' = "dispatch"
         \/ stage = "drain again" /\ stage' = "dispatch again"
  BY DEF Drain
<1>3. batch = <<>> /\ stage # "idle" /\ stage' # "idle"
  BY <1>2 DEF ScopeInv, BatchHolds
<1>4. ScopeTypes'
  <2>1. stage' \in Stages
    BY <1>2 DEF Stages
  <2>2. requested' \in Seq(Nat) /\ batch' \in Seq(Nat)
    BY <1>2, NothingIn DEF ScopeInv, ScopeTypes
  <2> QED
    BY <1>1, <2>1, <2>2 DEF ScopeInv, ScopeTypes, JavaScriptStays
<1>5. Linked'
  <2>1. DOMAIN requested' = {}
    BY <1>2, NothingIn
  <2> QED
    BY <1>1, <1>2, <1>3, <2>1 DEF ScopeInv, Linked, JavaScriptStays
<1>6. stage' \notin Ending \/ stage \in Ending
  BY <1>2 DEF Ending
<1>7. \A c \in DOMAIN calls : OnItsWay(c) => OnItsWay(c)'
  BY <1>1, <1>2, <1>3, NothingIn DEF OnItsWay, Range
<1>8. BatchHolds'
  BY <1>2 DEF BatchHolds
<1> QED
  BY <1>1, <1>4, <1>5, <1>6, <1>7, <1>8, LoopGoesOn DEF ScopeInv, TasksHold

Performs == Perform("dispatch", "tick") \/ Perform("dispatch again", "tick again")

LEMMA PerformHolds ==
  ASSUME ScopeInv, Performs
  PROVE  ScopeInv'
<1>1. JavaScriptStays /\ JavaScriptIsIdle /\ requested' = requested /\ awaited' = awaited
  BY DEF Performs, Perform, JavaScriptStays
<1>2. batch \in Seq(Nat) /\ macrotasks \in Seq(Macrotasks) /\ batch # <<>>
  BY DEF Performs, Perform, ScopeInv, ScopeTypes
<1>3. PICK c \in Nat : c = Head(batch) /\ c = batch[1]
  BY <1>2
<1>4. PICK B \in Nat : B = Len(batch) /\ B # 0 /\ DOMAIN batch = 1..B
  BY <1>2
<1>5. PICK M \in Nat : M = Len(macrotasks) /\ DOMAIN macrotasks = 1..M
  BY <1>2
<1>6. \A i \in DOMAIN batch : batch[i] \in DOMAIN calls
  BY DEF ScopeInv, Linked
<1>7. c \in DOMAIN calls
  BY <1>3, <1>4, <1>6
<1>8. /\ batch' \in Seq(Nat) /\ DOMAIN batch' = 1..(B - 1)
      /\ \A i \in 1..(B - 1) : batch'[i] = batch[i + 1]
  <2>1. PICK b : b = Tail(batch)
    OBVIOUS
  <2>2. b \in Seq(Nat) /\ DOMAIN b = 1..(B - 1) /\ \A i \in 1..(B - 1) : b[i] = batch[i + 1]
    BY <1>2, <1>4, <2>1
  <2>3. batch' = b
    BY <2>1 DEF Performs, Perform
  <2> QED
    BY <2>2, <2>3
<1>9. /\ macrotasks' \in Seq(Macrotasks) /\ DOMAIN macrotasks' = 1..(M + 1)
      /\ macrotasks'[M + 1] = Completion(c)
      /\ \A i \in 1..M : macrotasks'[i] = macrotasks[i]
  <2>1. PICK m, e : m = Append(macrotasks, e) /\ e = Completion(c)
    OBVIOUS
  <2>2. e \in Macrotasks
    BY <2>1 DEF Completion, Macrotasks
  <2>3. /\ m \in Seq(Macrotasks) /\ Len(m) = M + 1 /\ m[M + 1] = e
        /\ \A i \in 1..M : m[i] = macrotasks[i]
    BY <1>2, <1>5, <2>1, <2>2, Appended
  <2>4. macrotasks' = m
    BY <1>3, <2>1 DEF Performs, Perform
  <2> QED
    BY <2>1, <2>3, <2>4, Parts
<1>10. \/ stage = "dispatch" /\ stage' = "tick"
       \/ stage = "dispatch again" /\ stage' = "tick again"
  <2>1. CASE Perform("dispatch", "tick")
    BY <2>1 DEF Perform
  <2>2. CASE Perform("dispatch again", "tick again")
    BY <2>2 DEF Perform
  <2> QED
    BY <2>1, <2>2 DEF Performs
<1>11. ScopeTypes'
  <2>1. stage' \in Stages
    BY <1>10 DEF Stages, Ticks
  <2> QED
    BY <1>1, <1>8, <1>9, <2>1 DEF ScopeInv, ScopeTypes, JavaScriptStays
<1>12. Linked'
  <2>1. stage # "idle" /\ stage' # "idle"
    BY <1>10
  <2>2. \A i \in DOMAIN batch' : batch'[i] \in DOMAIN calls
    <3> SUFFICES ASSUME NEW i \in 1..(B - 1) PROVE batch'[i] \in DOMAIN calls
      BY <1>8
    <3>1. i + 1 \in DOMAIN batch
      BY <1>4
    <3> QED
      BY <1>6, <1>8, <3>1
  <2>3. \A i \in DOMAIN macrotasks' : macrotasks'[i][2] \in
          IF macrotasks'[i][1] = "callback" THEN DOMAIN callbacks ELSE DOMAIN calls
    <3>1. macrotasks'[M + 1][1] = "completion" /\ macrotasks'[M + 1][2] = c
      BY <1>9 DEF Completion
    <3>2. \A i \in 1..M : macrotasks'[i][2] \in
            IF macrotasks'[i][1] = "callback" THEN DOMAIN callbacks ELSE DOMAIN calls
      <4>1. \A i \in DOMAIN macrotasks : macrotasks[i][2] \in
              IF macrotasks[i][1] = "callback" THEN DOMAIN callbacks ELSE DOMAIN calls
        BY DEF ScopeInv, Linked
      <4> QED
        BY <1>5, <1>9, <4>1
    <3> QED
      BY <1>7, <1>9, <3>1, <3>2
  <2> QED
    BY <1>1, <2>1, <2>2, <2>3 DEF ScopeInv, Linked, JavaScriptStays
<1>13. BatchHolds'
  BY <1>10 DEF BatchHolds
<1>14. stage' \in Ending => stage \in Ending
  BY <1>10 DEF Ending
<1>15. \A d \in DOMAIN calls : OnItsWay(d) => OnItsWay(d)'
  <2> SUFFICES ASSUME NEW d \in DOMAIN calls, OnItsWay(d) PROVE OnItsWay(d)'
    OBVIOUS
  <2>1. CASE d \in Range(requested)
    BY <1>1, <2>1 DEF OnItsWay
  <2>2. CASE d \in Range(batch)
    <3>1. PICK i \in 1..B : batch[i] = d
      BY <1>4, <2>2 DEF Range
    <3>2. CASE i = 1
      <4>1. macrotasks'[M + 1] = Completion(d) /\ M + 1 \in DOMAIN macrotasks'
        BY <1>3, <1>9, <3>1, <3>2
      <4> QED
        BY <4>1 DEF OnItsWay
    <3>3. CASE i # 1
      <4>1. i - 1 \in DOMAIN batch' /\ batch'[i - 1] = d
        BY <1>4, <1>8, <3>1, <3>3
      <4> QED
        BY <4>1 DEF OnItsWay, Range
    <3> QED
      BY <3>2, <3>3
  <2>3. CASE \E i \in DOMAIN macrotasks : macrotasks[i] = Completion(d)
    <3>1. PICK i \in 1..M : macrotasks[i] = Completion(d)
      BY <1>5, <2>3
    <3>2. i \in DOMAIN macrotasks' /\ macrotasks'[i] = Completion(d)
      BY <1>9, <3>1
    <3> QED
      BY <3>2 DEF OnItsWay
  <2> QED
    BY <2>1, <2>2, <2>3 DEF OnItsWay
<1> QED
  BY <1>1, <1>11, <1>12, <1>13, <1>14, <1>15, LoopGoesOn DEF ScopeInv, TasksHold

LEMMA TakeTaskHolds ==
  ASSUME ScopeInv, TakeTask
  PROVE  ScopeInv'
<1>1. /\ JavaScriptStays /\ JavaScriptIsIdle
      /\ requested' = requested /\ batch' = batch /\ macrotasks' = macrotasks
      /\ stage = "dispatch" /\ batch = <<>>
  BY DEF TakeTask, AllPerformed, JavaScriptStays
<1>2. awaited \in DOMAIN tasks /\ tasks[awaited] \in TaskRec
  BY <1>1 DEF ScopeInv, Linked, ScopeTypes
<1>3. \/ tasks[awaited].state = "pending" /\ stage' = "drain" /\ awaited' = awaited
      \/ tasks[awaited].state = "resolved" /\ stage' = "last tick" /\ awaited' = awaited
      \/ tasks[awaited].state = "rejected" /\ stage' = "idle" /\ awaited' = 0
  BY <1>2 DEF TakeTask, TaskRec
<1>4. ScopeTypes'
  <2>1. stage' \in Stages /\ awaited' \in Nat
    <3>1. awaited \in Nat /\ 0 \in Nat
      BY DEF ScopeInv, ScopeTypes
    <3>2. awaited' \in {awaited, 0} /\ stage' \in {"drain", "last tick", "idle"}
      BY <1>3
    <3> QED
      BY <3>1, <3>2 DEF Stages, Ticks
  <2> QED
    BY <1>1, <2>1 DEF ScopeInv, ScopeTypes, JavaScriptStays
<1>5. Linked'
  <2>1. awaited' \in 0..Len(tasks) /\ (awaited' = 0 <=> stage' = "idle")
    <3>1. awaited \in 0..Len(tasks) /\ Len(tasks) \in Nat /\ 0 \in 0..Len(tasks)
      BY DEF ScopeInv, Linked, ScopeTypes
    <3>2. awaited # 0
      BY <1>1 DEF ScopeInv, Linked
    <3>3. \/ awaited' = awaited /\ stage' # "idle"
          \/ awaited' = 0 /\ stage' = "idle"
      BY <1>3
    <3> QED
      BY <3>1, <3>2, <3>3
  <2> QED
    BY <1>1, <2>1 DEF ScopeInv, Linked, JavaScriptStays
<1>6. BatchHolds'
  BY <1>1 DEF BatchHolds
<1>7. stage' \in Ending => tasks[awaited'].state # "pending"
  BY <1>3 DEF Ending
<1>8. RefusedCalls = {} => \A t \in DOMAIN tasks : tasks[t].state = "pending" => t = awaited'
  BY <1>3 DEF ScopeInv, TasksHold
<1>9. \A c \in DOMAIN calls : OnItsWay(c) => OnItsWay(c)'
  BY <1>1 DEF OnItsWay
<1> QED
  BY <1>1, <1>4, <1>5, <1>6, <1>7, <1>8, <1>9, LoopGoesOn

LEMMA ReturnValueHolds ==
  ASSUME ScopeInv, ReturnValue
  PROVE  ScopeInv'
<1>1. /\ JavaScriptStays /\ JavaScriptIsIdle
      /\ requested' = requested /\ batch' = batch /\ macrotasks' = macrotasks
      /\ stage = "dispatch again" /\ batch = <<>> /\ stage' = "idle" /\ awaited' = 0
  BY DEF ReturnValue, AllPerformed, JavaScriptStays
<1>2. tasks[awaited].state # "pending"
  BY <1>1 DEF ScopeInv, TasksHold, Ending
<1>3. ScopeTypes'
  BY <1>1 DEF ScopeInv, ScopeTypes, JavaScriptStays, Stages
<1>4. Linked'
  <2>1. awaited' \in 0..Len(tasks) /\ (awaited' = 0 <=> stage' = "idle")
    <3>1. 0 \in 0..Len(tasks)
      BY DEF ScopeInv, ScopeTypes
    <3> QED
      BY <1>1, <3>1
  <2> QED
    BY <1>1, <2>1 DEF ScopeInv, Linked, JavaScriptStays
<1>5. BatchHolds' /\ stage' \notin Ending
  BY <1>1 DEF BatchHolds, Ending
<1>6. RefusedCalls = {} => \A t \in DOMAIN tasks : tasks[t].state = "pending" => t = awaited'
  BY <1>2 DEF ScopeInv, TasksHold
<1>7. \A c \in DOMAIN calls : OnItsWay(c) => OnItsWay(c)'
  BY <1>1 DEF OnItsWay
<1> QED
  BY <1>1, <1>3, <1>4, <1>5, <1>6, <1>7, LoopGoesOn

(* A timer puts its macrotask behind the others.                               *)
LEMMA MacrotaskAdded ==
  ASSUME ScopeInv, NEW task \in Macrotasks, macrotasks' = Append(macrotasks, task),
         UNCHANGED <<requested, batch>>
  PROVE  /\ macrotasks' \in Seq(Macrotasks)
         /\ \A i \in DOMAIN macrotasks' :
              macrotasks'[i] = task \/ (i \in DOMAIN macrotasks /\ macrotasks'[i] = macrotasks[i])
         /\ \A c : OnItsWay(c) => OnItsWay(c)'
<1>1. PICK M \in Nat : M = Len(macrotasks) /\ DOMAIN macrotasks = 1..M /\ macrotasks \in Seq(Macrotasks)
  BY DEF ScopeInv, ScopeTypes
<1>2. /\ macrotasks' \in Seq(Macrotasks) /\ DOMAIN macrotasks' = 1..(M + 1)
      /\ macrotasks'[M + 1] = task /\ \A i \in 1..M : macrotasks'[i] = macrotasks[i]
  <2>1. PICK m : m = Append(macrotasks, task)
    OBVIOUS
  <2>2. /\ m \in Seq(Macrotasks) /\ Len(m) = M + 1 /\ m[M + 1] = task
        /\ \A i \in 1..M : m[i] = macrotasks[i]
    BY <1>1, <2>1, Appended
  <2> QED
    BY <2>1, <2>2, Parts
<1>3. \A i \in DOMAIN macrotasks' :
        macrotasks'[i] = task \/ (i \in DOMAIN macrotasks /\ macrotasks'[i] = macrotasks[i])
  BY <1>1, <1>2
<1>4. \A i \in DOMAIN macrotasks : i \in DOMAIN macrotasks' /\ macrotasks'[i] = macrotasks[i]
  BY <1>1, <1>2
<1> QED
  BY <1>2, <1>3, <1>4 DEF OnItsWay

LEMMA CallbackIsDueHolds ==
  ASSUME ScopeInv, NEW i \in DOMAIN callbacks,
         callbacks' = [callbacks EXCEPT ![i].at = "due"],
         macrotasks' = Append(macrotasks, Callback(i)),
         JavaScriptIsIdle,
         UNCHANGED <<activeScope, leases, frames, tasks, calls, jobs, requested, batch, awaited,
                     stage>>
  PROVE  ScopeInv'
<1>1. callbacks \in Seq(CallbackRec) /\ callbacks[i] \in CallbackRec /\ i \in Nat
  BY DEF ScopeInv, ScopeTypes
<1>2. callbacks' \in Seq(CallbackRec) /\ DOMAIN callbacks' = DOMAIN callbacks
  <2>1. [callbacks[i] EXCEPT !.at = "due"] \in CallbackRec
    BY <1>1 DEF CallbackRec
  <2> QED
    BY <1>1, <2>1
<1>3. callbacks # <<>> /\ callbacks' # <<>>
  BY <1>2, NothingIn
<1>4. Callback(i) \in Macrotasks /\ Callback(i)[1] = "callback" /\ Callback(i)[2] = i
  BY <1>1 DEF Callback, Macrotasks
<1>5. /\ macrotasks' \in Seq(Macrotasks)
      /\ \A j \in DOMAIN macrotasks' :
           macrotasks'[j] = Callback(i) \/ (j \in DOMAIN macrotasks /\ macrotasks'[j] = macrotasks[j])
      /\ \A c : OnItsWay(c) => OnItsWay(c)'
  BY <1>4, MacrotaskAdded
<1>6. OpenFrames' = OpenFrames /\ RefusedCalls' = RefusedCalls
  BY DEF OpenFrames, RefusedCalls
<1>7. ScopeTypes'
  BY <1>2, <1>5 DEF ScopeInv, ScopeTypes
<1>8. Linked'
  <2>1. \A j \in DOMAIN macrotasks' : macrotasks'[j][2] \in
          IF macrotasks'[j][1] = "callback" THEN DOMAIN callbacks ELSE DOMAIN calls
    BY <1>4, <1>5 DEF ScopeInv, Linked
  <2> QED
    BY <1>2, <2>1 DEF ScopeInv, Linked
<1>9. JobHolds' /\ ScopesAgree' /\ WaitersHold' /\ BatchHolds'
  BY <1>6 DEF ScopeInv, JobHolds, ScopesAgree, WaitersHold, BatchHolds
<1>10. TasksHold'
  BY <1>3, <1>6 DEF ScopeInv, TasksHold
<1>11. WayHolds'
  BY <1>5, <1>6 DEF ScopeInv, WayHolds
<1> QED
  BY <1>7, <1>8, <1>9, <1>10, <1>11 DEF ScopeInv

LEMMA CallIsLateHolds ==
  ASSUME ScopeInv, NEW c \in DOMAIN calls,
         calls' = [calls EXCEPT ![c].late = TRUE],
         macrotasks' = Append(macrotasks, TimeoutOf(c)),
         JavaScriptIsIdle,
         UNCHANGED <<activeScope, leases, frames, tasks, callbacks, jobs, requested, batch, awaited,
                     stage>>
  PROVE  ScopeInv'
<1>1. calls \in Seq(CallRec) /\ calls[c] \in CallRec /\ c \in Nat
  BY DEF ScopeInv, ScopeTypes
<1>2. /\ calls' \in Seq(CallRec) /\ DOMAIN calls' = DOMAIN calls /\ Len(calls') = Len(calls)
      /\ calls'[c] = [calls[c] EXCEPT !.late = TRUE]
      /\ \A d \in DOMAIN calls : d # c => calls'[d] = calls[d]
  <2>1. [calls[c] EXCEPT !.late = TRUE] \in CallRec
    BY <1>1 DEF CallRec
  <2> QED
    BY <1>1, <2>1
<1>3. \A d \in DOMAIN calls : /\ calls'[d].by = calls[d].by /\ calls'[d].ext = calls[d].ext
                              /\ calls'[d].waiter = calls[d].waiter /\ calls'[d].at = calls[d].at
                              /\ (calls[d].late => calls'[d].late)
  <2>1. /\ calls'[c].by = calls[c].by /\ calls'[c].ext = calls[c].ext
        /\ calls'[c].waiter = calls[c].waiter /\ calls'[c].at = calls[c].at /\ calls'[c].late
    BY <1>1, <1>2 DEF CallRec
  <2> QED
    BY <1>2, <2>1
<1>4. TimeoutOf(c) \in Macrotasks /\ TimeoutOf(c)[1] # "callback" /\ TimeoutOf(c)[2] = c
  BY <1>1 DEF TimeoutOf, Macrotasks
<1>5. /\ macrotasks' \in Seq(Macrotasks)
      /\ \A j \in DOMAIN macrotasks' :
           macrotasks'[j] = TimeoutOf(c) \/ (j \in DOMAIN macrotasks /\ macrotasks'[j] = macrotasks[j])
      /\ \A d : OnItsWay(d) => OnItsWay(d)'
  BY <1>4, MacrotaskAdded
<1>6. OpenFrames' = OpenFrames /\ RefusedCalls' = RefusedCalls
  BY <1>2, <1>3 DEF OpenFrames, RefusedCalls
<1>7. ScopeTypes'
  BY <1>2, <1>5 DEF ScopeInv, ScopeTypes
<1>8. Linked'
  <2>1. \A j \in DOMAIN macrotasks' : macrotasks'[j][2] \in
          IF macrotasks'[j][1] = "callback" THEN DOMAIN callbacks ELSE DOMAIN calls
    BY <1>4, <1>5 DEF ScopeInv, Linked
  <2> QED
    BY <1>2, <1>3, <2>1 DEF ScopeInv, Linked
<1>9. JobHolds' /\ ScopesAgree' /\ BatchHolds'
  BY <1>6 DEF JavaScriptIsIdle, ScopeInv, JobHolds, ScopesAgree, BatchHolds
<1>10. WaitersHold'
  <2>1. \A f \in OpenFrames : frames[f].waits # 0 => frames[f].waits \in DOMAIN calls
    BY <1>1 DEF ScopeInv, Linked, OpenFrames
  <2>2. \A d \in DOMAIN calls : 1..(d - 1) \subseteq DOMAIN calls
    BY <1>1
  <2> QED
    BY <1>2, <1>3, <1>6, <2>1, <2>2 DEF ScopeInv, WaitersHold
<1>11. TasksHold'
  BY <1>6 DEF ScopeInv, TasksHold
<1>12. WayHolds'
  BY <1>2, <1>3, <1>5, <1>6 DEF ScopeInv, WayHolds
<1> QED
  BY <1>7, <1>8, <1>9, <1>10, <1>11, <1>12 DEF ScopeInv

LEMMA TimerIsDueHolds ==
  ASSUME ScopeInv, TimerIsDue
  PROVE  ScopeInv'
<1>1. JavaScriptIsIdle /\ UNCHANGED <<activeScope, leases, frames, tasks, jobs, requested, batch,
                                      awaited, stage>>
  BY DEF TimerIsDue
<1>2. CASE \E i \in DOMAIN callbacks : /\ callbacks' = [callbacks EXCEPT ![i].at = "due"]
                                       /\ macrotasks' = Append(macrotasks, Callback(i))
                                       /\ UNCHANGED calls
  BY <1>1, <1>2, CallbackIsDueHolds
<1>3. CASE \E c \in DOMAIN calls : /\ calls' = [calls EXCEPT ![c].late = TRUE]
                                   /\ macrotasks' = Append(macrotasks, TimeoutOf(c))
                                   /\ UNCHANGED callbacks
  BY <1>1, <1>3, CallIsLateHolds
<1> QED
  BY <1>2, <1>3 DEF TimerIsDue

(* A tick takes the first macrotask.                                          *)
LEMMA MacrotaskTaken ==
  ASSUME ScopeInv, macrotasks # <<>>, macrotasks' = Tail(macrotasks),
         NEW task, task = Head(macrotasks)
  PROVE  /\ macrotasks' \in Seq(Macrotasks) /\ task \in Macrotasks
         /\ task[2] \in IF task[1] = "callback" THEN DOMAIN callbacks ELSE DOMAIN calls
         /\ \A i \in DOMAIN macrotasks' : \E j \in DOMAIN macrotasks : macrotasks'[i] = macrotasks[j]
         /\ \A j \in DOMAIN macrotasks :
              macrotasks[j] = task \/ \E i \in DOMAIN macrotasks' : macrotasks'[i] = macrotasks[j]
<1>1. PICK M \in Nat : M = Len(macrotasks) /\ DOMAIN macrotasks = 1..M /\ macrotasks \in Seq(Macrotasks)
  BY DEF ScopeInv, ScopeTypes
<1>2. /\ macrotasks' \in Seq(Macrotasks) /\ DOMAIN macrotasks' = 1..(M - 1)
      /\ \A i \in 1..(M - 1) : macrotasks'[i] = macrotasks[i + 1]
      /\ task = macrotasks[1] /\ task \in Macrotasks /\ 1 \in DOMAIN macrotasks
  <2>1. PICK m : m = Tail(macrotasks)
    OBVIOUS
  <2>2. /\ m \in Seq(Macrotasks) /\ Len(m) = M - 1 /\ M # 0
        /\ \A i \in 1..(M - 1) : m[i] = macrotasks[i + 1]
        /\ Head(macrotasks) = macrotasks[1] /\ Head(macrotasks) \in Macrotasks
    BY <1>1, <2>1, Behead
  <2>3. DOMAIN m = 1..(M - 1)
    BY <2>2, Parts
  <2>4. 1 \in DOMAIN macrotasks
    BY <1>1, <2>2
  <2> QED
    BY <2>1, <2>2, <2>3, <2>4
<1>3. task[2] \in IF task[1] = "callback" THEN DOMAIN callbacks ELSE DOMAIN calls
  BY <1>2 DEF ScopeInv, Linked
<1>4. \A i \in DOMAIN macrotasks' : \E j \in DOMAIN macrotasks : macrotasks'[i] = macrotasks[j]
  <2> SUFFICES ASSUME NEW i \in 1..(M - 1)
               PROVE  \E j \in 1..M : macrotasks'[i] = macrotasks[j]
    BY <1>1, <1>2
  <2>1. i + 1 \in 1..M
    BY <1>1
  <2> QED
    BY <1>2, <2>1
<1>5. \A j \in DOMAIN macrotasks :
        macrotasks[j] = task \/ \E i \in DOMAIN macrotasks' : macrotasks'[i] = macrotasks[j]
  <2> SUFFICES ASSUME NEW j \in 1..M, j # 1
               PROVE  \E i \in 1..(M - 1) : macrotasks'[i] = macrotasks[j]
    BY <1>1, <1>2
  <2>1. j - 1 \in 1..(M - 1) /\ (j - 1) + 1 = j
    BY <1>1
  <2>2. PICK i \in 1..(M - 1) : i = j - 1 /\ i + 1 = j
    BY <2>1
  <2> QED
    BY <1>2, <2>2
<1> QED
  BY <1>2, <1>3, <1>4, <1>5

(* The loop goes on from a tick.                                              *)
LEMMA Ticked ==
  ASSUME ScopeInv, stage \in Ticks, stage' = NextStage, UNCHANGED batch
  PROVE  /\ stage # "idle" /\ stage' # "idle" /\ stage' \in Stages /\ BatchHolds'
         /\ stage' \in Ending => stage \in Ending
<1>1. \/ stage = "tick" /\ stage' = "dispatch"
      \/ stage = "last tick" /\ stage' = "drain again"
      \/ stage = "tick again" /\ stage' = "dispatch again"
  BY DEF Ticks, NextStage
<1> QED
  BY <1>1 DEF ScopeInv, BatchHolds, Stages, Ending

(* What a macrotask that was delivered leaves of the links and the calls.     *)
LEMMA MacrotaskGone ==
  ASSUME ScopeInv, macrotasks # <<>>, macrotasks' = Tail(macrotasks),
         NEW task, task = Head(macrotasks),
         UNCHANGED <<requested, batch>>
  PROVE  \A c : OnItsWay(c) => OnItsWay(c)' \/ task = Completion(c)
<1> SUFFICES ASSUME NEW c, OnItsWay(c) PROVE OnItsWay(c)' \/ task = Completion(c)
  OBVIOUS
<1>1. CASE c \in Range(requested) \union Range(batch)
  BY <1>1 DEF OnItsWay
<1>2. CASE \E i \in DOMAIN macrotasks : macrotasks[i] = Completion(c)
  BY <1>2, MacrotaskTaken DEF OnItsWay
<1> QED
  BY <1>1, <1>2 DEF OnItsWay

LEMMA NothingToDeliverHolds ==
  ASSUME ScopeInv, stage \in Ticks, JavaScriptIsIdle, NothingToDeliver, UNCHANGED macrotasks,
         UNCHANGED <<tasks, requested>>
  PROVE  ScopeInv'
<1>1. JavaScriptStays /\ UNCHANGED <<batch, awaited, requested, macrotasks>> /\ stage' = NextStage
  BY DEF NothingToDeliver, JavaScriptStays
<1>2. /\ stage # "idle" /\ stage' # "idle" /\ stage' \in Stages /\ BatchHolds'
      /\ stage' \in Ending => stage \in Ending
  BY <1>1, Ticked
<1>3. ScopeTypes' /\ Linked'
  BY <1>1, <1>2 DEF ScopeInv, ScopeTypes, Linked, JavaScriptStays
<1>4. \A c : OnItsWay(c) => OnItsWay(c)'
  BY <1>1 DEF OnItsWay
<1> QED
  BY <1>1, <1>2, <1>3, <1>4, LoopGoesOn DEF ScopeInv, TasksHold

(* Taken from the scheduler, with the loop going on.                           *)
Delivery(task) ==
  /\ stage \in Ticks /\ JavaScriptIsIdle
  /\ macrotasks # <<>> /\ macrotasks' = Tail(macrotasks) /\ task = Head(macrotasks)
  /\ UNCHANGED <<tasks, requested>>

LEMMA IgnoreOutcomeHolds ==
  ASSUME ScopeInv, NEW task, Delivery(task), task[1] # "callback", IgnoreOutcome(task[2])
  PROVE  ScopeInv'
<1>1. JavaScriptStays /\ UNCHANGED <<batch, awaited, requested>> /\ stage' = NextStage
  BY DEF IgnoreOutcome, Delivery, JavaScriptStays
<1>2. /\ stage # "idle" /\ stage' # "idle" /\ stage' \in Stages /\ BatchHolds'
      /\ stage' \in Ending => stage \in Ending
  BY <1>1, Ticked DEF Delivery
<1>3. /\ macrotasks' \in Seq(Macrotasks)
      /\ \A i \in DOMAIN macrotasks' : \E j \in DOMAIN macrotasks : macrotasks'[i] = macrotasks[j]
  BY MacrotaskTaken DEF Delivery
<1>4. ScopeTypes'
  BY <1>1, <1>2, <1>3 DEF ScopeInv, ScopeTypes, JavaScriptStays
<1>5. Linked'
  <2>1. \A j \in DOMAIN macrotasks' : macrotasks'[j][2] \in
          IF macrotasks'[j][1] = "callback" THEN DOMAIN callbacks ELSE DOMAIN calls
    BY <1>3 DEF ScopeInv, Linked
  <2> QED
    BY <1>1, <1>2, <2>1 DEF ScopeInv, Linked, JavaScriptStays
<1>6. \A c \in DOMAIN calls : calls[c].at = "open" /\ OnItsWay(c) => OnItsWay(c)'
  <2> SUFFICES ASSUME NEW c \in DOMAIN calls, calls[c].at = "open", OnItsWay(c) PROVE OnItsWay(c)'
    OBVIOUS
  <2>1. OnItsWay(c)' \/ task = Completion(c)
    BY <1>1, MacrotaskGone DEF Delivery
  <2>2. task = Completion(c) => task[2] = c
    BY DEF Completion
  <2> QED
    BY <2>1, <2>2 DEF IgnoreOutcome
<1> QED
  BY <1>1, <1>2, <1>4, <1>5, <1>6, LoopGoesOn DEF Delivery, ScopeInv, TasksHold

(* An outcome changes the state of its call alone.                             *)
LEMMA CallEnds ==
  ASSUME ScopeInv, NEW c \in DOMAIN calls, NEW outcome \in Outcomes, outcome # "open",
         calls' = [calls EXCEPT ![c].at = outcome]
  PROVE  /\ calls' \in Seq(CallRec) /\ DOMAIN calls' = DOMAIN calls /\ Len(calls') = Len(calls)
         /\ calls'[c].at = outcome /\ \A d \in DOMAIN calls : d # c => calls'[d] = calls[d]
         /\ \A d \in DOMAIN calls :
              /\ calls'[d].by = calls[d].by /\ calls'[d].ext = calls[d].ext
              /\ calls'[d].waiter = calls[d].waiter /\ calls'[d].late = calls[d].late
<1>1. calls \in Seq(CallRec) /\ calls[c] \in CallRec
  BY DEF ScopeInv, ScopeTypes
<1>2. PICK new : new = [calls[c] EXCEPT !.at = outcome]
  OBVIOUS
<1>3. /\ new \in CallRec /\ new.at = outcome /\ new.by = calls[c].by /\ new.ext = calls[c].ext
      /\ new.waiter = calls[c].waiter /\ new.late = calls[c].late
  BY <1>1, <1>2 DEF CallRec
<1>4. calls' = [calls EXCEPT ![c] = new]
  BY <1>2
<1>5. c \in 1..Len(calls) /\ DOMAIN calls = 1..Len(calls)
  BY <1>1
<1>6. /\ calls' \in Seq(CallRec) /\ Len(calls') = Len(calls) /\ DOMAIN calls' = 1..Len(calls)
      /\ calls'[c] = new /\ \A d \in 1..Len(calls) : d # c => calls'[d] = calls[d]
  BY SMTT(40), <1>1, <1>3, <1>4, <1>5, Updated
<1> QED
  BY <1>3, <1>5, <1>6

LEMMA RefuseOutcomeHolds ==
  ASSUME ScopeInv, NEW task, Delivery(task), task[1] # "callback", RefuseOutcome(task[2])
  PROVE  ScopeInv'
<1>1. PICK c : c = task[2]
  OBVIOUS
<1>2. /\ c \in DOMAIN calls /\ macrotasks' \in Seq(Macrotasks)
      /\ \A i \in DOMAIN macrotasks' : \E j \in DOMAIN macrotasks : macrotasks'[i] = macrotasks[j]
  BY <1>1, MacrotaskTaken DEF Delivery
<1>3. /\ calls' = [calls EXCEPT ![c].at = "refused"]
      /\ calls[c].ext # NoExtension /\ ~MayEnter(calls[c].ext)
      /\ UNCHANGED <<activeScope, leases, frames, callbacks, jobs, tasks, requested>>
      /\ jobs = <<>>
  BY <1>1 DEF RefuseOutcome, Delivery, JavaScriptIsIdle
<1>4. awaited' = 0 /\ stage' = "idle" /\ batch' = <<>>
  BY DEF RefuseOutcome
<1>5. /\ calls' \in Seq(CallRec) /\ DOMAIN calls' = DOMAIN calls /\ Len(calls') = Len(calls)
      /\ calls'[c].at = "refused" /\ \A d \in DOMAIN calls : d # c => calls'[d] = calls[d]
      /\ \A d \in DOMAIN calls :
           /\ calls'[d].by = calls[d].by /\ calls'[d].ext = calls[d].ext
           /\ calls'[d].waiter = calls[d].waiter /\ calls'[d].late = calls[d].late
  <2>1. "refused" \in Outcomes /\ "refused" # "open"
    BY DEF Outcomes
  <2> QED
    BY <1>2, <1>3, <2>1, CallEnds
<1>6. c \in RefusedCalls'
  BY <1>2, <1>5 DEF RefusedCalls
<1>7. OpenFrames' = OpenFrames
  BY <1>3 DEF OpenFrames
<1>8. ScopeTypes'
  <2>1. 0 \in Nat /\ "idle" \in Stages /\ <<>> \in Seq(Nat)
    BY NothingIn DEF Stages
  <2> QED
    BY <1>2, <1>3, <1>4, <1>5, <2>1 DEF ScopeInv, ScopeTypes
<1>9. Linked'
  <2>1. \A j \in DOMAIN macrotasks' : macrotasks'[j][2] \in
          IF macrotasks'[j][1] = "callback" THEN DOMAIN callbacks ELSE DOMAIN calls
    BY <1>2 DEF ScopeInv, Linked
  <2>2. 0 \in 0..Len(tasks)
    BY DEF ScopeInv, ScopeTypes
  <2>3. DOMAIN batch' = {}
    BY <1>4, NothingIn
  <2> QED
    BY <1>3, <1>4, <1>5, <2>1, <2>2, <2>3 DEF ScopeInv, Linked
<1>10. JobHolds' /\ BatchHolds'
  BY <1>3, <1>4 DEF JobHolds, BatchHolds
<1>11. ScopesAgree'
  BY <1>3, <1>7 DEF ScopeInv, ScopesAgree
(* A handler that awaits the call holds its scope, and made it there.           *)
<1>12. \A f \in OpenFrames : frames[f].waits # c
  <2> SUFFICES ASSUME NEW f \in OpenFrames, frames[f].waits = c PROVE FALSE
    OBVIOUS
  <2>1. c # 0 /\ f # 0
    BY <1>2 DEF ScopeInv, ScopeTypes, OpenFrames
  <2>2. calls[c].waiter = f
    BY <2>1 DEF ScopeInv, WaitersHold
  <2>3. calls[c].by = frames[f].ext
    BY <1>2, <2>1, <2>2 DEF ScopeInv, WaitersHold
  <2>4. calls[c].ext = calls[c].by
    BY <1>2, <2>1, <2>2 DEF ScopeInv, WaitersHold
  <2>5. frames[f].ext = activeScope
    BY DEF ScopeInv, ScopesAgree
  <2> QED
    BY <1>3, <2>3, <2>4, <2>5 DEF MayEnter
<1>13. WaitersHold'
  <2>1. \A f \in OpenFrames : frames[f].waits # 0 => frames[f].waits \in DOMAIN calls
    BY DEF ScopeInv, ScopeTypes, Linked, OpenFrames
  <2>2. \A d \in DOMAIN calls : 1..(d - 1) \subseteq DOMAIN calls
    BY DEF ScopeInv, ScopeTypes
  <2>3. \A d \in DOMAIN calls' : calls'[d].waiter # 0 => calls'[d].by = frames'[calls'[d].waiter].ext
    BY <1>3, <1>5 DEF ScopeInv, WaitersHold
  <2>4. \A d \in DOMAIN calls' : calls'[d].waiter # 0 /\ calls'[d].at = "open" =>
          frames'[calls'[d].waiter].open /\ frames'[calls'[d].waiter].waits = d
    BY <1>3, <1>5 DEF ScopeInv, WaitersHold
  <2>5. \A f \in OpenFrames' : frames'[f].waits # 0 =>
          calls'[frames'[f].waits].waiter = f /\ calls'[frames'[f].waits].at = "open"
    BY <1>3, <1>5, <1>7, <1>12, <2>1 DEF ScopeInv, WaitersHold
  <2>6. \A d \in DOMAIN calls' :
          calls'[d].ext # calls'[d].by =>
            /\ calls'[d].waiter = 0
            /\ \E e \in 1..(d - 1) : calls'[e].waiter = 0 /\ calls'[e].by = calls'[d].by
    BY <1>5, <2>2 DEF ScopeInv, WaitersHold
  <2> QED
    BY <2>3, <2>4, <2>5, <2>6 DEF WaitersHold
<1>14. TasksHold'
  <2>1. stage' \notin Ending
    BY <1>4 DEF Ending
  <2> QED
    BY <1>3, <1>6, <1>7, <2>1 DEF ScopeInv, TasksHold
<1>15. WayHolds'
  BY <1>6 DEF WayHolds
<1> QED
  BY <1>8, <1>9, <1>10, <1>11, <1>13, <1>14, <1>15 DEF ScopeInv

LEMMA DeliverOutcomeHolds ==
  ASSUME ScopeInv, NEW task, Delivery(task), task[1] # "callback", DeliverOutcome(task[2])
  PROVE  ScopeInv'
<1>1. PICK c : c = task[2]
  OBVIOUS
<1>2. /\ c \in DOMAIN calls /\ macrotasks' \in Seq(Macrotasks)
      /\ \A i \in DOMAIN macrotasks' : \E j \in DOMAIN macrotasks : macrotasks'[i] = macrotasks[j]
  BY <1>1, MacrotaskTaken DEF Delivery
<1>3. /\ calls' = [calls EXCEPT ![c].at = "settled"] /\ calls[c].at = "open"
      /\ UNCHANGED <<activeScope, leases, callbacks, batch, awaited, tasks, requested>>
      /\ stage' = NextStage
  BY <1>1 DEF DeliverOutcome, Delivery
<1>4. /\ stage # "idle" /\ stage' # "idle" /\ stage' \in Stages /\ BatchHolds'
      /\ stage' \in Ending => stage \in Ending
  BY <1>3, Ticked DEF Delivery
<1>5. /\ calls' \in Seq(CallRec) /\ DOMAIN calls' = DOMAIN calls /\ Len(calls') = Len(calls)
      /\ calls'[c].at = "settled" /\ \A d \in DOMAIN calls : d # c => calls'[d] = calls[d]
      /\ \A d \in DOMAIN calls :
           /\ calls'[d].by = calls[d].by /\ calls'[d].ext = calls[d].ext
           /\ calls'[d].waiter = calls[d].waiter /\ calls'[d].late = calls[d].late
  <2>1. "settled" \in Outcomes /\ "settled" # "open"
    BY DEF Outcomes
  <2> QED
    BY <1>2, <1>3, <2>1, CallEnds
<1>6. PICK w : w = calls[c].waiter
  OBVIOUS
<1>7. PICK F \in Nat : F = Len(frames) /\ DOMAIN frames = 1..F /\ frames \in Seq(FrameRec)
  BY DEF ScopeInv, ScopeTypes
<1>8. /\ w \in 0..F /\ c # 0
      /\ (w # 0 => frames[w].open /\ frames[w].waits = c)
  <2>1. w \in 0..F
    BY <1>2, <1>6, <1>7 DEF ScopeInv, Linked
  <2>2. c # 0
    BY <1>2 DEF ScopeInv, ScopeTypes
  <2>3. w # 0 => frames[w].open /\ frames[w].waits = c
    BY <1>2, <1>3, <1>6 DEF ScopeInv, WaitersHold
  <2> QED
    BY <2>1, <2>2, <2>3
<1>9. /\ frames' \in Seq(FrameRec) /\ Len(frames') = F /\ DOMAIN frames' = 1..F
      /\ \A f \in 1..F : f # w => frames'[f] = frames[f]
      /\ \A f \in 1..F : /\ frames'[f].ext = frames[f].ext /\ frames'[f].task = frames[f].task
                         /\ frames'[f].open = frames[f].open
      /\ w # 0 => frames'[w].waits = 0
  <2>1. CASE w = 0
    <3>1. frames' = frames
      BY <1>1, <1>6, <2>1 DEF DeliverOutcome
    <3> QED
      BY <1>7, <2>1, <3>1
  <2>2. CASE w # 0
    <3>1. w \in 1..F /\ frames[w] \in FrameRec
      BY <1>7, <1>8, <2>2
    <3>2. PICK woken : woken = [frames[w] EXCEPT !.waits = 0]
      OBVIOUS
    <3>3. /\ woken \in FrameRec /\ woken.waits = 0 /\ woken.ext = frames[w].ext
          /\ woken.task = frames[w].task /\ woken.open = frames[w].open
      BY <3>1, <3>2 DEF FrameRec
    <3>4. frames' = [frames EXCEPT ![w] = woken]
      BY <1>1, <1>6, <2>2, <3>2 DEF DeliverOutcome
    <3>5. /\ frames' \in Seq(FrameRec) /\ Len(frames') = F /\ DOMAIN frames' = 1..F
          /\ frames'[w] = woken /\ \A f \in 1..F : f # w => frames'[f] = frames[f]
      BY <1>7, <3>1, <3>3, <3>4, Updated
    <3> QED
      BY <3>3, <3>5
  <2> QED
    BY <2>1, <2>2
<1>10. OpenFrames' = OpenFrames /\ OpenFrames \subseteq 1..F
  BY <1>7, <1>9 DEF OpenFrames
<1>11. RefusedCalls' = RefusedCalls
  <2>1. calls'[c].at # "refused" /\ calls[c].at # "refused"
    BY <1>3, <1>5
  <2> QED
    BY <1>5, <2>1 DEF RefusedCalls
<1>12. ScopeTypes'
  BY <1>2, <1>3, <1>4, <1>5, <1>9 DEF ScopeInv, ScopeTypes
<1>13. Linked'
  <2>1. \A j \in DOMAIN macrotasks' : macrotasks'[j][2] \in
          IF macrotasks'[j][1] = "callback" THEN DOMAIN callbacks ELSE DOMAIN calls
    BY <1>2 DEF ScopeInv, Linked
  <2>2. \A f \in DOMAIN frames' : frames'[f].task \in 0..Len(tasks) /\ frames'[f].waits \in 0..Len(calls)
    <3>1. \A f \in 1..F : frames[f].task \in 0..Len(tasks) /\ frames[f].waits \in 0..Len(calls)
      BY <1>7 DEF ScopeInv, Linked
    <3>2. 0 \in 0..Len(calls)
      BY DEF ScopeInv, ScopeTypes
    <3>3. \A f \in 1..F : frames'[f].waits = frames[f].waits \/ frames'[f].waits = 0
      BY <1>8, <1>9
    <3> QED
      BY <1>9, <3>1, <3>2, <3>3
  <2>3. \A d \in DOMAIN calls' : calls'[d].waiter \in 0..Len(frames')
    BY <1>5, <1>7, <1>9 DEF ScopeInv, Linked
  <2> QED
    BY <1>3, <1>4, <1>5, <2>1, <2>2, <2>3 DEF ScopeInv, Linked
<1>14. JobHolds'
  <2>1. CASE w = 0
    <3>1. jobs' = <<Then(c)>> /\ c \in DOMAIN calls' /\ calls'[c].waiter = 0
      BY <1>1, <1>2, <1>5, <1>6, <2>1 DEF DeliverOutcome
    <3> QED
      BY <1>4, <3>1 DEF JobHolds
  <2>2. CASE w # 0
    <3>1. jobs' = <<Frame(w)>>
      BY <1>1, <1>6, <2>2 DEF DeliverOutcome
    <3>2. w \in DOMAIN frames' /\ frames'[w].open /\ frames'[w].waits = 0
      BY <1>8, <1>9, <2>2
    <3> QED
      BY <1>4, <3>1, <3>2 DEF JobHolds
  <2> QED
    BY <2>1, <2>2
<1>15. ScopesAgree'
  BY <1>3, <1>9, <1>10 DEF ScopeInv, ScopesAgree
<1>16. WaitersHold'
  <2>1. \A f \in OpenFrames : frames[f].waits # 0 => frames[f].waits \in DOMAIN calls
    BY DEF ScopeInv, ScopeTypes, Linked, OpenFrames
  <2>2. \A d \in DOMAIN calls : 1..(d - 1) \subseteq DOMAIN calls
    BY DEF ScopeInv, ScopeTypes
  <2>3. \A d \in DOMAIN calls : calls[d].waiter \in 0..F
    BY <1>7 DEF ScopeInv, Linked
  <2>4. \A d \in DOMAIN calls' : calls'[d].waiter # 0 => calls'[d].by = frames'[calls'[d].waiter].ext
    <3>1. \A d \in DOMAIN calls : calls[d].waiter # 0 =>
            frames'[calls[d].waiter].ext = frames[calls[d].waiter].ext
      BY <1>9, <2>3
    <3> QED
      BY <1>5, <3>1 DEF ScopeInv, WaitersHold
  <2>5. \A d \in DOMAIN calls' : calls'[d].waiter # 0 /\ calls'[d].at = "open" =>
          frames'[calls'[d].waiter].open /\ frames'[calls'[d].waiter].waits = d
    <3>1. SUFFICES ASSUME NEW d \in DOMAIN calls, calls'[d].waiter # 0, calls'[d].at = "open"
                   PROVE  frames'[calls'[d].waiter].open /\ frames'[calls'[d].waiter].waits = d
      BY <1>5
    <3>2. d # c /\ calls'[d] = calls[d]
      BY <1>5, <3>1
    <3>3. frames[calls[d].waiter].open /\ frames[calls[d].waiter].waits = d
      BY <3>1, <3>2 DEF ScopeInv, WaitersHold
    <3>4. calls[d].waiter # w
      BY <1>8, <3>1, <3>2, <3>3
    <3>5. frames'[calls[d].waiter] = frames[calls[d].waiter]
      BY <1>9, <2>3, <3>1, <3>2, <3>4
    <3> QED
      BY <3>2, <3>3, <3>5
  <2>6. \A f \in OpenFrames' : frames'[f].waits # 0 =>
          calls'[frames'[f].waits].waiter = f /\ calls'[frames'[f].waits].at = "open"
    <3>1. SUFFICES ASSUME NEW f \in OpenFrames, frames'[f].waits # 0
                   PROVE  calls'[frames'[f].waits].waiter = f /\ calls'[frames'[f].waits].at = "open"
      BY <1>10
    <3>2. f \in 1..F /\ f # 0
      BY <1>7, <1>10
    <3>3. f # w /\ frames'[f] = frames[f]
      BY <1>9, <3>1, <3>2
    <3>4. calls[frames[f].waits].waiter = f /\ calls[frames[f].waits].at = "open"
      BY <3>1, <3>3 DEF ScopeInv, WaitersHold
    <3>5. frames[f].waits # c /\ frames[f].waits \in DOMAIN calls
      BY <1>6, <2>1, <3>1, <3>3, <3>4
    <3> QED
      BY <1>5, <3>3, <3>4, <3>5
  <2>7. \A d \in DOMAIN calls' :
          calls'[d].ext # calls'[d].by =>
            /\ calls'[d].waiter = 0
            /\ \E e \in 1..(d - 1) : calls'[e].waiter = 0 /\ calls'[e].by = calls'[d].by
    BY <1>5, <2>2 DEF ScopeInv, WaitersHold
  <2> QED
    BY <2>4, <2>5, <2>6, <2>7 DEF WaitersHold
<1>17. TasksHold'
  <2>1. \A f \in DOMAIN frames' : f \in DOMAIN frames /\ frames'[f].task = frames[f].task
    BY <1>7, <1>9
  <2>2. \A f \in OpenFrames' : f \in OpenFrames /\ frames'[f].task = frames[f].task
    BY <1>9, <1>10
  <2> QED
    BY <1>3, <1>4, <1>11, <2>1, <2>2 DEF ScopeInv, TasksHold
<1>18. WayHolds'
  <2> SUFFICES ASSUME RefusedCalls = {}, NEW d \in DOMAIN calls, calls'[d].at = "open"
               PROVE  OnItsWay(d)' \/ calls'[d].late
    BY <1>5, <1>11 DEF WayHolds
  <2>1. d # c /\ calls'[d] = calls[d]
    BY <1>5
  <2>2. OnItsWay(d) \/ calls[d].late
    BY <2>1 DEF ScopeInv, WayHolds
  <2>3. OnItsWay(d) => OnItsWay(d)' \/ task = Completion(d)
    BY <1>3, MacrotaskGone DEF Delivery
  <2>4. task # Completion(d)
    BY <1>1, <2>1 DEF Completion
  <2> QED
    BY <2>1, <2>2, <2>3, <2>4
<1> QED
  BY <1>4, <1>12, <1>13, <1>14, <1>15, <1>16, <1>17, <1>18 DEF ScopeInv

LEMMA FireCallbackHolds ==
  ASSUME ScopeInv, NEW task, Delivery(task), task[1] = "callback", FireCallback(task[2])
  PROVE  ScopeInv'
<1>1. PICK i : i = task[2]
  OBVIOUS
<1>2. /\ i \in DOMAIN callbacks /\ macrotasks' \in Seq(Macrotasks)
      /\ \A j \in DOMAIN macrotasks' : \E k \in DOMAIN macrotasks : macrotasks'[j] = macrotasks[k]
  BY <1>1, MacrotaskTaken DEF Delivery
<1>3. callbacks \in Seq(CallbackRec) /\ callbacks[i] \in CallbackRec /\ callbacks[i].ext \in Extensions
  <2>1. callbacks \in Seq(CallbackRec)
    BY DEF ScopeInv, ScopeTypes
  <2>2. callbacks[i] \in CallbackRec
    BY <1>2, <2>1
  <2> QED
    BY <2>1, <2>2 DEF CallbackRec
<1>4. callbacks' \in Seq(CallbackRec) /\ DOMAIN callbacks' = DOMAIN callbacks /\ callbacks' # <<>>
  <2>1. PICK new : /\ \E at \in {"fired", "dropped"} : new = [callbacks[i] EXCEPT !.at = at]
                   /\ callbacks' = [callbacks EXCEPT ![i] = new]
    BY <1>1 DEF FireCallback
  <2>2. new \in CallbackRec
    BY <1>3, <2>1 DEF CallbackRec
  <2>3. callbacks' \in Seq(CallbackRec) /\ DOMAIN callbacks' = DOMAIN callbacks
    BY <1>2, <1>3, <2>1, <2>2
  <2> QED
    BY <1>2, <2>3, NothingIn
<1>5. UNCHANGED <<calls, batch, awaited, tasks, requested>> /\ stage' = NextStage
  BY DEF FireCallback, Delivery
<1>6. /\ stage # "idle" /\ stage' # "idle" /\ stage' \in Stages /\ BatchHolds'
      /\ stage' \in Ending => stage \in Ending
  BY <1>5, Ticked DEF Delivery
<1>7. RefusedCalls' = RefusedCalls
  BY <1>5 DEF RefusedCalls
<1>8. \A j \in DOMAIN macrotasks' : macrotasks'[j][2] \in
        IF macrotasks'[j][1] = "callback" THEN DOMAIN callbacks ELSE DOMAIN calls
  BY <1>2 DEF ScopeInv, Linked
<1>9. WayHolds'
  <2>1. \A c : OnItsWay(c) => OnItsWay(c)' \/ task = Completion(c)
    BY <1>5, MacrotaskGone DEF Delivery
  <2>2. \A c : task # Completion(c)
    BY DEF Completion
  <2> QED
    BY <1>5, <1>7, <2>1, <2>2 DEF ScopeInv, WayHolds
<1>10. CASE ~MayEnter(callbacks[i].ext)
  <2>1. UNCHANGED <<activeScope, leases, frames, jobs>> /\ jobs = <<>>
    BY <1>1, <1>10 DEF FireCallback, Delivery, JavaScriptIsIdle
  <2>2. OpenFrames' = OpenFrames
    BY <2>1 DEF OpenFrames
  <2>3. ScopeTypes'
    BY <1>2, <1>4, <1>5, <1>6, <2>1 DEF ScopeInv, ScopeTypes
  <2>4. Linked'
    BY <1>4, <1>5, <1>6, <1>8, <2>1 DEF ScopeInv, Linked
  <2>5. JobHolds' /\ ScopesAgree' /\ WaitersHold'
    BY <1>5, <2>1, <2>2 DEF ScopeInv, JobHolds, ScopesAgree, WaitersHold
  <2>6. TasksHold'
    BY <1>4, <1>5, <1>6, <1>7, <2>1, <2>2 DEF ScopeInv, TasksHold
  <2> QED
    BY <1>6, <1>9, <2>3, <2>4, <2>5, <2>6 DEF ScopeInv
<1>11. CASE MayEnter(callbacks[i].ext)
  <2>1. PICK e \in Extensions : e = callbacks[i].ext
    BY <1>3
  <2>2. MayEnter(e) /\ EnterScope(e, 0, <<>>) /\ 0 \in Nat
    BY <1>1, <1>11, <2>1 DEF FireCallback
  <2>3. PICK F : F = Len(frames)
    OBVIOUS
  <2>4. /\ F \in Nat /\ DOMAIN frames = 1..F
        /\ frames' \in Seq(FrameRec) /\ Len(frames') = F + 1 /\ DOMAIN frames' = 1..(F + 1)
        /\ \A f \in 1..F : frames'[f] = frames[f]
        /\ frames'[F + 1] = [ext |-> e, task |-> 0, waits |-> 0, open |-> TRUE]
        /\ OpenFrames' = OpenFrames \union {F + 1} /\ OpenFrames \subseteq 1..F
        /\ activeScope' \in Extensions /\ leases' \in Nat
        /\ jobs' = <<Frame(F + 1)>>
        /\ ScopesAgree'
    BY <2>2, <2>3, Entered
  <2>5. frames'[F + 1].task = 0 /\ frames'[F + 1].waits = 0 /\ frames'[F + 1].open
    BY <2>4
  <2>6. ScopeTypes'
    BY <1>2, <1>4, <1>5, <1>6, <2>4 DEF ScopeInv, ScopeTypes
  <2>7. Linked'
    <3>1. \A f \in DOMAIN frames' : frames'[f].task \in 0..Len(tasks) /\ frames'[f].waits \in 0..Len(calls)
      <4>1. \A f \in 1..F : frames'[f].task \in 0..Len(tasks) /\ frames'[f].waits \in 0..Len(calls)
        BY <2>4 DEF ScopeInv, Linked
      <4>2. frames'[F + 1].task \in 0..Len(tasks) /\ frames'[F + 1].waits \in 0..Len(calls)
        BY <2>5 DEF ScopeInv, ScopeTypes
      <4> QED
        BY <2>4, <4>1, <4>2
    <3>2. \A c \in DOMAIN calls : calls[c].waiter \in 0..(F + 1)
      BY <2>3, <2>4 DEF ScopeInv, Linked
    <3> QED
      BY <1>4, <1>5, <1>6, <1>8, <2>4, <3>1, <3>2 DEF ScopeInv, Linked
  <2>8. JobHolds'
    BY <1>6, <2>4, <2>5 DEF JobHolds
  <2>9. WaitersHold'
    <3>1. \A c \in DOMAIN calls : calls[c].waiter # 0 => frames'[calls[c].waiter] = frames[calls[c].waiter]
      <4>1. \A c \in DOMAIN calls : calls[c].waiter \in 0..F
        BY <2>3 DEF ScopeInv, Linked
      <4> QED
        BY <2>4, <4>1
    <3>2. \A f \in OpenFrames' : frames'[f].waits # 0 => f \in OpenFrames /\ frames'[f] = frames[f]
      BY <2>4, <2>5
    <3> QED
      BY <1>5, <3>1, <3>2 DEF ScopeInv, WaitersHold
  <2>10. TasksHold'
    <3>1. \A f \in OpenFrames' : frames'[f].task # 0 => f \in OpenFrames /\ frames'[f] = frames[f]
      BY <2>4, <2>5
    <3>2. \A f \in OpenFrames' : frames'[f].task # 0 => tasks'[frames'[f].task].state = "pending"
      BY <1>5, <3>1 DEF ScopeInv, TasksHold
    <3>3. \A f, g \in OpenFrames' : frames'[f].task = frames'[g].task /\ frames'[f].task # 0 => f = g
      BY <3>1 DEF ScopeInv, TasksHold
    <3> QED
      BY <1>4, <1>5, <1>6, <1>7, <3>2, <3>3 DEF ScopeInv, TasksHold
  <2> QED
    BY <1>6, <1>9, <2>4, <2>6, <2>7, <2>8, <2>9, <2>10 DEF ScopeInv
<1> QED
  BY <1>10, <1>11

LEMMA DeliverNextHolds ==
  ASSUME ScopeInv, DeliverNext
  PROVE  ScopeInv'
<1>1. CASE NothingToDeliver /\ UNCHANGED macrotasks
  BY <1>1, NothingToDeliverHolds DEF DeliverNext
<1>2. CASE macrotasks # <<>> /\ macrotasks' = Tail(macrotasks)
  <2>1. PICK task : task = Head(macrotasks)
    OBVIOUS
  <2>2. Delivery(task)
    BY <1>2, <2>1 DEF DeliverNext, Delivery
  <2>3. NothingToDeliver => FALSE
    BY <1>2 DEF NothingToDeliver
  <2>4. \/ task[1] # "callback" /\ \/ IgnoreOutcome(task[2])
                                   \/ DeliverOutcome(task[2])
                                   \/ RefuseOutcome(task[2])
        \/ task[1] = "callback" /\ FireCallback(task[2])
    BY <2>1, <2>3 DEF DeliverNext
  <2> QED
    BY <2>2, <2>4, IgnoreOutcomeHolds, DeliverOutcomeHolds, RefuseOutcomeHolds, FireCallbackHolds
<1> QED
  BY <1>1, <1>2 DEF DeliverNext

-----------------------------------------------------------------------------
(* The specification                                                         *)

LEMMA ScopesStep ==
  ASSUME ScopeInv, [ScopesNext]_scopeVars
  PROVE  ScopeInv'
<1>1. ASSUME NEW e \in Extensions, StartTask(<<e>>, TRUE)
      PROVE  ScopeInv'
  <2>1. <<e>> \in Seq(Extensions)
    OBVIOUS
  <2> QED
    BY <1>1, <2>1, StartTaskHolds
<1>2. ASSUME NEW d \in Extensions, NEW e \in Extensions, NEW strict \in BOOLEAN,
             StartTask(<<d, e>>, strict)
      PROVE  ScopeInv'
  <2>1. <<d, e>> \in Seq(Extensions)
    OBVIOUS
  <2> QED
    BY <1>2, <2>1, StartTaskHolds
<1>3. CASE WaitExtensionTask
  BY <1>3, DrainHolds, PerformHolds, DeliverNextHolds, TakeTaskHolds, ReturnValueHolds
  DEF WaitExtensionTask, Performs
<1>4. CASE UNCHANGED scopeVars
  <2>1. OpenFrames' = OpenFrames /\ RefusedCalls' = RefusedCalls
    BY <1>4 DEF scopeVars, OpenFrames, RefusedCalls
  <2>2. ScopeTypes' /\ Linked' /\ BatchHolds'
    BY <1>4 DEF scopeVars, ScopeInv, ScopeTypes, Linked, BatchHolds
  <2>3. JobHolds' /\ ScopesAgree' /\ WaitersHold'
    BY <1>4, <2>1 DEF scopeVars, ScopeInv, JobHolds, ScopesAgree, WaitersHold
  <2>4. TasksHold' /\ WayHolds'
    BY <1>4, <2>1 DEF scopeVars, ScopeInv, TasksHold, WayHolds, OnItsWay
  <2> QED
    BY <2>2, <2>3, <2>4 DEF ScopeInv
<1> QED
  BY <1>1, <1>2, <1>3, <1>4, JavaScriptHolds, TimerIsDueHolds DEF ScopesNext

LEMMA ScopesAlways == ScopesSpec => []ScopeInv
<1>1. ScopesInit => ScopeInv
  BY ScopesStart
<1>2. ScopeInv /\ [ScopesNext]_scopeVars => ScopeInv'
  BY ScopesStep
<1> QED
  BY <1>1, <1>2, PTL DEF ScopesSpec

(* A sequence whose members are all in a smaller set is one over that set.      *)
LEMMA Narrowed ==
  ASSUME NEW S, NEW s \in Seq(Nat), \A i \in DOMAIN s : s[i] \in S
  PROVE  s \in Seq(S)
OBVIOUS

LEMMA InvIsSound ==
  ASSUME ScopeInv
  PROVE  ScopesAreSound
<1>1. ScopesTypeOK
  <2>1. DOMAIN calls = 1..Len(calls)
    BY DEF ScopeInv, ScopeTypes
  <2>2. requested \in Seq(1..Len(calls)) /\ batch \in Seq(1..Len(calls))
    <3>1. /\ \A i \in DOMAIN requested : requested[i] \in 1..Len(calls)
          /\ \A i \in DOMAIN batch : batch[i] \in 1..Len(calls)
      BY <2>1 DEF ScopeInv, Linked
    <3>2. requested \in Seq(Nat) /\ batch \in Seq(Nat)
      BY DEF ScopeInv, ScopeTypes
    <3> QED
      BY <3>1, <3>2, Narrowed
  <2>3. /\ \A f \in DOMAIN frames : frames[f] \in FrameRec
        /\ \A t \in DOMAIN tasks : tasks[t] \in TaskRec
        /\ \A c \in DOMAIN calls : calls[c] \in CallRec
    BY DEF ScopeInv, ScopeTypes
  <2>4. \A f \in DOMAIN frames : frames[f].ext \in Extensions /\ frames[f].open \in BOOLEAN
    BY <2>3 DEF FrameRec
  <2>5. \A t \in DOMAIN tasks :
          tasks[t].state \in {"pending", "resolved", "rejected"} /\ tasks[t].rest \in Seq(Extensions)
    BY <2>3 DEF TaskRec
  <2>6. \A c \in DOMAIN calls :
          calls[c].ext \in Extensions \union {NoExtension} /\ calls[c].at \in {"open", "settled", "refused"}
    BY <2>3 DEF CallRec, Outcomes
  <2>7. activeScope \in Extensions \union {NoExtension} /\ leases \in Nat
    BY DEF ScopeInv, ScopeTypes
  <2> QED
    BY <2>2, <2>4, <2>5, <2>6, <2>7 DEF ScopeInv, Linked, ScopesTypeOK
<1>2. OnlyDetachedCodeStrays
  BY DEF ScopeInv, WaitersHold, OnlyDetachedCodeStrays
<1>3. PerformedUntilRefusal
  <2>1. \A f \in OpenFrames : frames[f].waits # 0 => calls[frames[f].waits].at = "open"
    <3>1. WaitersHold
      BY DEF ScopeInv
    <3> QED
      BY <3>1 DEF WaitersHold
  <2>2. \A f \in OpenFrames : frames[f].waits # 0 => frames[f].waits \in DOMAIN calls
    <3>1. Linked /\ calls \in Seq(CallRec)
      BY DEF ScopeInv, ScopeTypes
    <3>2. \A f \in DOMAIN frames : frames[f].waits \in 0..Len(calls)
      BY <3>1 DEF Linked
    <3>3. Len(calls) \in Nat /\ DOMAIN calls = 1..Len(calls)
      BY <3>1
    <3>4. \A f \in OpenFrames : frames[f].waits \in 0..Len(calls)
      BY <3>2 DEF OpenFrames
    <3> QED
      BY <3>3, <3>4
  <2> QED
    BY <2>1, <2>2 DEF ScopeInv, WayHolds, PerformedUntilRefusal, AwaitedCallsArePerformed
<1>4. WaitsLeaveNoScope
  <2> SUFFICES ASSUME stage = "idle", RefusedCalls = {}, callbacks = <<>>
               PROVE  leases = 0
    BY DEF WaitsLeaveNoScope
  <2>1. \A f \in OpenFrames : FALSE
    <3> SUFFICES ASSUME NEW f \in OpenFrames PROVE FALSE
      OBVIOUS
    <3>1. f \in DOMAIN frames /\ frames[f].task # 0
      BY DEF ScopeInv, TasksHold, OpenFrames
    <3>2. tasks[frames[f].task].state = "pending"
      BY <3>1 DEF ScopeInv, TasksHold
    <3>3. frames[f].task \in DOMAIN tasks
      BY <3>1 DEF ScopeInv, ScopeTypes, Linked
    <3>4. frames[f].task = awaited
      BY <3>2, <3>3 DEF ScopeInv, TasksHold
    <3> QED
      BY <3>1, <3>4 DEF ScopeInv, Linked
  <2>2. Cardinality(OpenFrames) = 0
    BY <2>1, FS_EmptySet
  <2> QED
    BY <2>2 DEF ScopeInv, ScopesAgree
<1> QED
  BY <1>1, <1>2, <1>3, <1>4 DEF ScopeInv, ScopesAreSound

(* The scope is held by exactly the handlers that have not ended, all of one    *)
(* extension; only detached code strays from its scope; what a handler awaits   *)
(* is performed until an outcome is refused; and between waits nobody's scope   *)
(* is held (with_extension_async, wait_extension_task).                         *)
THEOREM ScopesSound == ScopesSpec => []ScopesAreSound
<1>1. ScopeInv => ScopesAreSound
  BY InvIsSound
<1> QED
  BY <1>1, ScopesAlways, PTL

-----------------------------------------------------------------------------
(* PiRuntime                                                                 *)

Command == [kind : Kinds, id : Nat, stagedBy : 0..MaxStaged, reply : Replies]

(* The actions in the order in which they are applied.                       *)
Applied == taken \o staged

PlacesOf(s, n) == {i \in 1..Len(s) : s[i] = n}

-----------------------------------------------------------------------------
(* The inductive invariant                                                   *)

Types ==
  /\ commands \in Seq(Command) /\ Len(commands) <= MaxCommands
  /\ inbox \in Seq(0..Len(commands)) /\ running \in 0..Len(commands)
  /\ receiver \in {"up", "gone"} /\ (receiver = "gone" => inbox = <<>> /\ running = 0)
  /\ staged \in Seq(1..Len(commands)) /\ taken \in Seq(1..Len(commands))
  /\ session \in {"idle", "hook", "direct", "program", "closed"} /\ shut \in BOOLEAN
  /\ callSequence \in Nat /\ programSequence \in Nat

(* Commands are executed in the order of their numbers: what is in the channel *)
(* comes after what runs, and that after everything that has been staged.     *)
Order ==
  /\ \A i, j \in 1..Len(inbox) : i < j /\ inbox[i] # 0 /\ inbox[j] # 0 => inbox[i] < inbox[j]
  /\ \A i \in 1..Len(inbox) : inbox[i] # 0 =>
       running < inbox[i] /\ \A k \in 1..Len(Applied) : Applied[k] < inbox[i]
  /\ running # 0 => \A k \in 1..Len(Applied) : Applied[k] <= running
  /\ \A i, j \in 1..Len(Applied) : i < j => Applied[i] <= Applied[j]

Counts == \A n \in DOMAIN commands : Cardinality(PlacesOf(Applied, n)) = commands[n].stagedBy

(* The counters are ahead of every id they can collide with.                 *)
Ids ==
  /\ \A n \in DOMAIN commands : commands[n].kind = "direct" => commands[n].id < callSequence
  /\ \A n \in Waiting("program") : session = "program" /\ commands[n].id < programSequence
  /\ CallIdsDiffer

PiInv == Types /\ NoReplyIsForgotten /\ Order /\ Counts /\ Ids

-----------------------------------------------------------------------------
(* How the commands change                                                   *)

LEMMA PlacesFinite ==
  ASSUME NEW S, NEW s \in Seq(S), NEW n
  PROVE  IsFiniteSet(PlacesOf(s, n)) /\ Cardinality(PlacesOf(s, n)) \in Nat
<1>1. PlacesOf(s, n) \in SUBSET (1..Len(s)) /\ Len(s) \in Nat
  BY DEF PlacesOf
<1>2. IsFiniteSet(1..Len(s))
  BY <1>1, FS_Interval
<1>3. IsFiniteSet(PlacesOf(s, n))
  BY <1>1, <1>2, FS_Subset
<1> QED
  BY <1>3, FS_CardinalityType

LEMMA PlacesOfAppend ==
  ASSUME NEW S, NEW s \in Seq(S), NEW x \in S, NEW n
  PROVE  Cardinality(PlacesOf(Append(s, x), n))
           = Cardinality(PlacesOf(s, n)) + (IF n = x THEN 1 ELSE 0)
<1> DEFINE last == Len(s) + 1
<1>1. /\ Len(s) \in Nat /\ Len(Append(s, x)) = last /\ Append(s, x)[last] = x
      /\ \A i \in 1..Len(s) : Append(s, x)[i] = s[i]
  BY AppendProperties
<1>2. last \notin PlacesOf(s, n)
  BY <1>1 DEF PlacesOf
<1>3. CASE n = x
  <2>1. PlacesOf(Append(s, x), n) = PlacesOf(s, n) \cup {last}
    BY <1>1, <1>3 DEF PlacesOf
  <2> QED
    BY <1>2, <1>3, <2>1, PlacesFinite, FS_AddElement
<1>4. CASE n # x
  <2>1. PlacesOf(Append(s, x), n) = PlacesOf(s, n)
    BY <1>1, <1>4 DEF PlacesOf
  <2> QED
    BY <1>4, <2>1, PlacesFinite
<1> QED
  BY <1>3, <1>4

(* The applied actions are numbers of commands.                              *)
LEMMA AppliedType ==
  ASSUME Types
  PROVE  /\ Applied \in Seq(1..Len(commands)) /\ Len(commands) \in Nat
         /\ Len(Applied) \in Nat /\ \A k \in 1..Len(Applied) : Applied[k] \in 1..Len(commands)
BY SMTT(30) DEF Types, Applied

(* A command is sent: it is the last one, and nothing else has changed.       *)
LEMMA SendFacts ==
  ASSUME Types, NEW kind \in Kinds, NEW id \in Nat, SendCommand(kind, id)
  PROVE  LET n == Len(commands) + 1
         IN  /\ n \in Nat /\ n <= MaxCommands
             /\ commands' \in Seq(Command) /\ Len(commands') = n
             /\ \A m \in 1..Len(commands) : commands'[m] = commands[m]
             /\ commands'[n].kind = kind /\ commands'[n].id = id /\ commands'[n].stagedBy = 0
             /\ commands'[n].reply = IF receiver = "up" THEN "waiting" ELSE "stopped"
             /\ inbox' = IF receiver = "up" THEN Append(inbox, n) ELSE inbox
             /\ Applied' = Applied /\ running' = running /\ receiver' = receiver
<1> DEFINE new == [kind |-> kind, id |-> id, stagedBy |-> 0,
                   reply |-> IF receiver = "up" THEN "waiting" ELSE "stopped"]
<1>1. new \in Command
  BY PiRuntimeConstants DEF Command, Replies
<1>2. commands' = Append(commands, new) /\ Len(commands) < MaxCommands
  BY DEF SendCommand
<1>3. Len(commands) \in Nat /\ MaxCommands \in Nat
  BY PiRuntimeConstants DEF Types
<1>4. /\ commands' \in Seq(Command) /\ Len(commands') = Len(commands) + 1
      /\ \A m \in 1..Len(commands) : commands'[m] = commands[m]
      /\ commands'[Len(commands) + 1] = new
  BY <1>1, <1>2, AppendProperties DEF Types
<1>5. Applied' = Applied
  BY DEF SendCommand, Applied
<1> QED
  BY <1>2, <1>3, <1>4, <1>5 DEF SendCommand

(* Only the replies of commands change, and nobody begins to wait.            *)
RepliesOnly ==
  /\ commands' \in Seq(Command) /\ Len(commands') = Len(commands)
  /\ \A n \in 1..Len(commands) :
       /\ commands'[n].kind = commands[n].kind /\ commands'[n].id = commands[n].id
       /\ commands'[n].stagedBy = commands[n].stagedBy
       /\ commands'[n].reply = "waiting" => commands[n].reply = "waiting"

LEMMA NoReplies ==
  ASSUME Types, commands' = commands
  PROVE  RepliesOnly
BY DEF Types, RepliesOnly

LEMMA ChangedReplies ==
  ASSUME Types, NEW to \in Replies \ {"waiting"}, NEW N,
         commands' = [n \in DOMAIN commands |->
                        IF n \in N THEN [commands[n] EXCEPT !.reply = to] ELSE commands[n]]
  PROVE  RepliesOnly
<1>1. DOMAIN commands = 1..Len(commands) /\ Len(commands) \in Nat
  BY DEF Types
<1>2. \A n \in 1..Len(commands) : commands[n] \in Command
  BY DEF Types
<1>3. \A n \in 1..Len(commands) : [commands[n] EXCEPT !.reply = to] \in Command
  BY <1>2 DEF Command
<1>4. commands' \in [1..Len(commands) -> Command]
  BY <1>1, <1>2, <1>3
<1>5. commands' \in Seq(Command) /\ Len(commands') = Len(commands)
  BY <1>1, <1>4, SeqDef
<1> QED
  BY <1>1, <1>2, <1>5 DEF RepliesOnly, Command

LEMMA LeaveReplies ==
  ASSUME Types, NEW kind, Leave(kind)
  PROVE  RepliesOnly
BY ChangedReplies DEF Leave, Replies

LEMMA TimeOutReplies ==
  ASSUME Types, NEW n \in Numbers, TimeOut(n)
  PROVE  RepliesOnly
<1>1. n \in DOMAIN commands
  BY DEF TimeOut, Waiting
<1>2. commands' = [m \in DOMAIN commands |->
                     IF m \in {n} THEN [commands[m] EXCEPT !.reply = "timedOut"] ELSE commands[m]]
  BY <1>1 DEF TimeOut, Types
<1> QED
  BY <1>2, ChangedReplies DEF Replies

LEMMA SettleReplies ==
  ASSUME Types, Settle
  PROVE  RepliesOnly /\ commands'[running].reply # "waiting"
<1> DEFINE N == IF commands[running].reply = "waiting" THEN {running} ELSE {}
<1>1. running \in DOMAIN commands /\ commands[running] \in Command
  BY DEF Settle, Types
<1>2. commands' = [m \in DOMAIN commands |->
                     IF m \in N THEN [commands[m] EXCEPT !.reply = "answered"] ELSE commands[m]]
  BY <1>1 DEF Settle, Types, Command
<1>3. commands'[running].reply # "waiting"
  BY <1>1 DEF Settle, Types, Command
<1> HIDE DEF N
<1> QED
  BY <1>2, <1>3, ChangedReplies DEF Replies

LEMMA StopReplies ==
  ASSUME Types, Stop
  PROVE  RepliesOnly /\ \A n \in 1..Len(commands) : commands'[n].reply # "waiting"
<1> DEFINE N == {n \in DOMAIN commands : commands[n].reply = "waiting"}
<1>1. commands' = [m \in DOMAIN commands |->
                     IF m \in N THEN [commands[m] EXCEPT !.reply = "stopped"] ELSE commands[m]]
  BY DEF Stop
<1>2. \A m \in 1..Len(commands) : commands[m] \in Command
  BY DEF Types
<1>3. \A m \in 1..Len(commands) : commands'[m].reply # "waiting"
  BY <1>1, <1>2 DEF Types, Command
<1> HIDE DEF N
<1> QED
  BY <1>1, <1>3, ChangedReplies DEF Replies

(* The running command stages an action: its count and the last place change.  *)
LEMMA StageFacts ==
  ASSUME Types, StageHostAction
  PROVE  /\ running \in 1..Len(commands)
         /\ commands' \in Seq(Command) /\ Len(commands') = Len(commands)
         /\ \A n \in 1..Len(commands) :
              /\ commands'[n].kind = commands[n].kind /\ commands'[n].id = commands[n].id
              /\ commands'[n].reply = commands[n].reply
              /\ commands'[n].stagedBy = commands[n].stagedBy + (IF n = running THEN 1 ELSE 0)
         /\ Applied' = Append(Applied, running)
         /\ staged' \in Seq(1..Len(commands)) /\ taken' = taken
<1>1. running \in 1..Len(commands) /\ Len(commands) \in Nat
  BY DEF StageHostAction, Types
<1> DEFINE old == commands[running]
           new == [old EXCEPT !.stagedBy = @ + 1]
<1>2. old \in Command
  BY <1>1 DEF Types
<1>10. old.stagedBy \in 0..MaxStaged /\ old.stagedBy < MaxStaged
  BY <1>2 DEF StageHostAction, Command
<1>11. old.stagedBy + 1 \in 0..MaxStaged
  BY <1>10, PiRuntimeConstants
<1>3. commands' = [commands EXCEPT ![running] = new]
  BY DEF StageHostAction
<1>4. new \in Command
  BY <1>2, <1>11 DEF Command
<1>5. commands' \in Seq(Command) /\ Len(commands') = Len(commands)
  BY <1>1, <1>3, <1>4, ExceptSeq DEF Types
<1>6. \A n \in 1..Len(commands) : commands[n] \in Command
  BY DEF Types
<1>7. \A n \in 1..Len(commands) :
        /\ commands'[n].kind = commands[n].kind /\ commands'[n].id = commands[n].id
        /\ commands'[n].reply = commands[n].reply
        /\ commands'[n].stagedBy = commands[n].stagedBy + (IF n = running THEN 1 ELSE 0)
  BY SMTT(30), <1>1, <1>3, <1>6 DEF Types, Command
<1>8. staged' \in Seq(1..Len(commands)) /\ taken' = taken
  BY <1>1, AppendProperties DEF StageHostAction, Types
<1>9. Applied' = Append(Applied, running)
  BY SMTT(30), <1>1 DEF StageHostAction, Types, Applied
<1> QED
  BY <1>1, <1>5, <1>7, <1>8, <1>9

LEMMA TakeFacts ==
  ASSUME Types, TakeHostActions
  PROVE  /\ Applied' = Applied
         /\ staged' \in Seq(1..Len(commands)) /\ taken' \in Seq(1..Len(commands))
BY DEF Types, TakeHostActions, Applied

-----------------------------------------------------------------------------
(* Types                                                                     *)

LEMMA TypesAfterSend ==
  ASSUME Types, NEW kind \in Kinds, NEW id \in Nat, SendCommand(kind, id),
         session' \in {"idle", "hook", "direct", "program", "closed"},
         shut' \in BOOLEAN, callSequence' \in Nat, programSequence' \in Nat
  PROVE  Types'
<1> DEFINE n == Len(commands) + 1
<1>1. /\ n \in Nat /\ n <= MaxCommands /\ commands' \in Seq(Command) /\ Len(commands') = n
      /\ inbox' = IF receiver = "up" THEN Append(inbox, n) ELSE inbox
  BY SendFacts
<1>2. Len(commands) \in Nat /\ n \in 0..n
  BY DEF Types
<1>3. inbox \in Seq(0..n) /\ staged \in Seq(1..n) /\ taken \in Seq(1..n)
  BY <1>2 DEF Types
<1>4. inbox' \in Seq(0..n)
  BY <1>1, <1>2, <1>3, AppendProperties
<1>5. running' \in 0..n /\ staged' \in Seq(1..n) /\ taken' \in Seq(1..n)
  BY <1>2, <1>3 DEF SendCommand, Types
<1>6. receiver' \in {"up", "gone"} /\ (receiver' = "gone" => inbox' = <<>> /\ running' = 0)
  BY <1>1 DEF SendCommand, Types
<1> QED
  BY <1>1, <1>4, <1>5, <1>6 DEF Types

LEMMA TypesKept ==
  ASSUME Types, RepliesOnly,
         inbox' \in Seq(0..Len(commands)), running' \in 0..Len(commands),
         receiver' \in {"up", "gone"}, receiver' = "gone" => inbox' = <<>> /\ running' = 0,
         staged' \in Seq(1..Len(commands)), taken' \in Seq(1..Len(commands)),
         session' \in {"idle", "hook", "direct", "program", "closed"},
         shut' \in BOOLEAN, callSequence' \in Nat, programSequence' \in Nat
  PROVE  Types'
BY DEF Types, RepliesOnly

LEMMA TypesStep ==
  ASSUME Types, [PiNext]_piVars
  PROVE  Types'
<1>1. CASE DispatchHook
  BY <1>1, TypesAfterSend DEF DispatchHook, Types, Kinds
<1>2. CASE CallDirect
  BY <1>2, TypesAfterSend DEF CallDirect, Types, Kinds
<1>3. CASE ProgramCallsTool
  BY <1>3, TypesAfterSend DEF ProgramCallsTool, Types, Kinds
<1>4. CASE Shortcut
  BY <1>4, TypesAfterSend DEF Shortcut, Types, Kinds
<1>5. CASE BeginPiProgram
  BY <1>5 DEF BeginPiProgram, Types
<1>6. CASE HookReturns
  <2>1. staged' \in Seq(1..Len(commands)) /\ taken' \in Seq(1..Len(commands))
    BY <1>6, TakeFacts DEF HookReturns, Types
  <2> QED
    BY <1>6, <2>1 DEF HookReturns, Types
<1>7. CASE DirectReturns
  BY <1>7 DEF DirectReturns, Types
<1>8. CASE ProgramReturns
  BY <1>8, LeaveReplies, TypesKept DEF ProgramReturns, Types
<1>9. CASE AbortDirect
  BY <1>9, LeaveReplies, TypesKept DEF AbortDirect, Types
<1>10. ASSUME NEW n \in Numbers, TimeOut(n)
       PROVE  Types'
  BY <1>10, TimeOutReplies, TypesKept DEF TimeOut, Types
<1>11. CASE ShutDown
  <2>1. 0 \in 0..Len(commands)
    BY DEF Types
  <2>2. inbox' \in Seq(0..Len(commands))
    BY <1>11, <2>1, AppendProperties DEF ShutDown, Types
  <2> QED
    BY <1>11, <2>2 DEF ShutDown, Types
<1>12. CASE TakeCommand
  <2>1. Head(inbox) \in 0..Len(commands) /\ Tail(inbox) \in Seq(0..Len(commands))
    BY <1>12, HeadTailProperties DEF TakeCommand, Types
  <2> QED
    BY <1>12, <2>1 DEF TakeCommand, Types
<1>13. CASE Stop
  BY <1>13, StopReplies, TypesKept, EmptySeq DEF Stop, Types
<1>14. CASE StageHostAction
  <2>1. /\ commands' \in Seq(Command) /\ Len(commands') = Len(commands)
        /\ staged' \in Seq(1..Len(commands)) /\ taken' = taken
    BY <1>14, StageFacts
  <2> QED
    BY <1>14, <2>1 DEF StageHostAction, Types
<1>15. CASE Settle
  <2>1. RepliesOnly /\ 0 \in 0..Len(commands)
    BY <1>15, SettleReplies DEF Types
  <2> QED
    BY <1>15, <2>1, TypesKept DEF Settle, Types
<1>16. CASE UNCHANGED piVars
  BY <1>16 DEF piVars, Types
<1> QED
  BY <1>1, <1>2, <1>3, <1>4, <1>5, <1>6, <1>7, <1>8, <1>9, <1>10, <1>11, <1>12, <1>13, <1>14,
     <1>15, <1>16 DEF PiNext

-----------------------------------------------------------------------------
(* Replies                                                                   *)

LEMMA RepliesAfterSend ==
  ASSUME Types, NoReplyIsForgotten, NEW kind \in Kinds, NEW id \in Nat, SendCommand(kind, id)
  PROVE  NoReplyIsForgotten'
<1> DEFINE n == Len(commands) + 1
<1>1. /\ n \in Nat /\ commands' \in Seq(Command) /\ Len(commands') = n
      /\ \A m \in 1..Len(commands) : commands'[m] = commands[m]
      /\ commands'[n].reply = IF receiver = "up" THEN "waiting" ELSE "stopped"
      /\ inbox' = IF receiver = "up" THEN Append(inbox, n) ELSE inbox
      /\ running' = running
  BY SendFacts
<1>2. Len(inbox) \in Nat /\ inbox \in Seq(Nat) /\ Len(commands) \in Nat
  BY DEF Types
<1>3. \A i \in 1..Len(inbox) : i \in 1..Len(inbox') /\ inbox'[i] = inbox[i]
  BY <1>1, <1>2, AppendProperties
<1>4. receiver = "up" => Len(inbox) + 1 \in 1..Len(inbox') /\ inbox'[Len(inbox) + 1] = n
  BY <1>1, <1>2, AppendProperties
<1>5. ASSUME NEW m \in 1..n, commands'[m].reply = "waiting"
      PROVE  m = running \/ \E i \in 1..Len(inbox') : inbox'[i] = m
  <2>1. CASE m = n
    BY <1>1, <1>4, <1>5, <2>1
  <2>2. CASE m \in 1..Len(commands)
    <3>1. m \in DOMAIN commands /\ commands[m].reply = "waiting"
      BY <1>1, <1>5, <2>2 DEF Types
    <3>2. m = running \/ \E i \in 1..Len(inbox) : inbox[i] = m
      BY <3>1 DEF NoReplyIsForgotten
    <3> QED
      BY <1>3, <3>2
  <2> QED
    BY <1>2, <2>1, <2>2
<1> QED
  BY <1>1, <1>5 DEF NoReplyIsForgotten

LEMMA RepliesKept ==
  ASSUME Types, NoReplyIsForgotten, RepliesOnly, inbox' = inbox, running' = running
  PROVE  NoReplyIsForgotten'
<1>1. DOMAIN commands' = 1..Len(commands) /\ DOMAIN commands = 1..Len(commands)
  BY DEF RepliesOnly, Types
<1>2. \A n \in 1..Len(commands) : commands'[n].reply = "waiting" => commands[n].reply = "waiting"
  BY DEF RepliesOnly
<1> QED
  BY <1>1, <1>2 DEF NoReplyIsForgotten

LEMMA RepliesStep ==
  ASSUME Types, NoReplyIsForgotten, [PiNext]_piVars
  PROVE  NoReplyIsForgotten'
<1> USE DEF Kinds
<1>1. CASE DispatchHook
  BY <1>1, RepliesAfterSend DEF DispatchHook
<1>2. CASE CallDirect
  BY <1>2, RepliesAfterSend DEF CallDirect, Types
<1>3. CASE ProgramCallsTool
  BY <1>3, RepliesAfterSend DEF ProgramCallsTool, Types
<1>4. CASE Shortcut
  BY <1>4, RepliesAfterSend DEF Shortcut
<1>5. CASE BeginPiProgram \/ HookReturns \/ DirectReturns \/ UNCHANGED piVars
  BY <1>5 DEF BeginPiProgram, HookReturns, DirectReturns, piVars, NoReplyIsForgotten
<1>6. CASE ProgramReturns \/ AbortDirect
  BY <1>6, LeaveReplies, RepliesKept DEF ProgramReturns, AbortDirect
<1>7. ASSUME NEW n \in Numbers, TimeOut(n)
      PROVE  NoReplyIsForgotten'
  BY <1>7, TimeOutReplies, RepliesKept DEF TimeOut
<1>8. CASE ShutDown
  <2>1. Len(inbox) \in Nat /\ inbox \in Seq(Nat)
    BY DEF Types
  <2>2. \A i \in 1..Len(inbox) : i \in 1..Len(inbox') /\ inbox'[i] = inbox[i]
    BY <1>8, <2>1, AppendProperties DEF ShutDown
  <2> QED
    BY <1>8, <2>2 DEF ShutDown, NoReplyIsForgotten
<1>9. CASE TakeCommand
  <2>1. /\ Len(inbox) \in Nat \ {0} /\ Head(inbox) = inbox[1] /\ Len(Tail(inbox)) = Len(inbox) - 1
        /\ \A i \in 1..(Len(inbox) - 1) : Tail(inbox)[i] = inbox[i + 1]
    BY <1>9, HeadTailProperties DEF TakeCommand, Types
  <2>2. \A i \in 1..Len(inbox) : i = 1 \/ (i - 1 \in 1..Len(Tail(inbox)) /\ Tail(inbox)[i - 1] = inbox[i])
    BY <2>1
  <2>3. ASSUME NEW n \in DOMAIN commands, commands[n].reply = "waiting"
        PROVE  n = Head(inbox) \/ \E i \in 1..Len(Tail(inbox)) : Tail(inbox)[i] = n
    <3>1. n # running
      BY <1>9 DEF TakeCommand, Types
    <3>2. PICK i \in 1..Len(inbox) : inbox[i] = n
      BY <2>3, <3>1 DEF NoReplyIsForgotten
    <3> QED
      BY <2>1, <2>2, <3>2
  <2> QED
    BY <1>9, <2>3 DEF TakeCommand, NoReplyIsForgotten
<1>10. CASE Stop
  BY <1>10, StopReplies DEF NoReplyIsForgotten, RepliesOnly
<1>11. CASE StageHostAction
  BY <1>11, StageFacts DEF StageHostAction, NoReplyIsForgotten, Types
<1>12. CASE Settle
  BY <1>12, SettleReplies DEF Settle, NoReplyIsForgotten, RepliesOnly, Types
<1> QED
  BY <1>1, <1>2, <1>3, <1>4, <1>5, <1>6, <1>7, <1>8, <1>9, <1>10, <1>11, <1>12 DEF PiNext

-----------------------------------------------------------------------------
(* The order of commands and actions                                         *)

(* What the order says depends on these alone.                               *)
OrderOf(box, now, all) ==
  /\ \A i, j \in 1..Len(box) : i < j /\ box[i] # 0 /\ box[j] # 0 => box[i] < box[j]
  /\ \A i \in 1..Len(box) : box[i] # 0 =>
       now < box[i] /\ \A k \in 1..Len(all) : all[k] < box[i]
  /\ now # 0 => \A k \in 1..Len(all) : all[k] <= now
  /\ \A i, j \in 1..Len(all) : i < j => all[i] <= all[j]

LEMMA OrderIsOf == Order = OrderOf(inbox, running, Applied)
BY DEF Order, OrderOf

LEMMA AppendKeepsOrder ==
  ASSUME NEW box \in Seq(Nat), NEW now \in Nat, NEW all \in Seq(Nat), NEW x \in Nat,
         OrderOf(box, now, all),
         x # 0 => /\ \A i \in 1..Len(box) : box[i] < x
                  /\ now < x /\ \A k \in 1..Len(all) : all[k] < x
  PROVE  OrderOf(Append(box, x), now, all)
<1>1. /\ Len(Append(box, x)) = Len(box) + 1 /\ Append(box, x)[Len(box) + 1] = x /\ Len(box) \in Nat
      /\ \A i \in 1..Len(box) : Append(box, x)[i] = box[i] /\ box[i] \in Nat
  BY AppendProperties
<1>2. \A i \in 1..Len(Append(box, x)) : i \in 1..Len(box) \/ i = Len(box) + 1
  BY <1>1
<1>3. \A i, j \in 1..Len(Append(box, x)) :
        i < j /\ Append(box, x)[i] # 0 /\ Append(box, x)[j] # 0 => Append(box, x)[i] < Append(box, x)[j]
  BY <1>1, <1>2 DEF OrderOf
<1>4. \A i \in 1..Len(Append(box, x)) : Append(box, x)[i] # 0 =>
        now < Append(box, x)[i] /\ \A k \in 1..Len(all) : all[k] < Append(box, x)[i]
  BY <1>1, <1>2 DEF OrderOf
<1> QED
  BY <1>3, <1>4 DEF OrderOf

LEMMA OrderAfterSend ==
  ASSUME Types, Order, NEW kind \in Kinds, NEW id \in Nat, SendCommand(kind, id)
  PROVE  Order'
<1> DEFINE n == Len(commands) + 1
<1>1. /\ inbox' = (IF receiver = "up" THEN Append(inbox, n) ELSE inbox)
      /\ Applied' = Applied /\ running' = running
  BY SendFacts
<1>2. /\ Len(commands) \in Nat /\ inbox \in Seq(Nat) /\ running \in Nat /\ running < n
      /\ \A i \in 1..Len(inbox) : inbox[i] < n
  BY DEF Types
<1>3. Applied \in Seq(Nat) /\ \A k \in 1..Len(Applied) : Applied[k] < n
  BY <1>2, AppliedType
<1>4. OrderOf(Append(inbox, n), running, Applied)
  <2>1. n \in Nat /\ OrderOf(inbox, running, Applied)
    BY <1>2, OrderIsOf
  <2> HIDE DEF n
  <2> QED
    BY <1>2, <1>3, <2>1, AppendKeepsOrder
<1>5. OrderOf(inbox', running', Applied')
  BY <1>1, <1>4, OrderIsOf
<1> QED
  BY <1>5 DEF Order, OrderOf

LEMMA OrderStep ==
  ASSUME Types, Order, [PiNext]_piVars
  PROVE  Order'
<1> USE DEF Kinds
<1>1. /\ Len(inbox) \in Nat /\ inbox \in Seq(Nat) /\ running \in Nat
      /\ Applied \in Seq(Nat) /\ Len(Applied) \in Nat
  BY AppliedType DEF Types
<1>2. CASE inbox' = inbox /\ running' = running /\ Applied' = Applied
  BY <1>2 DEF Order
<1>3. CASE DispatchHook \/ CallDirect \/ ProgramCallsTool \/ Shortcut
  BY <1>3, OrderAfterSend DEF DispatchHook, CallDirect, ProgramCallsTool, Shortcut, Types
<1>4. CASE HookReturns
  BY <1>2, <1>4, TakeFacts DEF HookReturns, Applied
<1>5. CASE \/ BeginPiProgram \/ DirectReturns \/ ProgramReturns \/ AbortDirect
           \/ (\E n \in Numbers : TimeOut(n)) \/ UNCHANGED piVars
  BY <1>2, <1>5 DEF BeginPiProgram, DirectReturns, ProgramReturns, AbortDirect, TimeOut, piVars, Applied
<1>6. CASE ShutDown
  <2>1. OrderOf(Append(inbox, 0), running, Applied)
    BY <1>1, OrderIsOf, AppendKeepsOrder
  <2>2. /\ inbox' = (IF receiver = "up" THEN Append(inbox, 0) ELSE inbox)
        /\ Applied' = Applied /\ running' = running
    BY <1>6 DEF ShutDown, Applied
  <2>3. OrderOf(inbox', running', Applied')
    BY <2>1, <2>2, OrderIsOf
  <2> QED
    BY <2>3 DEF Order, OrderOf
<1>7. CASE TakeCommand
  <2>1. /\ Len(inbox) \in Nat \ {0} /\ running' = inbox[1] /\ Len(inbox') = Len(inbox) - 1
        /\ \A i \in 1..(Len(inbox) - 1) : inbox'[i] = inbox[i + 1]
        /\ inbox[1] # 0 /\ Applied' = Applied
    BY <1>7, HeadTailProperties DEF TakeCommand, Types, Applied
  <2>2. \A i \in 1..Len(inbox') : i + 1 \in 1..Len(inbox) /\ inbox'[i] = inbox[i + 1] /\ 1 < i + 1
    BY <2>1
  <2>3. \A i \in 1..Len(inbox) : inbox[i] \in Nat
    BY <1>1
  <2>4. \A k \in 1..Len(Applied) : Applied[k] \in Nat /\ Applied[k] < inbox[1]
    BY <1>1, <2>1 DEF Order
  <2>5. \A i, j \in 1..Len(inbox') :
          i < j /\ inbox'[i] # 0 /\ inbox'[j] # 0 => inbox'[i] < inbox'[j]
    BY <2>1, <2>2 DEF Order
  <2>6. \A i \in 1..Len(inbox') : inbox'[i] # 0 =>
          running' < inbox'[i] /\ \A k \in 1..Len(Applied') : Applied'[k] < inbox'[i]
    <3> SUFFICES ASSUME NEW i \in 1..Len(inbox'), inbox'[i] # 0
                 PROVE  running' < inbox'[i] /\ \A k \in 1..Len(Applied) : Applied[k] < inbox'[i]
      BY <2>1
    <3>1. /\ i + 1 \in 1..Len(inbox) /\ 1 \in 1..Len(inbox) /\ 1 < i + 1
          /\ inbox'[i] = inbox[i + 1]
      BY <2>1, <2>2
    <3>2. inbox[1] < inbox[i + 1]
      BY <2>1, <3>1 DEF Order
    <3>3. \A k \in 1..Len(Applied) : Applied[k] < inbox[i + 1]
      BY <3>1 DEF Order
    <3> QED
      BY <2>1, <3>1, <3>2, <3>3
  <2>7. \A i, j \in 1..Len(Applied') : i < j => Applied'[i] <= Applied'[j]
    BY <2>1 DEF Order
  <2> QED
    BY <2>1, <2>3, <2>4, <2>5, <2>6, <2>7 DEF Order
<1>8. CASE Stop
  BY <1>8 DEF Stop, Order, Applied
<1>9. CASE StageHostAction
  <2>1. Applied' = Append(Applied, running) /\ inbox' = inbox /\ running' = running /\ running # 0
    BY <1>9, StageFacts DEF StageHostAction
  <2>2. /\ Len(Applied') = Len(Applied) + 1 /\ Applied'[Len(Applied) + 1] = running
        /\ \A k \in 1..Len(Applied) : Applied'[k] = Applied[k] /\ Applied[k] \in Nat
    BY <1>1, <2>1, AppendProperties
  <2>3. \A k \in 1..Len(Applied') : k \in 1..Len(Applied) \/ k = Len(Applied) + 1
    BY <1>1, <2>2
  <2>4. \A i \in 1..Len(inbox') : inbox'[i] # 0 =>
          running' < inbox'[i] /\ \A k \in 1..Len(Applied') : Applied'[k] < inbox'[i]
    BY <1>1, <2>1, <2>2, <2>3 DEF Order
  <2>5. \A k \in 1..Len(Applied') : Applied'[k] <= running'
    BY <1>1, <2>1, <2>2, <2>3 DEF Order
  <2>6. \A i, j \in 1..Len(Applied') : i < j => Applied'[i] <= Applied'[j]
    BY <1>1, <2>1, <2>2, <2>3 DEF Order
  <2> QED
    BY <2>1, <2>4, <2>5, <2>6 DEF Order
<1>10. CASE Settle
  <2>1. inbox' = inbox /\ running' = 0 /\ Applied' = Applied
    BY <1>10 DEF Settle, Applied
  <2>2. \A i \in 1..Len(inbox) : inbox[i] \in Nat
    BY <1>1
  <2> QED
    BY <2>1, <2>2 DEF Order
<1> QED
  BY <1>3, <1>4, <1>5, <1>6, <1>7, <1>8, <1>9, <1>10 DEF PiNext

-----------------------------------------------------------------------------
(* Every action once                                                         *)

LEMMA CountsKept ==
  ASSUME Types, Counts, RepliesOnly, Applied' = Applied
  PROVE  Counts'
<1>1. DOMAIN commands' = 1..Len(commands) /\ DOMAIN commands = 1..Len(commands)
  BY DEF RepliesOnly, Types
<1>2. \A n \in 1..Len(commands) : commands'[n].stagedBy = commands[n].stagedBy
  BY DEF RepliesOnly
<1> QED
  BY <1>1, <1>2 DEF Counts, PlacesOf

LEMMA CountsAfterSend ==
  ASSUME Types, Counts, NEW kind \in Kinds, NEW id \in Nat, SendCommand(kind, id)
  PROVE  Counts'
<1> DEFINE n == Len(commands) + 1
<1>1. /\ commands' \in Seq(Command) /\ Len(commands') = n /\ commands'[n].stagedBy = 0
      /\ \A m \in 1..Len(commands) : commands'[m] = commands[m]
      /\ Applied' = Applied
  BY SendFacts
<1>2. /\ Len(commands) \in Nat /\ DOMAIN commands = 1..Len(commands)
      /\ DOMAIN commands' = 1..n /\ \A m \in 1..n : m \in 1..Len(commands) \/ m = n
  BY <1>1 DEF Types
<1>3. PlacesOf(Applied, n) = {}
  BY <1>2, AppliedType DEF PlacesOf
<1>4. Cardinality(PlacesOf(Applied, n)) = 0
  BY <1>3, FS_EmptySet
<1>5. \A m \in 1..Len(commands) : Cardinality(PlacesOf(Applied, m)) = commands'[m].stagedBy
  BY <1>1, <1>2 DEF Counts
<1>6. \A m \in 1..n : Cardinality(PlacesOf(Applied, m)) = commands'[m].stagedBy
  BY <1>1, <1>2, <1>4, <1>5
<1>7. \A m \in 1..n : PlacesOf(Applied', m) = PlacesOf(Applied, m)
  BY <1>1
<1>8. Counts' = \A m \in DOMAIN commands' : Cardinality(PlacesOf(Applied', m)) = commands'[m].stagedBy
  BY DEF Counts, PlacesOf
<1> QED
  BY <1>2, <1>6, <1>7, <1>8

LEMMA CountsStep ==
  ASSUME Types, Counts, [PiNext]_piVars
  PROVE  Counts'
<1> USE DEF Kinds
<1>1. CASE DispatchHook \/ CallDirect \/ ProgramCallsTool \/ Shortcut
  BY <1>1, CountsAfterSend DEF DispatchHook, CallDirect, ProgramCallsTool, Shortcut, Types
<1>2. CASE HookReturns
  BY <1>2, TakeFacts, NoReplies, CountsKept DEF HookReturns, Applied
<1>3. CASE BeginPiProgram \/ DirectReturns \/ ShutDown \/ TakeCommand \/ UNCHANGED piVars
  BY <1>3, NoReplies, CountsKept DEF BeginPiProgram, DirectReturns, ShutDown, TakeCommand, piVars, Applied
<1>4. CASE ProgramReturns \/ AbortDirect
  BY <1>4, LeaveReplies, CountsKept DEF ProgramReturns, AbortDirect, Applied
<1>5. ASSUME NEW n \in Numbers, TimeOut(n)
      PROVE  Counts'
  BY <1>5, TimeOutReplies, CountsKept DEF TimeOut, Applied
<1>6. CASE Stop
  BY <1>6, StopReplies, CountsKept DEF Stop, Applied
<1>7. CASE Settle
  BY <1>7, SettleReplies, CountsKept DEF Settle, Applied
<1>8. CASE StageHostAction
  <2>1. /\ running \in 1..Len(commands) /\ Applied' = Append(Applied, running)
        /\ commands' \in Seq(Command) /\ Len(commands') = Len(commands)
        /\ \A n \in 1..Len(commands) :
             commands'[n].stagedBy = commands[n].stagedBy + (IF n = running THEN 1 ELSE 0)
    BY <1>8, StageFacts
  <2>2. DOMAIN commands' = 1..Len(commands) /\ DOMAIN commands = 1..Len(commands)
    BY <2>1 DEF Types
  <2>3. \A n : Cardinality(PlacesOf(Append(Applied, running), n))
               = Cardinality(PlacesOf(Applied, n)) + (IF n = running THEN 1 ELSE 0)
    BY <2>1, AppliedType, PlacesOfAppend
  <2>4. \A n \in 1..Len(commands) : Cardinality(PlacesOf(Append(Applied, running), n)) = commands'[n].stagedBy
    BY <2>1, <2>2, <2>3 DEF Counts
  <2>5. Counts' = \A n \in DOMAIN commands' : Cardinality(PlacesOf(Applied', n)) = commands'[n].stagedBy
    BY DEF Counts, PlacesOf
  <2> QED
    BY <2>1, <2>2, <2>4, <2>5
<1> QED
  BY <1>1, <1>2, <1>3, <1>4, <1>5, <1>6, <1>7, <1>8 DEF PiNext

-----------------------------------------------------------------------------
(* Ids                                                                       *)

(* Ids neither change nor become those of more waiting commands.              *)
LEMMA IdsKept ==
  ASSUME Types, Ids, Len(commands') = Len(commands), commands' \in Seq(Command),
         \A n \in 1..Len(commands) :
           /\ commands'[n].kind = commands[n].kind /\ commands'[n].id = commands[n].id
           /\ commands'[n].reply = "waiting" => commands[n].reply = "waiting",
         callSequence' = callSequence,
         \/ programSequence' = programSequence /\ session' = session
         \/ \A n \in 1..Len(commands) : n \notin Waiting("program")'
  PROVE  Ids'
<1>1. DOMAIN commands' = 1..Len(commands) /\ DOMAIN commands = 1..Len(commands)
  BY DEF Types
<1>2. \A n \in 1..Len(commands) : n \in Waiting("program")' => n \in Waiting("program")
  BY <1>1 DEF Waiting
<1>3. CallIdsDiffer'
  BY <1>1, <1>2 DEF CallIdsDiffer, Ids
<1>4. Waiting("program")' \subseteq 1..Len(commands)
  BY <1>1 DEF Waiting
<1>5. \A n \in Waiting("program")' : session' = "program" /\ commands'[n].id < programSequence'
  BY <1>1, <1>2, <1>4 DEF Ids
<1>6. \A n \in DOMAIN commands' : commands'[n].kind = "direct" => commands'[n].id < callSequence'
  BY <1>1 DEF Ids
<1> QED
  BY <1>3, <1>5, <1>6 DEF Ids

LEMMA IdsAfterSend ==
  ASSUME Types, Ids, NEW kind \in Kinds, NEW id \in Nat, SendCommand(kind, id),
         callSequence' \in Nat, callSequence <= callSequence',
         programSequence' \in Nat, programSequence <= programSequence',
         kind = "direct" => id = callSequence /\ id < callSequence',
         kind = "program" => id = programSequence /\ id < programSequence' /\ session = "program",
         session' = session \/ session # "program"
  PROVE  Ids'
<1> DEFINE n == Len(commands) + 1
<1>1. /\ n \in Nat /\ commands' \in Seq(Command) /\ Len(commands') = n
      /\ \A m \in 1..Len(commands) : commands'[m] = commands[m]
      /\ commands'[n].kind = kind /\ commands'[n].id = id
  BY SendFacts
<1>2. /\ Len(commands) \in Nat /\ DOMAIN commands = 1..Len(commands) /\ DOMAIN commands' = 1..n
      /\ \A m \in 1..n : m \in 1..Len(commands) \/ m = n
      /\ callSequence \in Nat /\ programSequence \in Nat
      /\ \A m \in 1..Len(commands) : commands[m].id \in Nat
  <2>1. /\ commands \in Seq(Command) /\ callSequence \in Nat /\ programSequence \in Nat
    BY DEF Types
  <2>2. Len(commands) \in Nat /\ DOMAIN commands = 1..Len(commands)
    BY <2>1
  <2>3. DOMAIN commands' = 1..Len(commands')
    BY <1>1
  <2>4. \A m \in 1..n : m \in 1..Len(commands) \/ m = n
    BY <2>2
  <2>5. \A m \in 1..Len(commands) : commands[m] \in Command
    BY <2>1
  <2>6. \A m \in 1..Len(commands) : commands[m].id \in Nat
    BY <2>5 DEF Command
  <2> QED
    BY <1>1, <2>1, <2>2, <2>3, <2>4, <2>6
<1>3. \A m \in 1..Len(commands) : m \in Waiting("program")' <=> m \in Waiting("program")
  BY <1>1, <1>2 DEF Waiting
<1>4. Waiting("program")' \subseteq 1..n /\ (n \in Waiting("program")' => kind = "program")
  BY <1>1, <1>2 DEF Waiting
<1>5. \A m \in 1..n : commands'[m].kind = "direct" => commands'[m].id < callSequence'
  BY SMTT(30), <1>1, <1>2 DEF Ids
<1>6. \A m \in Waiting("program")' : session' = "program" /\ commands'[m].id < programSequence'
  BY <1>1, <1>2, <1>3, <1>4 DEF Ids
<1>7. ASSUME NEW k \in 1..n, NEW m \in 1..n, k < m,
             commands'[k].kind = commands'[m].kind, commands'[k].id = commands'[m].id,
             commands'[k].kind \notin {"hook", "shortcut"}
      PROVE  commands'[k].kind = "program" /\ {k, m} \ Waiting("program")' # {}
  <2>1. k \in 1..Len(commands) /\ commands'[k] = commands[k]
    BY <1>1, <1>2, <1>7
  <2>2. CASE m \in 1..Len(commands)
    <3>1. commands'[m] = commands[m]
      BY <1>1, <2>2
    <3>2. commands[k].kind = "program" /\ {k, m} \ Waiting("program") # {}
      BY <1>2, <1>7, <2>1, <2>2, <3>1 DEF Ids, CallIdsDiffer
    <3> QED
      BY <1>3, <2>1, <2>2, <3>2
  <2>3. CASE m = n
    <3>1. kind # "direct"
      BY <1>1, <1>2, <1>7, <2>1, <2>3 DEF Ids
    <3>2. kind = "program"
      BY <1>1, <1>7, <2>3, <3>1 DEF Kinds
    <3>3. k \notin Waiting("program")
      BY SMTT(30), <1>1, <1>2, <1>7, <2>1, <2>3, <3>2 DEF Ids
    <3> QED
      BY <1>1, <1>3, <1>7, <2>1, <2>3, <3>2, <3>3
  <2> QED
    BY <1>2, <2>2, <2>3
<1>8. CallIdsDiffer'
  <2> SUFFICES ASSUME NEW k \in 1..n, NEW m \in 1..n, k # m,
                      commands'[k].kind = commands'[m].kind, commands'[k].id = commands'[m].id,
                      commands'[k].kind \notin {"hook", "shortcut"}
               PROVE  commands'[k].kind = "program" /\ {k, m} \ Waiting("program")' # {}
    BY <1>2 DEF CallIdsDiffer
  <2>1. CASE k < m
    BY <1>7, <2>1
  <2>2. CASE m < k
    <3>1. commands'[m].kind = "program" /\ {m, k} \ Waiting("program")' # {}
      BY <1>7, <2>2
    <3> QED
      BY <3>1
  <2> QED
    BY <1>1, <2>1, <2>2
<1> QED
  BY <1>2, <1>5, <1>6, <1>8 DEF Ids

LEMMA IdsStep ==
  ASSUME Types, Ids, [PiNext]_piVars
  PROVE  Ids'
<1> USE DEF Kinds
<1>1. callSequence \in Nat /\ programSequence \in Nat /\ Len(commands) \in Nat
  BY DEF Types
<1>2. session # "program" => \A n \in 1..Len(commands) : n \notin Waiting("program")
  BY DEF Ids
<1>3. CASE DispatchHook
  BY <1>1, <1>3, IdsAfterSend DEF DispatchHook
<1>4. CASE CallDirect
  BY <1>1, <1>4, IdsAfterSend DEF CallDirect
<1>5. CASE ProgramCallsTool
  BY <1>1, <1>5, IdsAfterSend DEF ProgramCallsTool
<1>6. CASE Shortcut
  BY <1>1, <1>6, IdsAfterSend DEF Shortcut
<1>7. CASE BeginPiProgram \/ HookReturns \/ DirectReturns \/ ShutDown
  <2>1. commands' = commands /\ callSequence' = callSequence /\ session # "program"
    BY <1>7 DEF BeginPiProgram, HookReturns, DirectReturns, ShutDown
  <2>2. Waiting("program")' = Waiting("program")
    BY <2>1 DEF Waiting
  <2> QED
    BY <1>2, <2>1, <2>2, IdsKept DEF Types
<1>8. CASE ProgramReturns
  <2>1. \A n \in 1..Len(commands) : n \notin Waiting("program")'
    BY <1>8 DEF ProgramReturns, Leave, Waiting, Types, Command
  <2> QED
    BY <1>8, <2>1, LeaveReplies, IdsKept DEF ProgramReturns, RepliesOnly
<1>9. CASE AbortDirect
  <2>1. RepliesOnly
    BY <1>9, LeaveReplies DEF AbortDirect
  <2>2. \A n \in 1..Len(commands) : n \notin Waiting("program")'
    <3>1. session # "program"
      BY <1>9 DEF AbortDirect
    <3>2. DOMAIN commands = 1..Len(commands) /\ DOMAIN commands' = 1..Len(commands)
      BY <2>1 DEF RepliesOnly, Types
    <3>3. \A n \in 1..Len(commands) :
            n \in Waiting("program")' => n \in Waiting("program")
      BY <2>1, <3>2 DEF RepliesOnly, Waiting
    <3> QED
      BY <1>2, <3>1, <3>3
  <2> QED
    BY <1>9, <2>1, <2>2, IdsKept DEF AbortDirect, RepliesOnly
<1>10. ASSUME NEW n \in Numbers, TimeOut(n)
       PROVE  Ids'
  BY <1>10, TimeOutReplies, IdsKept DEF TimeOut, RepliesOnly
<1>11. CASE TakeCommand \/ UNCHANGED piVars
  BY <1>11, NoReplies, IdsKept DEF TakeCommand, piVars, RepliesOnly
<1>12. CASE Stop
  BY <1>12, StopReplies, IdsKept DEF Stop, RepliesOnly
<1>13. CASE StageHostAction
  BY <1>13, StageFacts, IdsKept DEF StageHostAction
<1>14. CASE Settle
  BY <1>14, SettleReplies, IdsKept DEF Settle, RepliesOnly
<1> QED
  BY <1>3, <1>4, <1>5, <1>6, <1>7, <1>8, <1>9, <1>10, <1>11, <1>12, <1>13, <1>14 DEF PiNext

-----------------------------------------------------------------------------
(* The theorem                                                               *)

LEMMA PiInvInitially == PiInit => PiInv
<1> SUFFICES ASSUME PiInit PROVE PiInv
  OBVIOUS
<1>1. /\ Len(commands) = 0 /\ DOMAIN commands = {} /\ Len(inbox) = 0
      /\ Applied = <<>> /\ Len(Applied) = 0
  BY DEF PiInit, Applied
<1>2. Types
  <2>1. commands \in Seq(Command) /\ Len(commands) <= MaxCommands
    BY <1>1, PiRuntimeConstants, EmptySeq DEF PiInit
  <2>2. /\ inbox \in Seq(0..Len(commands))
        /\ staged \in Seq(1..Len(commands)) /\ taken \in Seq(1..Len(commands))
    BY EmptySeq DEF PiInit
  <2>3. running \in 0..Len(commands)
    BY <1>1 DEF PiInit
  <2> QED
    BY <2>1, <2>2, <2>3 DEF PiInit, Types
<1>3. NoReplyIsForgotten /\ Counts /\ Ids
  BY <1>1 DEF NoReplyIsForgotten, Counts, Ids, CallIdsDiffer, Waiting
<1>4. Order
  BY <1>1 DEF Order, PiInit
<1> QED
  BY <1>2, <1>3, <1>4 DEF PiInv

LEMMA PiInvImplies == PiInv => PiIsSound
<1> SUFFICES ASSUME PiInv PROVE PiIsSound
  OBVIOUS
<1>1. PiTypeOK
  <2>1. Types
    BY DEF PiInv
  <2>2. \A n \in DOMAIN commands : commands[n] \in Command
    BY <2>1 DEF Types
  <2>3. \A n \in DOMAIN commands :
          /\ commands[n].kind \in Kinds /\ commands[n].reply \in Replies
          /\ commands[n].stagedBy \in 0..MaxStaged
    BY <2>2 DEF Command
  <2> QED
    BY <2>1, <2>3 DEF Types, PiTypeOK
<1>2. ActionsInOrder
  BY DEF PiInv, Order, Counts, ActionsInOrder, Applied, PlacesOf
<1> QED
  BY <1>1, <1>2 DEF PiInv, Ids, PiIsSound

(* PiIsSound: whatever is timed out, aborted, shut down or never settles, every *)
(* reply that is waited for can come, what commands stage is applied once and  *)
(* in their order, and no two calls share an id (execute, call, drop_session). *)
THEOREM PiSound == PiSpec => []PiIsSound
<1>1. PiInit => PiInv
  BY PiInvInitially
<1>2. PiInv /\ [PiNext]_piVars => PiInv'
  BY TypesStep, RepliesStep, OrderStep, CountsStep, IdsStep DEF PiInv
<1>3. PiInv => PiIsSound
  BY PiInvImplies
<1> QED
  BY <1>1, <1>2, <1>3, PTL DEF PiSpec

-----------------------------------------------------------------------------
(* Terminal modes                                                            *)

DriverStages == TerminalFeatures \cup {"rollback", "started", "stopped", "dropped"}

(* The flags are cleared by every stop and none is set before the first step.  *)
TerminalInv ==
    /\ driver \subseteq TerminalFeatures /\ tty \subseteq TerminalFeatures
    /\ driverAt \in DriverStages /\ mishap \in BOOLEAN
    /\ driverAt \in {"raw", "stopped", "dropped"} => driver = {}
    /\ FlagsTellTheTruth

(* A stop leaves on what was on without a flag, or what would not go off.     *)
LEMMA StopClears ==
  ASSUME TerminalInv, NEW failing \in SUBSET TerminalFeatures, StopDriver(failing)
  PROVE  /\ driver' = {} /\ tty' \subseteq TerminalFeatures /\ mishap' \in BOOLEAN
         /\ FlagsTellTheTruth'
BY DEF TerminalInv, StopDriver, FlagsTellTheTruth

LEMMA TerminalInvHolds == TerminalSpec => []TerminalInv
<1>1. TerminalInit => TerminalInv
  BY DEF TerminalInit, TerminalInv, FlagsTellTheTruth, DriverStages, TerminalFeatures
<1>2. TerminalInv /\ [TerminalNext]_terminalVars => TerminalInv'
  <2> SUFFICES ASSUME TerminalInv, [TerminalNext]_terminalVars PROVE TerminalInv'
    OBVIOUS
  <2>1. ASSUME NEW m \in TerminalFeatures, SwitchOn(m) PROVE TerminalInv'
    <3>1. driverAt' \in {"alternate", "mouse", "started"}
      BY <2>1 DEF SwitchOn, NextMode, TerminalFeatures
    <3>2. driver' \subseteq TerminalFeatures /\ tty' \subseteq TerminalFeatures
      BY <2>1 DEF SwitchOn, TerminalInv
    <3>3. FlagsTellTheTruth'
      BY <2>1 DEF SwitchOn, TerminalInv, FlagsTellTheTruth
    <3> QED
      BY <2>1, <3>1, <3>2, <3>3 DEF SwitchOn, TerminalInv, DriverStages, TerminalFeatures
  <2>2. ASSUME NEW m \in TerminalFeatures, SwitchFails(m) PROVE TerminalInv'
    <3>1. driverAt' \in {"stopped", "rollback"} /\ (driverAt' = "stopped" => driver = {})
      BY <2>2 DEF SwitchFails, TerminalInv
    <3>2. tty' \subseteq TerminalFeatures /\ driver' = driver /\ mishap' \in BOOLEAN
      BY <2>2 DEF SwitchFails, TerminalInv
    <3>3. FlagsTellTheTruth'
      BY <2>2 DEF SwitchFails, TerminalInv, FlagsTellTheTruth
    <3> QED
      BY <3>1, <3>2, <3>3 DEF TerminalInv, DriverStages
  <2>3. ASSUME RollBack \/ StopSession \/ DropTerminal PROVE TerminalInv'
    <3>1. PICK failing \in SUBSET TerminalFeatures : StopDriver(failing)
      BY <2>3 DEF RollBack, StopSession, DropTerminal
    <3>2. driverAt' \in {"stopped", "dropped"}
      BY <2>3 DEF RollBack, StopSession, DropTerminal
    <3> QED
      BY <3>1, <3>2, StopClears DEF TerminalInv, DriverStages
  <2>4. CASE UNCHANGED terminalVars
    BY <2>4 DEF terminalVars, TerminalInv, FlagsTellTheTruth
  <2> QED
    BY <2>1, <2>2, <2>3, <2>4 DEF TerminalNext
<1> QED
  BY <1>1, <1>2, PTL DEF TerminalSpec

(* The flags claim nothing that is not on, and miss only what a failed command *)
(* left on (CrosstermDriver::start and stop).                                *)
THEOREM FlagsAreRight == TerminalSpec => []FlagsTellTheTruth
<1>1. TerminalInv => FlagsTellTheTruth
  BY DEF TerminalInv
<1> QED
  BY <1>1, TerminalInvHolds, PTL

(* However far the start came, a session that stopped or was dropped leaves the *)
(* terminal as it was found, unless the terminal itself failed (stop, drop).  *)
THEOREM TerminalRestored == TerminalSpec => []TerminalIsRestored
<1>1. TerminalInv => TerminalIsRestored
  BY DEF TerminalInv, FlagsTellTheTruth, TerminalIsRestored
<1> QED
  BY <1>1, TerminalInvHolds, PTL

-----------------------------------------------------------------------------
(* ExtensionRegistry                                                         *)

(* Where a sequence has something of a set.                                  *)
Hits(s, P) == {i \in 1..Len(s) : s[i] \in P}

LEMMA HitsFinite ==
  ASSUME NEW T, NEW s \in Seq(T), NEW P
  PROVE  IsFiniteSet(Hits(s, P)) /\ Cardinality(Hits(s, P)) \in Nat
<1>1. IsFiniteSet(1..Len(s))
  BY FS_Interval
<1>2. IsFiniteSet(Hits(s, P))
  BY <1>1, FS_Subset DEF Hits
<1> QED
  BY <1>2, FS_CardinalityType

LEMMA HitsOfAppend ==
  ASSUME NEW T, NEW s \in Seq(T), NEW x \in T, NEW P
  PROVE  Cardinality(Hits(Append(s, x), P))
           = IF x \in P THEN Cardinality(Hits(s, P)) + 1 ELSE Cardinality(Hits(s, P))
<1>1. PICK last : last = Len(s) + 1
  OBVIOUS
<1>2. PICK r : r = Append(s, x)
  OBVIOUS
<1>3. /\ Len(s) \in Nat /\ Len(r) = last /\ r[last] = x
      /\ \A i \in 1..Len(s) : r[i] = s[i]
  BY <1>1, <1>2, AppendProperties
<1>4. last \notin Hits(s, P)
  BY <1>1, <1>3 DEF Hits
<1>5. CASE x \in P
  <2>1. Hits(r, P) = Hits(s, P) \union {last}
    BY <1>1, <1>3, <1>5 DEF Hits
  <2> QED
    BY <1>2, <1>4, <1>5, <2>1, HitsFinite, FS_AddElement
<1>6. CASE x \notin P
  <2>1. Hits(r, P) = Hits(s, P)
    BY <1>1, <1>3, <1>6 DEF Hits
  <2> QED
    BY <1>2, <1>6, <2>1
<1> QED
  BY <1>5, <1>6

(* A sequence without its i-th member.                                       *)
LEMMA RemovedAt ==
  ASSUME NEW T, NEW s \in Seq(T), NEW i \in 1..Len(s), NEW r, r = RemoveAt(s, i)
  PROVE  /\ r \in Seq(T) /\ Len(r) = Len(s) - 1
         /\ \A j \in 1..(Len(s) - 1) : r[j] = IF j < i THEN s[j] ELSE s[j + 1]
<1>1. PICK L \in Nat : L = Len(s)
  OBVIOUS
<1>2. PICK front, back : front = SubSeq(s, 1, i - 1) /\ back = SubSeq(s, i + 1, L)
  OBVIOUS
<1>3. /\ front \in Seq(T) /\ Len(front) = i - 1
      /\ \A j \in 1..(i - 1) : front[j] = s[j]
  BY <1>1, <1>2, SubSeqProperties
<1>4. /\ back \in Seq(T) /\ Len(back) = L - i
      /\ \A j \in 1..(L - i) : back[j] = s[i + j]
  BY <1>1, <1>2, SubSeqProperties
<1>5. r = front \o back
  BY <1>1, <1>2 DEF RemoveAt
<1>6. /\ r \in Seq(T) /\ Len(r) = (i - 1) + (L - i)
      /\ \A j \in 1..Len(r) : r[j] = IF j <= i - 1 THEN front[j] ELSE back[j - (i - 1)]
  <2>1. front \in Seq(T) /\ back \in Seq(T)
    BY <1>3, <1>4
  <2>2. /\ r \in Seq(T) /\ Len(r) = Len(front) + Len(back)
        /\ \A j \in 1..Len(r) : r[j] = IF j <= Len(front) THEN front[j] ELSE back[j - Len(front)]
    BY <1>5, <2>1, ConcatProperties
  <2> QED
    BY <1>3, <1>4, <2>2
<1>7. i \in Nat /\ i <= L /\ 1 <= i /\ Len(r) = L - 1
  BY <1>1, <1>6
<1>8. ASSUME NEW j \in 1..(L - 1)
      PROVE  r[j] = IF j < i THEN s[j] ELSE s[j + 1]
  <2>1. CASE j < i
    BY <1>3, <1>6, <1>7, <2>1
  <2>2. CASE ~(j < i)
    <3>1. r[j] = back[j - (i - 1)] /\ j - (i - 1) \in 1..(L - i)
      BY <1>6, <1>7, <2>2
    <3>2. i + (j - (i - 1)) = j + 1
      BY <1>7
    <3> QED
      BY <1>4, <2>2, <3>1, <3>2
  <2> QED
    BY <2>1, <2>2
<1> QED
  BY <1>1, <1>6, <1>7, <1>8

LEMMA HitsOfRemoved ==
  ASSUME NEW T, NEW s \in Seq(T), NEW i \in 1..Len(s), NEW P, NEW r, r = RemoveAt(s, i)
  PROVE  Cardinality(Hits(r, P))
           = IF s[i] \in P THEN Cardinality(Hits(s, P)) - 1 ELSE Cardinality(Hits(s, P))
<1>1. PICK L \in Nat : L = Len(s)
  OBVIOUS
<1>2. /\ i \in Nat /\ 1 <= i /\ i <= L /\ r \in Seq(T) /\ Len(r) = L - 1
      /\ \A j \in 1..(L - 1) : r[j] = IF j < i THEN s[j] ELSE s[j + 1]
  <2>1. /\ r \in Seq(T) /\ Len(r) = Len(s) - 1
        /\ \A j \in 1..(Len(s) - 1) : r[j] = IF j < i THEN s[j] ELSE s[j + 1]
    BY RemovedAt
  <2> QED
    BY <1>1, <2>1
<1>3. PICK H, R : H = Hits(s, P) \ {i} /\ R = Hits(r, P)
  OBVIOUS
<1>4. PICK f : f = [j \in R |-> IF j < i THEN j ELSE j + 1]
  OBVIOUS
<1>5. /\ R = {j \in 1..(L - 1) : r[j] \in P}
      /\ H = {j \in 1..L : s[j] \in P /\ j # i}
  BY <1>1, <1>2, <1>3 DEF Hits
<1>6. f \in [R -> H]
  BY <1>2, <1>4, <1>5
<1>7. \A j, k \in R : f[j] = f[k] => j = k
  BY <1>2, <1>4, <1>5
<1>8. \A k \in H : \E j \in R : f[j] = k
  <2> SUFFICES ASSUME NEW k \in H PROVE \E j \in R : f[j] = k
    OBVIOUS
  <2>1. CASE k < i
    <3>1. k \in R /\ f[k] = k
      BY <1>2, <1>4, <1>5, <2>1
    <3> QED
      BY <3>1
  <2>2. CASE ~(k < i)
    <3>1. k - 1 \in R /\ f[k - 1] = k
      BY <1>2, <1>4, <1>5, <2>2
    <3> QED
      BY <3>1
  <2> QED
    BY <2>1, <2>2
<1>9. f \in Surjection(R, H) /\ f \in Injection(R, H)
  BY <1>6, <1>7, <1>8 DEF Surjection, Injection, IsInjective
<1>10. IsFiniteSet(R) /\ IsFiniteSet(Hits(s, P)) /\ Cardinality(Hits(s, P)) \in Nat
  BY <1>2, <1>3, HitsFinite
<1>11. Cardinality(R) = Cardinality(H)
  BY <1>9, <1>10, FS_Surjection
<1>12. Cardinality(H) = IF i \in Hits(s, P) THEN Cardinality(Hits(s, P)) - 1
                        ELSE Cardinality(Hits(s, P))
  BY <1>3, <1>10, FS_RemoveElement
<1>13. i \in Hits(s, P) <=> s[i] \in P
  BY DEF Hits
<1> QED
  BY <1>3, <1>11, <1>12, <1>13

(* The first of the places is one of them.                                   *)
LEMMA FirstIsHit ==
  ASSUME NEW T, NEW s \in Seq(T), NEW x, NEW i \in 1..Len(s), s[i] = x
  PROVE  FirstOf(x, s) \in 1..Len(s) /\ s[FirstOf(x, s)] = x
<1> DEFINE I == {j \in 1..Len(s) : s[j] = x}
<1>1. I \in SUBSET Nat /\ I # {}
  OBVIOUS
<1>2. FirstOf(x, s) = Min(I)
  BY <1>1 DEF FirstOf, SelectInSeq
<1>3. Min(I) \in I
  <2> HIDE DEF I
  <2>1. \E m \in I : \A n \in I : m <= n
    BY <1>1, LeastExists
  <2> QED
    BY <2>1 DEF Min
<1> QED
  BY <1>2, <1>3

-----------------------------------------------------------------------------
HookEntries == [module : Modules, function : Functions, number : 1..MaxRecords]
ToolTables  == UNION {[S -> 1..MaxRecords] : S \in SUBSET Names}
Listings    == [module : Modules, tools : ToolTables]
Codes       == {NobodyRuns} \union [module : Modules, as : {"factory", "call"}]
Found       == {NoRecord} \union [module : Modules, number : 1..MaxRecords]

RegTypes ==
  /\ own \in [RecordKinds -> [Modules -> [Names -> 0..MaxRecords]]]
  /\ index \in [RecordKinds -> [Names -> Found]]
  /\ records \in 0..MaxRecords /\ loads \in 0..MaxLoads
  /\ handlersOf \in [Lists -> [Modules -> Seq(Functions)]]
  /\ hookIndex \in [Lists -> Seq(HookEntries)]
  /\ agenda \in Seq(HookEntries) /\ active \in Codes
  /\ listed \in Seq(Listings) /\ jsCommands \subseteq Names /\ failed \subseteq Modules

Factory(m) == [module |-> m, as |-> "factory"]

(* A module whose code has been loaded, if only to fail, or is being loaded.    *)
Known(m) == m \in Modules /\ (IsListed(m) \/ m \in failed \/ active = Factory(m))

(* Nothing is from an extension that nobody has loaded.                        *)
OwnIsKnown ==
  \A k \in RecordKinds, m \in Modules, n \in Names :
    own[k][m][n] # 0 => Known(m) /\ own[k][m][n] <= records
HooksAreKnown ==
  /\ \A l \in Lists : \A i \in 1..Len(hookIndex[l]) :
       Known(hookIndex[l][i].module) /\ hookIndex[l][i].number <= records
  /\ \A i \in 1..Len(agenda) : Known(agenda[i].module)
ActiveIsKnown == active # NobodyRuns => Known(active.module)

(* An extension is listed once, with what it has.                            *)
ListedOnce ==
  /\ \A i, j \in 1..Len(listed) : listed[i].module = listed[j].module => i = j
  /\ active.as = "factory" => ~IsListed(active.module)
ListedTools ==
  \A i \in 1..Len(listed) : \A n \in DOMAIN listed[i].tools :
    /\ n \in Names /\ listed[i].tools[n] # 0
    /\ own["tool"][listed[i].module][n] = listed[i].tools[n]

(* A listed extension whose tool draws for others of its name was listed first  *)
(* among them, or failed before; what is being loaded for the first time         *)
(* registers its tools after all that are listed.                            *)
FirstDraws ==
  \A n \in Names : \A i, j \in Offers(n) :
    j < i /\ index["tool"][n].module = listed[i].module => listed[i].module \in failed
LoadedIsLater ==
  active.as = "factory" /\ active.module \notin failed =>
    \A n \in Names : \A i \in Offers(n) :
      own["tool"][active.module][n] # 0 =>
        own["tool"][active.module][n] > listed[i].tools[n]

RegistryInv ==
  /\ RegTypes
  /\ OwnIsKnown /\ HooksAreKnown /\ ActiveIsKnown
  /\ ListedOnce /\ ListedTools /\ FirstDraws /\ LoadedIsLater
  /\ IndexesAgree /\ ListedCommandsAreFound /\ HooksAgree

-----------------------------------------------------------------------------
(* Steps that register nothing and list nothing.                             *)
Tables == <<own, index, records, handlersOf, hookIndex, listed, jsCommands>>

LEMMA KnownStays ==
  ASSUME NEW m, Known(m), listed' = listed, failed \subseteq failed',
         active.as = "factory" => active' = active \/ active.module \in failed'
  PROVE  Known(m)'
<1>1. CASE IsListed(m)
  BY <1>1 DEF Known, IsListed
<1>2. CASE m \in failed
  BY <1>2 DEF Known
<1>3. CASE active = Factory(m)
  BY <1>3 DEF Known, Factory
<1> QED
  BY <1>1, <1>2, <1>3 DEF Known

LEMMA QuietStep ==
  ASSUME RegistryInv, UNCHANGED Tables, RegTypes', failed \subseteq failed',
         active.as = "factory" => active' = active \/ active.module \in failed',
         (\A i \in 1..Len(agenda) : Known(agenda[i].module))',
         ActiveIsKnown',
         active'.as = "factory" => active' = active \/ ~IsListed(active'.module)
  PROVE  RegistryInv'
<1>1. /\ RegTypes /\ OwnIsKnown /\ HooksAreKnown /\ ActiveIsKnown /\ ListedOnce /\ ListedTools
      /\ FirstDraws /\ LoadedIsLater /\ IndexesAgree /\ ListedCommandsAreFound /\ HooksAgree
  BY DEF RegistryInv
<1>2. /\ own' = own /\ index' = index /\ records' = records /\ handlersOf' = handlersOf
      /\ hookIndex' = hookIndex /\ listed' = listed /\ jsCommands' = jsCommands
  BY DEF Tables
<1>3. \A m : Known(m) => Known(m)'
  BY <1>2, KnownStays
<1>4. OwnIsKnown'
  BY <1>1, <1>2, <1>3 DEF OwnIsKnown
<1>5. HooksAreKnown'
  <2>1. ASSUME NEW l \in Lists, NEW i \in (1..Len(hookIndex[l]))'
        PROVE  Known(hookIndex[l][i].module)' /\ (hookIndex[l][i].number <= records)'
    <3>0. i \in 1..Len(hookIndex[l])
      BY <1>2
    <3>1. PICK m : m = hookIndex[l][i].module
      OBVIOUS
    <3>2. Known(m) /\ hookIndex[l][i].number <= records
      BY <1>1, <3>0, <3>1 DEF HooksAreKnown
    <3>3. Known(m)' /\ m = hookIndex'[l][i].module
      BY <1>2, <1>3, <3>1, <3>2
    <3> QED
      BY <1>2, <3>2, <3>3 DEF Known, IsListed
  <2>2. (\A i \in 1..Len(agenda) : Known(agenda[i].module))'
    OBVIOUS
  <2> QED
    BY <2>1, <2>2 DEF HooksAreKnown
<1>6. active'.as = "factory" => active'.module \in Modules /\ active' = Factory(active'.module)
  BY DEF RegTypes, Codes, NobodyRuns, Factory
<1>7. ListedOnce'
  <2>1. active'.as = "factory" => ~IsListed(active'.module)
    <3>1. CASE active'.as = "factory" /\ active' # active
      BY <3>1
    <3>2. CASE active' = active
      BY <1>1, <3>2 DEF ListedOnce
    <3> QED
      BY <3>1, <3>2
  <2> QED
    BY <1>1, <1>2, <2>1 DEF ListedOnce, IsListed
<1>8. ListedTools'
  BY <1>1, <1>2 DEF ListedTools
<1>9. FirstDraws'
  BY <1>1, <1>2 DEF FirstDraws, Offers
<1>10. LoadedIsLater'
  <2>1. CASE active' = active
    BY <1>1, <1>2, <2>1 DEF LoadedIsLater, Offers
  <2>2. CASE active'.as = "factory" /\ active' # active
    <3>1. CASE active'.module \in failed
      BY <3>1 DEF LoadedIsLater
    <3>2. CASE active'.module \notin failed
      <4>1. active'.module \in Modules /\ ~Known(active'.module)
        BY <1>6, <2>2, <3>2 DEF Known
      <4>2. \A n \in Names : own["tool"][active'.module][n] = 0
        BY <1>1, <4>1 DEF OwnIsKnown, RecordKinds
      <4> QED
        BY <1>2, <4>2 DEF LoadedIsLater
    <3> QED
      BY <3>1, <3>2
  <2>3. CASE active'.as # "factory"
    BY <2>3 DEF LoadedIsLater
  <2> QED
    BY <2>1, <2>2, <2>3
<1>11. IndexesAgree'
  BY <1>1, <1>2 DEF IndexesAgree, Registrants
<1>12. ListedCommandsAreFound'
  BY <1>1, <1>2 DEF ListedCommandsAreFound
<1>13. HooksAgree'
  BY <1>1, <1>2 DEF HooksAgree, Times
<1> QED
  BY <1>1, <1>4, <1>5, <1>7, <1>8, <1>9, <1>10, <1>11, <1>12, <1>13 DEF RegistryInv

LEMMA RegistryStarts == RegistryInit => RegistryInv
<1> SUFFICES ASSUME RegistryInit PROVE RegistryInv
  OBVIOUS
<1>1. /\ own = [k \in RecordKinds |-> [m \in Modules |-> [n \in Names |-> 0]]]
      /\ index = [k \in RecordKinds |-> [n \in Names |-> NoRecord]]
      /\ records = 0 /\ handlersOf = [l \in Lists |-> [m \in Modules |-> <<>>]]
      /\ hookIndex = [l \in Lists |-> <<>>]
      /\ agenda = <<>> /\ active = NobodyRuns
      /\ listed = <<>> /\ jsCommands = {} /\ loads = 0 /\ failed = {}
  BY DEF RegistryInit
<1>2. MaxRecords \in Nat /\ MaxLoads \in Nat /\ NoModule \notin Modules
  BY RegistryConstants
<1>3. RegTypes
  <2>1. NoRecord \in Found
    BY DEF Found
  <2>2. index \in [RecordKinds -> [Names -> Found]]
    BY <1>1, <2>1
  <2>3. own \in [RecordKinds -> [Modules -> [Names -> 0..MaxRecords]]]
    BY <1>1, <1>2
  <2> QED
    BY <1>1, <1>2, <2>2, <2>3 DEF RegTypes, Codes
<1>4. OwnIsKnown /\ HooksAreKnown /\ ActiveIsKnown
  BY <1>1 DEF OwnIsKnown, HooksAreKnown, ActiveIsKnown
<1>5. ListedOnce /\ ListedTools /\ LoadedIsLater
  BY <1>1 DEF ListedOnce, ListedTools, LoadedIsLater, NobodyRuns
<1>6. FirstDraws
  BY <1>1 DEF FirstDraws, Offers
<1>7. IndexesAgree
  <2>1. \A kind \in RecordKinds, n \in Names : index[kind][n] = NoRecord /\ Registrants(kind, n) = {}
    BY <1>1 DEF Registrants
  <2> QED
    BY <2>1 DEF IndexesAgree
<1>8. ListedCommandsAreFound
  BY <1>1 DEF ListedCommandsAreFound
<1>9. HooksAgree
  <2> SUFFICES ASSUME NEW l \in Lists
               PROVE  /\ \A m \in Modules, function \in Functions :
                           Times(function, handlersOf[l][m])
                             = Cardinality({i \in DOMAIN hookIndex[l] :
                                              /\ hookIndex[l][i].module = m
                                              /\ hookIndex[l][i].function = function})
                      /\ \A i, j \in DOMAIN hookIndex[l] :
                           i < j => hookIndex[l][i].number < hookIndex[l][j].number
    BY DEF HooksAgree
  <2>1. hookIndex[l] = <<>> /\ \A m \in Modules : handlersOf[l][m] = <<>>
    BY <1>1
  <2>2. DOMAIN hookIndex[l] = {} /\ \A m \in Modules : DOMAIN handlersOf[l][m] = {}
    BY <2>1
  <2> QED
    BY <2>2 DEF Times
<1> QED
  BY <1>3, <1>4, <1>5, <1>6, <1>7, <1>8, <1>9 DEF RegistryInv

-----------------------------------------------------------------------------
(* Registrations                                                             *)

LEMMA RegistryCode ==
  ASSUME RegistryInv
  PROVE  /\ active = NobodyRuns \/ (active.module \in Modules /\ active.as \in {"factory", "call"})
         /\ NobodyRuns.as = "nothing" /\ NobodyRuns.module \notin Modules
         /\ active.as = "factory" => active = Factory(active.module)
  BY RegistryConstants DEF RegistryInv, RegTypes, Codes, NobodyRuns, Factory

(* A record is put into the extension's own table and, perhaps, into the index. *)
Recorded(kind, n, indexed) ==
  /\ \A k \in RecordKinds, m \in Modules, x \in Names :
       own'[k][m][x] = IF k = kind /\ m = active.module /\ x = n THEN records + 1 ELSE own[k][m][x]
  /\ \A k \in RecordKinds, x \in Names :
       index'[k][x] = IF indexed /\ k = kind /\ x = n
                      THEN [module |-> active.module, number |-> records + 1] ELSE index[k][x]

LEMMA AddRecordFacts ==
  ASSUME RegistryInv, NEW kind \in RecordKinds, NEW n \in Names, NEW indexed \in BOOLEAN,
         AddRecord(kind, n, indexed)
  PROVE  /\ Recorded(kind, n, indexed) /\ RegTypes' /\ records' = records + 1
         /\ active.module \in Modules /\ active # NobodyRuns
         /\ UNCHANGED <<handlersOf, hookIndex, agenda, active, listed, jsCommands, loads, failed>>
<1>1. /\ active # NobodyRuns /\ records < MaxRecords /\ records' = records + 1
      /\ own' = [own EXCEPT ![kind][active.module][n] = records + 1]
      /\ index' = IF indexed
                  THEN [index EXCEPT ![kind][n] = [module |-> active.module, number |-> records + 1]]
                  ELSE index
      /\ UNCHANGED <<handlersOf, hookIndex, agenda, active, listed, jsCommands, loads, failed>>
  BY DEF AddRecord
<1>2. RegTypes /\ active.module \in Modules /\ MaxRecords \in Nat
  BY <1>1, RegistryCode, RegistryConstants DEF RegistryInv
<1>3. PICK a, r : a = active.module /\ r = records + 1
  OBVIOUS
<1>4. r \in 1..MaxRecords /\ a \in Modules
  BY <1>1, <1>2, <1>3 DEF RegTypes
<1>5. own' = [own EXCEPT ![kind][a][n] = r]
  BY <1>1, <1>3
<1>6. own \in [RecordKinds -> [Modules -> [Names -> 0..MaxRecords]]]
  BY <1>2 DEF RegTypes
<1>7. /\ own' \in [RecordKinds -> [Modules -> [Names -> 0..MaxRecords]]]
      /\ \A k \in RecordKinds, m \in Modules, x \in Names :
           own'[k][m][x] = IF k = kind /\ m = a /\ x = n THEN r ELSE own[k][m][x]
  BY <1>4, <1>5, <1>6
<1>8. PICK rec : rec = [module |-> a, number |-> r]
  OBVIOUS
<1>9. rec \in Found
  BY <1>4, <1>8 DEF Found
<1>10. index \in [RecordKinds -> [Names -> Found]]
  BY <1>2 DEF RegTypes
<1>11. index' = IF indexed THEN [index EXCEPT ![kind][n] = rec] ELSE index
  BY <1>1, <1>3, <1>8
<1>12. /\ index' \in [RecordKinds -> [Names -> Found]]
       /\ \A k \in RecordKinds, x \in Names :
            index'[k][x] = IF indexed /\ k = kind /\ x = n THEN rec ELSE index[k][x]
  BY <1>9, <1>10, <1>11
<1>13. RegTypes'
  BY <1>1, <1>2, <1>3, <1>4, <1>7, <1>12 DEF RegTypes
<1>14. Recorded(kind, n, indexed)
  BY <1>3, <1>7, <1>8, <1>12 DEF Recorded
<1> QED
  BY <1>1, <1>2, <1>13, <1>14

(* What may be registered: a tool the extension has not, indexed if it is the    *)
(* first; a name nobody else has; anything of a kind of which the last counts.   *)
MayRecord(kind, n, indexed) ==
  \/ /\ kind = "tool" /\ own["tool"][active.module][n] = 0
     /\ indexed = (index["tool"][n] = NoRecord)
  \/ kind \in {"command", "provider", "server"} /\ indexed = TRUE /\ IsFreeOrOwn(kind, n)
  \/ kind \in {"shortcut", "message", "entry"} /\ indexed = TRUE

(* An index agrees about one name if the record it has is right.              *)
FoundAgrees(kind, n, idx, tab) ==
  LET all == {m \in Modules : tab[kind][m][n] # 0}
      found == idx[kind][n]
  IN  /\ found = NoRecord <=> all = {}
      /\ found # NoRecord => tab[kind][found.module][n] = found.number
      /\ \A m \in all :
           CASE kind = "tool" -> found.number <= tab[kind][m][n]
             [] kind \in {"shortcut", "message", "entry"} -> tab[kind][m][n] <= found.number
             [] OTHER -> m = found.module

LEMMA FoundAgree ==
  /\ IndexesAgree <=> \A kind \in RecordKinds, n \in Names : FoundAgrees(kind, n, index, own)
  /\ IndexesAgree' <=> \A kind \in RecordKinds, n \in Names : FoundAgrees(kind, n, index', own')
  BY DEF IndexesAgree, Registrants, FoundAgrees

(* The record an index has is an extension's.                                *)
LEMMA FoundIsOwn ==
  ASSUME RegistryInv, NEW kind \in RecordKinds, NEW n \in Names
  PROVE  /\ index[kind][n] # NoRecord =>
              /\ index[kind][n].module \in Modules /\ index[kind][n].number # 0
              /\ own[kind][index[kind][n].module][n] = index[kind][n].number
         /\ index[kind][n] = NoRecord <=> \A m \in Modules : own[kind][m][n] = 0
         /\ index[kind][n] = NoRecord <=> index[kind][n].module = NoModule
<1>1. /\ index[kind][n] \in Found /\ NoModule \notin Modules
      /\ \A m \in Modules : own[kind][m][n] \in 0..MaxRecords
  BY RegistryConstants DEF RegistryInv, RegTypes
<1>2. FoundAgrees(kind, n, index, own)
  BY FoundAgree DEF RegistryInv
<1>3. PICK f : f = index[kind][n]
  OBVIOUS
<1>4. f = NoRecord <=> \A m \in Modules : own[kind][m][n] = 0
  BY <1>2, <1>3 DEF FoundAgrees
<1>5. f # NoRecord => f.module \in Modules /\ f.number # 0 /\ own[kind][f.module][n] = f.number
  <2>1. f # NoRecord => f.module \in Modules /\ f.number \in 1..MaxRecords
    BY <1>1, <1>3 DEF Found
  <2>2. f # NoRecord => own[kind][f.module][n] = f.number
    BY <1>2, <1>3 DEF FoundAgrees
  <2> QED
    BY <2>1, <2>2
<1>6. f = NoRecord <=> f.module = NoModule
  BY <1>1, <1>5 DEF NoRecord
<1> QED
  BY <1>3, <1>4, <1>5, <1>6

LEMMA RecordKeepsIndexes ==
  ASSUME RegistryInv, NEW kind \in RecordKinds, NEW n \in Names, NEW indexed \in BOOLEAN,
         AddRecord(kind, n, indexed), MayRecord(kind, n, indexed)
  PROVE  IndexesAgree'
<1>0. /\ Recorded(kind, n, indexed) /\ active.module \in Modules /\ records' = records + 1
      /\ NoModule \notin Modules
  BY AddRecordFacts, RegistryConstants
<1>1. SUFFICES ASSUME NEW k \in RecordKinds, NEW x \in Names PROVE FoundAgrees(k, x, index', own')
  BY FoundAgree
<1>2. FoundAgrees(k, x, index, own)
  BY FoundAgree DEF RegistryInv
<1>3. CASE ~(k = kind /\ x = n)
  <2>1. index'[k][x] = index[k][x] /\ \A m \in Modules : own'[k][m][x] = own[k][m][x]
    BY <1>0, <1>3 DEF Recorded
  <2>2. index[k][x] # NoRecord => index[k][x].module \in Modules
    BY FoundIsOwn
  <2> QED
    BY <1>2, <2>1, <2>2 DEF FoundAgrees
<1>4. CASE k = kind /\ x = n
  <2>1. PICK a, r, f, g : /\ a = active.module /\ r = records + 1 /\ f = index[k][x]
                          /\ g = index'[k][x]
    OBVIOUS
  <2>2. /\ \A m \in Modules : own'[k][m][x] = IF m = a THEN r ELSE own[k][m][x]
        /\ g = IF indexed THEN [module |-> a, number |-> r] ELSE f
        /\ a \in Modules
    BY <1>0, <1>4, <2>1 DEF Recorded
  <2>3. /\ r \in Nat /\ r # 0 /\ [module |-> a, number |-> r] # NoRecord
        /\ \A m \in Modules : own[k][m][x] \in Nat /\ own[k][m][x] < r
    <3>1. records \in Nat /\ \A m \in Modules : own[k][m][x] \in Nat
      BY DEF RegistryInv, RegTypes
    <3>2. \A m \in Modules : own[k][m][x] <= records
      BY <3>1 DEF RegistryInv, OwnIsKnown
    <3> QED
      BY <1>0, <2>1, <2>2, <3>1, <3>2 DEF NoRecord
  <2>4. /\ f # NoRecord => f.module \in Modules /\ f.number # 0 /\ own[k][f.module][x] = f.number
        /\ f = NoRecord <=> \A m \in Modules : own[k][m][x] = 0
        /\ f = NoRecord <=> f.module = NoModule
    BY <2>1, FoundIsOwn
  <2>5. CASE kind = "tool" /\ ~indexed
    <3>1. own[k][a][x] = 0 /\ f # NoRecord /\ g = f
      BY <1>4, <2>1, <2>2, <2>5 DEF MayRecord
    <3>2. f.module # a /\ own'[k][f.module][x] = f.number
      BY <2>2, <2>4, <3>1
    <3>3. \A m \in Modules : own[k][m][x] # 0 => f.number <= own[k][m][x]
      BY <1>2, <1>4, <2>1, <2>5 DEF FoundAgrees
    <3>4. f.number \in Nat /\ f.number < r
      BY <2>3, <2>4, <3>1
    <3>5. \A m \in Modules : own'[k][m][x] # 0 => g.number <= own'[k][m][x]
      BY <2>2, <2>3, <3>1, <3>3, <3>4
    <3>6. \E m \in Modules : own'[k][m][x] # 0
      BY <2>2, <2>3
    <3> QED
      BY <1>4, <2>1, <2>5, <3>1, <3>2, <3>5, <3>6 DEF FoundAgrees
  <2>6. CASE indexed
    <3>1. g = [module |-> a, number |-> r] /\ g # NoRecord /\ own'[k][a][x] = r
      BY <2>2, <2>3, <2>6
    <3>2. \A m \in Modules : own'[k][m][x] # 0 =>
            CASE k = "tool" -> g.number <= own'[k][m][x]
              [] k \in {"shortcut", "message", "entry"} -> own'[k][m][x] <= g.number
              [] OTHER -> m = g.module
      <4>1. CASE k = "tool"
        <5>1. \A m \in Modules : own[k][m][x] = 0
          BY <1>4, <2>1, <2>4, <2>6, <4>1 DEF MayRecord
        <5> QED
          BY <2>2, <2>3, <3>1, <4>1, <5>1
      <4>2. CASE k \in {"shortcut", "message", "entry"}
        BY <2>2, <2>3, <3>1, <4>2
      <4>3. CASE k \in {"command", "provider", "server"}
        <5>1. f.module \in {NoModule, a}
          BY <1>4, <2>1, <4>3 DEF MayRecord, IsFreeOrOwn
        <5>2. \A m \in Modules : own[k][m][x] # 0 => m = f.module
          BY <1>2, <1>4, <2>1, <4>3 DEF FoundAgrees
        <5>3. \A m \in Modules : own[k][m][x] # 0 => m = a
          BY <1>0, <2>4, <5>1, <5>2
        <5> QED
          BY <2>2, <3>1, <4>3, <5>3
      <4> QED
        BY <4>1, <4>2, <4>3 DEF RecordKinds
    <3> QED
      BY <2>1, <2>2, <2>3, <3>1, <3>2 DEF FoundAgrees
  <2> QED
    BY <1>4, <2>5, <2>6 DEF MayRecord
<1> QED
  BY <1>3, <1>4

LEMMA RecordKeepsInv ==
  ASSUME RegistryInv, NEW kind \in RecordKinds, NEW n \in Names, NEW indexed \in BOOLEAN,
         AddRecord(kind, n, indexed), MayRecord(kind, n, indexed)
  PROVE  RegistryInv'
<1>0. /\ Recorded(kind, n, indexed) /\ RegTypes' /\ records' = records + 1
      /\ active.module \in Modules /\ active # NobodyRuns
      /\ handlersOf' = handlersOf /\ hookIndex' = hookIndex /\ agenda' = agenda /\ active' = active
      /\ listed' = listed /\ jsCommands' = jsCommands /\ failed' = failed
  BY AddRecordFacts
<1>1. /\ RegTypes /\ OwnIsKnown /\ HooksAreKnown /\ ActiveIsKnown /\ ListedOnce /\ ListedTools
      /\ FirstDraws /\ LoadedIsLater /\ IndexesAgree /\ ListedCommandsAreFound /\ HooksAgree
  BY DEF RegistryInv
<1>2. \A m : Known(m) <=> Known(m)'
  BY <1>0 DEF Known, IsListed
<1>3. /\ records \in Nat
      /\ \A k \in RecordKinds, m \in Modules, x \in Names : own[k][m][x] \in Nat
  BY <1>1 DEF RegTypes
<1>4. OwnIsKnown'
  <2> SUFFICES ASSUME NEW k \in RecordKinds, NEW m \in Modules, NEW x \in Names, own'[k][m][x] # 0
               PROVE  Known(m)' /\ own'[k][m][x] <= records'
    BY DEF OwnIsKnown
  <2>1. CASE k = kind /\ m = active.module /\ x = n
    <3>1. Known(m)
      BY <1>0, <1>1, <2>1 DEF ActiveIsKnown
    <3> QED
      BY <1>0, <1>2, <1>3, <2>1, <3>1 DEF Recorded
  <2>2. CASE ~(k = kind /\ m = active.module /\ x = n)
    <3>1. own'[k][m][x] = own[k][m][x]
      BY <1>0, <2>2 DEF Recorded
    <3>2. Known(m) /\ own[k][m][x] <= records
      BY <1>1, <3>1 DEF OwnIsKnown
    <3> QED
      BY <1>0, <1>2, <1>3, <3>1, <3>2
  <2> QED
    BY <2>1, <2>2
<1>5. HooksAreKnown'
  <2>1. ASSUME NEW l \in Lists, NEW i \in (1..Len(hookIndex[l]))'
        PROVE  Known(hookIndex[l][i].module)' /\ (hookIndex[l][i].number <= records)'
    <3>1. i \in 1..Len(hookIndex[l]) /\ hookIndex[l] \in Seq(HookEntries)
      BY <1>0, <1>1 DEF RegTypes
    <3>2. Known(hookIndex[l][i].module) /\ hookIndex[l][i].number <= records
      BY <1>1, <3>1 DEF HooksAreKnown
    <3>3. hookIndex[l][i].number \in Nat
      <4>1. hookIndex[l][i] \in HookEntries
        BY <3>1, ElementOfSeq
      <4> QED
        BY <4>1 DEF HookEntries
    <3> QED
      BY <1>0, <1>3, <3>2, <3>3 DEF Known, IsListed
  <2>2. (\A i \in 1..Len(agenda) : Known(agenda[i].module))'
    BY <1>0, <1>1 DEF HooksAreKnown, Known, IsListed
  <2> QED
    BY <2>1, <2>2 DEF HooksAreKnown
<1>6. ActiveIsKnown'
  BY <1>0, <1>1 DEF ActiveIsKnown, Known, IsListed
<1>7. ListedOnce'
  BY <1>0, <1>1 DEF ListedOnce, IsListed
<1>8. /\ \A i \in 1..Len(listed) : listed[i].module \in Modules
      /\ "tool" \in RecordKinds /\ listed \in Seq(Listings)
  <2>1. listed \in Seq(Listings)
    BY <1>1 DEF RegTypes
  <2>2. \A i \in 1..Len(listed) : listed[i] \in Listings
    BY <2>1, ElementOfSeq
  <2> QED
    BY <2>1, <2>2 DEF Listings, RecordKinds
<1>9. \A i \in 1..Len(listed) : \A x \in DOMAIN listed[i].tools :
        /\ x \in Names
        /\ own'["tool"][listed[i].module][x] = own["tool"][listed[i].module][x]
  <2> SUFFICES ASSUME NEW i \in 1..Len(listed), NEW x \in DOMAIN listed[i].tools
               PROVE  /\ x \in Names
                      /\ own'["tool"][listed[i].module][x] = own["tool"][listed[i].module][x]
    OBVIOUS
  <2>1. x \in Names /\ own["tool"][listed[i].module][x] # 0
    BY <1>1 DEF ListedTools
  <2>2. ~(kind = "tool" /\ active.module = listed[i].module /\ n = x)
    BY <2>1 DEF MayRecord
  <2> QED
    BY <1>0, <1>8, <2>1, <2>2 DEF Recorded
<1>10. ListedTools'
  BY <1>0, <1>1, <1>9 DEF ListedTools
<1>11. \A x \in Names : Offers(x) # {} => index'["tool"][x] = index["tool"][x]
  <2> SUFFICES ASSUME NEW x \in Names, NEW i \in Offers(x)
               PROVE  index'["tool"][x] = index["tool"][x]
    OBVIOUS
  <2>1. i \in 1..Len(listed) /\ own["tool"][listed[i].module][x] # 0 /\ listed[i].module \in Modules
    BY <1>1, <1>8 DEF Offers, ListedTools
  <2>2. index["tool"][x] # NoRecord
    BY <1>8, <2>1, FoundIsOwn
  <2>3. ~(indexed /\ kind = "tool" /\ x = n)
    BY <2>2 DEF MayRecord
  <2> QED
    BY <1>0, <1>8, <2>3 DEF Recorded
<1>12. \A x : Offers(x)' = Offers(x)
  BY <1>0 DEF Offers
<1>13. FirstDraws'
  BY <1>0, <1>1, <1>11, <1>12 DEF FirstDraws
<1>14. LoadedIsLater'
  <2> SUFFICES ASSUME active.as = "factory", active.module \notin failed,
                      NEW x \in Names, NEW i \in Offers(x), own'["tool"][active.module][x] # 0
               PROVE  own'["tool"][active.module][x] > listed[i].tools[x]
    BY <1>0, <1>12 DEF LoadedIsLater
  <2>1. /\ i \in 1..Len(listed) /\ own["tool"][listed[i].module][x] = listed[i].tools[x]
        /\ listed[i].module \in Modules
    BY <1>1, <1>8 DEF Offers, ListedTools
  <2>2. listed[i].tools[x] \in Nat /\ listed[i].tools[x] <= records
    <3>1. own["tool"][listed[i].module][x] <= records
      BY <1>1, <1>3, <1>8, <2>1 DEF OwnIsKnown
    <3> QED
      BY <1>3, <1>8, <2>1, <3>1
  <2>3. CASE kind = "tool" /\ x = n
    <3>1. own'["tool"][active.module][x] = records + 1
      BY <1>0, <1>8, <2>3 DEF Recorded
    <3> QED
      BY <1>3, <2>2, <3>1
  <2>4. CASE ~(kind = "tool" /\ x = n)
    <3>1. own'["tool"][active.module][x] = own["tool"][active.module][x]
      BY <1>0, <1>8, <2>4 DEF Recorded
    <3> QED
      BY <1>1, <3>1 DEF LoadedIsLater
  <2> QED
    BY <2>3, <2>4
<1>15. IndexesAgree'
  BY RecordKeepsIndexes
<1>16. ListedCommandsAreFound'
  <2> SUFFICES ASSUME NEW x \in jsCommands PROVE index'["command"][x] # NoRecord
    BY <1>0 DEF ListedCommandsAreFound
  <2>1. index["command"][x] # NoRecord /\ x \in Names /\ "command" \in RecordKinds
    BY <1>1 DEF ListedCommandsAreFound, RegTypes, RecordKinds
  <2>2. [module |-> active.module, number |-> records + 1] # NoRecord
    BY <1>0, RegistryConstants DEF NoRecord
  <2> QED
    BY <1>0, <2>1, <2>2 DEF Recorded
<1>17. HooksAgree'
  BY <1>0, <1>1 DEF HooksAgree, Times
<1> QED
  BY <1>0, <1>4, <1>5, <1>6, <1>7, <1>10, <1>13, <1>14, <1>15, <1>16, <1>17 DEF RegistryInv

-----------------------------------------------------------------------------
(* Subscriptions                                                             *)

Of(m, f) == {e \in HookEntries : e.module = m /\ e.function = f}

(* A list of handlers agrees with its index.                                 *)
ListAgrees(hs, ix) ==
  /\ \A m \in Modules, f \in Functions :
       Cardinality(Hits(hs[m], {f})) = Cardinality(Hits(ix, Of(m, f)))
  /\ \A i, j \in 1..Len(ix) : i < j => ix[i].number < ix[j].number

(* Where an index has a handler.                                             *)
Entries(ix, m, f) == {i \in DOMAIN ix : ix[i].module = m /\ ix[i].function = f}

InOrder(ix) == \A i, j \in DOMAIN ix : i < j => ix[i].number < ix[j].number

(* HooksAgree, of these lists and these indexes.                             *)
AllAgree(hs, ix) ==
  \A l \in Lists :
    /\ \A m \in Modules, f \in Functions :
         Times(f, hs[l][m]) = Cardinality(Entries(ix[l], m, f))
    /\ InOrder(ix[l])

HooksTyped(hs, ix) ==
  hs \in [Lists -> [Modules -> Seq(Functions)]] /\ ix \in [Lists -> Seq(HookEntries)]

LEMMA HooksAllAgree ==
  /\ HooksAgree <=> AllAgree(handlersOf, hookIndex)
  /\ HooksAgree' <=> AllAgree(handlersOf', hookIndex')
  BY DEF HooksAgree, AllAgree, Times, Entries, InOrder

LEMMA ListsAgree ==
  ASSUME NEW hs, NEW ix, HooksTyped(hs, ix)
  PROVE  AllAgree(hs, ix) <=> \A l \in Lists : ListAgrees(hs[l], ix[l])
<1>1. ASSUME NEW l \in Lists, NEW m \in Modules, NEW f \in Functions
      PROVE  /\ Times(f, hs[l][m]) = Cardinality(Hits(hs[l][m], {f}))
             /\ Entries(ix[l], m, f) = Hits(ix[l], Of(m, f))
  <2>1. hs[l][m] \in Seq(Functions) /\ ix[l] \in Seq(HookEntries)
    BY DEF HooksTyped
  <2>2. DOMAIN hs[l][m] = 1..Len(hs[l][m]) /\ DOMAIN ix[l] = 1..Len(ix[l])
    BY <2>1
  <2>3. {i \in DOMAIN hs[l][m] : hs[l][m][i] = f} = Hits(hs[l][m], {f})
    BY <2>2 DEF Hits
  <2>4. \A i \in 1..Len(ix[l]) : ix[l][i] \in HookEntries
    BY <2>1, ElementOfSeq
  <2> QED
    BY <2>2, <2>3, <2>4 DEF Hits, Of, Times, Entries
<1>2. ASSUME NEW l \in Lists
      PROVE  InOrder(ix[l]) <=> \A i, j \in 1..Len(ix[l]) : i < j => ix[l][i].number < ix[l][j].number
  <2>1. DOMAIN ix[l] = 1..Len(ix[l])
    BY DEF HooksTyped
  <2> QED
    BY <2>1 DEF InOrder
<1>3. ASSUME NEW l \in Lists, NEW m \in Modules, NEW f \in Functions
      PROVE  Times(f, hs[l][m]) = Cardinality(Entries(ix[l], m, f))
               <=> Cardinality(Hits(hs[l][m], {f})) = Cardinality(Hits(ix[l], Of(m, f)))
  BY <1>1
<1>4. AllAgree(hs, ix) <=>
        \A l \in Lists :
          /\ \A m \in Modules, f \in Functions :
               Cardinality(Hits(hs[l][m], {f})) = Cardinality(Hits(ix[l], Of(m, f)))
          /\ InOrder(ix[l])
  BY <1>3 DEF AllAgree
<1> QED
  BY <1>2, <1>4 DEF ListAgrees

LEMMA AddHandlerKeepsInv ==
  ASSUME RegistryInv, NEW list \in Lists, NEW function \in Functions, AddHandler(list, function)
  PROVE  RegistryInv'
<1>0. /\ active # NobodyRuns /\ records < MaxRecords /\ records' = records + 1
      /\ handlersOf' = [handlersOf EXCEPT ![list][active.module] = Append(@, function)]
      /\ hookIndex' = [hookIndex EXCEPT ![list] =
           Append(@, [module |-> active.module, function |-> function, number |-> records + 1])]
      /\ own' = own /\ index' = index /\ agenda' = agenda /\ active' = active /\ listed' = listed
      /\ jsCommands' = jsCommands /\ loads' = loads /\ failed' = failed
  BY DEF AddHandler
<1>1. /\ RegTypes /\ OwnIsKnown /\ HooksAreKnown /\ ActiveIsKnown /\ ListedOnce /\ ListedTools
      /\ FirstDraws /\ LoadedIsLater /\ IndexesAgree /\ ListedCommandsAreFound /\ HooksAgree
  BY DEF RegistryInv
<1>2. PICK a, e : /\ a = active.module
                  /\ e = [module |-> a, function |-> function, number |-> records + 1]
  OBVIOUS
<1>3. /\ a \in Modules /\ Known(a) /\ records \in Nat /\ MaxRecords \in Nat /\ e \in HookEntries
      /\ e.module = a /\ e.function = function /\ e.number = records + 1
  BY <1>0, <1>1, <1>2, RegistryCode, RegistryConstants DEF ActiveIsKnown, RegTypes, HookEntries
<1>4. /\ handlersOf \in [Lists -> [Modules -> Seq(Functions)]]
      /\ hookIndex \in [Lists -> Seq(HookEntries)]
  BY <1>1 DEF RegTypes
<1>4b. HooksTyped(handlersOf, hookIndex)
  BY <1>4 DEF HooksTyped
<1>5. PICK hs, ix : hs = handlersOf[list][a] /\ ix = hookIndex[list]
  OBVIOUS
<1>6. /\ handlersOf' = [handlersOf EXCEPT ![list][a] = Append(hs, function)]
      /\ hookIndex' = [hookIndex EXCEPT ![list] = Append(ix, e)]
  BY <1>0, <1>2, <1>5
<1>7. hs \in Seq(Functions) /\ ix \in Seq(HookEntries)
  BY <1>3, <1>4, <1>5
<1>8. PICK hs2, ix2 : hs2 = Append(hs, function) /\ ix2 = Append(ix, e)
  OBVIOUS
<1>9. hs2 \in Seq(Functions) /\ ix2 \in Seq(HookEntries)
  BY <1>3, <1>7, <1>8
<1>10. /\ handlersOf' \in [Lists -> [Modules -> Seq(Functions)]]
       /\ hookIndex' \in [Lists -> Seq(HookEntries)]
       /\ \A l \in Lists : hookIndex'[l] = IF l = list THEN ix2 ELSE hookIndex[l]
       /\ \A l \in Lists : l # list => handlersOf'[l] = handlersOf[l]
       /\ \A l \in Lists, m \in Modules :
            handlersOf'[l][m] = IF l = list /\ m = a THEN hs2 ELSE handlersOf[l][m]
  BY <1>3, <1>4, <1>6, <1>8, <1>9
<1>10b. HooksTyped(handlersOf', hookIndex')
  BY <1>10 DEF HooksTyped
<1>11. RegTypes'
  BY <1>0, <1>1, <1>3, <1>10 DEF RegTypes
<1>12. /\ Len(ix2) = Len(ix) + 1 /\ ix2[Len(ix) + 1] = e
       /\ \A i \in 1..Len(ix) : ix2[i] = ix[i]
  BY <1>3, <1>7, <1>8, AppendProperties
<1>13. \A i \in 1..Len(ix2) : i \in 1..Len(ix) \/ i = Len(ix) + 1
  BY <1>7, <1>12
<1>14. HooksAreKnown'
  <2>1. ASSUME NEW l \in Lists, NEW i \in (1..Len(hookIndex[l]))'
        PROVE  Known(hookIndex[l][i].module)' /\ (hookIndex[l][i].number <= records)'
    <3>1. PICK m : m = (hookIndex[l][i].module)'
      OBVIOUS
    <3>2. CASE l # list \/ i # Len(ix) + 1
      <4>1. hookIndex'[l][i] = hookIndex[l][i] /\ i \in 1..Len(hookIndex[l])
        BY <1>5, <1>10, <1>12, <1>13, <3>2
      <4>2. hookIndex[l][i] \in HookEntries
        BY <1>4, <4>1, ElementOfSeq
      <4>3. Known(hookIndex[l][i].module) /\ hookIndex[l][i].number <= records
        BY <1>1, <4>1 DEF HooksAreKnown
      <4> QED
        BY <1>0, <1>3, <4>1, <4>2, <4>3 DEF Known, IsListed, HookEntries
    <3>3. CASE l = list /\ i = Len(ix) + 1
      <4>1. hookIndex'[l][i] = e
        BY <1>10, <1>12, <3>3
      <4> QED
        BY <1>0, <1>3, <4>1 DEF Known, IsListed
    <3> QED
      BY <3>2, <3>3
  <2>2. (\A i \in 1..Len(agenda) : Known(agenda[i].module))'
    BY <1>0, <1>1 DEF HooksAreKnown, Known, IsListed
  <2> QED
    BY <2>1, <2>2 DEF HooksAreKnown
<1>15. OwnIsKnown'
  <2>1. \A k \in RecordKinds, m \in Modules, n \in Names : own[k][m][n] \in Nat
    BY <1>1 DEF RegTypes
  <2> QED
    BY <1>0, <1>1, <1>3, <2>1 DEF OwnIsKnown, Known, IsListed
<1>16. ActiveIsKnown' /\ ListedOnce' /\ ListedTools'
  BY <1>0, <1>1 DEF ActiveIsKnown, Known, IsListed, ListedOnce, ListedTools
<1>17. FirstDraws' /\ LoadedIsLater'
  BY <1>0, <1>1 DEF FirstDraws, LoadedIsLater, Offers
<1>18. IndexesAgree' /\ ListedCommandsAreFound'
  BY <1>0, <1>1 DEF IndexesAgree, Registrants, ListedCommandsAreFound
<1>19. HooksAgree'
  <2>1. \A l \in Lists : ListAgrees(handlersOf[l], hookIndex[l])
    <3>1. AllAgree(handlersOf, hookIndex)
      BY <1>1, HooksAllAgree
    <3> QED
      BY ONLY <1>4b, <3>1, ListsAgree
  <2>2. ASSUME NEW l \in Lists PROVE ListAgrees(handlersOf'[l], hookIndex'[l])
    <3>1. CASE l # list
      BY <1>10, <2>1, <3>1
    <3>2. CASE l = list
      <4>1. ASSUME NEW m \in Modules, NEW f \in Functions
            PROVE  Cardinality(Hits(handlersOf'[l][m], {f})) = Cardinality(Hits(hookIndex'[l], Of(m, f)))
        <5>1. Cardinality(Hits(handlersOf[l][m], {f})) = Cardinality(Hits(ix, Of(m, f)))
          BY <1>5, <2>1, <3>2 DEF ListAgrees
        <5>2. Cardinality(Hits(ix2, Of(m, f)))
                = IF e \in Of(m, f) THEN Cardinality(Hits(ix, Of(m, f))) + 1
                  ELSE Cardinality(Hits(ix, Of(m, f)))
          BY <1>3, <1>7, <1>8, HitsOfAppend
        <5>3. Cardinality(Hits(hs2, {f}))
                = IF function \in {f} THEN Cardinality(Hits(hs, {f})) + 1
                  ELSE Cardinality(Hits(hs, {f}))
          BY <1>7, <1>8, HitsOfAppend
        <5>4. e \in Of(m, f) <=> m = a /\ f = function
          BY <1>3 DEF Of
        <5> QED
          BY <1>5, <1>10, <3>2, <5>1, <5>2, <5>3, <5>4
      <4>2. ASSUME NEW i \in 1..Len(ix2), NEW j \in 1..Len(ix2), i < j
            PROVE  ix2[i].number < ix2[j].number
        <5>1. i \in 1..Len(ix) /\ ix2[i] = ix[i]
          BY <1>7, <1>12, <1>13, <4>2
        <5>2. CASE j \in 1..Len(ix)
          BY <1>5, <1>12, <2>1, <4>2, <5>1, <5>2, <3>2 DEF ListAgrees
        <5>3. CASE j = Len(ix) + 1
          <6>1. ix[i].number <= records /\ ix[i] \in HookEntries
            BY <1>1, <1>5, <1>7, <5>1, ElementOfSeq DEF HooksAreKnown
          <6> QED
            BY <1>3, <1>12, <5>1, <5>3, <6>1 DEF HookEntries
        <5> QED
          BY <1>13, <5>2, <5>3
      <4> QED
        BY <1>10, <3>2, <4>1, <4>2 DEF ListAgrees
    <3> QED
      BY <3>1, <3>2
  <2>3. AllAgree(handlersOf', hookIndex')
    BY <1>10b, <2>2, ListsAgree
  <2> QED
    BY <2>3, HooksAllAgree
<1> QED
  BY <1>11, <1>14, <1>15, <1>16, <1>17, <1>18, <1>19 DEF RegistryInv

LEMMA RemoveHandlerKeepsInv ==
  ASSUME RegistryInv, NEW list \in Lists, NEW i \in DOMAIN hookIndex[list], RemoveHandler(list, i)
  PROVE  RegistryInv'
<1>1. /\ RegTypes /\ OwnIsKnown /\ HooksAreKnown /\ ActiveIsKnown /\ ListedOnce /\ ListedTools
      /\ FirstDraws /\ LoadedIsLater /\ IndexesAgree /\ ListedCommandsAreFound /\ HooksAgree
  BY DEF RegistryInv
<1>2. PICK e, a, fn, hs, ix : /\ ix = hookIndex[list] /\ e = ix[i] /\ a = e.module /\ fn = e.function
                              /\ hs = handlersOf[list][a]
  OBVIOUS
<1>3. PICK hs2, ix2 : hs2 = RemoveAt(hs, FirstOf(fn, hs)) /\ ix2 = RemoveAt(ix, i)
  OBVIOUS
<1>0. /\ handlersOf' = [handlersOf EXCEPT ![list][a] = hs2]
      /\ hookIndex' = [hookIndex EXCEPT ![list] = ix2]
      /\ own' = own /\ index' = index /\ agenda' = agenda /\ active' = active /\ listed' = listed
      /\ jsCommands' = jsCommands /\ loads' = loads /\ failed' = failed /\ records' = records
  BY <1>2, <1>3 DEF RemoveHandler
<1>4. /\ handlersOf \in [Lists -> [Modules -> Seq(Functions)]]
      /\ hookIndex \in [Lists -> Seq(HookEntries)]
  BY <1>1 DEF RegTypes
<1>5. ix \in Seq(HookEntries) /\ i \in 1..Len(ix)
  BY <1>2, <1>4
<1>6. e \in HookEntries
  BY <1>2, <1>5, ElementOfSeq
<1>7. a \in Modules /\ fn \in Functions /\ e.module = a /\ e.function = fn
  BY <1>2, <1>6 DEF HookEntries
<1>8. hs \in Seq(Functions)
  BY <1>2, <1>4, <1>7
<1>9. HooksTyped(handlersOf, hookIndex)
  BY <1>4 DEF HooksTyped
<1>10. \A l \in Lists : ListAgrees(handlersOf[l], hookIndex[l])
  <2>1. AllAgree(handlersOf, hookIndex)
    BY <1>1, HooksAllAgree
  <2> QED
    BY ONLY <1>9, <2>1, ListsAgree
<1>11. Cardinality(Hits(hs, {fn})) = Cardinality(Hits(ix, Of(a, fn)))
  BY <1>2, <1>7, <1>10 DEF ListAgrees
<1>12. PICK at \in 1..Len(hs) : at = FirstOf(fn, hs) /\ hs[at] = fn
  <2>1. i \in Hits(ix, Of(a, fn))
    BY <1>2, <1>5, <1>6, <1>7 DEF Hits, Of
  <2>2. IsFiniteSet(Hits(ix, Of(a, fn)))
    BY <1>5, HitsFinite
  <2>3. Cardinality(Hits(ix, Of(a, fn))) # 0
    BY <2>1, <2>2, FS_EmptySet
  <2>4. Hits(hs, {fn}) # {}
    BY <1>11, <2>3, FS_EmptySet
  <2>5. PICK p \in 1..Len(hs) : hs[p] = fn
    BY <2>4 DEF Hits
  <2> QED
    BY <1>8, <2>5, FirstIsHit
<1>13. hs2 = RemoveAt(hs, at)
  BY <1>3, <1>12
<1>14. hs2 \in Seq(Functions)
  BY <1>8, <1>12, <1>13, RemovedAt
<1>15. /\ ix2 \in Seq(HookEntries) /\ Len(ix2) = Len(ix) - 1
       /\ \A j \in 1..(Len(ix) - 1) : ix2[j] = IF j < i THEN ix[j] ELSE ix[j + 1]
  BY <1>3, <1>5, RemovedAt
<1>16. Len(ix) \in Nat /\ i \in Nat
  BY <1>5
<1>17. /\ handlersOf' \in [Lists -> [Modules -> Seq(Functions)]]
       /\ hookIndex' \in [Lists -> Seq(HookEntries)]
       /\ \A l \in Lists : hookIndex'[l] = IF l = list THEN ix2 ELSE hookIndex[l]
       /\ \A l \in Lists : l # list => handlersOf'[l] = handlersOf[l]
       /\ \A m \in Modules : handlersOf'[list][m] = IF m = a THEN hs2 ELSE handlersOf[list][m]
  BY <1>0, <1>4, <1>7, <1>14, <1>15
<1>18. HooksTyped(handlersOf', hookIndex')
  BY <1>17 DEF HooksTyped
<1>19. RegTypes'
  BY <1>0, <1>1, <1>17 DEF RegTypes
<1>20. \A j \in 1..Len(ix2) : \E k \in 1..Len(ix) : ix2[j] = ix[k]
  <2> SUFFICES ASSUME NEW j \in 1..Len(ix2) PROVE \E k \in 1..Len(ix) : ix2[j] = ix[k]
    OBVIOUS
  <2>1. j \in 1..Len(ix) /\ j + 1 \in 1..Len(ix) /\ (ix2[j] = ix[j] \/ ix2[j] = ix[j + 1])
    BY <1>15, <1>16
  <2> QED
    BY <2>1
<1>21. HooksAreKnown'
  <2>1. ASSUME NEW l \in Lists, NEW j \in (1..Len(hookIndex[l]))'
        PROVE  Known(hookIndex[l][j].module)' /\ (hookIndex[l][j].number <= records)'
    <3>1. \E k \in 1..Len(hookIndex[l]) : hookIndex'[l][j] = hookIndex[l][k]
      <4>1. CASE l = list
        <5>1. hookIndex'[l] = ix2 /\ hookIndex[l] = ix
          BY <1>2, <1>17, <4>1
        <5>2. j \in 1..Len(ix2)
          BY <5>1
        <5> QED
          BY <1>20, <5>1, <5>2
      <4>2. CASE l # list
        BY <1>17, <4>2
      <4> QED
        BY <4>1, <4>2
    <3>2. PICK k \in 1..Len(hookIndex[l]) : hookIndex'[l][j] = hookIndex[l][k]
      BY <3>1
    <3>3. Known(hookIndex[l][k].module) /\ hookIndex[l][k].number <= records
      BY <1>1 DEF HooksAreKnown
    <3> QED
      BY <1>0, <3>2, <3>3 DEF Known, IsListed
  <2>2. (\A j \in 1..Len(agenda) : Known(agenda[j].module))'
    BY <1>0, <1>1 DEF HooksAreKnown, Known, IsListed
  <2> QED
    BY <2>1, <2>2 DEF HooksAreKnown
<1>22. OwnIsKnown'
  BY <1>0, <1>1 DEF OwnIsKnown, Known, IsListed
<1>23. ActiveIsKnown' /\ ListedOnce' /\ ListedTools'
  BY <1>0, <1>1 DEF ActiveIsKnown, Known, IsListed, ListedOnce, ListedTools
<1>24. FirstDraws' /\ LoadedIsLater'
  BY <1>0, <1>1 DEF FirstDraws, LoadedIsLater, Offers
<1>25. IndexesAgree' /\ ListedCommandsAreFound'
  BY <1>0, <1>1 DEF IndexesAgree, Registrants, ListedCommandsAreFound
<1>26. HooksAgree'
  <2>1. ASSUME NEW l \in Lists PROVE ListAgrees(handlersOf'[l], hookIndex'[l])
    <3>1. CASE l # list
      BY <1>10, <1>17, <3>1
    <3>2. CASE l = list
      <4>1. ASSUME NEW m \in Modules, NEW f \in Functions
            PROVE  Cardinality(Hits(handlersOf'[l][m], {f})) = Cardinality(Hits(hookIndex'[l], Of(m, f)))
        <5>1. Cardinality(Hits(handlersOf[l][m], {f})) = Cardinality(Hits(ix, Of(m, f)))
          BY <1>2, <1>10, <3>2 DEF ListAgrees
        <5>2. Cardinality(Hits(ix2, Of(m, f)))
                = IF e \in Of(m, f) THEN Cardinality(Hits(ix, Of(m, f))) - 1
                  ELSE Cardinality(Hits(ix, Of(m, f)))
          BY <1>2, <1>3, <1>5, HitsOfRemoved
        <5>3. Cardinality(Hits(hs2, {f}))
                = IF fn \in {f} THEN Cardinality(Hits(hs, {f})) - 1 ELSE Cardinality(Hits(hs, {f}))
          BY <1>8, <1>12, <1>13, HitsOfRemoved
        <5>4. e \in Of(m, f) <=> m = a /\ f = fn
          BY <1>6, <1>7 DEF Of
        <5> QED
          BY <1>2, <1>17, <3>2, <5>1, <5>2, <5>3, <5>4
      <4>2. ASSUME NEW j \in 1..Len(ix2), NEW k \in 1..Len(ix2), j < k
            PROVE  ix2[j].number < ix2[k].number
        <5>1. PICK j2 \in 1..Len(ix), k2 \in 1..Len(ix) :
                ix2[j] = ix[j2] /\ ix2[k] = ix[k2] /\ j2 < k2
          <6>1. CASE k < i
            <7>1. /\ j \in 1..Len(ix) /\ k \in 1..Len(ix) /\ j < k
                  /\ ix2[j] = ix[j] /\ ix2[k] = ix[k]
              BY <1>15, <1>16, <4>2, <6>1
            <7> QED
              BY <7>1
          <6>2. CASE ~(k < i) /\ j < i
            <7>1. /\ j \in 1..Len(ix) /\ k + 1 \in 1..Len(ix) /\ j < k + 1
                  /\ ix2[j] = ix[j] /\ ix2[k] = ix[k + 1]
              BY <1>15, <1>16, <4>2, <6>2
            <7> QED
              BY <7>1
          <6>3. CASE ~(j < i)
            <7>1. /\ j + 1 \in 1..Len(ix) /\ k + 1 \in 1..Len(ix) /\ j + 1 < k + 1
                  /\ ix2[j] = ix[j + 1] /\ ix2[k] = ix[k + 1]
              BY <1>15, <1>16, <4>2, <6>3
            <7> QED
              BY <7>1
          <6> QED
            BY <4>2, <6>1, <6>2, <6>3
        <5>2. ListAgrees(handlersOf[list], ix)
          BY <1>2, <1>10
        <5> QED
          BY <5>1, <5>2 DEF ListAgrees
      <4> QED
        BY <1>17, <3>2, <4>1, <4>2 DEF ListAgrees
    <3> QED
      BY <3>1, <3>2
  <2>2. AllAgree(handlersOf', hookIndex')
    BY <1>18, <2>1, ListsAgree
  <2> QED
    BY <2>2, HooksAllAgree
<1> QED
  BY <1>19, <1>21, <1>22, <1>23, <1>24, <1>25, <1>26 DEF RegistryInv

-----------------------------------------------------------------------------
(* Loading                                                                   *)

LEMMA FinishLoadKeepsInv == RegistryInv /\ FinishLoad => RegistryInv'
<1> SUFFICES ASSUME RegistryInv, FinishLoad PROVE RegistryInv'
  OBVIOUS
<1>1. /\ RegTypes /\ OwnIsKnown /\ HooksAreKnown /\ ActiveIsKnown /\ ListedOnce /\ ListedTools
      /\ FirstDraws /\ LoadedIsLater /\ IndexesAgree /\ ListedCommandsAreFound /\ HooksAgree
  BY DEF RegistryInv
<1>2. PICK m, tools, e : /\ m = active.module
                         /\ tools = [n \in ToolsOf(m) |-> own["tool"][m][n]]
                         /\ e = [module |-> m, tools |-> tools]
  OBVIOUS
<1>0. /\ active.as = "factory" /\ active' = NobodyRuns /\ listed' = Append(listed, e)
      /\ jsCommands' = {n \in Names : \E x \in Modules : own["command"][x][n] # 0}
      /\ own' = own /\ index' = index /\ records' = records /\ handlersOf' = handlersOf
      /\ hookIndex' = hookIndex /\ agenda' = agenda /\ loads' = loads /\ failed' = failed
  BY <1>2 DEF FinishLoad
<1>3. m \in Modules /\ active = Factory(m) /\ "tool" \in RecordKinds /\ "command" \in RecordKinds
  BY <1>0, <1>2, RegistryCode DEF RecordKinds
<1>4. /\ \A n \in Names : own["tool"][m][n] \in 0..MaxRecords
      /\ listed \in Seq(Listings) /\ MaxRecords \in Nat
  BY <1>1, <1>3, RegistryConstants DEF RegTypes
<1>5. /\ DOMAIN tools = ToolsOf(m) /\ ToolsOf(m) \subseteq Names
      /\ \A n \in ToolsOf(m) : tools[n] = own["tool"][m][n] /\ tools[n] # 0 /\ tools[n] \in 1..MaxRecords
  BY <1>2, <1>4 DEF ToolsOf
<1>6. e \in Listings
  <2>1. tools \in [ToolsOf(m) -> 1..MaxRecords]
    BY <1>2, <1>5
  <2>2. tools \in ToolTables
    BY <1>5, <2>1 DEF ToolTables
  <2> QED
    BY <1>2, <1>3, <2>2 DEF Listings
<1>7. PICK N \in Nat : N = Len(listed)
  BY <1>4
<1>8. PICK after : after = listed'
  OBVIOUS
<1>9. /\ after \in Seq(Listings) /\ Len(after) = N + 1 /\ after[N + 1] = e
      /\ \A i \in 1..N : after[i] = listed[i]
  BY <1>0, <1>4, <1>6, <1>7, <1>8, AppendProperties
<1>10. DOMAIN listed = 1..N /\ DOMAIN after = 1..(N + 1)
  BY <1>4, <1>7, <1>9
<1>11. e.module = m /\ e.tools = tools
  BY <1>2
<1>12. \A x : Known(x) => Known(x)'
  <2> SUFFICES ASSUME NEW x, Known(x) PROVE Known(x)'
    OBVIOUS
  <2>1. CASE IsListed(x)
    <3>1. PICK i \in 1..N : listed[i].module = x
      BY <1>10, <2>1 DEF IsListed
    <3>2. i \in 1..(N + 1) /\ after[i].module = x
      BY <1>9, <3>1
    <3> QED
      BY <1>8, <1>10, <3>2 DEF Known, IsListed
  <2>2. CASE x \in failed
    BY <1>0, <2>2 DEF Known
  <2>3. CASE active = Factory(x)
    <3>1. x = m
      BY <1>2, <2>3 DEF Factory
    <3>2. N + 1 \in DOMAIN after /\ after[N + 1].module = x
      BY <1>9, <1>10, <1>11, <3>1
    <3> QED
      BY <1>8, <3>2 DEF Known, IsListed
  <2> QED
    BY <2>1, <2>2, <2>3 DEF Known
<1>13. RegTypes'
  <2>1. jsCommands' \subseteq Names /\ active' \in Codes
    BY <1>0 DEF Codes
  <2> QED
    BY <1>0, <1>1, <1>8, <1>9, <2>1 DEF RegTypes
<1>14. OwnIsKnown'
  BY <1>0, <1>1, <1>12 DEF OwnIsKnown
<1>15. HooksAreKnown'
  <2>1. ASSUME NEW l \in Lists, NEW i \in (1..Len(hookIndex[l]))'
        PROVE  Known(hookIndex[l][i].module)' /\ (hookIndex[l][i].number <= records)'
    <3>1. PICK x : x = hookIndex[l][i].module
      OBVIOUS
    <3>2. Known(x) /\ hookIndex[l][i].number <= records
      BY <1>0, <1>1, <3>1 DEF HooksAreKnown
    <3>3. Known(x)' /\ x = hookIndex'[l][i].module
      BY <1>0, <1>12, <3>1, <3>2
    <3> QED
      BY <1>0, <3>2, <3>3 DEF Known, IsListed
  <2>2. ASSUME NEW i \in (1..Len(agenda))' PROVE Known(agenda[i].module)'
    <3>1. PICK x : x = agenda[i].module
      OBVIOUS
    <3>2. Known(x)
      BY <1>0, <1>1, <3>1 DEF HooksAreKnown
    <3>3. Known(x)' /\ x = agenda'[i].module
      BY <1>0, <1>12, <3>1, <3>2
    <3> QED
      BY <3>3 DEF Known, IsListed
  <2> QED
    BY <2>1, <2>2 DEF HooksAreKnown
<1>16. ActiveIsKnown'
  BY <1>0 DEF ActiveIsKnown
<1>17. ListedOnce'
  <2>1. \A i \in 1..N : listed[i].module # m
    BY <1>0, <1>1, <1>2, <1>10 DEF ListedOnce, IsListed
  <2>2. \A i, j \in 1..N : listed[i].module = listed[j].module => i = j
    BY <1>1, <1>7 DEF ListedOnce
  <2>3. \A i, j \in 1..(N + 1) : after[i].module = after[j].module => i = j
    BY <1>9, <1>11, <2>1, <2>2
  <2> QED
    BY <1>0, <1>8, <1>9, <2>3 DEF ListedOnce, NobodyRuns
<1>18. ListedTools'
  <2>1. ASSUME NEW i \in 1..(N + 1), NEW n \in DOMAIN after[i].tools
        PROVE  /\ n \in Names /\ after[i].tools[n] # 0
               /\ own["tool"][after[i].module][n] = after[i].tools[n]
    <3>1. CASE i = N + 1
      BY <1>5, <1>9, <1>11, <2>1, <3>1
    <3>2. CASE i \in 1..N
      BY <1>1, <1>7, <1>9, <2>1, <3>2 DEF ListedTools
    <3> QED
      BY <3>1, <3>2
  <2> QED
    BY <1>0, <1>8, <1>9, <2>1 DEF ListedTools
<1>19. FirstDraws'
  <2> SUFFICES ASSUME NEW n \in Names, NEW i \in Offers(n)', NEW j \in Offers(n)',
                      j < i, index["tool"][n].module = after[i].module
               PROVE  after[i].module \in failed
    BY <1>0, <1>8 DEF FirstDraws
  <2>1. /\ i \in 1..(N + 1) /\ n \in DOMAIN after[i].tools
        /\ j \in 1..N /\ n \in DOMAIN after[j].tools
    BY <1>8, <1>10 DEF Offers
  <2>2. j \in Offers(n)
    BY <1>9, <1>10, <2>1 DEF Offers
  <2>3. CASE i \in 1..N
    <3>1. i \in Offers(n) /\ after[i] = listed[i]
      BY <1>9, <1>10, <2>1, <2>3 DEF Offers
    <3> QED
      BY <1>1, <2>2, <3>1 DEF FirstDraws
  <2>4. CASE i = N + 1
    <3>1. after[i].module = m /\ n \in ToolsOf(m)
      BY <1>5, <1>9, <1>11, <2>1, <2>4
    <3>2. PICK first : first = index["tool"][n]
      OBVIOUS
    <3>3. /\ first.module = m /\ NoModule \notin Modules
          /\ first # NoRecord => own["tool"][first.module][n] = first.number
          /\ first = NoRecord <=> first.module = NoModule
      BY <1>3, <3>1, <3>2, FoundIsOwn, RegistryConstants
    <3>4. first.number = own["tool"][m][n] /\ own["tool"][m][n] \in Nat /\ own["tool"][m][n] # 0
      BY <1>3, <1>4, <1>5, <3>1, <3>3
    <3>5. PICK x : x = listed[j].module
      OBVIOUS
    <3>6. x \in Modules /\ own["tool"][x][n] = listed[j].tools[n] /\ own["tool"][x][n] # 0
      <4>1. listed[j] \in Listings
        BY <1>4, <1>7, <2>1, ElementOfSeq
      <4>2. x \in Modules
        BY <3>5, <4>1 DEF Listings
      <4> QED
        BY <1>1, <1>7, <1>9, <2>1, <3>5, <4>2 DEF ListedTools
    <3>7. FoundAgrees("tool", n, index, own)
      BY <1>1, <1>3, FoundAgree
    <3>8. first.number <= own["tool"][x][n]
      BY <3>2, <3>6, <3>7 DEF FoundAgrees
    <3>9. own["tool"][x][n] \in Nat
      BY <1>1, <1>3, <3>6 DEF RegTypes
    <3>10. m \notin failed => own["tool"][m][n] > listed[j].tools[n]
      BY <1>0, <1>1, <1>2, <2>2, <3>4 DEF LoadedIsLater
    <3> QED
      BY <3>1, <3>4, <3>6, <3>8, <3>9, <3>10
  <2> QED
    BY <2>1, <2>3, <2>4
<1>20. LoadedIsLater'
  BY <1>0 DEF LoadedIsLater, NobodyRuns
<1>21. IndexesAgree' /\ HooksAgree'
  BY <1>0, <1>1 DEF IndexesAgree, Registrants, HooksAgree, Times
<1>22. ListedCommandsAreFound'
  <2> SUFFICES ASSUME NEW n \in Names, NEW x \in Modules, own["command"][x][n] # 0
               PROVE  index["command"][n] # NoRecord
    BY <1>0 DEF ListedCommandsAreFound
  <2> QED
    BY <1>3, FoundIsOwn
<1> QED
  BY <1>13, <1>14, <1>15, <1>16, <1>17, <1>18, <1>19, <1>20, <1>21, <1>22 DEF RegistryInv

(* Code starts or ends, and a dispatch takes its handlers or gives them up.    *)
LEMMA CodeStep ==
  ASSUME RegistryInv, UNCHANGED Tables, loads' \in 0..MaxLoads, active' \in Codes,
         agenda' \in Seq(HookEntries),
         \A i \in 1..Len(agenda') :
           \/ \E j \in 1..Len(agenda) : agenda'[i] = agenda[j]
           \/ \E l \in Lists : \E j \in 1..Len(hookIndex[l]) : agenda'[i] = hookIndex[l][j],
         \/ failed' = failed /\ active.as # "factory"
         \/ failed' = failed \union {active.module} /\ active.as = "factory",
         \/ active' = NobodyRuns \/ active' = active
         \/ active'.as = "factory" /\ ~IsListed(active'.module)
         \/ active'.as = "call" /\ Known(active'.module)
  PROVE  RegistryInv'
<1>1. /\ RegTypes /\ OwnIsKnown /\ HooksAreKnown /\ ActiveIsKnown
  BY DEF RegistryInv
<1>2. /\ own' = own /\ index' = index /\ records' = records /\ handlersOf' = handlersOf
      /\ hookIndex' = hookIndex /\ listed' = listed /\ jsCommands' = jsCommands
  BY DEF Tables
<1>3. /\ active.as = "factory" => active.module \in Modules
      /\ NobodyRuns.as = "nothing"
  BY RegistryCode
<1>4. failed \subseteq failed' /\ failed' \subseteq Modules
  BY <1>1, <1>3 DEF RegTypes
<1>5. active.as = "factory" => active.module \in failed'
  OBVIOUS
<1>6. RegTypes'
  BY <1>1, <1>2, <1>4 DEF RegTypes
<1>7. \A m : Known(m) => Known(m)'
  BY <1>2, <1>4, <1>5, KnownStays
<1>8. (\A i \in 1..Len(agenda) : Known(agenda[i].module))'
  <2> SUFFICES ASSUME NEW i \in (1..Len(agenda))' PROVE Known(agenda[i].module)'
    OBVIOUS
  <2>1. PICK e : e = agenda'[i]
    OBVIOUS
  <2>2. Known(e.module)
    BY <1>1, <2>1 DEF HooksAreKnown
  <2>3. Known(e.module)'
    BY <1>7, <2>2
  <2> QED
    BY <2>1, <2>3 DEF Known, IsListed
<1>9. ActiveIsKnown'
  <2> SUFFICES ASSUME active' # NobodyRuns PROVE Known(active.module)'
    BY DEF ActiveIsKnown
  <2>1. PICK m : m = active'.module
    OBVIOUS
  <2>2. CASE active'.as = "factory"
    <3>1. m \in Modules /\ active' = Factory(m)
      BY <2>1, <2>2 DEF Codes, NobodyRuns, Factory
    <3> QED
      BY <2>1, <3>1 DEF Known, IsListed
  <2>3. CASE active'.as # "factory"
    <3>1. Known(m)
      BY <1>1, <2>1, <2>3 DEF ActiveIsKnown
    <3>2. Known(m)'
      BY <1>7, <3>1
    <3> QED
      BY <2>1, <3>2 DEF Known, IsListed
  <2> QED
    BY <2>2, <2>3
<1>10. active'.as = "factory" => active' = active \/ ~IsListed(active'.module)
  BY <1>3
<1> QED
  BY <1>4, <1>5, <1>6, <1>8, <1>9, <1>10, QuietStep

(* Of the extensions that offer a tool the first one is called.              *)
LEMMA OfferedIsFirst ==
  ASSUME RegTypes, NEW n \in Names
  PROVE  /\ Offers(n) \subseteq 1..Len(listed)
         /\ \A i \in Offers(n) : Known(listed[i].module)
         /\ Offers(n) # {} => /\ Offered(n) \in Offers(n)
                              /\ \A j \in Offers(n) : Offered(n) <= j
<1>1. listed \in Seq(Listings) /\ DOMAIN listed = 1..Len(listed)
  BY DEF RegTypes
<1>2. Offers(n) \subseteq 1..Len(listed)
  BY <1>1 DEF Offers
<1>3. \A i \in 1..Len(listed) : listed[i].module \in Modules
  <2>1. \A i \in 1..Len(listed) : listed[i] \in Listings
    BY <1>1, ElementOfSeq
  <2> QED
    BY <2>1 DEF Listings
<1>4. \A i \in Offers(n) : Known(listed[i].module)
  BY <1>1, <1>2, <1>3 DEF Known, IsListed
<1>5. PICK S : S = Offers(n)
  OBVIOUS
<1>6. S # {} => \E i \in S : \A j \in S : i <= j
  BY <1>1, <1>2, <1>5, LeastExists
<1>7. Offered(n) = CHOOSE i \in S : \A j \in S : i <= j
  BY <1>5 DEF Offered
<1> QED
  BY <1>2, <1>4, <1>5, <1>6, <1>7

LEMMA RunsKnown ==
  ASSUME RegistryInv, NEW m, Known(m), Run(m, "call"), UNCHANGED Tables,
         loads' = loads, failed' = failed, active = NobodyRuns,
         agenda' = agenda \/ (agenda # <<>> /\ agenda' = Tail(agenda))
  PROVE  RegistryInv'
<1>1. m \in Modules /\ active' = [module |-> m, as |-> "call"]
  BY DEF Known, Run
<1>2. active' \in Codes /\ active'.as = "call" /\ active'.module = m
  BY <1>1 DEF Codes
<1>3. agenda \in Seq(HookEntries) /\ loads \in 0..MaxLoads
  BY DEF RegistryInv, RegTypes
<1>4. /\ agenda' \in Seq(HookEntries)
      /\ \A i \in 1..Len(agenda') : \E j \in 1..Len(agenda) : agenda'[i] = agenda[j]
  <2>1. CASE agenda' = agenda
    BY <1>3, <2>1
  <2>2. CASE agenda # <<>> /\ agenda' = Tail(agenda)
    <3>1. PICK t : t = Tail(agenda)
      OBVIOUS
    <3>2. /\ t \in Seq(HookEntries) /\ Len(t) = Len(agenda) - 1 /\ Len(agenda) \in Nat
          /\ \A i \in 1..Len(t) : t[i] = agenda[i + 1]
      BY <1>3, <2>2, <3>1, HeadTailProperties
    <3>3. \A i \in 1..Len(t) : i + 1 \in 1..Len(agenda) /\ t[i] = agenda[i + 1]
      BY <3>2
    <3> QED
      BY <2>2, <3>1, <3>2, <3>3
  <2> QED
    BY <2>1, <2>2
<1>5. active.as # "factory"
  BY RegistryCode
<1> QED
  BY <1>2, <1>3, <1>4, <1>5, CodeStep

LEMMA CallsKeepInv ==
  ASSUME RegistryInv,
         \/ \E n \in Names :
              \/ CallTool(n) \/ ExecuteCommand(n) \/ ExecuteShortcut(n)
              \/ \E i \in DOMAIN listed : CallModuleTool(i, n)
         \/ CallHandler
  PROVE  RegistryInv'
<1>1. RegTypes /\ OwnIsKnown /\ HooksAreKnown
  BY DEF RegistryInv
<1>2. ASSUME NEW n \in Names, CallTool(n) PROVE RegistryInv'
  <2>1. PICK m : m = listed[Offered(n)].module
    OBVIOUS
  <2>2. /\ active = NobodyRuns /\ Offers(n) # {} /\ Run(m, "call") /\ UNCHANGED Tables
        /\ agenda' = agenda /\ loads' = loads /\ failed' = failed
    BY <1>2, <2>1 DEF CallTool, ThreadIsFree, Tables
  <2>3. Known(m)
    BY <1>1, <2>1, <2>2, OfferedIsFirst
  <2> QED
    BY <2>2, <2>3, RunsKnown
<1>3. ASSUME NEW n \in Names, NEW i \in DOMAIN listed, CallModuleTool(i, n) PROVE RegistryInv'
  <2>1. PICK m : m = listed[i].module
    OBVIOUS
  <2>2. /\ active = NobodyRuns /\ i \in Offers(n) /\ Run(m, "call") /\ UNCHANGED Tables
        /\ agenda' = agenda /\ loads' = loads /\ failed' = failed
    BY <1>3, <2>1 DEF CallModuleTool, ThreadIsFree, Tables
  <2>3. Known(m)
    BY <1>1, <2>1, <2>2, OfferedIsFirst
  <2> QED
    BY <2>2, <2>3, RunsKnown
<1>4. ASSUME NEW kind \in RecordKinds, NEW n \in Names, CallIndexed(kind, n) PROVE RegistryInv'
  <2>1. PICK m : m = index[kind][n].module
    OBVIOUS
  <2>2. /\ active = NobodyRuns /\ index[kind][n] # NoRecord /\ Run(m, "call") /\ UNCHANGED Tables
        /\ agenda' = agenda /\ loads' = loads /\ failed' = failed
    BY <1>4, <2>1 DEF CallIndexed, ThreadIsFree, Tables
  <2>3. m \in Modules /\ own[kind][m][n] # 0
    BY <2>1, <2>2, FoundIsOwn
  <2>4. Known(m)
    BY <1>1, <2>3 DEF OwnIsKnown
  <2> QED
    BY <2>2, <2>4, RunsKnown
<1>5. ASSUME CallHandler PROVE RegistryInv'
  <2>1. PICK m : m = Head(agenda).module
    OBVIOUS
  <2>2. /\ active = NobodyRuns /\ agenda # <<>> /\ Run(m, "call") /\ UNCHANGED Tables
        /\ agenda' = Tail(agenda) /\ loads' = loads /\ failed' = failed
    BY <1>5, <2>1 DEF CallHandler, Tables
  <2>3. agenda \in Seq(HookEntries)
    BY <1>1 DEF RegTypes
  <2>4. 1 \in 1..Len(agenda) /\ Head(agenda) = agenda[1]
    BY <2>2, <2>3
  <2>5. Known(m)
    BY <1>1, <2>1, <2>4 DEF HooksAreKnown
  <2> QED
    BY <2>2, <2>5, RunsKnown
<1>6. "command" \in RecordKinds /\ "shortcut" \in RecordKinds
  BY DEF RecordKinds
<1> QED
  BY <1>2, <1>3, <1>4, <1>5, <1>6 DEF ExecuteCommand, ExecuteShortcut

LEMMA CodeKeepsInv ==
  ASSUME RegistryInv,
         (\E m \in Modules : LoadExtension(m)) \/ FailLoad \/ DispatchEvent \/ EndCode
           \/ UNCHANGED registryVars
  PROVE  RegistryInv'
<1>1. RegTypes /\ agenda \in Seq(HookEntries) /\ active \in Codes /\ loads \in 0..MaxLoads
  BY DEF RegistryInv, RegTypes
<1>2. /\ NobodyRuns.as = "nothing" /\ NobodyRuns \in Codes
      /\ MaxLoads \in Nat
  BY RegistryCode, RegistryConstants DEF Codes
<1>3. ASSUME NEW m \in Modules, LoadExtension(m) PROVE RegistryInv'
  <2>1. /\ active = NobodyRuns /\ ~IsListed(m) /\ loads' \in 0..MaxLoads /\ Run(m, "factory")
        /\ UNCHANGED Tables /\ agenda' = agenda /\ failed' = failed
    BY <1>1, <1>2, <1>3 DEF LoadExtension, ThreadIsFree, Tables
  <2>2. active' \in Codes /\ active'.as = "factory" /\ active'.module = m
    BY <2>1 DEF Run, Codes
  <2> QED
    BY <1>1, <1>2, <2>1, <2>2, CodeStep
<1>4. ASSUME FailLoad PROVE RegistryInv'
  <2>1. /\ active.as = "factory" /\ active' = NobodyRuns /\ failed' = failed \union {active.module}
        /\ UNCHANGED Tables /\ agenda' = agenda /\ loads' = loads
    BY <1>4 DEF FailLoad, Tables
  <2> QED
    BY <1>1, <1>2, <2>1, CodeStep
<1>5. ASSUME DispatchEvent PROVE RegistryInv'
  <2>1. PICK s, t : s = hookIndex["hooks"] /\ t = hookIndex["bus"]
    OBVIOUS
  <2>2. /\ active = NobodyRuns /\ agenda' = s \o t /\ active' = active
        /\ UNCHANGED Tables /\ loads' = loads /\ failed' = failed
    BY <1>5, <2>1 DEF DispatchEvent, ThreadIsFree, Tables
  <2>3. s \in Seq(HookEntries) /\ t \in Seq(HookEntries) /\ "hooks" \in Lists /\ "bus" \in Lists
    BY <1>1, <2>1 DEF RegTypes, Lists
  <2>4. PICK r : r = s \o t
    OBVIOUS
  <2>5. /\ r \in Seq(HookEntries) /\ Len(r) = Len(s) + Len(t)
        /\ \A i \in 1..Len(r) : r[i] = IF i <= Len(s) THEN s[i] ELSE t[i - Len(s)]
    BY <2>3, <2>4, ConcatProperties
  <2>6. ASSUME NEW i \in 1..Len(r)
        PROVE  \E l \in Lists : \E j \in 1..Len(hookIndex[l]) : r[i] = hookIndex[l][j]
    <3>1. CASE i <= Len(s)
      <4>1. i \in 1..Len(s) /\ r[i] = s[i]
        BY <2>3, <2>5, <3>1
      <4> QED
        BY <2>1, <2>3, <4>1
    <3>2. CASE ~(i <= Len(s))
      <4>1. i - Len(s) \in 1..Len(t) /\ r[i] = t[i - Len(s)]
        BY <2>3, <2>5, <3>2
      <4> QED
        BY <2>1, <2>3, <4>1
    <3> QED
      BY <3>1, <3>2
  <2> QED
    BY <1>1, <1>2, <2>2, <2>4, <2>5, <2>6, CodeStep
<1>6. ASSUME EndCode PROVE RegistryInv'
  <2>1. /\ active.as = "call" /\ active' = NobodyRuns /\ agenda' \in {agenda, <<>>}
        /\ UNCHANGED Tables /\ loads' = loads /\ failed' = failed
    BY <1>6 DEF EndCode, Tables
  <2>2. /\ agenda' \in Seq(HookEntries)
        /\ \A i \in 1..Len(agenda') : \E j \in 1..Len(agenda) : agenda'[i] = agenda[j]
    <3>1. CASE agenda' = agenda
      BY <1>1, <3>1
    <3>2. CASE agenda' = <<>>
      BY <3>2
    <3> QED
      BY <2>1, <3>1, <3>2
  <2> QED
    BY <1>1, <1>2, <2>1, <2>2, CodeStep
<1>7. ASSUME UNCHANGED registryVars PROVE RegistryInv'
  <2>1. /\ own' = own /\ index' = index /\ records' = records /\ handlersOf' = handlersOf
        /\ hookIndex' = hookIndex /\ listed' = listed /\ jsCommands' = jsCommands
        /\ agenda' = agenda /\ active' = active /\ loads' = loads /\ failed' = failed
    BY <1>7 DEF registryVars
  <2>2. UNCHANGED Tables /\ RegTypes'
    BY <1>1, <2>1 DEF Tables, RegTypes
  <2>3. (\A i \in 1..Len(agenda) : Known(agenda[i].module))' /\ ActiveIsKnown'
    BY <2>1 DEF RegistryInv, HooksAreKnown, ActiveIsKnown, Known, IsListed
  <2> QED
    BY <2>1, <2>2, <2>3, QuietStep
<1> QED
  BY <1>3, <1>4, <1>5, <1>6, <1>7

LEMMA RegistrationsKeepInv ==
  ASSUME RegistryInv, NEW n \in Names,
         \/ RegisterTool(n) \/ RegisterCommand(n) \/ RegisterProvider(n) \/ RegisterMcpServer(n)
         \/ RegisterShortcut(n) \/ RegisterMessageRenderer(n) \/ RegisterEntryRenderer(n)
  PROVE  RegistryInv'
<1>1. \A kind \in {"tool", "command", "provider", "server", "shortcut", "message", "entry"} :
        kind \in RecordKinds
  BY DEF RecordKinds
<1>2. CASE RegisterTool(n)
  <2>1. PICK indexed \in BOOLEAN : indexed = (index["tool"][n] = NoRecord)
    OBVIOUS
  <2>2. AddRecord("tool", n, indexed) /\ MayRecord("tool", n, indexed)
    BY <1>2, <2>1 DEF RegisterTool, MayRecord
  <2> QED
    BY <1>1, <2>2, RecordKeepsInv
<1>3. CASE \E kind \in {"command", "provider", "server"} :
             IsFreeOrOwn(kind, n) /\ AddRecord(kind, n, TRUE)
  <2>1. PICK kind \in {"command", "provider", "server"} :
          IsFreeOrOwn(kind, n) /\ AddRecord(kind, n, TRUE)
    BY <1>3
  <2>2. MayRecord(kind, n, TRUE)
    BY <2>1 DEF MayRecord
  <2> QED
    BY <1>1, <2>1, <2>2, RecordKeepsInv
<1>4. CASE \E kind \in {"shortcut", "message", "entry"} : AddRecord(kind, n, TRUE)
  <2>1. PICK kind \in {"shortcut", "message", "entry"} : AddRecord(kind, n, TRUE)
    BY <1>4
  <2>2. MayRecord(kind, n, TRUE)
    BY <2>1 DEF MayRecord
  <2> QED
    BY <1>1, <2>1, <2>2, RecordKeepsInv
<1> QED
  BY <1>2, <1>3, <1>4 DEF RegisterCommand, RegisterProvider, RegisterMcpServer, RegisterShortcut,
     RegisterMessageRenderer, RegisterEntryRenderer

LEMMA RegistryKeepsInv == RegistryInv /\ [RegistryNext]_registryVars => RegistryInv'
<1> SUFFICES ASSUME RegistryInv, [RegistryNext]_registryVars PROVE RegistryInv'
  OBVIOUS
<1>1. CASE UNCHANGED registryVars
  BY <1>1, CodeKeepsInv
<1>2. CASE \E n \in Names :
             \/ RegisterTool(n) \/ RegisterCommand(n) \/ RegisterProvider(n) \/ RegisterMcpServer(n)
             \/ RegisterShortcut(n) \/ RegisterMessageRenderer(n) \/ RegisterEntryRenderer(n)
  BY <1>2, RegistrationsKeepInv
<1>3. CASE \/ \E n \in Names :
                \/ CallTool(n) \/ ExecuteCommand(n) \/ ExecuteShortcut(n)
                \/ \E i \in DOMAIN listed : CallModuleTool(i, n)
           \/ CallHandler
  BY <1>3, CallsKeepInv
<1>4. CASE \E l \in Lists : \E function \in Functions : AddHandler(l, function)
  BY <1>4, AddHandlerKeepsInv
<1>5. CASE \E l \in Lists : \E i \in DOMAIN hookIndex[l] : RemoveHandler(l, i)
  BY <1>5, RemoveHandlerKeepsInv
<1>6. CASE FinishLoad
  BY <1>6, FinishLoadKeepsInv
<1>7. CASE (\E m \in Modules : LoadExtension(m)) \/ FailLoad \/ DispatchEvent \/ EndCode
  BY <1>7, CodeKeepsInv
<1> QED
  BY <1>1, <1>2, <1>3, <1>4, <1>5, <1>6, <1>7 DEF RegistryNext

LEMMA RegistryInvIsSound == RegistryInv => RegistryIsSound
<1> SUFFICES ASSUME RegistryInv PROVE RegistryIsSound
  OBVIOUS
<1>1. RegTypes /\ ListedOnce /\ ListedTools /\ FirstDraws
  BY DEF RegistryInv
<1>2. RegistryTypeOK
  <2>1. NoRecord \in Records /\ [module : Modules, number : 1..MaxRecords] \subseteq Records
    BY RegistryConstants DEF Records, NoRecord
  <2>2. Found \subseteq Records
    BY <2>1 DEF Found
  <2>3. index \in [RecordKinds -> [Names -> Records]]
    <3>1. \A k \in RecordKinds : index[k] \in [Names -> Records]
      BY <1>1, <2>2 DEF RegTypes
    <3> QED
      BY <1>1, <3>1 DEF RegTypes
  <2>4. active.module \in Modules \union {NoModule}
    BY <1>1 DEF RegTypes, Codes, NobodyRuns
  <2> QED
    BY <1>1, <2>3, <2>4 DEF RegTypes, RegistryTypeOK
<1>3. OfferedToolsStay
  <2>1. DOMAIN listed = 1..Len(listed)
    BY <1>1 DEF RegTypes
  <2> QED
    BY <1>1, <2>1 DEF ListedTools, OfferedToolsStay
<1>4. RendererIsItsOwn
  <2> SUFFICES ASSUME NEW n \in Names, Offers(n) # {}
               PROVE  \/ index["tool"][n].module = listed[Offered(n)].module
                      \/ index["tool"][n].module \in failed
                      \/ \A i \in Offers(n) : listed[i].module # index["tool"][n].module
    BY DEF RendererIsItsOwn
  <2>1. /\ Offers(n) \subseteq 1..Len(listed)
        /\ Offered(n) \in Offers(n) /\ \A j \in Offers(n) : Offered(n) <= j
    BY <1>1, OfferedIsFirst
  <2>2. PICK o : o = Offered(n)
    OBVIOUS
  <2>3. ASSUME NEW i \in Offers(n), listed[i].module = index["tool"][n].module, i # o
        PROVE  listed[i].module \in failed
    <3>1. o \in Offers(n) /\ o < i
      <4>1. o \in Nat /\ i \in Nat /\ o <= i
        BY <1>1, <2>1, <2>2 DEF RegTypes
      <4> QED
        BY <2>1, <2>2, <2>3, <4>1
    <3> QED
      BY <1>1, <2>3, <3>1 DEF FirstDraws
  <2> QED
    BY <2>2, <2>3
<1> QED
  BY <1>2, <1>3, <1>4 DEF RegistryInv, RegistryIsSound

(* What extensions register (RegistryIsSound), over any number of loads, failed  *)
(* loads, registrations and subscriptions: the indexes over all extensions find  *)
(* what the extension's own tables hold, the tool a provider was offered stays   *)
(* the tool that is called, every listed command is found, a tool is drawn by    *)
(* its own extension's renderer except after a failed load or a late             *)
(* registration, and each index has an extension's handlers as often as the       *)
(* extension has them, in the order of subscription.                          *)
THEOREM RegistrySound == RegistrySpec => []RegistryIsSound
<1>1. RegistryInv /\ [RegistryNext]_registryVars => RegistryInv'
  BY RegistryKeepsInv
<1>2. RegistryInv => RegistryIsSound
  BY RegistryInvIsSound
<1> QED
  BY <1>1, <1>2, RegistryStarts, PTL DEF RegistrySpec

-----------------------------------------------------------------------------
(* ProviderStream                                                            *)

Words == Seq(Nat)

\* A tool use has one piece, that of its call; no block says nothing.
Blocks == {b \in [kind : {"none", "text", "thinking"} \cup ToolKinds, text : Words] :
             /\ b.kind \in ToolKinds => Len(b.text) = 1
             /\ b.kind = "none" => b.text = <<>>}
Talk == [role : {"user", "assistant"}, content : Seq(Blocks)]
Results == [role : {"tool"}, id : Nat, custom : BOOLEAN]
Messages == Talk \cup Results

TextItems == [type : {"message"}, role : {"user", "assistant"}, text : Words]
CallItems == [type : {"call"}, id : Nat, custom : BOOLEAN]
OutputItems == [type : {"output"}, id : Nat, custom : BOOLEAN]
SpokenItems == TextItems \cup CallItems
InputItems == SpokenItems \cup OutputItems

Accs == [items : Seq(SpokenItems), text : Words]
Nothing == [items |-> <<>>, text |-> <<>>]

ItemWords == [item \in InputItems |-> ItemSays(item)]
BlockWords == [b \in Blocks |-> BlockSays(b)]
MessageWords == [m \in Messages |-> MessageSays(m)]
ItemsOf == [m \in Messages |-> MessageItems(m)]

LEMMA ToolUseForm ==
  ASSUME NEW b \in Blocks, IsToolUse(b)
  PROVE  /\ b.text[1] \in Nat /\ b.text = <<b.text[1]>>
         /\ CallItem(b) \in CallItems /\ CallItem(b).id = b.text[1]
         /\ CallItem(b).type = "call" /\ CallItem(b).custom = (b.kind = "custom")
<1>1. b.text \in Words /\ Len(b.text) = 1
  BY DEF Blocks, IsToolUse
<1>2. PICK s \in Seq(Nat) : s = b.text /\ Len(s) = 1
  BY <1>1 DEF Words
<1>3. s[1] \in Nat /\ s = <<s[1]>>
  BY <1>2
<1>4. PICK n \in Nat : n = b.text[1]
  BY <1>2, <1>3
<1>5. CallItem(b) = [type |-> "call", id |-> n, custom |-> b.kind = "custom"]
  BY <1>4 DEF CallItem
<1> QED
  BY <1>2, <1>3, <1>4, <1>5 DEF CallItems

LEMMA WordsTyped ==
  /\ ItemWords \in [InputItems -> Words] /\ BlockWords \in [Blocks -> Words]
<1>1. ASSUME NEW item \in InputItems PROVE ItemSays(item) \in Words
  <2>1. CASE item \in TextItems
    BY <2>1 DEF ItemSays, TextItems
  <2>2. CASE item \in CallItems
    <3>1. item.type = "call" /\ item.id \in Nat
      BY <2>2 DEF CallItems
    <3> QED
      BY <3>1 DEF ItemSays, Words
  <2>3. CASE item \in OutputItems
    <3>1. item.type = "output"
      BY <2>3 DEF OutputItems
    <3> QED
      BY <3>1 DEF ItemSays, Words
  <2> QED
    BY <2>1, <2>2, <2>3 DEF InputItems, SpokenItems
<1>2. ASSUME NEW b \in Blocks PROVE BlockSays(b) \in Words
  BY DEF Blocks, BlockSays, Words
<1> QED
  BY <1>1, <1>2 DEF ItemWords, BlockWords

(* What items say, as the words of the items.                                 *)
LEMMA SaidOf ==
  ASSUME NEW s \in Seq(InputItems)
  PROVE  /\ Said(s) = Joined(Mapped(ItemWords, s)) /\ Said(s) \in Words
         /\ \A x \in InputItems : Said(Append(s, x)) = Said(s) \o ItemSays(x)
         /\ \A t \in Seq(InputItems) : Said(s \o t) = Said(s) \o Said(t)
<1>1. ASSUME NEW t \in Seq(InputItems) PROVE Said(t) = Joined(Mapped(ItemWords, t))
  <2>1. \A i \in DOMAIN t : t[i] \in InputItems
    OBVIOUS
  <2>2. [i \in DOMAIN t |-> ItemSays(t[i])] = [i \in DOMAIN t |-> ItemWords[t[i]]]
    BY <2>1 DEF ItemWords
  <2> QED
    BY <2>2 DEF Said, Mapped
<1>2. ItemWords \in [InputItems -> Seq(Nat)]
  BY WordsTyped DEF Words
<1>3. /\ Joined(Mapped(ItemWords, s)) \in Seq(Nat)
      /\ \A x \in InputItems : Joined(Mapped(ItemWords, Append(s, x)))
                                = Joined(Mapped(ItemWords, s)) \o ItemWords[x]
      /\ \A t \in Seq(InputItems) : Joined(Mapped(ItemWords, s \o t))
                                = Joined(Mapped(ItemWords, s)) \o Joined(Mapped(ItemWords, t))
  <2>1. PICK T, U, h : T = Nat /\ U = InputItems /\ h = ItemWords
    OBVIOUS
  <2>2. Maps(h, U, Seq(T)) /\ s \in Seq(U)
    BY <1>2, <2>1 DEF Maps
  <2>3. /\ Joined(Mapped(h, s)) \in Seq(T)
        /\ \A x \in U : Joined(Mapped(h, Append(s, x))) = Joined(Mapped(h, s)) \o h[x]
        /\ \A t \in Seq(U) : Joined(Mapped(h, s \o t)) = Joined(Mapped(h, s)) \o Joined(Mapped(h, t))
    <3>1. Joined(Mapped(h, s)) \in Seq(T)
      BY <2>2, JoinedOfMapped
    <3>2. \A x \in U : Joined(Mapped(h, Append(s, x))) = Joined(Mapped(h, s)) \o h[x]
      BY <2>2, JoinedOfMapped
    <3>3. ASSUME NEW t \in Seq(U)
          PROVE  Joined(Mapped(h, s \o t)) = Joined(Mapped(h, s)) \o Joined(Mapped(h, t))
      BY <2>2, <3>3, JoinedMappedConcat
    <3> QED
      BY <3>1, <3>2, <3>3
  <2> QED
    BY <2>1, <2>3
<1>4. ASSUME NEW x \in InputItems PROVE Said(Append(s, x)) = Said(s) \o ItemSays(x)
  <2>1. Append(s, x) \in Seq(InputItems)
    OBVIOUS
  <2>2. ItemWords[x] = ItemSays(x)
    BY DEF ItemWords
  <2> QED
    BY <1>1, <1>3, <2>1, <2>2
<1>5. ASSUME NEW t \in Seq(InputItems) PROVE Said(s \o t) = Said(s) \o Said(t)
  <2>1. s \o t \in Seq(InputItems)
    OBVIOUS
  <2> QED
    BY <1>1, <1>3, <2>1
<1> QED
  BY <1>1, <1>3, <1>4, <1>5 DEF Words

-----------------------------------------------------------------------------
(* What is gathered of a message's content *)

Gathering(g, role, content) ==
  /\ g \in [0..Len(content) -> Accs]
  /\ Gathered(role, content) = g[Len(content)]
  /\ g[0] = Nothing
  /\ \A n \in 1..Len(content) : g[n] = AddBlock(g[n - 1], role, content[n])

LEMMA FlushForm ==
  ASSUME NEW acc \in Accs, NEW role \in {"user", "assistant"}
  PROVE  FlushText(acc, role) \in Accs /\ FlushText(acc, role).text = <<>>
<1>1. PICK items \in Seq(SpokenItems), text \in Words : acc = [items |-> items, text |-> text]
  BY DEF Accs
<1>2. CASE text = <<>>
  BY <1>1, <1>2 DEF FlushText
<1>3. CASE text # <<>>
  <2>1. PICK x : x = [type |-> "message", role |-> role, text |-> text]
    OBVIOUS
  <2>2. x \in SpokenItems
    <3>1. x \in TextItems
      BY <2>1 DEF TextItems
    <3> QED
      BY <3>1 DEF SpokenItems
  <2>2a. Append(items, x) \in Seq(SpokenItems)
    BY <2>2
  <2>3. PICK more \in Seq(SpokenItems) : more = Append(items, x)
    BY <2>2a
  <2>4. FlushText(acc, role) = [items |-> more, text |-> <<>>]
    BY <1>1, <1>3, <2>1, <2>3 DEF FlushText
  <2> QED
    BY <2>4 DEF Accs, Words
<1> QED
  BY <1>2, <1>3

LEMMA AddBlockForm ==
  ASSUME NEW acc \in Accs, NEW role \in {"user", "assistant"}, NEW b \in Blocks
  PROVE  /\ AddBlock(acc, role, b) \in Accs
         /\ b.kind = "text" => /\ AddBlock(acc, role, b).items = acc.items
                               /\ AddBlock(acc, role, b).text = acc.text \o b.text
         /\ IsToolUse(b) =>
              /\ AddBlock(acc, role, b).items = Append(FlushText(acc, role).items, CallItem(b))
              /\ AddBlock(acc, role, b).text = <<>>
         /\ b.kind # "text" /\ ~IsToolUse(b) => AddBlock(acc, role, b) = acc
<1>1. PICK items \in Seq(SpokenItems), text \in Words : acc = [items |-> items, text |-> text]
  BY DEF Accs
<1>2. CASE b.kind = "text"
  <2>0. b.text \in Seq(Nat) /\ text \in Seq(Nat)
    BY DEF Words, Blocks
  <2>0a. text \o b.text \in Words
    BY <2>0 DEF Words
  <2>1. PICK w \in Words : w = text \o b.text
    BY <2>0a
  <2>1a. ~IsToolUse(b)
    BY <1>2 DEF IsToolUse, ToolKinds
  <2>2. acc.text \o b.text = w
    BY <1>1, <2>1
  <2>3. AddBlock(acc, role, b) = [items |-> items, text |-> w]
    <3>1. acc.items = items
      BY <1>1
    <3> QED
      BY <1>2, <2>1a, <2>2, <3>1 DEF AddBlock
  <2>4. AddBlock(acc, role, b) \in Accs
    BY <2>3 DEF Accs
  <2>5. AddBlock(acc, role, b).items = items /\ AddBlock(acc, role, b).text = w
    BY <2>3
  <2>6. acc.items = items
    BY <1>1
  <2> QED
    BY <1>2, <2>1a, <2>2, <2>4, <2>5, <2>6
<1>3. CASE IsToolUse(b)
  <2>0. b.kind # "text"
    BY <1>3 DEF IsToolUse, ToolKinds
  <2>1. PICK f \in Accs : f = FlushText(acc, role) /\ f.text = <<>>
    BY FlushForm
  <2>2. PICK more \in Seq(SpokenItems) : f = [items |-> more, text |-> <<>>]
    BY <2>1 DEF Accs
  <2>3. PICK x \in SpokenItems : x = CallItem(b)
    <3>1. CallItem(b) \in CallItems
      BY <1>3, ToolUseForm
    <3> QED
      BY <3>1 DEF SpokenItems
  <2>3a. Append(more, x) \in Seq(SpokenItems)
    OBVIOUS
  <2>4. PICK all \in Seq(SpokenItems) : all = Append(more, x)
    BY <2>3a
  <2>5. f.items = more
    BY <2>2
  <2>6. AddBlock(acc, role, b) = [items |-> all, text |-> <<>>]
    BY <1>3, <2>0, <2>1, <2>3, <2>4, <2>5 DEF AddBlock
  <2> QED
    BY <1>3, <2>0, <2>1, <2>2, <2>3, <2>4, <2>6 DEF Accs, Words
<1>4. CASE b.kind # "text" /\ ~IsToolUse(b)
  BY <1>4 DEF AddBlock
<1> QED
  BY <1>2, <1>3, <1>4

LEMMA GatheredRecurs ==
  ASSUME NEW role \in {"user", "assistant"}, NEW c \in Seq(Blocks)
  PROVE  \E g : Gathering(g, role, c)
<1> DEFINE L == Len(c)
           step == [x \in (1..L) \X Accs |-> AddBlock(x[2], role, c[x[1]])]
           Is(f) == f = [n \in 0..L |-> IF n = 0 THEN Nothing ELSE AddBlock(f[n - 1], role, c[n])]
<1>1. L \in Nat
  OBVIOUS
<1>2. step \in [(1..L) \X Accs -> Accs]
  <2>1. ASSUME NEW x \in (1..L) \X Accs
        PROVE  AddBlock(x[2], role, c[x[1]]) \in Accs
    <3>1. c[x[1]] \in Blocks /\ x[2] \in Accs
      OBVIOUS
    <3> QED
      BY <3>1, AddBlockForm
  <2> QED
    BY <2>1
<1>3. Nothing \in Accs
  BY DEF Nothing, Accs, Words
<1>4. PICK f \in [0..L -> Accs] :
         f[0] = Nothing /\ \A n \in 1..L : f[n] = step[<<n, f[n - 1]>>]
  <2>1. PICK top, D, does, base :
           top = L /\ D = Accs /\ does = step /\ base = Nothing
    OBVIOUS
  <2>2. top \in Nat /\ base \in D /\ does \in [(1..top) \X D -> D]
    <3> HIDE DEF step, L
    <3> QED
      BY <1>1, <1>2, <1>3, <2>1
  <2>3. PICK f : Recurs(f, top, D, base, does)
    BY <2>2, Recursion
  <2> HIDE DEF L, step
  <2> QED
    BY <2>1, <2>3 DEF Recurs
<1>5. ASSUME NEW n \in 1..L
      PROVE  f[n] = AddBlock(f[n - 1], role, c[n])
  <2>1. n - 1 \in 0..L
    BY <1>1
  <2>2. PICK k \in Accs : k = f[n - 1]
    BY <1>4, <2>1
  <2>3. step[<<n, k>>] = AddBlock(k, role, c[n])
    OBVIOUS
  <2> QED
    BY <1>4, <2>2, <2>3
<1>6. Is(f)
  <2>1. \A n \in 0..L : n = 0 \/ n \in 1..L
    BY <1>1
  <2>2. \A n \in 0..L : f[n] = IF n = 0 THEN Nothing ELSE AddBlock(f[n - 1], role, c[n])
    BY <1>4, <1>5, <2>1
  <2> QED
    BY <1>4, <2>2
<1> DEFINE gathered == CHOOSE g : Is(g)
<1>7. Is(gathered)
  BY <1>6
<1>8. Gathered(role, c) = gathered[L]
  BY DEF Gathered, Nothing
<1>9. gathered = f
  <2> DEFINE S == {n \in 0..L : gathered[n] = f[n]}
  <2>2. 0 \in S
    <3> HIDE DEF gathered
    <3>1. gathered[0] = Nothing
      BY <1>1, <1>7
    <3> QED
      BY <1>1, <1>4, <3>1
  <2>3. ASSUME NEW n \in Nat, n \in S, n < L
        PROVE  n + 1 \in S
    <3>1. PICK m \in 1..L : m = n + 1
      BY <1>1, <2>3
    <3>2. m \in 0..L /\ m # 0 /\ m - 1 = n
      BY <1>1, <2>3, <3>1
    <3>3. gathered[m] = AddBlock(gathered[n], role, c[m])
      <4> HIDE DEF gathered
      <4> QED
        BY <1>7, <3>2
    <3>4. f[m] = AddBlock(f[n], role, c[m])
      BY <1>5, <3>2
    <3> QED
      BY <2>3, <3>1, <3>2, <3>3, <3>4
  <2>4. 0..L \subseteq S
    <3> HIDE DEF S
    <3> QED
      BY <1>1, <2>2, <2>3, AllUpTo
  <2>5. \A n \in 0..L : gathered[n] = f[n]
    BY <2>4
  <2>6. gathered = [n \in 0..L |-> gathered[n]]
    <3> HIDE DEF gathered
    <3> QED
      BY <1>7
  <2>7. f = [n \in 0..L |-> f[n]]
    BY <1>4
  <2> QED
    <3> HIDE DEF gathered
    <3> QED
      BY <2>5, <2>6, <2>7
<1>10. Gathered(role, c) = f[L]
  BY <1>8, <1>9
<1>11. Gathering(f, role, c)
  BY <1>4, <1>5, <1>10 DEF Gathering
<1> QED
  BY <1>11

-----------------------------------------------------------------------------
(* The items of one message *)

\* Every item is a text, or the call of one of the first n blocks.
SpokenOf(items, c, n) ==
  \A i \in 1..Len(items) :
     \/ items[i] \in TextItems /\ items[i].text # <<>>
     \/ \E j \in 1..n : IsToolUse(c[j]) /\ items[i] = CallItem(c[j])

\* Not two calls, nor two outputs, of one id.
OneEach(items) ==
  \A i, k \in 1..Len(items) :
     items[i].type # "message" /\ items[i].type = items[k].type /\ items[i].id = items[k].id => i = k

UsesApart(c) ==
  \A j, k \in 1..Len(c) :
     IsToolUse(c[j]) /\ IsToolUse(c[k]) /\ c[j].text[1] = c[k].text[1] => j = k

LEMMA AppendForm ==
  ASSUME NEW T, NEW s \in Seq(T), NEW x \in T, NEW N \in Nat, N = Len(s), NEW k, k = Append(s, x)
  PROVE  /\ k \in Seq(T) /\ Len(k) = N + 1 /\ k[N + 1] = x
         /\ \A i \in 1..N : k[i] = s[i]
         /\ \A i \in 1..(N + 1) : i \in 1..N \/ i = N + 1
OBVIOUS

LEMMA TextAppended ==
  ASSUME NEW items \in Seq(InputItems), NEW x \in TextItems, x.text # <<>>, NEW c, NEW n,
         SpokenOf(items, c, n), OneEach(items)
  PROVE  SpokenOf(Append(items, x), c, n) /\ OneEach(Append(items, x))
<1>1. PICK N, k : N = Len(items) /\ k = Append(items, x)
  OBVIOUS
<1>1a. N \in Nat
  BY <1>1
<1>2. x \in InputItems /\ x.type = "message"
  BY DEF InputItems, SpokenItems, TextItems
<1>3. /\ Len(k) = N + 1 /\ k[N + 1] = x
      /\ \A i \in 1..N : k[i] = items[i]
      /\ \A i \in 1..(N + 1) : i \in 1..N \/ i = N + 1
  BY <1>1, <1>1a, <1>2, AppendForm
<1>4. SpokenOf(k, c, n)
  BY <1>1, <1>3 DEF SpokenOf
<1>5. OneEach(k)
  BY <1>1, <1>2, <1>3 DEF OneEach
<1> QED
  BY <1>1, <1>4, <1>5

LEMMA CallAppended ==
  ASSUME NEW items \in Seq(InputItems), NEW c \in Seq(Blocks), NEW n \in Nat, NEW m \in 1..Len(c),
         m = n + 1, IsToolUse(c[m]), UsesApart(c), SpokenOf(items, c, n), OneEach(items)
  PROVE  SpokenOf(Append(items, CallItem(c[m])), c, m) /\ OneEach(Append(items, CallItem(c[m])))
<1>1. PICK N, x, k : N = Len(items) /\ x = CallItem(c[m]) /\ k = Append(items, x)
  OBVIOUS
<1>1a. N \in Nat
  BY <1>1
<1>2. /\ x \in InputItems /\ x.type = "call" /\ x.id = c[m].text[1]
  <2>1. c[m] \in Blocks
    OBVIOUS
  <2>2. x \in CallItems /\ x.type = "call" /\ x.id = c[m].text[1]
    BY <1>1, <2>1, ToolUseForm
  <2> QED
    BY <2>2 DEF InputItems, SpokenItems
<1>3. /\ Len(k) = N + 1 /\ k[N + 1] = x
      /\ \A i \in 1..N : k[i] = items[i]
      /\ \A i \in 1..(N + 1) : i \in 1..N \/ i = N + 1
  BY <1>1, <1>1a, <1>2, AppendForm
<1>4. 1..n \subseteq 1..m /\ m \in 1..m /\ m \notin 1..n /\ 1..n \subseteq 1..Len(c)
  OBVIOUS
<1>5. SpokenOf(k, c, m)
  BY <1>1, <1>3, <1>4 DEF SpokenOf
<1>6. ASSUME NEW i \in 1..N, items[i].type = "call" PROVE items[i].id # x.id
  <2>1. items[i] \notin TextItems
    BY <1>6 DEF TextItems
  <2>2. PICK j \in 1..n : IsToolUse(c[j]) /\ items[i] = CallItem(c[j])
    BY <1>1, <2>1 DEF SpokenOf
  <2>3. j \in 1..Len(c) /\ j # m /\ c[j] \in Blocks
    BY <1>4, <2>2
  <2>4. items[i].id = c[j].text[1]
    BY <2>2, <2>3, ToolUseForm
  <2> QED
    BY <1>2, <2>2, <2>3, <2>4 DEF UsesApart
<1>7. OneEach(k)
  BY <1>1, <1>2, <1>3, <1>6 DEF OneEach
<1> QED
  BY <1>1, <1>5, <1>7

LEMMA FlushKeeps ==
  ASSUME NEW acc \in Accs, NEW role \in {"user", "assistant"}, NEW c, NEW n,
         SpokenOf(acc.items, c, n), OneEach(acc.items)
  PROVE  /\ SpokenOf(FlushText(acc, role).items, c, n) /\ OneEach(FlushText(acc, role).items)
         /\ Said(FlushText(acc, role).items) = Said(acc.items) \o acc.text
<1>1. PICK items, text : items = acc.items /\ text = acc.text
  OBVIOUS
<1>2. items \in Seq(SpokenItems) /\ text \in Seq(Nat)
  BY <1>1 DEF Accs, Words
<1>3. items \in Seq(InputItems)
  BY <1>2 DEF InputItems
<1>4. CASE text = <<>>
  <2>1. Said(items) \in Seq(Nat)
    BY <1>3, SaidOf DEF Words
  <2>2. Said(items) \o <<>> = Said(items)
    BY <2>1
  <2>3. FlushText(acc, role) = acc
    BY <1>1, <1>4 DEF FlushText
  <2> QED
    BY <1>1, <1>4, <2>2, <2>3
<1>5. CASE text # <<>>
  <2>1. PICK x : x = [type |-> "message", role |-> role, text |-> text]
    OBVIOUS
  <2>2. x \in TextItems /\ x.text = text /\ x.type = "message"
    BY <1>2, <2>1 DEF TextItems, Words
  <2>3. x \in InputItems /\ ItemSays(x) = text
    BY <2>2 DEF InputItems, SpokenItems, ItemSays
  <2>4. FlushText(acc, role).items = Append(items, x)
    BY <1>1, <1>5, <2>1 DEF FlushText
  <2>5. SpokenOf(Append(items, x), c, n) /\ OneEach(Append(items, x))
    BY <1>1, <1>3, <1>5, <2>2, TextAppended
  <2>6. Said(Append(items, x)) = Said(items) \o text
    BY <1>3, <2>3, SaidOf
  <2> QED
    BY <1>1, <2>4, <2>5, <2>6
<1> QED
  BY <1>4, <1>5

\* What the first blocks say is what the items and the text at hand say.
GathersTo(acc, c, n, says) ==
  /\ SpokenOf(acc.items, c, n) /\ OneEach(acc.items)
  /\ Said(acc.items) \o acc.text = says

LEMMA NothingGathers ==
  ASSUME NEW c
  PROVE  GathersTo(Nothing, c, 0, <<>>)
<1>1. PICK e : e = <<>>
  OBVIOUS
<1>2. Len(e) = 0 /\ e \in Seq(InputItems)
  BY <1>1
<1>3. SpokenOf(e, c, 0) /\ OneEach(e)
  BY <1>2 DEF SpokenOf, OneEach
<1>4. Said(e) = <<>>
  <2>1. Maps(ItemWords, InputItems, Seq(Nat))
    BY WordsTyped DEF Maps, Words
  <2>2. Joined(Mapped(ItemWords, <<>>)) = <<>>
    BY <1>1, <1>2, <2>1, JoinedOfMapped
  <2> QED
    BY <1>1, <1>2, <2>2, SaidOf
<1>5. Said(e) \o <<>> = <<>>
  BY <1>4
<1>6. Nothing.items = e /\ Nothing.text = <<>>
  BY <1>1 DEF Nothing
<1> QED
  BY <1>3, <1>5, <1>6 DEF GathersTo

LEMMA BlockGathers ==
  ASSUME NEW acc \in Accs, NEW role \in {"user", "assistant"}, NEW c \in Seq(Blocks), UsesApart(c),
         NEW n \in Nat, NEW m \in 1..Len(c), m = n + 1, NEW says, GathersTo(acc, c, n, says)
  PROVE  GathersTo(AddBlock(acc, role, c[m]), c, m, says \o BlockSays(c[m]))
<1>1. PICK b \in Blocks : b = c[m]
  OBVIOUS
<1>2. PICK new \in Accs : new = AddBlock(acc, role, b)
  BY AddBlockForm
<1>3. SpokenOf(acc.items, c, n) /\ OneEach(acc.items) /\ Said(acc.items) \o acc.text = says
  BY DEF GathersTo
<1>4. PICK items, text, w : items = acc.items /\ text = acc.text /\ w = b.text
  OBVIOUS
<1>5. /\ items \in Seq(SpokenItems) /\ text \in Seq(Nat) /\ w \in Seq(Nat)
  BY <1>4 DEF Accs, Words, Blocks
<1>6. items \in Seq(InputItems)
  BY <1>5 DEF InputItems
<1>7. Said(items) \in Seq(Nat)
  BY <1>6, SaidOf DEF Words
<1>8. SpokenOf(items, c, m)
  BY <1>3, <1>4 DEF SpokenOf
<1>9. CASE b.kind = "text"
  <2>1. new.items = items /\ new.text = text \o w
    BY <1>2, <1>4, <1>9, AddBlockForm
  <2>2. Said(items) \o (text \o w) = (Said(items) \o text) \o w
    <3>0. PICK T : T = Nat
      OBVIOUS
    <3>1. PICK a \in Seq(T), t \in Seq(T), u \in Seq(T) : a = Said(items) /\ t = text /\ u = w
      BY <1>5, <1>7, <3>0
    <3>2. (a \o t) \o u = a \o (t \o u)
      BY ConcatAssociative
    <3> QED
      BY <3>1, <3>2
  <2>3. BlockSays(b) = w
    BY <1>4, <1>9 DEF BlockSays
  <2>4. Said(new.items) \o new.text = says \o BlockSays(b)
    BY <1>3, <1>4, <2>1, <2>2, <2>3
  <2> QED
    BY <1>1, <1>2, <1>3, <1>4, <1>8, <2>1, <2>4 DEF GathersTo
<1>10. CASE IsToolUse(b)
  <2>1. PICK f \in Accs : f = FlushText(acc, role)
    BY FlushForm
  <2>2. SpokenOf(f.items, c, n) /\ OneEach(f.items) /\ Said(f.items) = says
    BY <1>3, <2>1, FlushKeeps
  <2>3. new.items = Append(f.items, CallItem(b)) /\ new.text = <<>>
    BY <1>2, <1>10, <2>1, AddBlockForm
  <2>4. f.items \in Seq(InputItems)
    BY DEF Accs, InputItems
  <2>5. SpokenOf(new.items, c, m) /\ OneEach(new.items)
    BY <1>1, <1>10, <2>2, <2>3, <2>4, CallAppended
  <2>6. CallItem(b) \in InputItems /\ ItemSays(CallItem(b)) = w
    <3>1. CallItem(b) \in CallItems /\ CallItem(b).id = b.text[1] /\ CallItem(b).type = "call"
          /\ b.text = <<b.text[1]>>
      BY <1>10, ToolUseForm
    <3> QED
      BY <1>4, <3>1 DEF InputItems, SpokenItems, ItemSays
  <2>7. Said(new.items) = says \o w
    <3>1. Said(Append(f.items, CallItem(b))) = Said(f.items) \o ItemSays(CallItem(b))
      BY <2>4, <2>6, SaidOf
    <3> QED
      BY <2>2, <2>3, <2>6, <3>1
  <2>8. says \in Seq(Nat)
    BY <2>2, <2>4, SaidOf DEF Words
  <2>9. PICK v \in Seq(Nat) : v = says \o w
    <3>1. says \o w \in Seq(Nat)
      BY <1>5, <2>8
    <3> QED
      BY <3>1
  <2>10. v \o <<>> = v
    OBVIOUS
  <2>11. BlockSays(b) = w
    BY <1>4, <1>10 DEF BlockSays, IsToolUse, ToolKinds
  <2> QED
    BY <1>1, <1>2, <2>3, <2>5, <2>7, <2>9, <2>10, <2>11 DEF GathersTo
<1>11. CASE b.kind # "text" /\ ~IsToolUse(b)
  <2>1. new = acc
    BY <1>2, <1>11, AddBlockForm
  <2>2. BlockSays(b) = <<>>
    <3>1. b.kind \in {"none", "thinking"}
      BY <1>11 DEF Blocks, IsToolUse
    <3>2. b.kind = "none" => b.text = <<>>
      BY DEF Blocks
    <3> QED
      BY <3>1, <3>2 DEF BlockSays
  <2>3. says \in Seq(Nat)
    <3>1. PICK a \in Seq(Nat), t \in Seq(Nat) : a = Said(items) /\ t = text
      BY <1>5, <1>7
    <3>2. a \o t \in Seq(Nat)
      OBVIOUS
    <3> QED
      BY <1>3, <1>4, <3>1, <3>2
  <2>4. says \o <<>> = says
    BY <2>3
  <2> QED
    BY <1>1, <1>2, <1>3, <1>4, <1>8, <2>1, <2>2, <2>4 DEF GathersTo
<1> QED
  BY <1>9, <1>10, <1>11

LEMMA TalkSays ==
  ASSUME NEW m \in Talk
  PROVE  /\ m.role \in {"user", "assistant"} /\ m.content \in Seq(Blocks)
         /\ MessageItems(m) = FlushText(Gathered(m.role, m.content), m.role).items
         /\ MessageSays(m) = Joined(Mapped(BlockWords, m.content))
<1>1. m.role \in {"user", "assistant"} /\ m.content \in Seq(Blocks) /\ m.role # "tool"
  BY DEF Talk
<1>2. PICK c \in Seq(Blocks) : c = m.content
  BY <1>1
<1>3. [i \in DOMAIN c |-> BlockSays(c[i])] = Mapped(BlockWords, c)
  <2>1. \A i \in DOMAIN c : c[i] \in Blocks
    OBVIOUS
  <2>2. [i \in DOMAIN c |-> BlockSays(c[i])] = [i \in DOMAIN c |-> BlockWords[c[i]]]
    BY <2>1 DEF BlockWords
  <2> QED
    BY <2>2 DEF Mapped
<1> QED
  BY <1>1, <1>2, <1>3 DEF MessageItems, MessageSays

\* The items of a message that is not a tool's.
TalkGives(m, items) ==
  /\ SpokenOf(items, m.content, Len(m.content)) /\ OneEach(items)
  /\ Said(items) = MessageSays(m)

LEMMA TalkGathers ==
  ASSUME NEW m \in Talk
  PROVE  /\ MessageItems(m) \in Seq(SpokenItems) /\ MessageSays(m) \in Words
         /\ UsesApart(m.content) => TalkGives(m, MessageItems(m))
<1>1. PICK role \in {"user", "assistant"}, c \in Seq(Blocks) : role = m.role /\ c = m.content
  BY TalkSays
<1>2. PICK L \in Nat : L = Len(c)
  OBVIOUS
<1>3. PICK g : Gathering(g, role, c)
  BY GatheredRecurs
<1>4. /\ g \in [0..L -> Accs] /\ Gathered(role, c) = g[L] /\ g[0] = Nothing
      /\ \A n \in 1..L : g[n] = AddBlock(g[n - 1], role, c[n])
  BY <1>2, <1>3 DEF Gathering
<1>5. PICK w : w = Mapped(BlockWords, c)
  OBVIOUS
<1>6. w \in Seq(Seq(Nat)) /\ Len(w) = L /\ \A n \in 1..L : w[n] = BlockSays(c[n])
  <2>1. Maps(BlockWords, Blocks, Seq(Nat))
    BY WordsTyped DEF Maps, Words
  <2>2. IsMapped(w, BlockWords, c, Seq(Nat))
    BY <1>5, <2>1, MappedIs
  <2>3. \A n \in 1..L : BlockWords[c[n]] = BlockSays(c[n])
    BY <1>2 DEF BlockWords
  <2> QED
    BY <1>2, <2>2, <2>3 DEF IsMapped
<1>7. PICK j : Joining(j, w, Nat)
  BY <1>6, JoinedRecurs
<1>8. /\ j \in [0..L -> Seq(Nat)] /\ Joined(w) = j[L] /\ j[0] = <<>>
      /\ \A n \in 1..L : j[n] = j[n - 1] \o w[n]
  BY <1>6, <1>7 DEF Joining
<1>9. PICK last \in Accs : last = g[L]
  BY <1>4
<1>10. MessageItems(m) = FlushText(last, role).items /\ MessageSays(m) = j[L]
  BY <1>1, <1>4, <1>5, <1>8, <1>9, TalkSays
<1>11. MessageItems(m) \in Seq(SpokenItems) /\ MessageSays(m) \in Words
  <2>1. FlushText(last, role) \in Accs
    BY FlushForm
  <2>2. j[L] \in Seq(Nat)
    BY <1>8
  <2> QED
    BY <1>10, <2>1, <2>2 DEF Accs, Words
<1>12. ASSUME UsesApart(c) PROVE TalkGives(m, MessageItems(m))
  <2> DEFINE S == {n \in 0..L : GathersTo(g[n], c, n, j[n])}
  <2>1. 0 \in S
    <3>1. GathersTo(Nothing, c, 0, <<>>)
      BY NothingGathers
    <3> QED
      BY <1>4, <1>8, <3>1
  <2>2. ASSUME NEW n \in Nat, n \in S, n < L PROVE n + 1 \in S
    <3>1. PICK k : k = n + 1
      OBVIOUS
    <3>2. k \in 1..Len(c) /\ k \in 0..L /\ k \in 1..L /\ k - 1 = n /\ n \in 0..L
      <4>1. n < L
        BY <2>2
      <4> QED
        BY <1>2, <3>1, <4>1
    <3>3. GathersTo(g[n], c, n, j[n])
      BY <2>2
    <3>4. PICK acc \in Accs : acc = g[n]
      BY <1>4, <3>2
    <3>5. GathersTo(AddBlock(acc, role, c[k]), c, k, j[n] \o BlockSays(c[k]))
      BY <1>12, <3>1, <3>2, <3>3, <3>4, BlockGathers
    <3>6. g[k] = AddBlock(acc, role, c[k]) /\ j[k] = j[n] \o BlockSays(c[k])
      BY <1>4, <1>6, <1>8, <3>2, <3>4
    <3>7. GathersTo(g[k], c, k, j[k])
      BY <3>5, <3>6
    <3> QED
      BY <3>1, <3>2, <3>7
  <2>3. L \in S
    <3> HIDE DEF S
    <3>1. 0..L \subseteq S
      BY <2>1, <2>2, AllUpTo
    <3> QED
      BY <3>1
  <2>4. GathersTo(last, c, L, j[L])
    BY <1>9, <2>3
  <2>5. SpokenOf(last.items, c, L) /\ OneEach(last.items) /\ Said(last.items) \o last.text = j[L]
    BY <2>4 DEF GathersTo
  <2>6. /\ SpokenOf(FlushText(last, role).items, c, L) /\ OneEach(FlushText(last, role).items)
        /\ Said(FlushText(last, role).items) = Said(last.items) \o last.text
    BY <2>5, FlushKeeps
  <2> QED
    BY <1>1, <1>2, <1>10, <2>5, <2>6 DEF TalkGives
<1> QED
  BY <1>1, <1>11, <1>12

-----------------------------------------------------------------------------
(* The items of a history *)

SpokenBy(messages) == Joined([i \in DOMAIN messages |-> MessageSays(messages[i])])

LEMMA ResultSays ==
  ASSUME NEW m \in Results
  PROVE  \E o \in OutputItems : /\ o = [type |-> "output", id |-> m.id, custom |-> m.custom]
                                /\ o \in InputItems /\ ItemSays(o) = <<>>
                                /\ o.type = "output" /\ o.id = m.id /\ o.custom = m.custom
                                /\ MessageItems(m) = <<o>> /\ MessageSays(m) = <<>>
<1>1. m.role = "tool" /\ m.id \in Nat /\ m.custom \in BOOLEAN
  BY DEF Results
<1>2. PICK o : o = [type |-> "output", id |-> m.id, custom |-> m.custom]
  OBVIOUS
<1>3. o \in OutputItems /\ o.type = "output" /\ o.id = m.id /\ o.custom = m.custom
  BY <1>1, <1>2 DEF OutputItems
<1>4. o \in InputItems /\ ItemSays(o) = <<>>
  BY <1>3 DEF InputItems, ItemSays
<1>5. MessageItems(m) = <<o>> /\ MessageSays(m) = <<>>
  BY <1>1, <1>2 DEF MessageItems, MessageSays
<1> QED
  BY <1>2, <1>3, <1>4, <1>5

LEMMA MessagesTyped ==
  /\ Maps(ItemsOf, Messages, Seq(InputItems))
  /\ Maps(MessageWords, Messages, Seq(Nat))
<1>1. ASSUME NEW m \in Messages PROVE MessageItems(m) \in Seq(InputItems) /\ MessageSays(m) \in Seq(Nat)
  <2>1. CASE m \in Talk
    <3>1. MessageItems(m) \in Seq(SpokenItems) /\ MessageSays(m) \in Words
      BY <2>1, TalkGathers
    <3> QED
      BY <3>1 DEF InputItems, Words
  <2>2. CASE m \in Results
    <3>1. PICK o \in InputItems : MessageItems(m) = <<o>> /\ MessageSays(m) = <<>>
      BY <2>2, ResultSays
    <3> QED
      BY <3>1
  <2> QED
    BY <2>1, <2>2 DEF Messages
<1> QED
  BY <1>1 DEF Maps, ItemsOf, MessageWords

LEMMA HistoryMapped ==
  ASSUME NEW hs \in Seq(Messages)
  PROVE  /\ ToInputItems(hs) = Joined(Mapped(ItemsOf, hs))
         /\ SpokenBy(hs) = Joined(Mapped(MessageWords, hs))
<1>1. \A i \in DOMAIN hs : hs[i] \in Messages
  OBVIOUS
<1>2. [i \in DOMAIN hs |-> MessageItems(hs[i])] = Mapped(ItemsOf, hs)
  <2>1. [i \in DOMAIN hs |-> MessageItems(hs[i])] = [i \in DOMAIN hs |-> ItemsOf[hs[i]]]
    BY <1>1 DEF ItemsOf
  <2> QED
    BY <2>1 DEF Mapped
<1>3. [i \in DOMAIN hs |-> MessageSays(hs[i])] = Mapped(MessageWords, hs)
  <2>1. [i \in DOMAIN hs |-> MessageSays(hs[i])] = [i \in DOMAIN hs |-> MessageWords[hs[i]]]
    BY <1>1 DEF MessageWords
  <2> QED
    BY <2>1 DEF Mapped
<1> QED
  BY <1>2, <1>3 DEF ToInputItems, SpokenBy

\* One message more.
LEMMA HistoryGrows ==
  ASSUME NEW hs \in Seq(Messages), NEW m \in Messages
  PROVE  /\ ToInputItems(hs) \in Seq(InputItems) /\ SpokenBy(hs) \in Seq(Nat)
         /\ MessageItems(m) \in Seq(InputItems) /\ MessageSays(m) \in Seq(Nat)
         /\ ToInputItems(Append(hs, m)) = ToInputItems(hs) \o MessageItems(m)
         /\ SpokenBy(Append(hs, m)) = SpokenBy(hs) \o MessageSays(m)
<1>1. PICK more \in Seq(Messages) : more = Append(hs, m)
  <2>1. Append(hs, m) \in Seq(Messages)
    OBVIOUS
  <2> QED
    BY <2>1
<1>2. ItemsOf[m] = MessageItems(m) /\ MessageWords[m] = MessageSays(m)
  BY DEF ItemsOf, MessageWords
<1>3. MessageItems(m) \in Seq(InputItems) /\ MessageSays(m) \in Seq(Nat)
  BY <1>2, MessagesTyped DEF Maps
<1>4. /\ Joined(Mapped(ItemsOf, hs)) \in Seq(InputItems)
      /\ Joined(Mapped(ItemsOf, Append(hs, m))) = Joined(Mapped(ItemsOf, hs)) \o ItemsOf[m]
  BY MessagesTyped, JoinedOfMapped
<1>5. /\ Joined(Mapped(MessageWords, hs)) \in Seq(Nat)
      /\ Joined(Mapped(MessageWords, Append(hs, m))) = Joined(Mapped(MessageWords, hs)) \o MessageWords[m]
  BY MessagesTyped, JoinedOfMapped
<1>6. /\ ToInputItems(hs) = Joined(Mapped(ItemsOf, hs))
      /\ SpokenBy(hs) = Joined(Mapped(MessageWords, hs))
      /\ ToInputItems(more) = Joined(Mapped(ItemsOf, more))
      /\ SpokenBy(more) = Joined(Mapped(MessageWords, more))
  BY HistoryMapped
<1> QED
  BY <1>1, <1>2, <1>3, <1>4, <1>5, <1>6

\* Outputs stand for tools' messages.
LEMMA OutputsAreResults ==
  ASSUME NEW hs \in Seq(Messages), NEW n
  PROVE  (\E i \in 1..Len(ToInputItems(hs)) : /\ ToInputItems(hs)[i].type = "output"
                                              /\ ToInputItems(hs)[i].id = n)
           <=> (\E m \in Range(hs) : m.role = "tool" /\ m.id = n)
<1>1. PICK its, parts : its = ToInputItems(hs) /\ parts = Mapped(ItemsOf, hs)
  OBVIOUS
<1>2. parts \in Seq(Seq(InputItems)) /\ Len(parts) = Len(hs) /\ \A i \in 1..Len(hs) : parts[i] = MessageItems(hs[i])
  <2>1. IsMapped(parts, ItemsOf, hs, Seq(InputItems))
    BY <1>1, MessagesTyped, MappedIs
  <2>2. \A i \in 1..Len(hs) : ItemsOf[hs[i]] = MessageItems(hs[i])
    BY DEF ItemsOf
  <2> QED
    BY <2>1, <2>2 DEF IsMapped
<1>3. its = Joined(parts)
  BY <1>1, HistoryMapped
<1>4. Members(its) = UNION {Members(parts[i]) : i \in 1..Len(hs)}
  BY <1>2, <1>3, JoinedHas
<1>5. ASSUME NEW i \in 1..Len(its), its[i].type = "output", its[i].id = n
      PROVE  \E m \in Range(hs) : m.role = "tool" /\ m.id = n
  <2>1. its[i] \in Members(its)
    BY DEF Members
  <2>2. PICK k \in 1..Len(hs) : its[i] \in Members(parts[k])
    BY <1>4, <2>1
  <2>3. PICK m \in Messages : m = hs[k]
    OBVIOUS
  <2>4. m \in Range(hs)
    BY <2>3 DEF Range
  <2>5. PICK p \in 1..Len(parts[k]) : its[i] = parts[k][p]
    BY <2>2 DEF Members
  <2>6. parts[k] = MessageItems(m)
    BY <1>2, <2>3
  <2>7. m \notin Talk
    <3> SUFFICES ASSUME m \in Talk PROVE FALSE
      OBVIOUS
    <3>1. MessageItems(m) \in Seq(SpokenItems)
      BY TalkGathers
    <3>2. its[i] \in SpokenItems
      BY <2>5, <2>6, <3>1
    <3> QED
      BY <1>5, <3>2 DEF SpokenItems, TextItems, CallItems
  <2>8. m \in Results
    BY <2>7 DEF Messages
  <2>9. PICK o : MessageItems(m) = <<o>> /\ o.id = m.id
    BY <2>8, ResultSays
  <2>10. its[i] = o
    BY <2>5, <2>6, <2>9
  <2>11. m.role = "tool"
    BY <2>8 DEF Results
  <2> QED
    BY <1>5, <2>4, <2>9, <2>10, <2>11
<1>6. ASSUME NEW m \in Range(hs), m.role = "tool", m.id = n
      PROVE  \E i \in 1..Len(its) : its[i].type = "output" /\ its[i].id = n
  <2>1. PICK k \in 1..Len(hs) : m = hs[k]
    BY DEF Range
  <2>2. m \in Messages /\ m \notin Talk
    BY <1>6, <2>1 DEF Talk
  <2>3. m \in Results
    BY <2>2 DEF Messages
  <2>4. PICK o : MessageItems(m) = <<o>> /\ o.id = m.id /\ o.type = "output"
    BY <2>3, ResultSays
  <2>5. PICK one : one = <<o>>
    OBVIOUS
  <2>6. 1 \in 1..Len(one) /\ one[1] = o
    BY <2>5
  <2>7. parts[k] = one
    BY <1>2, <2>1, <2>4, <2>5
  <2>8. o \in Members(parts[k])
    BY <2>6, <2>7 DEF Members
  <2>9. o \in Members(its)
    BY <1>4, <2>8
  <2> QED
    BY <1>6, <2>4, <2>9 DEF Members
<1> QED
  BY <1>1, <1>5, <1>6

LEMMA NoOutputYet ==
  ASSUME NEW hs \in Seq(Messages), NEW id, ~\E m \in Range(hs) : m.role = "tool" /\ m.id = id,
         NEW its, its = ToInputItems(hs), NEW i \in 1..Len(its)
  PROVE  ~(its[i].type = "output" /\ its[i].id = id)
<1>1. (\E j \in 1..Len(ToInputItems(hs)) : /\ ToInputItems(hs)[j].type = "output"
                                           /\ ToInputItems(hs)[j].id = id)
         <=> (\E m \in Range(hs) : m.role = "tool" /\ m.id = id)
  BY OutputsAreResults
<1>2. ASSUME its[i].type = "output", its[i].id = id PROVE FALSE
  <2>1. \E j \in 1..Len(ToInputItems(hs)) : /\ ToInputItems(hs)[j].type = "output"
                                            /\ ToInputItems(hs)[j].id = id
    BY <1>2
  <2> QED
    BY <1>1, <2>1
<1> QED
  BY <1>2

Numbered(items, n) ==
  \A i \in 1..Len(items) : items[i].type # "message" => items[i].id \in 1..n

NoneEmpty(items) == \A i \in 1..Len(items) : items[i].type = "message" => items[i].text # <<>>

Unused(items, id) == \A i \in 1..Len(items) : items[i].type # "message" => items[i].id # id

HasOutput(items, i) ==
  \E j \in (i + 1)..Len(items) :
     items[j] = [type |-> "output", id |-> items[i].id, custom |-> items[i].custom]

\* Every call has its output behind it or is that of one of `uses`.
Settled(items, uses) ==
  \A i \in 1..Len(items) : items[i].type = "call" =>
     HasOutput(items, i) \/ \E b \in uses : items[i] = CallItem(b)

LEMMA SpokenForm ==
  ASSUME NEW items, NEW c \in Seq(Blocks), SpokenOf(items, c, Len(c)), NEW i \in 1..Len(items)
  PROVE  \/ items[i].type = "message" /\ items[i].text # <<>>
         \/ \E j \in 1..Len(c) : /\ IsToolUse(c[j]) /\ items[i] = CallItem(c[j])
                                 /\ items[i].type = "call" /\ items[i].id = c[j].text[1]
<1>1. CASE items[i] \in TextItems /\ items[i].text # <<>>
  BY <1>1 DEF TextItems
<1>2. CASE \E j \in 1..Len(c) : IsToolUse(c[j]) /\ items[i] = CallItem(c[j])
  <2>1. PICK j \in 1..Len(c) : IsToolUse(c[j]) /\ items[i] = CallItem(c[j])
    BY <1>2
  <2>2. c[j] \in Blocks
    OBVIOUS
  <2>3. items[i].type = "call" /\ items[i].id = c[j].text[1]
    BY <2>1, <2>2, ToolUseForm
  <2> QED
    BY <2>1, <2>3
<1> QED
  BY <1>1, <1>2 DEF SpokenOf

LEMMA TalkAppended ==
  ASSUME NEW its \in Seq(InputItems), NEW m \in Talk, UsesApart(m.content), NEW n,
         Numbered(its, n), OneEach(its), NoneEmpty(its), Settled(its, {}),
         \A j \in 1..Len(m.content) : IsToolUse(m.content[j]) =>
            m.content[j].text[1] \in 1..n /\ Unused(its, m.content[j].text[1]),
         NEW uses, \A j \in 1..Len(m.content) : IsToolUse(m.content[j]) => m.content[j] \in uses,
         NEW all, all = its \o MessageItems(m)
  PROVE  Numbered(all, n) /\ OneEach(all) /\ NoneEmpty(all) /\ Settled(all, uses)
<1>1. PICK c \in Seq(Blocks), new \in Seq(InputItems) : c = m.content /\ new = MessageItems(m)
  <2>1. MessageItems(m) \in Seq(SpokenItems)
    BY TalkGathers
  <2>2. MessageItems(m) \in Seq(InputItems)
    BY <2>1 DEF InputItems
  <2> QED
    BY <2>2, TalkSays
<1>2. SpokenOf(new, c, Len(c)) /\ OneEach(new)
  BY <1>1, TalkGathers DEF TalkGives
<1>3. PICK N \in Nat, M \in Nat : N = Len(its) /\ M = Len(new)
  <2>1. Len(its) \in Nat /\ Len(new) \in Nat
    BY ONLY its \in Seq(InputItems), new \in Seq(InputItems)
  <2> QED
    BY ONLY <2>1
<1>4. /\ Len(all) = N + M
      /\ \A i \in 1..N : all[i] = its[i]
      /\ \A i \in 1..M : all[N + i] = new[i]
  <2>1. IsConcat(all, its, new, InputItems)
    BY <1>1, ConcatForm
  <2> QED
    BY <1>3, <2>1 DEF IsConcat
<1>5. ASSUME NEW i \in 1..(N + M), i \notin 1..N
      PROVE  \E k \in 1..M : i = N + k
  <2>1. i - N \in 1..M /\ i = N + (i - N)
    BY <1>5
  <2> QED
    BY <2>1
<1>6. ASSUME NEW k \in 1..M
      PROVE  \/ new[k].type = "message" /\ new[k].text # <<>>
             \/ \E j \in 1..Len(c) : /\ IsToolUse(c[j]) /\ new[k] = CallItem(c[j])
                                     /\ new[k].type = "call" /\ new[k].id = c[j].text[1]
  BY <1>2, <1>3, SpokenForm
<1>7. Numbered(all, n)
  <2>1. \A k \in 1..M : new[k].type # "message" => new[k].id \in 1..n
    BY <1>1, <1>6
  <2>2. \A i \in 1..N : its[i].type # "message" => its[i].id \in 1..n
    BY <1>3 DEF Numbered
  <2>3. ASSUME NEW i \in 1..(N + M), all[i].type # "message" PROVE all[i].id \in 1..n
    <3>1. CASE i \in 1..N
      BY <1>4, <2>2, <2>3, <3>1
    <3>2. CASE i \notin 1..N
      <4>1. PICK k \in 1..M : i = N + k
        BY <1>5, <3>2
      <4> QED
        BY <1>4, <2>1, <2>3, <4>1
    <3> QED
      BY <3>1, <3>2
  <2> QED
    BY <1>4, <2>3 DEF Numbered
<1>8. NoneEmpty(all)
  BY <1>3, <1>4, <1>5, <1>6 DEF NoneEmpty
<1>9. ASSUME NEW i \in 1..N, NEW k \in 1..M, its[i].type # "message", its[i].type = new[k].type
      PROVE  its[i].id # new[k].id
  BY <1>1, <1>3, <1>6, <1>9 DEF Unused
<1>10. OneEach(all)
  <2>1. ASSUME NEW i \in 1..(N + M), NEW k \in 1..(N + M), all[i].type # "message",
               all[i].type = all[k].type, all[i].id = all[k].id
        PROVE  i = k
    <3>1. CASE i \in 1..N /\ k \in 1..N
      BY <1>3, <1>4, <2>1, <3>1 DEF OneEach
    <3>2. CASE i \in 1..N /\ k \notin 1..N
      <4>1. PICK p \in 1..M : k = N + p
        BY <1>5, <3>2
      <4> QED
        BY <1>4, <1>9, <2>1, <3>2, <4>1
    <3>3. CASE i \notin 1..N /\ k \in 1..N
      <4>1. PICK p \in 1..M : i = N + p
        BY <1>5, <3>3
      <4> QED
        BY <1>4, <1>9, <2>1, <3>3, <4>1
    <3>4. CASE i \notin 1..N /\ k \notin 1..N
      <4>1. PICK p \in 1..M, q \in 1..M : i = N + p /\ k = N + q
        BY <1>5, <3>4
      <4>2. p = q
        BY <1>2, <1>3, <1>4, <2>1, <4>1 DEF OneEach
      <4> QED
        BY <4>1, <4>2
    <3> QED
      BY <3>1, <3>2, <3>3, <3>4
  <2> QED
    BY <1>4, <2>1 DEF OneEach
<1>11. Settled(all, uses)
  <2>1. ASSUME NEW i \in 1..(N + M), all[i].type = "call"
        PROVE  HasOutput(all, i) \/ \E b \in uses : all[i] = CallItem(b)
    <3>1. CASE i \in 1..N
      <4>1. its[i].type = "call" /\ all[i] = its[i]
        BY <1>4, <2>1, <3>1
      <4>2. HasOutput(its, i)
        BY <1>3, <3>1, <4>1 DEF Settled
      <4>3. PICK j \in (i + 1)..Len(its) :
               its[j] = [type |-> "output", id |-> its[i].id, custom |-> its[i].custom]
        BY <4>2 DEF HasOutput
      <4>4. j \in 1..N /\ j \in (i + 1)..Len(all)
        BY <1>3, <1>4, <3>1
      <4>5. all[j] = its[j]
        BY <1>4, <4>4
      <4> QED
        BY <4>1, <4>3, <4>4, <4>5 DEF HasOutput
    <3>2. CASE i \notin 1..N
      <4>1. PICK k \in 1..M : i = N + k
        BY <1>5, <3>2
      <4>2. all[i] = new[k]
        BY <1>4, <4>1
      <4>3. PICK j \in 1..Len(c) : IsToolUse(c[j]) /\ new[k] = CallItem(c[j])
        BY <1>6, <2>1, <4>2
      <4>4. c[j] \in uses
        BY <1>1, <4>3
      <4> QED
        BY <4>2, <4>3, <4>4
    <3> QED
      BY <3>1, <3>2
  <2> QED
    BY <1>4, <2>1 DEF Settled
<1> QED
  BY <1>7, <1>8, <1>10, <1>11

OutputOf(use) == [type |-> "output", id |-> use.text[1], custom |-> use.kind = "custom"]

LEMMA ResultAppended ==
  ASSUME NEW its \in Seq(InputItems), NEW o \in OutputItems, NEW n, NEW uses, NEW use \in Blocks, IsToolUse(use),
         Numbered(its, n), OneEach(its), NoneEmpty(its), Settled(its, uses), o.id \in 1..n,
         \A i \in 1..Len(its) : ~(its[i].type = "output" /\ its[i].id = o.id),
         o = OutputOf(use), NEW all, all = Append(its, o)
  PROVE  Numbered(all, n) /\ OneEach(all) /\ NoneEmpty(all) /\ Settled(all, uses \ {use})
<1>1. PICK N \in Nat : N = Len(its)
  OBVIOUS
<1>2. o \in InputItems /\ o.type = "output"
  BY DEF InputItems, OutputItems
<1>3. /\ Len(all) = N + 1 /\ all[N + 1] = o
      /\ \A i \in 1..N : all[i] = its[i]
      /\ \A i \in 1..(N + 1) : i \in 1..N \/ i = N + 1
  BY <1>1, <1>2, AppendForm
<1>4. Numbered(all, n)
  BY <1>1, <1>2, <1>3 DEF Numbered
<1>5. NoneEmpty(all)
  BY <1>1, <1>2, <1>3 DEF NoneEmpty
<1>6. OneEach(all)
  BY <1>1, <1>2, <1>3 DEF OneEach
<1>7. ASSUME NEW i \in 1..(N + 1), all[i].type = "call"
      PROVE  HasOutput(all, i) \/ \E b \in uses \ {use} : all[i] = CallItem(b)
  <2>1. i \in 1..N /\ all[i] = its[i]
    BY <1>2, <1>3, <1>7
  <2>2. CASE HasOutput(its, i)
    <3>1. PICK j \in (i + 1)..Len(its) :
             its[j] = [type |-> "output", id |-> its[i].id, custom |-> its[i].custom]
      BY <2>2 DEF HasOutput
    <3>2. j \in 1..N /\ j \in (i + 1)..Len(all)
      BY <1>1, <1>3, <2>1
    <3>3. all[j] = its[j]
      BY <1>3, <3>2
    <3> QED
      BY <2>1, <3>1, <3>2, <3>3 DEF HasOutput
  <2>3. CASE \E b \in uses : its[i] = CallItem(b)
    <3>1. PICK b \in uses : its[i] = CallItem(b)
      BY <2>3
    <3>2. CASE b = use
      <4>1. its[i].id = use.text[1] /\ its[i].custom = (use.kind = "custom")
        BY <3>1, <3>2, ToolUseForm
      <4>2. o = [type |-> "output", id |-> all[i].id, custom |-> all[i].custom]
        BY <2>1, <4>1 DEF OutputOf
      <4>3. N + 1 \in (i + 1)..Len(all)
        BY <1>3, <2>1
      <4> QED
        BY <1>3, <4>2, <4>3 DEF HasOutput
    <3> QED
      BY <2>1, <3>1, <3>2
  <2> QED
    BY <1>1, <1>7, <2>1, <2>2, <2>3 DEF Settled
<1> QED
  BY <1>3, <1>4, <1>5, <1>6, <1>7 DEF Settled

-----------------------------------------------------------------------------
(* The stream and the blocks *)

OutItems == [kind : TextKinds \cup ToolKinds, text : Words, done : BOOLEAN]
BlockOf(item) == [kind |-> BlockKind(item.kind), text |-> item.text]

\* The session's blocks are what the server's items have said so far.
Tracks(out, bs) ==
  /\ Len(bs) <= Len(out)
  /\ \A i \in 1..Len(out) :
       /\ out[i].text = <<>> /\ i <= Len(bs) => bs[i] = NoBlock
       /\ out[i].text # <<>> => i <= Len(bs) /\ bs[i] = BlockOf(out[i])
       /\ out[i].kind \in ToolKinds /\ ~out[i].done => out[i].text = <<>>

LEMMA BlockKinds ==
  ASSUME NEW k \in TextKinds \cup ToolKinds
  PROVE  /\ k \in TextKinds => BlockKind(k) \in {"text", "thinking"}
         /\ k \in ToolKinds => BlockKind(k) = k
         /\ BlockKind(k) \in {"text", "thinking"} \cup ToolKinds /\ BlockKind(k) # "none"
BY DEF TextKinds, ToolKinds, BlockKind

LEMMA ContentForm ==
  ASSUME NEW bs \in Seq(Blocks), NEW c, c = Without(bs, {NoBlock})
  PROVE  /\ c \in Seq(Blocks) /\ Members(c) = Members(bs) \ {NoBlock}
         /\ UsesApart(bs) => UsesApart(c)
<1>1. PICK none : none = {NoBlock}
  OBVIOUS
<1>1a. c = Without(bs, none)
  BY <1>1
<1>2. c \in Seq(Blocks) /\ Members(c) = Members(bs) \ none
  BY <1>1a, WithoutSelects
<1>3. PICK at : EmbedsAt(at, c, bs)
  BY <1>1a, WithoutSelects
<1>4. ASSUME UsesApart(bs) PROVE UsesApart(c)
  <2>1. ASSUME NEW i \in 1..Len(c), NEW j \in 1..Len(c), IsToolUse(c[i]), IsToolUse(c[j]),
               c[i].text[1] = c[j].text[1]
        PROVE  i = j
    <3>1. at[i] = at[j]
      <4>1. PICK p \in 1..Len(bs), q \in 1..Len(bs) : p = at[i] /\ q = at[j]
        BY <1>3 DEF EmbedsAt
      <4>2. c[i] = bs[p] /\ c[j] = bs[q]
        BY <1>3, <4>1 DEF EmbedsAt
      <4>3. p = q
        BY <1>4, <2>1, <4>2 DEF UsesApart
      <4> QED
        BY <4>1, <4>3
    <3>2. i \in Nat /\ j \in Nat /\ at[i] \in Nat /\ at[j] \in Nat
      <4>1. at[i] \in Nat /\ at[j] \in Nat
        BY <1>3 DEF EmbedsAt
      <4>2. i \in Nat /\ j \in Nat
        BY <1>2
      <4> QED
        BY <4>1, <4>2
    <3>3. ~(i < j) /\ ~(j < i)
      <4>1. i < j => at[i] < at[j]
        BY <1>3 DEF EmbedsAt
      <4>2. j < i => at[j] < at[i]
        BY <1>3 DEF EmbedsAt
      <4> QED
        BY <3>1, <3>2, <4>1, <4>2
    <3> QED
      BY <3>2, <3>3
  <2> QED
    BY <2>1 DEF UsesApart
<1> QED
  BY <1>1, <1>2, <1>4

LEMMA ContentIsStreamed ==
  ASSUME NEW out \in Seq(OutItems), NEW bs \in Seq(Blocks), Tracks(out, bs),
         NEW str, str = [i \in DOMAIN out |-> BlockOf(out[i])]
  PROVE  Without(bs, {NoBlock}) = Without(str, {b \in Range(str) : b.text = <<>>})
<1> DEFINE T == [kind : {"none", "text", "thinking"} \cup ToolKinds, text : Words]
<1>1. PICK none, empty : none = {NoBlock} /\ empty = {b \in Range(str) : b.text = <<>>}
  OBVIOUS
<1>2. PICK N, M : N = Len(bs) /\ M = Len(out)
  OBVIOUS
<1>3. N \in Nat /\ M \in Nat /\ N <= M
  BY <1>2 DEF Tracks
<1>4. ASSUME NEW i \in 1..M PROVE BlockOf(out[i]) \in T /\ BlockOf(out[i]).text = out[i].text
  <2>1. out[i] \in OutItems
    BY <1>2
  <2>2. BlockKind(out[i].kind) \in {"none", "text", "thinking"} \cup ToolKinds
    BY <2>1, BlockKinds DEF OutItems
  <2> QED
    BY <2>1, <2>2 DEF OutItems, BlockOf
<1>5. DOMAIN out = 1..M
  BY <1>2
<1>6. str \in Seq(T) /\ Len(str) = M /\ \A i \in 1..M : str[i] = BlockOf(out[i])
  <2> HIDE DEF T
  <2> QED
    BY <1>3, <1>4, <1>5
<1>7. bs \in Seq(T)
  <2>1. Blocks \subseteq T
    BY DEF Blocks
  <2> HIDE DEF T
  <2> QED
    BY <2>1
<1>8. \A i \in 1..M : str[i] \in empty <=> out[i].text = <<>>
  <2>1. \A i \in 1..M : str[i] \in Range(str)
    BY <1>3, <1>6 DEF Range
  <2> QED
    BY <1>1, <1>4, <1>6, <2>1
<1>9. ASSUME NEW i \in 1..M, i <= N
      PROVE  (bs[i] \in none <=> str[i] \in empty) /\ (bs[i] \notin none => bs[i] = str[i])
  <2>1. /\ out[i].text = <<>> => bs[i] = NoBlock
        /\ out[i].text # <<>> => bs[i] = BlockOf(out[i])
    BY <1>2, <1>9 DEF Tracks
  <2>2. out[i].text # <<>> => bs[i] # NoBlock
    BY <1>4, <2>1 DEF NoBlock
  <2> QED
    BY <1>1, <1>6, <1>8, <2>1, <2>2
<1>10. ASSUME NEW i \in 1..M, i > N PROVE str[i] \in empty
  <2>1. out[i].text = <<>>
    BY <1>2, <1>3, <1>10 DEF Tracks
  <2> QED
    BY <1>8, <2>1
<1> HIDE DEF T
<1>11. Without(bs, none) = Without(str, empty)
  <2>1. Len(bs) <= Len(str)
    BY <1>2, <1>3, <1>6
  <2>2. \A i \in 1..Len(str) : i <= Len(bs) =>
           (bs[i] \in none <=> str[i] \in empty) /\ (bs[i] \notin none => bs[i] = str[i])
    BY <1>2, <1>6, <1>9
  <2>3. \A i \in 1..Len(str) : i > Len(bs) => str[i] \in empty
    BY <1>2, <1>6, <1>10
  <2>4. KeptAlike(bs, none, str, empty)
    BY <2>1, <2>2, <2>3 DEF KeptAlike
  <2> QED
    BY <1>6, <1>7, <2>4, WithoutAlike
<1> QED
  BY <1>1, <1>11

\* The blocks with b in the i-th place, which is the last.
PutLast(new, i, b) ==
  /\ new \in Seq(Blocks) /\ Len(new) = i /\ new[i] = b
  /\ \A j \in 1..i : j # i /\ j <= Len(blocks) => new[j] = blocks[j]
  /\ \A j \in 1..i : j # i /\ j > Len(blocks) => new[j] = NoBlock

LEMMA NoBlockTyped == NoBlock \in Blocks /\ ~IsToolUse(NoBlock)
BY DEF NoBlock, Blocks, IsToolUse, ToolKinds, Words

LEMMA MergedPuts ==
  ASSUME blocks \in Seq(Blocks), NEW i \in Nat, i # 0, Len(blocks) <= i, NEW delta, NEW b \in Blocks,
         (i <= Len(blocks) /\ blocks[i].kind = delta.kind /\ ~IsToolUse(delta))
            => [delta EXCEPT !.text = blocks[i].text \o delta.text] = b,
         ~(i <= Len(blocks) /\ blocks[i].kind = delta.kind /\ ~IsToolUse(delta)) => delta = b,
         NEW new, new = Merged(i, delta)
  PROVE  PutLast(new, i, b)
<1>1. PICK N \in Nat : N = Len(blocks)
  OBVIOUS
<1>2. N <= i /\ (IF i > N THEN i ELSE N) = i
  BY <1>1
<1>3. new = [j \in 1..i |-> IF j # i THEN IF j <= N THEN blocks[j] ELSE NoBlock ELSE b]
  <2>1. (IF i <= N /\ blocks[i].kind = delta.kind /\ ~IsToolUse(delta)
         THEN [delta EXCEPT !.text = blocks[i].text \o delta.text] ELSE delta) = b
    BY <1>1
  <2>2. new = [j \in 1..i |-> IF j # i THEN IF j <= N THEN blocks[j] ELSE NoBlock
                              ELSE IF j <= N /\ blocks[j].kind = delta.kind /\ ~IsToolUse(delta)
                                   THEN [delta EXCEPT !.text = blocks[j].text \o delta.text] ELSE delta]
    BY <1>1, <1>2 DEF Merged
  <2> QED
    BY <2>1, <2>2
<1>4. \A j \in 1..i : j # i /\ j <= N => blocks[j] \in Blocks
  BY <1>1
<1>5. new \in Seq(Blocks) /\ Len(new) = i
  BY <1>3, <1>4, NoBlockTyped
<1>6. i \in 1..i
  OBVIOUS
<1> QED
  BY <1>1, <1>3, <1>5, <1>6 DEF PutLast

LEMMA PutTracks ==
  ASSUME output \in Seq(OutItems), blocks \in Seq(Blocks), Tracks(output, blocks),
         NEW i \in 1..Len(output), i = Len(output), NEW item \in OutItems, item.text # <<>>,
         item.kind \in ToolKinds => item.done,
         NEW out, out \in Seq(OutItems), Len(out) = i, out[i] = item,
         \A j \in 1..i : j # i => out[j] = output[j],
         NEW new, PutLast(new, i, BlockOf(item))
  PROVE  Tracks(out, new)
<1>1. i \in Nat /\ Len(new) = i /\ new[i] = BlockOf(item)
  BY DEF PutLast
<1>2. PICK N \in Nat : N = Len(blocks)
  OBVIOUS
<1>3. ASSUME NEW j \in 1..i
      PROVE  /\ out[j].text = <<>> /\ j <= i => new[j] = NoBlock
             /\ out[j].text # <<>> => j <= i /\ new[j] = BlockOf(out[j])
             /\ out[j].kind \in ToolKinds /\ ~out[j].done => out[j].text = <<>>
  <2>1. CASE j = i
    BY <1>1, <2>1
  <2>2. CASE j # i
    <3>1. out[j] = output[j] /\ j <= i
      BY <1>1, <2>2
    <3>2. /\ output[j].text = <<>> /\ j <= N => blocks[j] = NoBlock
          /\ output[j].text # <<>> => j <= N /\ blocks[j] = BlockOf(output[j])
          /\ output[j].kind \in ToolKinds /\ ~output[j].done => output[j].text = <<>>
      BY <1>2 DEF Tracks
    <3>3. /\ j <= N => new[j] = blocks[j]
          /\ j > N => new[j] = NoBlock
      BY <1>2, <2>2 DEF PutLast
    <3>4. j <= N \/ j > N
      BY <1>1, <1>2
    <3> QED
      BY <3>1, <3>2, <3>3, <3>4
  <2> QED
    BY <2>1, <2>2
<1> QED
  BY <1>1, <1>3 DEF Tracks

\* A block put last that is not a tool use, or one with an id that no other has.
LEMMA PutApart ==
  ASSUME blocks \in Seq(Blocks), UsesApart(blocks), NEW i \in Nat, NEW b, NEW new, PutLast(new, i, b),
         IsToolUse(b) => \A j \in 1..Len(blocks) : IsToolUse(blocks[j]) => blocks[j].text[1] # b.text[1]
  PROVE  /\ UsesApart(new)
         /\ \A j \in 1..Len(new) : IsToolUse(new[j]) =>
              new[j] = b \/ \E k \in 1..Len(blocks) : new[j] = blocks[k]
<1>1. PICK N \in Nat : N = Len(blocks)
  OBVIOUS
<1>2. Len(new) = i /\ new[i] = b
  BY DEF PutLast
<1>3. ASSUME NEW j \in 1..i, IsToolUse(new[j]), j # i
      PROVE  j \in 1..N /\ new[j] = blocks[j]
  <2>1. j <= N \/ j > N
    BY <1>1
  <2>2. j > N => new[j] = NoBlock
    BY <1>1, <1>3 DEF PutLast
  <2>3. ~(j > N)
    BY <1>3, <2>2, NoBlockTyped
  <2>4. j \in 1..N
    BY <2>1, <2>3
  <2>5. new[j] = blocks[j]
    BY <1>1, <1>3, <2>4 DEF PutLast
  <2> QED
    BY <2>4, <2>5
<1>4. ASSUME NEW j \in 1..i, NEW k \in 1..i, IsToolUse(new[j]), IsToolUse(new[k]),
             new[j].text[1] = new[k].text[1]
      PROVE  j = k
  <2>1. CASE j # i /\ k # i
    BY <1>1, <1>3, <1>4, <2>1 DEF UsesApart
  <2>2. CASE j # i /\ k = i
    <3>1. j \in 1..N /\ new[j] = blocks[j]
      BY <1>3, <1>4, <2>2
    <3> QED
      BY <1>1, <1>2, <1>4, <2>2, <3>1
  <2>3. CASE j = i /\ k # i
    <3>1. k \in 1..N /\ new[k] = blocks[k]
      BY <1>3, <1>4, <2>3
    <3> QED
      BY <1>1, <1>2, <1>4, <2>3, <3>1
  <2> QED
    BY <2>1, <2>2, <2>3
<1> QED
  BY <1>1, <1>2, <1>3, <1>4 DEF UsesApart

-----------------------------------------------------------------------------
(* The invariant *)

TurnTypes ==
  /\ turnAt \in {"prompt", "ask", "stream", "tools"}
  /\ output \in Seq(OutItems) /\ blocks \in Seq(Blocks)
  /\ history \in Seq(Messages) /\ pieces \in Nat

ContentArrived == hadContent => \E i \in 1..Len(output) : output[i].text # <<>>

EndsHonestly ==
  /\ StopReasonsAreHonest
  /\ turnAt = "stream" => stopReason = "none" /\ ending = "none"

\* The calls have different ids; while they arrive, ids that the history lacks.
UsesAreNew ==
  /\ UsesApart(blocks)
  /\ \A j \in 1..Len(blocks) : IsToolUse(blocks[j]) =>
       /\ blocks[j].text[1] \in 1..pieces
       /\ turnAt = "stream" => Unused(ToInputItems(history), blocks[j].text[1])

Conversation(items, says, n, uses) ==
  /\ Numbered(items, n) /\ OneEach(items) /\ NoneEmpty(items)
  /\ Settled(items, uses)
  /\ Said(items) = says

Due == IF turnAt = "tools" THEN Members(Unanswered) ELSE {}
HistoryHolds == Conversation(ToInputItems(history), SpokenBy(history), pieces, Due)
ToolsAreDue == turnAt = "tools" => Unanswered # <<>>

TurnInv ==
  /\ TurnTypes /\ Tracks(output, blocks) /\ ContentArrived /\ EndsHonestly
  /\ UsesAreNew /\ HistoryHolds /\ ToolsAreDue

\* Two items with a type of their own other than a message's.
LEMMA ItemTypes ==
  ASSUME NEW item \in InputItems
  PROVE  item.type \in {"message", "call", "output"}
BY DEF InputItems, SpokenItems, TextItems, CallItems, OutputItems

LEMMA TurnInvFaithful == TurnInv => TurnsAreFaithful
<1> SUFFICES ASSUME TurnInv PROVE TurnsAreFaithful
  OBVIOUS
<1>1. TurnTypes /\ Tracks(output, blocks) /\ EndsHonestly /\ HistoryHolds
  BY DEF TurnInv
<1>2. AnswerIsWhatWasStreamed
  <2>1. Streamed = [i \in DOMAIN output |-> BlockOf(output[i])]
    BY DEF Streamed, BlockOf
  <2>2. Without(blocks, {NoBlock}) = Without(Streamed, {b \in Range(Streamed) : b.text = <<>>})
    BY <1>1, <2>1, ContentIsStreamed DEF TurnTypes
  <2> QED
    BY <2>2 DEF AnswerIsWhatWasStreamed, Content
<1>3. StopReasonsAreHonest
  BY <1>1 DEF EndsHonestly
<1>4. PICK its : its = ToInputItems(history)
  OBVIOUS
<1>5. its \in Seq(InputItems)
  <2>1. history \in Seq(Messages)
    BY <1>1 DEF TurnTypes
  <2>2. its = Joined(Mapped(ItemsOf, history))
    BY <1>4, <2>1, HistoryMapped
  <2> QED
    BY <2>1, <2>2, MessagesTyped, JoinedOfMapped
<1>6. DOMAIN its = 1..Len(its)
  BY <1>5
<1>7. Conversation(its, SpokenBy(history), pieces, Due)
  BY <1>1, <1>4 DEF HistoryHolds
<1>8. ReplayKeepsOrder
  BY <1>4, <1>6, <1>7 DEF Conversation, NoneEmpty, SpokenBy, ReplayKeepsOrder
<1>9. CallsHaveOutputs
  <2>1. ASSUME turnAt \in {"ask", "stream", "prompt"}, NEW i \in 1..Len(its), its[i].type = "call"
        PROVE  \E j \in (i + 1)..Len(its) :
                  /\ its[j] = [type |-> "output", id |-> its[i].id, custom |-> its[i].custom]
                  /\ \A k \in 1..Len(its) \ {i, j} : its[k].type = "message" \/ its[k].id # its[i].id
    <3>1. Settled(its, {}) /\ OneEach(its)
      BY <1>7, <2>1 DEF Conversation, Due
    <3>2. PICK j \in (i + 1)..Len(its) :
             its[j] = [type |-> "output", id |-> its[i].id, custom |-> its[i].custom]
      BY <2>1, <3>1 DEF Settled, HasOutput
    <3>3. j \in 1..Len(its) /\ its[j].type = "output" /\ its[j].id = its[i].id
      BY <1>5, <3>2
    <3>4. ASSUME NEW k \in 1..Len(its) \ {i, j}, its[k].type # "message" PROVE its[k].id # its[i].id
      <4>1. its[k].type \in {"call", "output"}
        <5>1. its[k] \in InputItems
          BY <1>5
        <5> QED
          BY <3>4, <5>1, ItemTypes
      <4> QED
        BY <2>1, <3>1, <3>3, <4>1 DEF OneEach
    <3> QED
      BY <3>2, <3>4
  <2> QED
    BY <1>4, <1>6, <2>1 DEF CallsHaveOutputs
<1> QED
  BY <1>2, <1>3, <1>8, <1>9 DEF TurnsAreFaithful

LEMMA TurnInitInv == StreamInit => TurnInv
<1> SUFFICES ASSUME StreamInit PROVE TurnInv
  OBVIOUS
<1> USE DEF StreamInit
<1>1. PICK e : e = <<>>
  OBVIOUS
<1>2. Len(e) = 0 /\ \A T : e \in Seq(T)
  BY <1>1
<1>3. output = e /\ blocks = e /\ history = e /\ turnAt = "prompt" /\ pieces = 0
  BY <1>1
<1>4. TurnTypes
  BY <1>2, <1>3 DEF TurnTypes
<1>5. Tracks(output, blocks) /\ ContentArrived /\ UsesAreNew
  BY <1>2, <1>3 DEF Tracks, ContentArrived, UsesAreNew, UsesApart
<1>6. EndsHonestly
  BY DEF EndsHonestly, StopReasonsAreHonest
<1>7. HistoryHolds
  <2>1. ToInputItems(e) = <<>> /\ SpokenBy(e) = <<>>
    <3>1. Joined(Mapped(ItemsOf, <<>>)) = <<>> /\ Joined(Mapped(MessageWords, <<>>)) = <<>>
      BY <1>1, <1>2, MessagesTyped, JoinedOfMapped
    <3> QED
      BY <1>1, <1>2, <3>1, HistoryMapped
  <2>2. Said(e) = <<>>
    <3>1. Maps(ItemWords, InputItems, Seq(Nat))
      BY WordsTyped DEF Maps, Words
    <3>2. Joined(Mapped(ItemWords, <<>>)) = <<>>
      BY <1>1, <1>2, <3>1, JoinedOfMapped
    <3> QED
      BY <1>1, <1>2, <3>2, SaidOf
  <2>3. Conversation(e, <<>>, 0, {})
    BY <1>2, <2>2 DEF Conversation, Numbered, OneEach, NoneEmpty, Settled
  <2> QED
    BY <1>1, <1>3, <2>1, <2>3 DEF HistoryHolds, Due
<1>8. ToolsAreDue
  BY DEF ToolsAreDue
<1> QED
  BY <1>4, <1>5, <1>6, <1>7, <1>8 DEF TurnInv

-----------------------------------------------------------------------------
(* The steps *)

LEMMA ConversationGrows ==
  ASSUME NEW items, NEW says, NEW n \in Nat, NEW k \in Nat, n <= k, NEW uses,
         Conversation(items, says, n, uses)
  PROVE  Conversation(items, says, k, uses)
<1>1. 1..n \subseteq 1..k
  OBVIOUS
<1>2. Numbered(items, k)
  BY <1>1 DEF Conversation, Numbered
<1> QED
  BY <1>2 DEF Conversation

\* What two lists of items say, one after the other.
LEMMA SaidAppended ==
  ASSUME NEW its \in Seq(InputItems), NEW m \in Talk, UsesApart(m.content)
  PROVE  Said(its \o MessageItems(m)) = Said(its) \o MessageSays(m)
<1>1. PICK new \in Seq(InputItems) : new = MessageItems(m) /\ Said(new) = MessageSays(m)
  <2>1. MessageItems(m) \in Seq(SpokenItems) /\ Said(MessageItems(m)) = MessageSays(m)
    BY TalkGathers DEF TalkGives
  <2>2. MessageItems(m) \in Seq(InputItems)
    BY <2>1 DEF InputItems
  <2> QED
    BY <2>1, <2>2
<1>2. its \o new \in Seq(InputItems)
  OBVIOUS
<1>3. Maps(ItemWords, InputItems, Seq(Nat))
  BY WordsTyped DEF Maps, Words
<1>4. Joined(Mapped(ItemWords, its \o new)) = Joined(Mapped(ItemWords, its)) \o Joined(Mapped(ItemWords, new))
  BY <1>3, JoinedMappedConcat
<1> QED
  BY <1>1, <1>2, <1>4, SaidOf

\* While a response streams the history stays.
LEMMA StreamKeepsHistory ==
  ASSUME TurnInv, turnAt = "stream", turnAt' = turnAt, history' = history, pieces' \in {pieces, pieces + 1}
  PROVE  HistoryHolds' /\ ToolsAreDue'
<1>1. pieces \in Nat /\ Conversation(ToInputItems(history), SpokenBy(history), pieces, {})
  BY DEF TurnInv, TurnTypes, HistoryHolds, Due
<1>2. PICK k \in Nat : k = pieces' /\ pieces <= k
  BY <1>1
<1>3. Conversation(ToInputItems(history), SpokenBy(history), k, {})
  BY <1>1, <1>2, ConversationGrows
<1>4. HistoryHolds'
  BY <1>2, <1>3 DEF HistoryHolds, Due
<1> QED
  BY <1>4 DEF ToolsAreDue

LEMMA StartItemInv ==
  ASSUME TurnInv, NEW kind \in TextKinds \cup ToolKinds, StartItem(kind)
  PROVE  TurnInv'
<1>1. TurnTypes /\ Tracks(output, blocks) /\ ContentArrived /\ EndsHonestly /\ UsesAreNew
  BY DEF TurnInv
<1>2. PICK item, out : item = [kind |-> kind, text |-> <<>>, done |-> FALSE] /\ out = Append(output, item)
  OBVIOUS
<1>3. item \in OutItems /\ item.text = <<>>
  BY <1>2 DEF OutItems, Words
<1>4. /\ output' = out /\ turnAt = "stream"
      /\ UNCHANGED <<turnAt, hadContent, blocks, ending, stopReason, history, pieces>>
  BY <1>2 DEF StartItem
<1>5. PICK M : M = Len(output)
  OBVIOUS
<1>6. M \in Nat /\ output \in Seq(OutItems)
  BY <1>1, <1>5 DEF TurnTypes
<1>7. /\ out \in Seq(OutItems) /\ Len(out) = M + 1 /\ out[M + 1] = item
      /\ \A i \in 1..M : out[i] = output[i]
      /\ \A i \in 1..(M + 1) : i \in 1..M \/ i = M + 1
  BY <1>2, <1>3, <1>5, <1>6, AppendForm
<1>8. TurnTypes'
  BY <1>1, <1>4, <1>7 DEF TurnTypes
<1>9. Tracks(out, blocks)
  <2>1. PICK N \in Nat : N = Len(blocks)
    BY <1>1 DEF TurnTypes
  <2>2. N <= M /\ N <= M + 1 /\ ~(M + 1 <= N)
    BY <1>1, <1>5, <1>6, <2>1 DEF Tracks
  <2> QED
    BY <1>1, <1>3, <1>5, <1>7, <2>1, <2>2 DEF Tracks
<1>10. ContentArrived'
  <2>1. \A i \in 1..M : i \in 1..(M + 1)
    BY <1>6
  <2> QED
    BY <1>1, <1>4, <1>5, <1>7, <2>1 DEF ContentArrived
<1>11. EndsHonestly' /\ UsesAreNew'
  BY <1>1, <1>4 DEF EndsHonestly, StopReasonsAreHonest, Content, UsesAreNew
<1>12. HistoryHolds' /\ ToolsAreDue'
  BY <1>4, StreamKeepsHistory
<1> QED
  BY <1>4, <1>8, <1>9, <1>10, <1>11, <1>12 DEF TurnInv

LEMMA FinishTextItemInv ==
  ASSUME TurnInv, FinishTextItem
  PROVE  TurnInv'
<1>1. TurnTypes /\ Tracks(output, blocks) /\ ContentArrived /\ EndsHonestly /\ UsesAreNew
  BY DEF TurnInv
<1>2. PICK M : M = Len(output)
  OBVIOUS
<1>3. M \in Nat /\ output \in Seq(OutItems) /\ M \in 1..M /\ DOMAIN output = 1..M
  BY <1>1, <1>2 DEF TurnTypes, FinishTextItem, Open
<1>4. PICK item : item = [output[M] EXCEPT !.done = TRUE]
  OBVIOUS
<1>5. /\ item \in OutItems /\ item.text = output[M].text /\ item.kind = output[M].kind
      /\ item.kind \notin ToolKinds
  <2>1. output[M] \in OutItems
    BY <1>2, <1>3
  <2>2. output[M].kind \in TextKinds
    BY <1>2 DEF FinishTextItem
  <2>3. output[M].kind \notin ToolKinds
    BY <2>2 DEF TextKinds, ToolKinds
  <2> QED
    BY <1>4, <2>1, <2>3 DEF OutItems
<1>6. PICK out : out = [output EXCEPT ![M] = item]
  OBVIOUS
<1>7. output' = out /\ turnAt = "stream"
      /\ UNCHANGED <<turnAt, hadContent, blocks, ending, stopReason, history, pieces>>
  BY <1>2, <1>4, <1>6 DEF FinishTextItem
<1>8. /\ out \in Seq(OutItems) /\ Len(out) = M /\ out[M] = item
      /\ \A i \in 1..M : i # M => out[i] = output[i]
  BY <1>2, <1>3, <1>5, <1>6
<1>9. TurnTypes'
  BY <1>1, <1>7, <1>8 DEF TurnTypes
<1>10. Tracks(out, blocks)
  <2>1. \A i \in 1..M : out[i].text = output[i].text /\ out[i].kind = output[i].kind
    BY <1>5, <1>8
  <2>2. \A i \in 1..M : out[i].kind \in ToolKinds => out[i] = output[i]
    BY <1>5, <1>8
  <2> QED
    BY <1>1, <1>2, <1>8, <2>1, <2>2 DEF Tracks, BlockOf
<1>11. ContentArrived'
  BY <1>1, <1>2, <1>5, <1>7, <1>8 DEF ContentArrived
<1>12. EndsHonestly' /\ UsesAreNew'
  BY <1>1, <1>7 DEF EndsHonestly, StopReasonsAreHonest, Content, UsesAreNew
<1>13. HistoryHolds' /\ ToolsAreDue'
  BY <1>7, StreamKeepsHistory
<1> QED
  BY <1>7, <1>9, <1>10, <1>11, <1>12, <1>13 DEF TurnInv

\* A piece of an item, or a call, is yielded.
LEMMA PutInv ==
  ASSUME TurnInv, turnAt = "stream", NEW i \in 1..Len(output), i = Len(output),
         NEW item \in OutItems, item.text # <<>>, item.kind \in ToolKinds => item.done,
         item.kind \in ToolKinds => item.text = <<pieces + 1>>,
         output' = [output EXCEPT ![i] = item], PutLast(blocks', i, BlockOf(item)), pieces' = pieces + 1,
         UNCHANGED <<turnAt, ending, stopReason, history>>
  PROVE  TurnInv'
<1>1. TurnTypes /\ Tracks(output, blocks) /\ EndsHonestly /\ UsesAreNew /\ HistoryHolds
  BY DEF TurnInv
<1>2. output \in Seq(OutItems) /\ blocks \in Seq(Blocks) /\ pieces \in Nat
  BY <1>1 DEF TurnTypes
<1>3. PICK out, new, b : out = output' /\ new = blocks' /\ b = BlockOf(item)
  OBVIOUS
<1>4. /\ out \in Seq(OutItems) /\ Len(out) = i /\ out[i] = item
      /\ \A j \in 1..i : j # i => out[j] = output[j]
  BY <1>2, <1>3
<1>5. PutLast(new, i, b) /\ new \in Seq(Blocks)
  BY <1>3 DEF PutLast
<1>6. TurnTypes'
  <2>1. turnAt \in {"prompt", "ask", "stream", "tools"} /\ history \in Seq(Messages)
    BY <1>1 DEF TurnTypes
  <2>2. PICK p \in Nat : p = pieces + 1
    BY <1>2
  <2>3. turnAt' = turnAt /\ history' = history /\ pieces' = p /\ p \in Nat
    BY <2>2
  <2>4. output' \in Seq(OutItems) /\ blocks' \in Seq(Blocks)
    BY <1>3, <1>4, <1>5
  <2> QED
    BY ONLY <2>4, <1>3, <1>4, <1>5, <2>1, <2>2, <2>3 DEF TurnTypes
<1>7. Tracks(out, new)
  <2>1. PutLast(new, i, BlockOf(item)) /\ Tracks(output, blocks)
    BY <1>1, <1>3, <1>5
  <2>2. output \in Seq(OutItems) /\ blocks \in Seq(Blocks)
    BY <1>2
  <2>3. /\ i \in 1..Len(output) /\ i = Len(output) /\ item \in OutItems /\ item.text # <<>>
        /\ item.kind \in ToolKinds => item.done
    OBVIOUS
  <2> QED
    BY ONLY <1>4, <2>1, <2>2, <2>3, PutTracks
<1>8. ContentArrived'
  BY <1>3, <1>4 DEF ContentArrived
<1>9. EndsHonestly'
  BY <1>1 DEF EndsHonestly, StopReasonsAreHonest
<1>10. IsToolUse(b) => b.text[1] = pieces + 1
  <2>1. item.kind \in TextKinds \cup ToolKinds
    BY DEF OutItems
  <2>2. b.kind = BlockKind(item.kind) /\ b.text = item.text
    BY <1>3 DEF BlockOf
  <2>3. b.kind \in ToolKinds => item.kind \in ToolKinds
    BY <2>1, <2>2, BlockKinds DEF ToolKinds
  <2>4. item.kind \in ToolKinds => item.text[1] = pieces + 1
    <3>1. PICK p \in Nat : p = pieces + 1
      BY <1>2
    <3>2. item.kind \in ToolKinds => item.text = <<p>>
      BY <3>1
    <3> QED
      BY <3>1, <3>2
  <2> QED
    BY <2>2, <2>3, <2>4 DEF IsToolUse
<1>11. UsesAreNew'
  <2>1. /\ UsesApart(blocks)
        /\ \A j \in 1..Len(blocks) : IsToolUse(blocks[j]) =>
              blocks[j].text[1] \in 1..pieces /\ Unused(ToInputItems(history), blocks[j].text[1])
    BY <1>1 DEF UsesAreNew
  <2>2. IsToolUse(b) => \A j \in 1..Len(blocks) : IsToolUse(blocks[j]) => blocks[j].text[1] # b.text[1]
    BY <1>2, <1>10, <2>1
  <2>3. /\ UsesApart(new)
        /\ \A j \in 1..Len(new) : IsToolUse(new[j]) =>
              new[j] = b \/ \E k \in 1..Len(blocks) : new[j] = blocks[k]
    BY <1>2, <1>5, <2>1, <2>2, PutApart
  <2>4. Unused(ToInputItems(history), pieces + 1)
    <3>1. Numbered(ToInputItems(history), pieces)
      BY <1>1 DEF HistoryHolds, Conversation
    <3>2. pieces + 1 \notin 1..pieces
      BY <1>2
    <3> QED
      BY <3>1, <3>2 DEF Numbered, Unused
  <2>5. pieces + 1 \in 1..(pieces + 1) /\ 1..pieces \subseteq 1..(pieces + 1)
    BY <1>2
  <2>6. ASSUME NEW j \in 1..Len(new), IsToolUse(new[j])
        PROVE  new[j].text[1] \in 1..(pieces + 1) /\ Unused(ToInputItems(history), new[j].text[1])
    <3>1. CASE new[j] = b
      BY <1>10, <2>4, <2>5, <2>6, <3>1
    <3>2. CASE \E k \in 1..Len(blocks) : new[j] = blocks[k]
      BY <2>1, <2>5, <2>6, <3>2
    <3> QED
      BY <2>3, <2>6, <3>1, <3>2
  <2> QED
    BY <1>3, <2>3, <2>6 DEF UsesAreNew
<1>12. HistoryHolds' /\ ToolsAreDue'
  BY StreamKeepsHistory
<1> QED
  BY <1>3, <1>6, <1>7, <1>8, <1>9, <1>11, <1>12 DEF TurnInv

LEMMA ReceiveTextInv ==
  ASSUME TurnInv, ReceiveText
  PROVE  TurnInv'
<1>1. TurnTypes /\ Tracks(output, blocks)
  BY DEF TurnInv
<1>2. PICK i : i = Len(output)
  OBVIOUS
<1>3. /\ output \in Seq(OutItems) /\ blocks \in Seq(Blocks) /\ pieces \in Nat
      /\ i \in Nat /\ i # 0 /\ i \in 1..Len(output)
  BY <1>1, <1>2 DEF TurnTypes, ReceiveText, Open
<1>4. PICK p \in Nat : p = pieces + 1
  BY <1>3
<1>5. output[i].kind \in TextKinds
  BY <1>2 DEF ReceiveText
<1>6. PICK kind, text, done : kind = output[i].kind /\ text = output[i].text /\ done = output[i].done
  OBVIOUS
<1>7. /\ kind \in TextKinds /\ text \in Seq(Nat) /\ done \in BOOLEAN
      /\ output[i] = [kind |-> kind, text |-> text, done |-> done]
  <2>1. PICK was \in OutItems : was = output[i]
    BY <1>3
  <2>2. was = [kind |-> was.kind, text |-> was.text, done |-> was.done]
        /\ was.text \in Seq(Nat) /\ was.done \in BOOLEAN
    BY DEF OutItems, Words
  <2> QED
    BY <1>5, <1>6, <2>1, <2>2
<1>8. PICK more : more = Append(text, p)
  OBVIOUS
<1>9. more \in Seq(Nat) /\ more # <<>> /\ text \o <<p>> = more
  <2>1. more \in Seq(Nat) /\ Len(more) = Len(text) + 1 /\ Len(text) \in Nat
    BY <1>7, <1>8
  <2>2. text \o <<p>> = more
    BY <1>7, <1>8
  <2> QED
    BY <2>1, <2>2
<1>10. PICK item : item = [kind |-> kind, text |-> more, done |-> done]
  OBVIOUS
<1>11. /\ item \in OutItems /\ item.text = more /\ item.kind = kind
       /\ kind \notin ToolKinds
  BY <1>7, <1>9, <1>10 DEF OutItems, Words, TextKinds, ToolKinds
<1>12. output' = [output EXCEPT ![i] = item]
  <2>1. output' = [output EXCEPT ![i].text = Append(@, pieces + 1)]
    BY <1>2 DEF ReceiveText
  <2>2. [output[i] EXCEPT !.text = more] = item
    BY <1>7, <1>10
  <2> QED
    BY <1>3, <1>4, <1>6, <1>8, <2>1, <2>2
<1>13. PICK delta, b : delta = [kind |-> BlockKind(kind), text |-> <<p>>] /\ b = BlockOf(item)
  OBVIOUS
<1>14. blocks' = Merged(i, delta)
  BY <1>2, <1>4, <1>6, <1>13 DEF ReceiveText, Yield
<1>15. BlockKind(kind) \in {"text", "thinking"} /\ BlockKind(kind) \notin ToolKinds
  BY <1>7, BlockKinds DEF ToolKinds
<1>16. b = [kind |-> BlockKind(kind), text |-> more]
  BY <1>11, <1>13 DEF BlockOf
<1>17. b \in Blocks /\ delta.kind = BlockKind(kind) /\ delta.text = <<p>> /\ ~IsToolUse(delta)
  BY <1>9, <1>13, <1>15, <1>16 DEF Blocks, Words, IsToolUse, ToolKinds
<1>18. Len(blocks) <= i
  BY <1>1, <1>2 DEF Tracks
<1>19. /\ text = <<>> /\ i <= Len(blocks) => blocks[i] = NoBlock
       /\ text # <<>> => i <= Len(blocks) /\ blocks[i] = [kind |-> BlockKind(kind), text |-> text]
  BY <1>1, <1>2, <1>3, <1>6 DEF Tracks, BlockOf
<1>20. (i <= Len(blocks) /\ blocks[i].kind = delta.kind /\ ~IsToolUse(delta))
          => [delta EXCEPT !.text = blocks[i].text \o delta.text] = b
  <2> SUFFICES ASSUME i <= Len(blocks), blocks[i].kind = delta.kind
               PROVE  [delta EXCEPT !.text = blocks[i].text \o delta.text] = b
    OBVIOUS
  <2>1. text # <<>>
    BY <1>15, <1>17, <1>19 DEF NoBlock
  <2>2. blocks[i].text = text
    BY <1>19, <2>1
  <2>3. blocks[i].text \o delta.text = more
    BY <1>9, <1>17, <2>2
  <2>4. PICK k : k = BlockKind(kind)
    OBVIOUS
  <2>5. PICK one : one = <<p>>
    OBVIOUS
  <2>6. delta = [kind |-> k, text |-> one] /\ b = [kind |-> k, text |-> more]
    BY <1>13, <1>16, <2>4, <2>5
  <2>7. [delta EXCEPT !.text = more] = b
    BY ONLY <2>6
  <2> QED
    BY <2>3, <2>7
<1>21. ~(i <= Len(blocks) /\ blocks[i].kind = delta.kind /\ ~IsToolUse(delta)) => delta = b
  <2> SUFFICES ASSUME ~(i <= Len(blocks) /\ blocks[i].kind = delta.kind) PROVE delta = b
    BY <1>17
  <2>1. text = <<>>
    BY <1>17, <1>19
  <2>2. more = <<p>>
    BY <1>8, <2>1
  <2> QED
    BY <1>13, <1>16, <2>2
<1>22. PutLast(blocks', i, b)
  BY <1>3, <1>14, <1>17, <1>18, <1>20, <1>21, MergedPuts
<1>23. turnAt = "stream" /\ pieces' = pieces + 1 /\ UNCHANGED <<turnAt, ending, stopReason, history>>
  BY DEF ReceiveText
<1>24. item.text # <<>> /\ item.kind \notin ToolKinds /\ i = Len(output)
  BY <1>2, <1>9, <1>11
<1> QED
  BY <1>3, <1>11, <1>12, <1>13, <1>22, <1>23, <1>24, PutInv

LEMMA FinishCallInv ==
  ASSUME TurnInv, FinishCall
  PROVE  TurnInv'
<1>1. TurnTypes /\ Tracks(output, blocks)
  BY DEF TurnInv
<1>2. PICK i : i = Len(output)
  OBVIOUS
<1>3. /\ output \in Seq(OutItems) /\ blocks \in Seq(Blocks) /\ pieces \in Nat
      /\ i \in Nat /\ i # 0 /\ i \in 1..Len(output)
  BY <1>1, <1>2 DEF TurnTypes, FinishCall, Open
<1>4. PICK p \in Nat : p = pieces + 1
  BY <1>3
<1>5. PICK one : one = <<p>>
  OBVIOUS
<1>6. one \in Seq(Nat) /\ Len(one) = 1 /\ one # <<>>
  BY <1>5
<1>7. PICK kind : kind = output[i].kind
  OBVIOUS
<1>8. output[i].kind \in ToolKinds /\ ~output[i].done
  BY <1>2 DEF FinishCall, Open
<1>9. PICK item : item = [kind |-> kind, text |-> one, done |-> TRUE]
  OBVIOUS
<1>10. /\ item \in OutItems /\ item.text = one /\ item.kind = kind /\ item.done
       /\ kind \in ToolKinds
  BY <1>6, <1>7, <1>8, <1>9 DEF OutItems, Words
<1>11. output' = [output EXCEPT ![i] = item]
  <2>1. output' = [output EXCEPT ![i].text = <<pieces + 1>>, ![i].done = TRUE]
    BY <1>2 DEF FinishCall
  <2>2. PICK was \in OutItems : was = output[i]
    <3>1. output[i] \in OutItems
      BY <1>3
    <3> QED
      BY <3>1
  <2>3. [[was EXCEPT !.text = one] EXCEPT !.done = TRUE] = item
    <3>1. was = [kind |-> was.kind, text |-> was.text, done |-> was.done]
      BY DEF OutItems
    <3>2. PICK text, done : text = was.text /\ done = was.done
      OBVIOUS
    <3>3. was = [kind |-> kind, text |-> text, done |-> done]
      BY <1>7, <2>2, <3>1, <3>2
    <3>4. PICK mid : mid = [was EXCEPT !.text = one]
      OBVIOUS
    <3>5. mid = [kind |-> kind, text |-> one, done |-> done]
      BY ONLY <3>3, <3>4
    <3>6. [mid EXCEPT !.done = TRUE] = [kind |-> kind, text |-> one, done |-> TRUE]
      <4>1. ASSUME NEW t PROVE [mid EXCEPT !.done = t] = [kind |-> kind, text |-> one, done |-> t]
        BY ONLY <3>5
      <4> QED
        BY <4>1
    <3> QED
      BY <1>9, <3>4, <3>6
  <2>4. DOMAIN output = 1..Len(output)
    BY <1>3
  <2> QED
    BY <1>3, <1>4, <1>5, <2>1, <2>2, <2>3, <2>4
<1>12. PICK b : b = BlockOf(item)
  OBVIOUS
<1>13. b = [kind |-> kind, text |-> one] /\ IsToolUse(b)
  BY <1>10, <1>12, BlockKinds DEF BlockOf, IsToolUse
<1>14. b \in Blocks
  BY <1>6, <1>10, <1>13 DEF Blocks, Words, ToolKinds
<1>15. blocks' = Merged(i, b)
  BY <1>2, <1>4, <1>5, <1>7, <1>13 DEF FinishCall, Yield
<1>16. Len(blocks) <= i
  BY <1>1, <1>2 DEF Tracks
<1>17. PutLast(blocks', i, b)
  BY <1>3, <1>13, <1>14, <1>15, <1>16, MergedPuts
<1>18. turnAt = "stream" /\ pieces' = pieces + 1 /\ UNCHANGED <<turnAt, ending, stopReason, history>>
  BY DEF FinishCall
<1>19. item.text # <<>> /\ item.text = <<pieces + 1>> /\ i = Len(output)
  BY <1>2, <1>4, <1>5, <1>6, <1>10
<1> QED
  BY <1>3, <1>10, <1>11, <1>12, <1>17, <1>18, <1>19, PutInv

LEMMA PromptInv ==
  ASSUME TurnInv, Prompt
  PROVE  TurnInv'
<1>1. TurnTypes /\ Tracks(output, blocks) /\ ContentArrived /\ EndsHonestly /\ UsesAreNew /\ HistoryHolds
  BY DEF TurnInv
<1>2. PICK p \in Nat : p = pieces + 1 /\ pieces <= p
  BY <1>1 DEF TurnTypes
<1>3. PICK b : b = [kind |-> "text", text |-> <<p>>]
  OBVIOUS
<1>4. PICK c : c = <<b>>
  OBVIOUS
<1>5. PICK m : m = [role |-> "user", content |-> c]
  OBVIOUS
<1>6. b \in Blocks /\ ~IsToolUse(b)
  <2>1. PICK one : one = <<p>>
    OBVIOUS
  <2>2. one \in Seq(Nat) /\ one # <<>>
    BY <2>1
  <2>3. b = [kind |-> "text", text |-> one]
    BY <1>3, <2>1
  <2> QED
    BY <2>2, <2>3 DEF Blocks, Words, IsToolUse, ToolKinds
<1>7. c \in Seq(Blocks) /\ Len(c) = 1 /\ \A j \in 1..Len(c) : ~IsToolUse(c[j])
  BY <1>4, <1>6
<1>8. m \in Talk /\ m.content = c /\ m \in Messages
  BY <1>5, <1>7 DEF Talk, Messages
<1>9. PICK hs : hs = Append(history, m)
  OBVIOUS
<1>10. /\ turnAt = "prompt" /\ history' = hs /\ pieces' = p /\ turnAt' = "ask"
       /\ UNCHANGED <<output, hadContent, blocks, ending, stopReason>>
  BY <1>2, <1>3, <1>4, <1>5, <1>9 DEF Prompt
<1>11. history \in Seq(Messages) /\ hs \in Seq(Messages)
  BY <1>1, <1>8, <1>9 DEF TurnTypes
<1>12. TurnTypes'
  BY <1>1, <1>2, <1>10, <1>11 DEF TurnTypes
<1>13. ContentArrived' /\ EndsHonestly'
  BY <1>1, <1>10 DEF ContentArrived, EndsHonestly, StopReasonsAreHonest, Content
<1>14. UsesAreNew'
  <2>1. /\ UsesApart(blocks)
        /\ \A j \in 1..Len(blocks) : IsToolUse(blocks[j]) => blocks[j].text[1] \in 1..pieces
    BY <1>1 DEF UsesAreNew
  <2>2. 1..pieces \subseteq 1..p
    BY <1>1, <1>2 DEF TurnTypes
  <2> QED
    BY <1>10, <2>1, <2>2 DEF UsesAreNew
<1>15. HistoryHolds'
  <2>1. PICK its, says : its = ToInputItems(history) /\ says = SpokenBy(history)
    OBVIOUS
  <2>2. Conversation(its, says, pieces, {})
    BY <1>1, <1>10, <2>1 DEF HistoryHolds, Due
  <2>3. Conversation(its, says, p, {})
    BY <1>1, <1>2, <2>2, ConversationGrows DEF TurnTypes
  <2>4. /\ its \in Seq(InputItems) /\ MessageItems(m) \in Seq(InputItems)
        /\ ToInputItems(hs) = its \o MessageItems(m) /\ SpokenBy(hs) = says \o MessageSays(m)
    BY <1>8, <1>9, <1>11, <2>1, HistoryGrows
  <2>5. UsesApart(m.content)
    BY <1>7, <1>8 DEF UsesApart
  <2>6. PICK all : all = its \o MessageItems(m)
    OBVIOUS
  <2>7. PICK none : none = {}
    OBVIOUS
  <2>8. Numbered(all, p) /\ OneEach(all) /\ NoneEmpty(all) /\ Settled(all, none)
    <3>1. Numbered(its, p) /\ OneEach(its) /\ NoneEmpty(its) /\ Settled(its, {})
      BY <2>3 DEF Conversation
    <3>2. \A j \in 1..Len(m.content) : ~IsToolUse(m.content[j])
      BY <1>7, <1>8
    <3> QED
      BY ONLY <1>8, <2>4, <2>5, <2>6, <3>1, <3>2, TalkAppended
  <2>9. Said(all) = says \o MessageSays(m)
    BY <1>8, <2>3, <2>4, <2>5, <2>6, SaidAppended DEF Conversation
  <2>10. Conversation(ToInputItems(hs), SpokenBy(hs), p, {})
    BY <2>4, <2>6, <2>7, <2>8, <2>9 DEF Conversation
  <2> QED
    BY <1>10, <2>10 DEF HistoryHolds, Due
<1> QED
  BY <1>1, <1>10, <1>12, <1>13, <1>14, <1>15 DEF TurnInv, ToolsAreDue

LEMMA AskInv ==
  ASSUME TurnInv, Ask
  PROVE  TurnInv'
<1>1. TurnTypes /\ HistoryHolds
  BY DEF TurnInv
<1>2. PICK e : e = <<>>
  OBVIOUS
<1>3. Len(e) = 0 /\ \A T : e \in Seq(T)
  BY <1>2
<1>4. /\ turnAt = "ask" /\ turnAt' = "stream" /\ output' = e /\ hadContent' = FALSE /\ blocks' = e
      /\ ending' = "none" /\ stopReason' = "none" /\ UNCHANGED <<history, pieces>>
  BY <1>2 DEF Ask
<1>5. TurnTypes'
  BY <1>1, <1>3, <1>4 DEF TurnTypes
<1>6. Tracks(e, e) /\ ContentArrived' /\ UsesAreNew'
  BY <1>3, <1>4 DEF Tracks, ContentArrived, UsesAreNew, UsesApart
<1>7. EndsHonestly'
  BY <1>4 DEF EndsHonestly, StopReasonsAreHonest
<1>8. HistoryHolds' /\ ToolsAreDue'
  BY <1>1, <1>4 DEF HistoryHolds, Due, ToolsAreDue
<1> QED
  BY <1>4, <1>5, <1>6, <1>7, <1>8 DEF TurnInv

-----------------------------------------------------------------------------
(* The calls without a result *)

Answered(b, hs) == \E m \in Range(hs) : m.role = "tool" /\ m.id = b.text[1]
Pending(c, hs) == Without(c, {b \in Range(c) : ~IsToolUse(b) \/ Answered(b, hs)})

LEMMA RangeIsMembers ==
  ASSUME NEW T, NEW s \in Seq(T)
  PROVE  Range(s) = Members(s)
<1>1. DOMAIN s = 1..Len(s)
  OBVIOUS
<1> QED
  BY <1>1 DEF Range, Members

LEMMA UnansweredIs == Unanswered = Pending(Content, history)
BY DEF Unanswered, HasResult, Pending, Answered

LEMMA PendingForm ==
  ASSUME NEW c \in Seq(Blocks), NEW hs, NEW u, u = Pending(c, hs)
  PROVE  /\ u \in Seq(Blocks)
         /\ \A b : b \in Members(u) <=> b \in Members(c) /\ IsToolUse(b) /\ ~Answered(b, hs)
         /\ \E at : EmbedsAt(at, u, c)
<1>1. PICK left : left = {b \in Range(c) : ~IsToolUse(b) \/ Answered(b, hs)}
  OBVIOUS
<1>2. u = Without(c, left)
  BY <1>1 DEF Pending
<1>3. u \in Seq(Blocks) /\ Members(u) = Members(c) \ left /\ \E at : EmbedsAt(at, u, c)
  BY <1>2, WithoutSelects
<1>4. Range(c) = Members(c)
  BY RangeIsMembers
<1>5. \A b : b \in left <=> b \in Members(c) /\ (~IsToolUse(b) \/ Answered(b, hs))
  BY <1>1, <1>4
<1> QED
  BY <1>3, <1>5

LEMMA EndTurnInv ==
  ASSUME TurnInv, turnAt = "stream", NEW how, NEW reason, EndTurn(how, reason), reason # "tool_use",
         reason = "stop" => how = "completed" \/ (how \in {"lost", "closed"} /\ hadContent),
         how = "failed" => reason = "error"
  PROVE  TurnInv'
<1>1. TurnTypes /\ Tracks(output, blocks) /\ ContentArrived /\ UsesAreNew /\ HistoryHolds
  BY DEF TurnInv
<1>2. /\ output \in Seq(OutItems) /\ blocks \in Seq(Blocks)
      /\ history \in Seq(Messages) /\ pieces \in Nat
  BY <1>1 DEF TurnTypes
<1>3. PICK c : c = Content
  OBVIOUS
<1>4. c \in Seq(Blocks) /\ Members(c) = Members(blocks) \ {NoBlock} /\ UsesApart(c)
  BY <1>1, <1>2, <1>3, ContentForm DEF Content, UsesAreNew
<1>5. PICK m : m = [role |-> "assistant", content |-> c]
  OBVIOUS
<1>6. m \in Talk /\ m.content = c /\ m.role = "assistant" /\ m \in Messages
  BY <1>4, <1>5 DEF Talk, Messages
<1>7. PICK hs : hs = Append(history, m)
  OBVIOUS
<1>8. hs \in Seq(Messages)
  BY <1>2, <1>6, <1>7
<1>9. PICK uses \in BOOLEAN : uses <=> \E b \in Range(blocks) : IsToolUse(b)
  OBVIOUS
<1>10. /\ ending' = how /\ history' = hs
       /\ stopReason' = IF uses /\ reason \notin {"error", "aborted"} THEN "tool_use" ELSE reason
       /\ turnAt' = IF uses THEN "tools" ELSE "prompt"
       /\ UNCHANGED <<output, hadContent, blocks, pieces>>
  BY <1>3, <1>5, <1>7, <1>9 DEF EndTurn
<1>11. TurnTypes'
  BY <1>2, <1>8, <1>10 DEF TurnTypes
<1>12. ContentArrived' /\ Tracks(output', blocks')
  BY <1>1, <1>10 DEF ContentArrived
<1>13. Content' = c
  BY <1>3, <1>10 DEF Content
<1>14. uses <=> \E b \in Members(c) : IsToolUse(b)
  <2>1. Range(blocks) = Members(blocks)
    BY <1>2, RangeIsMembers
  <2> QED
    BY <1>4, <1>9, <2>1, NoBlockTyped
<1>15. ASSUME NEW b \in Members(c), IsToolUse(b)
       PROVE  b.text[1] \in 1..pieces /\ Unused(ToInputItems(history), b.text[1])
  <2>1. PICK j \in 1..Len(blocks) : b = blocks[j]
    BY <1>4 DEF Members
  <2> QED
    BY <1>1, <1>15, <2>1 DEF UsesAreNew
<1>16. UsesAreNew'
  <2>1. /\ UsesApart(blocks)
        /\ \A j \in 1..Len(blocks) : IsToolUse(blocks[j]) => blocks[j].text[1] \in 1..pieces
    BY <1>1 DEF UsesAreNew
  <2>2. turnAt' # "stream"
    BY <1>10
  <2> QED
    BY <1>10, <2>1, <2>2 DEF UsesAreNew
<1>17. EndsHonestly'
  <2>1. hadContent => c # <<>>
    <3> SUFFICES ASSUME hadContent PROVE c # <<>>
      OBVIOUS
    <3>1. PICK i \in 1..Len(output) : output[i].text # <<>>
      BY <1>1 DEF ContentArrived
    <3>2. i <= Len(blocks) /\ blocks[i] = BlockOf(output[i])
      BY <1>1, <3>1 DEF Tracks
    <3>3. blocks[i].text # <<>>
      BY <3>1, <3>2 DEF BlockOf
    <3>4. blocks[i] # NoBlock /\ i \in 1..Len(blocks)
      <4>1. i \in 1..Len(blocks)
        BY <1>2, <3>2
      <4> QED
        BY <3>3, <4>1 DEF NoBlock
    <3>5. blocks[i] \in Members(c)
      BY <1>4, <3>4 DEF Members
    <3> QED
      BY <3>5 DEF Members
  <2>2. Range(c) = Members(c)
    BY <1>4, RangeIsMembers
  <2>3. stopReason' = "stop" => reason = "stop"
    BY <1>10
  <2>4. stopReason' = "tool_use" => uses
    BY <1>10
  <2>5. ending' = "failed" => stopReason' = "error"
    BY <1>10
  <2>6. StopReasonsAreHonest'
    BY <1>10, <1>13, <1>14, <2>1, <2>2, <2>3, <2>4, <2>5 DEF StopReasonsAreHonest
  <2>7. turnAt' # "stream"
    BY <1>10
  <2> QED
    BY <2>6, <2>7 DEF EndsHonestly
<1>18. PICK pending : pending = Pending(c, hs)
  OBVIOUS
<1>19. Unanswered' = pending
  <2>1. Unanswered' = Pending(Content', history')
    BY DEF Unanswered, HasResult, Pending, Answered
  <2> QED
    BY <1>10, <1>13, <1>18, <2>1
<1>20. ASSUME NEW b \in Members(c), IsToolUse(b) PROVE b \in Members(pending)
  <2>1. ASSUME Answered(b, hs) PROVE FALSE
    <3>1. PICK r \in Range(hs) : r.role = "tool" /\ r.id = b.text[1]
      BY <2>1 DEF Answered
    <3>2. r \in Range(history) \/ r = m
      <4>1. Range(hs) = Members(hs) /\ Range(history) = Members(history)
        BY <1>2, <1>8, RangeIsMembers
      <4>2. Members(hs) = Members(history) \cup {m}
        BY <1>2, <1>6, <1>7, MembersOfAppend
      <4> QED
        BY <3>1, <4>1, <4>2
    <3>3. r \in Range(history)
      BY <1>6, <3>1, <3>2
    <3>4. PICK its, id : its = ToInputItems(history) /\ id = b.text[1]
      OBVIOUS
    <3>5. \E q \in Range(history) : q.role = "tool" /\ q.id = id
      BY <3>1, <3>3, <3>4
    <3>6. \E i \in 1..Len(its) : its[i].type = "output" /\ its[i].id = id
      <4>1. (\E i \in 1..Len(ToInputItems(history)) : /\ ToInputItems(history)[i].type = "output"
                                                    /\ ToInputItems(history)[i].id = id)
              <=> (\E q \in Range(history) : q.role = "tool" /\ q.id = id)
        BY <1>2, OutputsAreResults, ZenonT(40)
      <4> QED
        BY <3>4, <3>5, <4>1
    <3>7. Unused(its, id)
      BY <1>15, <1>20, <3>4
    <3> QED
      BY <3>6, <3>7 DEF Unused
  <2> QED
    BY <1>4, <1>18, <1>20, <2>1, PendingForm
<1>21. ToolsAreDue'
  <2>1. ASSUME turnAt' = "tools" PROVE pending # <<>>
    <3>1. PICK b \in Members(c) : IsToolUse(b)
      BY <1>10, <1>14, <2>1
    <3>2. b \in Members(pending)
      BY <1>20, <3>1
    <3> QED
      BY <3>2 DEF Members
  <2> QED
    BY <1>19, <2>1 DEF ToolsAreDue
<1>22. HistoryHolds'
  <2>1. PICK its, says : its = ToInputItems(history) /\ says = SpokenBy(history)
    OBVIOUS
  <2>2. Conversation(its, says, pieces, {})
    BY <1>1, <2>1 DEF HistoryHolds, Due
  <2>3. /\ its \in Seq(InputItems) /\ MessageItems(m) \in Seq(InputItems)
        /\ ToInputItems(hs) = its \o MessageItems(m) /\ SpokenBy(hs) = says \o MessageSays(m)
    BY <1>2, <1>6, <1>7, <2>1, HistoryGrows
  <2>4. PICK all : all = its \o MessageItems(m)
    OBVIOUS
  <2>5. PICK due : due = Due'
    OBVIOUS
  <2>6. ASSUME NEW j \in 1..Len(m.content), IsToolUse(m.content[j])
        PROVE  /\ m.content[j].text[1] \in 1..pieces /\ Unused(its, m.content[j].text[1])
               /\ m.content[j] \in due
    <3>1. c[j] \in Members(c) /\ IsToolUse(c[j]) /\ m.content[j] = c[j]
      BY <1>6, <2>6 DEF Members
    <3>2. turnAt' = "tools"
      BY <1>10, <1>14, <3>1
    <3>3. due = Members(pending)
      BY <1>19, <2>5, <3>2 DEF Due
    <3> QED
      BY <1>15, <1>20, <2>1, <3>1, <3>3
  <2>7. Numbered(all, pieces) /\ OneEach(all) /\ NoneEmpty(all) /\ Settled(all, due)
    <3>1. Numbered(its, pieces) /\ OneEach(its) /\ NoneEmpty(its) /\ Settled(its, {})
      BY <2>2 DEF Conversation
    <3>2. UsesApart(m.content)
      BY <1>4, <1>6
    <3> QED
      BY ONLY <1>6, <2>3, <2>4, <2>6, <3>1, <3>2, TalkAppended
  <2>8. Said(all) = says \o MessageSays(m)
    BY <1>4, <1>6, <2>2, <2>3, <2>4, SaidAppended DEF Conversation
  <2>9. Conversation(ToInputItems(hs), SpokenBy(hs), pieces, due)
    BY <2>3, <2>4, <2>7, <2>8 DEF Conversation
  <2> QED
    BY <1>10, <2>5, <2>9 DEF HistoryHolds
<1> QED
  BY <1>11, <1>12, <1>16, <1>17, <1>21, <1>22 DEF TurnInv

LEMMA EndingsInv ==
  ASSUME TurnInv, ResponseCompleted \/ ResponseIncomplete \/ ResponseFailed
                    \/ ConnectionLost \/ ClosedEarly \/ CancelledByUser
  PROVE  TurnInv'
<1>1. CASE ResponseCompleted
  BY <1>1, EndTurnInv DEF ResponseCompleted
<1>2. CASE ResponseIncomplete
  BY <1>2, EndTurnInv DEF ResponseIncomplete
<1>3. CASE ResponseFailed
  BY <1>3, EndTurnInv DEF ResponseFailed
<1>4. CASE ConnectionLost
  <2>1. PICK reason : reason = (IF hadContent THEN "stop" ELSE "error")
    OBVIOUS
  <2>2. turnAt = "stream" /\ EndTurn("lost", reason)
    BY <1>4, <2>1 DEF ConnectionLost
  <2>3. reason # "tool_use" /\ (reason = "stop" => hadContent)
    BY <2>1
  <2> QED
    BY <2>2, <2>3, EndTurnInv
<1>5. CASE ClosedEarly
  <2>1. PICK reason : reason = (IF hadContent THEN "stop" ELSE "error")
    OBVIOUS
  <2>2. turnAt = "stream" /\ EndTurn("closed", reason)
    BY <1>5, <2>1 DEF ClosedEarly
  <2>3. reason # "tool_use" /\ (reason = "stop" => hadContent)
    BY <2>1
  <2> QED
    BY <2>2, <2>3, EndTurnInv
<1>6. CASE CancelledByUser
  BY <1>6, EndTurnInv DEF CancelledByUser
<1> QED
  BY <1>1, <1>2, <1>3, <1>4, <1>5, <1>6

LEMMA SettledMore ==
  ASSUME NEW items, NEW uses, NEW more, uses \subseteq more, Settled(items, uses)
  PROVE  Settled(items, more)
BY DEF Settled

\* An output says nothing.
LEMMA OutputSaid ==
  ASSUME NEW its \in Seq(InputItems), NEW o \in InputItems, ItemSays(o) = <<>>
  PROVE  Said(Append(its, o)) = Said(its)
<1>1. PICK all : all = Append(its, o)
  OBVIOUS
<1>2. all \in Seq(InputItems)
  BY <1>1
<1>3. Maps(ItemWords, InputItems, Seq(Nat)) /\ ItemWords[o] = <<>>
  BY WordsTyped DEF Maps, Words, ItemWords
<1>4. /\ Joined(Mapped(ItemWords, Append(its, o))) = Joined(Mapped(ItemWords, its)) \o ItemWords[o]
      /\ Joined(Mapped(ItemWords, its)) \in Seq(Nat)
  <2>1. /\ \A x \in InputItems : Joined(Mapped(ItemWords, Append(its, x))) = Joined(Mapped(ItemWords, its)) \o ItemWords[x]
        /\ Joined(Mapped(ItemWords, its)) \in Seq(Nat)
    BY <1>3, JoinedOfMapped
  <2> QED
    BY <2>1
<1>5. Said(all) = Joined(Mapped(ItemWords, all)) /\ Said(its) = Joined(Mapped(ItemWords, its))
  BY <1>2, SaidOf
<1>5a. PICK said \in Seq(Nat) : said = Said(its)
  BY <1>4, <1>5
<1>6. PICK e : e = <<>>
  OBVIOUS
<1>7. Said(all) = said \o e /\ said \o e = said
  <2>1. said \o e = said
    BY <1>6
  <2> QED
    BY <1>1, <1>3, <1>4, <1>5, <1>5a, <1>6, <2>1
<1> QED
  BY <1>1, <1>5a, <1>6, <1>7

\* With the result of `use` the other calls are still pending.
LEMMA ResultLeaves ==
  ASSUME NEW c \in Seq(Blocks), UsesApart(c), NEW history0 \in Seq(Messages), NEW m \in Messages,
         NEW use \in Members(Pending(c, history0)), m.role = "tool", m.id = use.text[1],
         NEW b \in Members(Pending(c, history0)), b # use
  PROVE  b \in Members(Pending(c, Append(history0, m)))
<1>1. PICK hs : hs = Append(history0, m)
  OBVIOUS
<1>2. hs \in Seq(Messages) /\ Range(hs) = Range(history0) \cup {m}
  <2>1. Members(Append(history0, m)) = Members(history0) \cup {m}
    BY MembersOfAppend
  <2>2. hs \in Seq(Messages)
    BY <1>1
  <2> QED
    BY <1>1, <2>1, <2>2, RangeIsMembers
<1>3. /\ b \in Members(c) /\ IsToolUse(b) /\ ~Answered(b, history0)
      /\ use \in Members(c) /\ IsToolUse(use)
  BY PendingForm
<1>4. b.text[1] # use.text[1]
  <2>1. PICK j \in 1..Len(c), k \in 1..Len(c) : b = c[j] /\ use = c[k]
    BY <1>3 DEF Members
  <2> QED
    BY <1>3, <2>1 DEF UsesApart
<1>5. ~Answered(b, hs)
  BY <1>2, <1>3, <1>4 DEF Answered
<1> QED
  BY <1>1, <1>3, <1>5, PendingForm

LEMMA RunToolInv ==
  ASSUME TurnInv, RunTool
  PROVE  TurnInv'
<1>1. TurnTypes /\ Tracks(output, blocks) /\ ContentArrived /\ EndsHonestly /\ UsesAreNew /\ HistoryHolds /\ ToolsAreDue
  BY DEF TurnInv
<1>2. /\ output \in Seq(OutItems) /\ blocks \in Seq(Blocks)
      /\ history \in Seq(Messages) /\ pieces \in Nat
  BY <1>1 DEF TurnTypes
<1>3. PICK c, u : c = Content /\ u = Pending(c, history)
  OBVIOUS
<1>4. c \in Seq(Blocks) /\ Members(c) = Members(blocks) \ {NoBlock} /\ UsesApart(c)
  BY <1>1, <1>2, <1>3, ContentForm DEF Content, UsesAreNew
<1>5. Unanswered = u /\ turnAt = "tools" /\ u # <<>>
  BY <1>1, <1>3, UnansweredIs DEF RunTool, ToolsAreDue
<1>6. /\ u \in Seq(Blocks)
      /\ \A b : b \in Members(u) <=> b \in Members(c) /\ IsToolUse(b) /\ ~Answered(b, history)
      /\ \E at : EmbedsAt(at, u, c)
  BY <1>3, <1>4, PendingForm
<1>7. PICK L \in Nat : L = Len(u) /\ L >= 1
  <2>1. Len(u) \in Nat /\ Len(u) # 0
    BY <1>5, <1>6
  <2> QED
    BY <2>1
<1>8. PICK use : use = u[1]
  OBVIOUS
<1>9. use \in Blocks /\ use \in Members(u)
  <2>1. 1 \in 1..Len(u)
    BY <1>7
  <2> QED
    BY <1>6, <1>8, <2>1 DEF Members
<1>10. use \in Members(c) /\ IsToolUse(use) /\ ~Answered(use, history)
  BY <1>6, <1>9
<1>11. PICK id : id = use.text[1]
  OBVIOUS
<1>11a. PICK custom \in BOOLEAN : custom = (use.kind = "custom")
  OBVIOUS
<1>12. id \in Nat /\ id \in 1..pieces
  <2>1. PICK j \in 1..Len(blocks) : use = blocks[j]
    BY <1>4, <1>10 DEF Members
  <2> QED
    BY <1>1, <1>10, <1>11, <2>1 DEF UsesAreNew
<1>13. PICK m : m = [role |-> "tool", id |-> id, custom |-> custom]
  OBVIOUS
<1>14. m \in Results /\ m.role = "tool" /\ m.id = id /\ m.custom = custom /\ m \in Messages
  BY <1>12, <1>13 DEF Results, Messages
<1>15. PICK hs : hs = Append(history, m)
  OBVIOUS
<1>16. /\ history' = hs
       /\ turnAt' = IF L > 1 THEN "tools" ELSE IF stopReason = "tool_use" THEN "ask" ELSE "prompt"
       /\ UNCHANGED <<output, hadContent, blocks, ending, stopReason, pieces>>
  BY <1>5, <1>7, <1>8, <1>11, <1>11a, <1>13, <1>15 DEF RunTool
<1>17. hs \in Seq(Messages)
  BY <1>2, <1>14, <1>15
<1>18. TurnTypes' /\ Tracks(output', blocks') /\ ContentArrived' /\ turnAt' # "stream"
  BY <1>1, <1>2, <1>16, <1>17 DEF TurnTypes, ContentArrived
<1>19. EndsHonestly'
  BY <1>1, <1>16, <1>18 DEF EndsHonestly, StopReasonsAreHonest, Content
<1>20. UsesAreNew'
  BY <1>1, <1>16, <1>18 DEF UsesAreNew
<1>21. PICK rest : rest = Pending(c, hs)
  OBVIOUS
<1>22. Unanswered' = rest
  <2>1. Unanswered' = Pending(Content', history')
    BY DEF Unanswered, HasResult, Pending, Answered
  <2>2. Content' = c
    BY <1>3, <1>16 DEF Content
  <2> QED
    BY <1>16, <1>21, <2>1, <2>2
<1>23. \A b \in Members(u) : b # use => b \in Members(rest)
  BY <1>2, <1>3, <1>4, <1>9, <1>11, <1>14, <1>15, <1>21, ResultLeaves
<1>24. ToolsAreDue'
  <2> SUFFICES ASSUME L > 1 PROVE rest # <<>>
    BY <1>16, <1>22 DEF ToolsAreDue
  <2>1. PICK at : EmbedsAt(at, u, c)
    BY <1>6
  <2>2. 1 \in 1..Len(u) /\ 2 \in 1..Len(u)
    BY <1>7
  <2>3. at[1] < at[2] /\ at[1] \in Nat /\ at[2] \in Nat /\ u[1] = c[at[1]] /\ u[2] = c[at[2]]
        /\ at[1] \in 1..Len(c) /\ at[2] \in 1..Len(c)
    BY <2>1, <2>2 DEF EmbedsAt
  <2>4. u[2] \in Members(u)
    BY <2>2 DEF Members
  <2>5. u[2] # use
    BY <1>4, <1>8, <1>10, <2>3 DEF UsesApart
  <2>6. u[2] \in Members(rest)
    BY <1>23, <2>4, <2>5
  <2> QED
    BY <2>6 DEF Members
<1>25. PICK due : due = Due'
  OBVIOUS
<1>26. Members(u) \ {use} \subseteq due
  <2>1. CASE L > 1
    BY <1>16, <1>22, <1>23, <1>25, <2>1 DEF Due
  <2>2. CASE ~(L > 1)
    <3>1. L = 1
      BY <1>7, <2>2
    <3>2. Members(u) = {use}
      BY <1>7, <1>8, <3>1 DEF Members
    <3> QED
      BY <3>2
  <2> QED
    BY <2>1, <2>2
<1>27. HistoryHolds'
  <2>1. PICK its, says : its = ToInputItems(history) /\ says = SpokenBy(history)
    OBVIOUS
  <2>2. Conversation(its, says, pieces, Members(u))
    BY <1>1, <1>5, <2>1 DEF HistoryHolds, Due
  <2>3. PICK o \in OutputItems : /\ o = [type |-> "output", id |-> m.id, custom |-> m.custom]
                                 /\ o \in InputItems /\ ItemSays(o) = <<>>
                                 /\ o.type = "output" /\ o.id = m.id /\ o.custom = m.custom
                                 /\ MessageItems(m) = <<o>> /\ MessageSays(m) = <<>>
    BY <1>14, ResultSays
  <2>4. /\ its \in Seq(InputItems) /\ says \in Seq(Nat)
        /\ ToInputItems(hs) = its \o MessageItems(m) /\ SpokenBy(hs) = says \o MessageSays(m)
    BY <1>2, <1>14, <1>15, <2>1, HistoryGrows
  <2>5. PICK all : all = Append(its, o)
    OBVIOUS
  <2>6. ToInputItems(hs) = all /\ SpokenBy(hs) = says
    <3>1. PICK one, e : one = <<o>> /\ e = <<>>
      OBVIOUS
    <3>2. its \o one = all
      BY <2>3, <2>4, <2>5, <3>1
    <3>3. says \o e = says
      BY <2>4, <3>1
    <3> QED
      BY <2>3, <2>4, <3>1, <3>2, <3>3
  <2>7. \A i \in 1..Len(its) : ~(its[i].type = "output" /\ its[i].id = id)
    <3>1. ~\E q \in Range(history) : q.role = "tool" /\ q.id = id
      BY <1>10, <1>11 DEF Answered
    <3> QED
      BY <1>2, <2>1, <3>1, NoOutputYet
  <2>8. o = OutputOf(use) /\ o.id = id
    BY <1>11, <1>11a, <1>14, <2>3 DEF OutputOf
  <2>9. PICK left : left = Members(u) \ {use}
    OBVIOUS
  <2>10. Numbered(all, pieces) /\ OneEach(all) /\ NoneEmpty(all) /\ Settled(all, left)
    <3>1. Numbered(its, pieces) /\ OneEach(its) /\ NoneEmpty(its) /\ Settled(its, Members(u))
      BY <2>2 DEF Conversation
    <3>2. o.id \in 1..pieces /\ \A i \in 1..Len(its) : ~(its[i].type = "output" /\ its[i].id = o.id)
      BY <1>12, <2>7, <2>8
    <3>3. o \in OutputItems /\ use \in Blocks /\ IsToolUse(use) /\ its \in Seq(InputItems)
      BY <1>9, <1>10, <2>3, <2>4
    <3> QED
      BY ONLY <2>5, <2>8, <2>9, <3>1, <3>2, <3>3, ResultAppended
  <2>11. Settled(all, due)
    BY <1>26, <2>9, <2>10, SettledMore
  <2>12. Said(all) = says
    BY <2>2, <2>3, <2>4, <2>5, OutputSaid DEF Conversation
  <2>13. Conversation(ToInputItems(hs), SpokenBy(hs), pieces, due)
    BY <2>6, <2>10, <2>11, <2>12 DEF Conversation
  <2> QED
    BY <1>16, <1>25, <2>13 DEF HistoryHolds
<1> QED
  BY <1>18, <1>19, <1>20, <1>24, <1>27 DEF TurnInv

LEMMA TurnNextInv == TurnInv /\ [StreamNext]_streamVars => TurnInv'
<1> SUFFICES ASSUME TurnInv, [StreamNext]_streamVars PROVE TurnInv'
  OBVIOUS
<1>1. CASE UNCHANGED streamVars
  BY <1>1 DEF streamVars, TurnInv, TurnTypes, ContentArrived, EndsHonestly, StopReasonsAreHonest,
     Content, UsesAreNew, HistoryHolds, Due, ToolsAreDue, Unanswered, HasResult
<1>2. CASE \E kind \in TextKinds \cup ToolKinds : StartItem(kind)
  BY <1>2, StartItemInv
<1>3. CASE Prompt \/ Ask \/ RunTool
  BY <1>3, PromptInv, AskInv, RunToolInv
<1>4. CASE ReceiveText \/ FinishTextItem \/ FinishCall
  BY <1>4, ReceiveTextInv, FinishTextItemInv, FinishCallInv
<1>5. CASE ResponseCompleted \/ ResponseIncomplete \/ ResponseFailed
             \/ ConnectionLost \/ ClosedEarly \/ CancelledByUser
  BY <1>5, EndingsInv
<1> QED
  BY <1>1, <1>2, <1>3, <1>4, <1>5 DEF StreamNext

(* From the server's stream through the session's history to the next request  *)
(* nothing is lost, invented or reordered, for conversations of any length and  *)
(* responses of any number of items, however each of them ends.               *)
THEOREM TurnsFaithful == StreamSpec => []TurnsAreFaithful
<1>1. StreamInit => TurnInv
  BY TurnInitInv
<1>2. TurnInv /\ [StreamNext]_streamVars => TurnInv'
  BY TurnNextInv
<1>3. TurnInv => TurnsAreFaithful
  BY TurnInvFaithful
<1> QED
  BY <1>1, <1>2, <1>3, PTL DEF StreamSpec
=============================================================================
