------------------------------- MODULE NodePump -------------------------------
(***************************************************************************)
(* The two loops that drive a JavaScript runtime while its program waits   *)
(* for host calls: execute_program_with_hostcalls, for the programs of the *)
(* ptc tool, and wait_extension_task, for the tools, commands and handlers *)
(* of Pi extensions.  Each takes the queued requests, performs one at a    *)
(* time, and gives every outcome one tick; then JavaScript runs on.        *)
(* Source: src/e-agent-node-runtime/src/runtime.rs, and the dispatch       *)
(* functions of src/e-agent-tool-ptc and src/e-agent-pi-compat.            *)
(*                                                                         *)
(* The program makes calls, up to Width of them at a time, waits for all   *)
(* it has made, and ends.                                                  *)
(***************************************************************************)
EXTENDS NodeRuntime

CONSTANTS
  Pumps,            \* loops to start with; "none" for no program at all
  ProgramWidth,     \* bound: calls a program has in flight
  ExtensionWidth,   \* bound: calls an extension has in flight
  Disturbed         \* TRUE when calls are cancelled, or outlast a time-out

ASSUME PumpConstants ==
  /\ Pumps \subseteq {"program", "extension", "none"}
  /\ ProgramWidth \in Nat /\ ExtensionWidth \in Nat
  /\ Disturbed \in BOOLEAN

VARIABLES
  pump,       \* which loop this is
  pc,         \* where it stands
  requests,   \* requests taken from the queue and not yet performed
  current,    \* the call being performed
  outcomes    \* its outcomes not yet handed over

pumpVars == <<pump, pc, requests, current, outcomes>>
allVars == <<vars, pumpVars>>

PumpInit ==
  /\ Init
  /\ pump \in Pumps
  /\ pc = IF pump = "none" THEN "done" ELSE "drain"
  /\ requests = <<>>
  /\ current = NoCall
  /\ outcomes = <<>>

\* A program waits for the promises of all its calls and for its timers.
InFlight == {c \in Calls \ Exits : Made(c) /\ result[c] = "open"}
WaitsForNothing == InFlight = {} /\ UserTimers = {}

Width == IF pump = "program" THEN ProgramWidth ELSE ExtensionWidth

\* The program's loop takes the first request of each drain and lets go of the
\* rest; the extension's loop keeps them all.
PumpDrain ==
  /\ pc = "drain" /\ rt.queue # <<>>
  /\ DrainHostcallRequests
  /\ requests' = IF pump = "program" THEN <<Head(rt.queue)>> ELSE rt.queue
  /\ pc' = "dispatch"
  /\ UNCHANGED <<pump, current, outcomes>>

NothingToDrain ==
  /\ pc = "drain" /\ rt.queue = <<>>
  /\ pc' = "javascript"
  /\ UNCHANGED <<vars, pump, requests, current, outcomes>>

\* What becomes of a request: a process sends its output as one chunk and then
\* its result, everything else a result, and any of them may fail.
Performed(c) ==
  {<<Failed("io")>>}
    \union (IF c \in Chunked THEN {<<Chunk(0, FALSE), Ok>>} ELSE {<<Ok>>})

PumpDispatch ==
  /\ pc = "dispatch" /\ requests # <<>>
  /\ current' = Head(requests)
  /\ requests' = Tail(requests)
  /\ outcomes' \in Performed(Head(requests))
  /\ pc' = "complete"
  /\ UNCHANGED <<vars, pump>>

\* The program drains again after each request, the extension after the last.
AllDispatched ==
  /\ pc = "dispatch" /\ requests = <<>>
  /\ pc' = IF pump = "program" THEN "drain" ELSE "javascript"
  /\ UNCHANGED <<vars, pump, requests, current, outcomes>>

PumpComplete ==
  /\ pc = "complete" /\ outcomes # <<>>
  /\ CompleteHostcall(current, Head(outcomes))
  /\ outcomes' = Tail(outcomes)
  /\ pc' = "tick"
  /\ UNCHANGED <<pump, requests, current>>

\* Mutant: an outcome waits for some later tick.
PumpTickLater ==
  /\ pc = "tick"
  /\ pc' = "microtasks"
  /\ UNCHANGED <<vars, pump, requests, current, outcomes>>

PumpTick ==
  /\ pc = "tick"
  /\ TickRuntime
  /\ pc' = "microtasks"
  /\ UNCHANGED <<pump, requests, current, outcomes>>

\* The microtasks of the tick have run.
Ticked ==
  /\ pc = "microtasks"
  /\ pc' = IF outcomes # <<>> THEN "complete" ELSE "dispatch"
  /\ current' = IF outcomes # <<>> THEN current ELSE NoCall
  /\ UNCHANGED <<vars, pump, requests, outcomes>>

\* JavaScript runs when the loop polls it, and in the microtasks of a tick.
JavaScript ==
  /\ pc \in {"javascript", "microtasks"}
  /\ Program
  /\ Cardinality(rt'.pending) <= Width
  /\ Disturbed \/ rt'.cancelled = {}
  /\ UNCHANGED pumpVars

\* The program has not ended: the loop yields and goes round.
GoRound ==
  /\ pc = "javascript" /\ ~WaitsForNothing
  /\ pc' = "drain"
  /\ UNCHANGED <<vars, pump, requests, current, outcomes>>

\* The program's loop returns, and the extension's when its task failed; else it
\* ticks once more and performs what the task left in the queue.
Finish ==
  /\ pc = "javascript" /\ WaitsForNothing
  /\ pc' \in IF pump = "program" THEN {"done"} ELSE {"done", "last tick"}
  /\ UNCHANGED <<vars, pump, requests, current, outcomes>>

LastTick ==
  /\ pc = "last tick"
  /\ TickRuntime
  /\ pc' = "last drain"
  /\ UNCHANGED <<pump, requests, current, outcomes>>

\* One round, with the outcomes ticked as before; nobody waits for them.
LastDrain ==
  /\ pc = "last drain"
  /\ IF rt.queue = <<>> THEN UNCHANGED vars ELSE DrainHostcallRequests
  /\ pc' = "done"
  /\ UNCHANGED <<pump, requests, current, outcomes>>

\* Time passes while a request is performed.
CouldBeLate == \E e \in LiveTimers(rt.scheduler) : e.deadline <= now + 1

TimePasses ==
  /\ pc = "complete"
  /\ Disturbed \/ ~CouldBeLate
  /\ Clock
  /\ UNCHANGED pumpVars

Loop ==
  \/ PumpDrain \/ NothingToDrain
  \/ PumpDispatch \/ AllDispatched
  \/ PumpComplete \/ PumpTick \/ Ticked
  \/ GoRound \/ Finish \/ LastTick \/ LastDrain

PumpNext == Loop \/ JavaScript \/ TimePasses

\* The loop never stops of itself; what JavaScript and time do is bounded.
PumpSpec == PumpInit /\ [][PumpNext]_allVars /\ WF_allVars(Loop)

(***************************************************************************)
(* Properties.                                                             *)
(***************************************************************************)
\* Every program that waits for calls it made comes to its end.
ProgramsEnd == <>(pc = "done")

\* A call that waits is in somebody's hands: in the queue, with the loop, or
\* its last outcome is among the tasks to come.
InHands(c) ==
  \/ c \in Range(rt.queue)
  \/ c \in Range(requests)
  \/ c = current
  \/ EndIsComing(c)
NoCallIsLost == pc # "done" => \A c \in rt.pending \ Exits : InHands(c)

\* The loop ticks once for each completion: it never falls behind by more than
\* the one in hand, or completions stay in the queue when the calls run out.
LoopKeepsUp == pc \in {"drain", "dispatch", "javascript"} => rt.scheduler.tasks = <<>>

\* No outcome is lost or left behind between the tables, the queue and the loop,
\* and so every program ends.
CallsGetThrough == [](NoCallIsLost /\ LoopKeepsUp) /\ ProgramsEnd
=============================================================================
