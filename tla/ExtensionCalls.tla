---------------------------- MODULE ExtensionCalls ----------------------------
(***************************************************************************)
(* Calls of programs into native extensions: the process-wide lock under   *)
(* which PiCompat executes one program at a time, the extension library's  *)
(* cancelled flag and signal, its slot for the current session and the state *)
(* it keeps per session.  A call is a task of the extension's own threads;   *)
(* it goes on when its program ended without waiting for it.                 *)
(* Sources: src/e-agent-pi-compat/src/lib.rs, src/e-agent-extension/src.   *)
(***************************************************************************)
EXTENDS Naturals, Sequences, FiniteSets, SequencesExt

CONSTANTS
  Sessions,      \* sessions of the process, each with one task
  NoSession,     \* nobody; also the slot's default, session 0
  NativeCalls    \* calls, each made at most once

ASSUME ExtensionConstants == NoSession \notin Sessions

VARIABLES
  lock,       \* NODE: the session whose program holds it
  waiters,    \* sessions that wait for NODE, in order
  program,    \* program[s]: "none", "queued" or "running"
  closed,     \* closed[s]: was drop_session called?
  cancelled,  \* CANCELLED
  currentSession, \* CURRENT
  states,     \* sessions that have an entry in SessionStates
  call,       \* call[c]: whose it is, how far its task is, was it signalled?
  touched,    \* history: whose state each call has used
  abandoned,  \* history: did a program ever leave a call behind?
  slipped     \* history: calls between their look at the flag and their
              \* subscription when a cancel came

extVars == <<lock, waiters, program, closed, cancelled, currentSession, states, call,
             touched, abandoned, slipped>>

Places == {"unused", "spawned", "started", "checked", "waiting", "ok", "cancelled"}
UnderWay(c) == call[c].at \in {"spawned", "started", "checked", "waiting"}
CallsOf(s)  == {c \in NativeCalls : call[c].session = s /\ UnderWay(c)}

ExtInit ==
  /\ lock = NoSession /\ waiters = <<>>
  /\ program = [s \in Sessions |-> "none"]
  /\ closed = [s \in Sessions |-> FALSE]
  /\ cancelled = FALSE /\ currentSession = NoSession /\ states = {}
  /\ call = [c \in NativeCalls |-> [session |-> NoSession, at |-> "unused", signalled |-> FALSE]]
  /\ touched = [c \in NativeCalls |-> {}]
  /\ abandoned = FALSE /\ slipped = {}

(***************************************************************************)
(* PiCompat::execute                                                       *)
(***************************************************************************)

\* closed is looked at before the lock is waited for.
BeginProgram(s) ==
  /\ ~closed[s] /\ program[s] = "none"
  /\ program' = [program EXCEPT ![s] = "queued"]
  /\ waiters' = Append(waiters, s)
  /\ UNCHANGED <<lock, closed, cancelled, currentSession, states, call, touched, abandoned,
                 slipped>>

\* Mutant: the lock is not waited for.
AcquireAtOnce(s) ==
  /\ waiters # <<>> /\ Head(waiters) = s
  /\ lock' = s /\ waiters' = Tail(waiters)
  /\ program' = [program EXCEPT ![s] = "running"]
  /\ cancelled' = FALSE
  /\ UNCHANGED <<closed, currentSession, states, call, touched, abandoned, slipped>>

\* A program that starts clears the cancelled flag of every extension.
Acquire(s) ==
  /\ lock = NoSession /\ waiters # <<>> /\ Head(waiters) = s
  /\ lock' = s /\ waiters' = Tail(waiters)
  /\ program' = [program EXCEPT ![s] = "running"]
  /\ cancelled' = FALSE
  /\ UNCHANGED <<closed, currentSession, states, call, touched, abandoned, slipped>>

Invoke(s, c) ==
  /\ program[s] = "running" /\ call[c].at = "unused"
  /\ call' = [call EXCEPT ![c].session = s, ![c].at = "spawned"]
  /\ UNCHANGED <<lock, waiters, program, closed, cancelled, currentSession, states,
                 touched, abandoned, slipped>>

\* The program returns or its future is dropped; calls it did not wait for go on.
EndProgram(s) ==
  /\ program[s] = "running"
  /\ lock' = NoSession
  /\ program' = [program EXCEPT ![s] = "none"]
  /\ abandoned' = (abandoned \/ CallsOf(s) # {})
  /\ UNCHANGED <<waiters, closed, cancelled, currentSession, states, call, touched, slipped>>

\* An abort while the program still waits for the lock.
AbortQueued(s) ==
  /\ program[s] = "queued"
  /\ program' = [program EXCEPT ![s] = "none"]
  /\ \E i \in 1..Len(waiters) : waiters[i] = s /\ waiters' = RemoveAt(waiters, i)
  /\ UNCHANGED <<lock, closed, cancelled, currentSession, states, call, touched, abandoned,
                 slipped>>

\* The session's task calls it, when it executes no program.
DropSession(s) ==
  /\ ~closed[s] /\ program[s] = "none"
  /\ closed' = [closed EXCEPT ![s] = TRUE]
  /\ states' = states \ {s}
  /\ UNCHANGED <<lock, waiters, program, cancelled, currentSession, call, touched,
                 abandoned, slipped>>

(***************************************************************************)
(* The task of a call: start_tool_call, until_cancelled                    *)
(***************************************************************************)
Step(c, from, to) == call[c].at = from /\ call' = [call EXCEPT ![c].at = to]

SetCurrent(c) ==
  /\ Step(c, "spawned", "started")
  /\ currentSession' = call[c].session
  /\ UNCHANGED <<lock, waiters, program, closed, cancelled, states, touched, abandoned,
                 slipped>>

CheckCancelled(c) ==
  /\ IF cancelled THEN Step(c, "started", "cancelled") ELSE Step(c, "started", "checked")
  /\ UNCHANGED <<lock, waiters, program, closed, cancelled, currentSession, states,
                 touched, abandoned, slipped>>

\* From here on a signal reaches the call, an earlier one does not.
Subscribe(c) ==
  /\ Step(c, "checked", "waiting")
  /\ UNCHANGED <<lock, waiters, program, closed, cancelled, currentSession, states,
                 touched, abandoned, slipped>>

\* A stateful tool uses the state of the session in the slot, made on first use.
UseState(c) ==
  /\ call[c].at = "waiting"
  /\ states' = states \union {currentSession}
  /\ touched' = [touched EXCEPT ![c] = @ \union {currentSession}]
  /\ UNCHANGED <<lock, waiters, program, closed, cancelled, currentSession, call,
                 abandoned, slipped>>

\* The select is biased: a result that is there wins over the signal.
ReturnResult(c) ==
  /\ Step(c, "waiting", "ok")
  /\ UNCHANGED <<lock, waiters, program, closed, cancelled, currentSession, states,
                 touched, abandoned, slipped>>

SeeSignal(c) ==
  /\ call[c].signalled
  /\ Step(c, "waiting", "cancelled")
  /\ UNCHANGED <<lock, waiters, program, closed, cancelled, currentSession, states,
                 touched, abandoned, slipped>>

\* Mutant: only the flag is set.
CancelWithoutSignal ==
  /\ cancelled' = TRUE
  /\ slipped' = slipped \union {c \in NativeCalls : call[c].at = "checked"}
  /\ UNCHANGED <<lock, waiters, program, closed, currentSession, states, call, touched,
                 abandoned>>

\* set_cancelled(true), which the host may call at any time: the flag, then the
\* signal for who has subscribed.
CancelTurn ==
  /\ cancelled' = TRUE
  /\ call' = [c \in NativeCalls |-> IF call[c].at = "waiting"
                                    THEN [call[c] EXCEPT !.signalled = TRUE] ELSE call[c]]
  /\ slipped' = slipped \union {c \in NativeCalls : call[c].at = "checked"}
  /\ UNCHANGED <<lock, waiters, program, closed, currentSession, states, touched, abandoned>>

TaskStep(c) ==
  \/ SetCurrent(c) \/ CheckCancelled(c) \/ Subscribe(c)
  \/ ReturnResult(c) \/ SeeSignal(c)

ExtNext ==
  \/ \E s \in Sessions :
       \/ BeginProgram(s) \/ Acquire(s) \/ EndProgram(s) \/ AbortQueued(s) \/ DropSession(s)
       \/ \E c \in NativeCalls : Invoke(s, c)
  \/ \E c \in NativeCalls : TaskStep(c) \/ UseState(c)
  \/ CancelTurn

ExtSpec == ExtInit /\ [][ExtNext]_extVars

(***************************************************************************)
(* Properties.                                                             *)
(***************************************************************************)
ExtTypeOK ==
  /\ lock \in Sessions \union {NoSession}
  /\ waiters \in Seq(Sessions)
  /\ \A s \in Sessions : program[s] = "queued" <=> \E i \in DOMAIN waiters : waiters[i] = s
  /\ program \in [Sessions -> {"none", "queued", "running"}]
  /\ closed \in [Sessions -> BOOLEAN]
  /\ cancelled \in BOOLEAN
  /\ currentSession \in Sessions \union {NoSession}
  /\ states \subseteq Sessions \union {NoSession}
  /\ call \in [NativeCalls -> [session : Sessions \union {NoSession}, at : Places,
                               signalled : BOOLEAN]]
  /\ touched \in [NativeCalls -> SUBSET (Sessions \union {NoSession})]
  /\ abandoned \in BOOLEAN /\ slipped \subseteq NativeCalls

\* One program runs at a time, and it is the one that holds NODE.
OneProgram == \A s \in Sessions : program[s] = "running" <=> lock = s

\* "One process-global current-session slot per cdylib, which matches the
\* executor's serialized program execution" (state.rs:6-8): while no program
\* leaves a call behind, no call uses another session's state ...
StatesArePrivate ==
  ~abandoned => \A c \in NativeCalls : touched[c] \subseteq {call[c].session}

\* ... and a session that was dropped has no state again.
DroppedStaysDropped ==
  ~abandoned => \A s \in Sessions : closed[s] => s \notin states

\* A cancel reaches every call: while the flag is set each call that got past its
\* look at it has the signal, except those that were between the look and the
\* subscription when it was sent (until_cancelled, cancel).
CancelReachesCalls ==
  cancelled => \A c \in NativeCalls :
                 call[c].at \in {"checked", "waiting"} => call[c].signalled \/ c \in slipped

\* The one NODE, the one flag and the one slot of the process serve its sessions
\* as if each had its own.
SessionsAreApart == OneProgram /\ StatesArePrivate /\ DroppedStaysDropped
=============================================================================
