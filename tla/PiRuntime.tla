------------------------------ MODULE PiRuntime ------------------------------
(***************************************************************************)
(* The JavaScript runtime of PiCompat: a thread that takes commands from a *)
(* channel and executes one after the other, whatever has become of who    *)
(* sent them; and its clients, the session's task with its hooks, direct   *)
(* tool calls and programs, and the terminal with shortcuts.               *)
(* Source: src/e-agent-pi-compat/src/lib.rs.                               *)
(***************************************************************************)
EXTENDS Naturals, Sequences, FiniteSets, SequencesExt

CONSTANTS
  MaxCommands,   \* bound: commands ever sent
  MaxStaged      \* bound: host actions a command stages

ASSUME PiRuntimeConstants == MaxCommands \in Nat /\ MaxStaged \in Nat

VARIABLES
  commands,   \* every command sent, by its number: who sent it, what it came to
  inbox,      \* the channel: numbers of commands, 0 for Shutdown
  running,    \* the command the thread executes, or 0
  receiver,   \* "up", or "gone" when the thread has left its loop
  staged,     \* HostcallState: the commands whose actions wait there, in order
  session,    \* what the session's task does
  shut,       \* PiCompat::closed
  callSequence,    \* call_sequence
  programSequence, \* the running program's own count
  taken       \* history: commands whose actions the session has applied, in order

piVars == <<commands, inbox, running, receiver, staged, session, shut,
            callSequence, programSequence, taken>>

Numbers == 1..MaxCommands
Kinds   == {"hook", "direct", "program", "shortcut"}
Replies == {"waiting", "answered", "stopped", "timedOut", "abandoned"}
Waiting(kind) == {n \in DOMAIN commands : commands[n].kind = kind /\ commands[n].reply = "waiting"}

PiInit ==
  /\ commands = <<>> /\ inbox = <<>> /\ running = 0 /\ receiver = "up"
  /\ staged = <<>> /\ taken = <<>>
  /\ session = "idle" /\ shut = FALSE
  /\ callSequence = 0 /\ programSequence = 0

\* A handle's method: the command is sent and its one-shot waited for.  When the
\* receiver is gone the send fails.
SendCommand(kind, id) ==
  /\ Len(commands) < MaxCommands
  /\ commands' = Append(commands, [kind |-> kind, id |-> id, stagedBy |-> 0,
                                   reply |-> IF receiver = "up" THEN "waiting" ELSE "stopped"])
  /\ inbox' = IF receiver = "up" THEN Append(inbox, Len(commands) + 1) ELSE inbox
  /\ UNCHANGED <<running, receiver, staged, taken>>

(***************************************************************************)
(* The session's task: one thing at a time.  Hooks have no timeout.        *)
(***************************************************************************)
DispatchHook ==
  /\ session = "idle"
  /\ SendCommand("hook", 0)
  /\ session' = "hook"
  /\ UNCHANGED <<shut, callSequence, programSequence>>

CallDirect ==
  /\ session = "idle"
  /\ SendCommand("direct", callSequence)
  /\ callSequence' = callSequence + 1
  /\ session' = "direct"
  /\ UNCHANGED <<shut, programSequence>>

BeginPiProgram ==
  /\ session = "idle" /\ ~shut
  /\ session' = "program"
  /\ programSequence' = callSequence
  /\ UNCHANGED <<commands, inbox, running, receiver, staged, shut, callSequence, taken>>

\* A program may have several calls under way.
ProgramCallsTool ==
  /\ session = "program"
  /\ SendCommand("program", programSequence)
  /\ programSequence' = programSequence + 1
  /\ UNCHANGED <<session, shut, callSequence>>

\* A call returns when its reply is there; a program whenever it pleases, and an
\* abort drops whichever tool call is under way.
Leave(kind) ==
  commands' = [n \in DOMAIN commands |->
                 IF n \in Waiting(kind) THEN [commands[n] EXCEPT !.reply = "abandoned"]
                 ELSE commands[n]]

\* The session applies what was staged when it has told its observers of an event.
TakeHostActions == taken' = taken \o staged /\ staged' = <<>>

HookReturns ==
  /\ session = "hook" /\ Waiting("hook") = {}
  /\ session' = "idle"
  /\ TakeHostActions \/ UNCHANGED <<staged, taken>>
  /\ UNCHANGED <<commands, inbox, running, receiver, shut, callSequence, programSequence>>

DirectReturns ==
  /\ session = "direct" /\ Waiting("direct") = {}
  /\ session' = "idle"
  /\ UNCHANGED <<commands, inbox, running, receiver, staged, shut, callSequence,
                 programSequence, taken>>

ProgramReturns ==
  /\ session = "program"
  /\ session' = "idle" /\ Leave("program")
  /\ UNCHANGED <<inbox, running, receiver, staged, shut, callSequence, programSequence, taken>>

AbortDirect ==
  /\ session = "direct"
  /\ session' = "idle" /\ Leave("direct")
  /\ UNCHANGED <<inbox, running, receiver, staged, shut, callSequence, programSequence, taken>>

\* Mutant: no timeout on a direct call.
TimeOutProgramCallsOnly(n) ==
  /\ n \in Waiting("program")
  /\ commands' = [commands EXCEPT ![n].reply = "timedOut"]
  /\ UNCHANGED <<inbox, running, receiver, staged, session, shut, callSequence,
                 programSequence, taken>>

\* The 60 seconds of a tool call are over: only its reply is given up.
TimeOut(n) ==
  /\ n \in Waiting("direct") \union Waiting("program")
  /\ commands' = [commands EXCEPT ![n].reply = "timedOut"]
  /\ UNCHANGED <<inbox, running, receiver, staged, session, shut, callSequence,
                 programSequence, taken>>

\* drop_session: Shutdown goes behind what is in the channel.
ShutDown ==
  /\ session = "idle"
  /\ session' = "closed" /\ shut' = TRUE
  /\ inbox' = IF receiver = "up" THEN Append(inbox, 0) ELSE inbox
  /\ UNCHANGED <<commands, running, receiver, staged, callSequence, programSequence, taken>>

\* The terminal, beside the session's task.
Shortcut ==
  /\ Waiting("shortcut") = {}
  /\ SendCommand("shortcut", 0)
  /\ UNCHANGED <<session, shut, callSequence, programSequence>>

(***************************************************************************)
(* The thread.                                                             *)
(***************************************************************************)

\* Whether anybody still waits for the reply is not asked.
TakeCommand ==
  /\ receiver = "up" /\ running = 0 /\ inbox # <<>> /\ Head(inbox) # 0
  /\ running' = Head(inbox) /\ inbox' = Tail(inbox)
  /\ UNCHANGED <<commands, receiver, staged, session, shut, callSequence, programSequence, taken>>

\* execute_hostcall_with_state: the running JavaScript sends a message or an entry.
StageHostAction ==
  /\ running # 0 /\ commands[running].stagedBy < MaxStaged
  /\ commands' = [commands EXCEPT ![running].stagedBy = @ + 1]
  /\ staged' = Append(staged, running)
  /\ UNCHANGED <<inbox, running, receiver, session, shut, callSequence, programSequence, taken>>

\* The task settles; the reply is for nobody when its receiver was dropped.
Settle ==
  /\ running # 0 /\ running' = 0
  /\ commands' = [commands EXCEPT ![running].reply = IF @ = "waiting" THEN "answered" ELSE @]
  /\ UNCHANGED <<inbox, receiver, staged, session, shut, callSequence, programSequence, taken>>

\* Mutant: their one-shots are kept.
StopSilently ==
  /\ receiver = "up" /\ running = 0 /\ inbox # <<>> /\ Head(inbox) = 0
  /\ receiver' = "gone" /\ inbox' = <<>>
  /\ UNCHANGED <<commands, running, staged, session, shut, callSequence, programSequence, taken>>

\* Shutdown: the receiver goes, and with it the one-shots of what is behind.
Stop ==
  /\ receiver = "up" /\ running = 0 /\ inbox # <<>> /\ Head(inbox) = 0
  /\ receiver' = "gone" /\ inbox' = <<>>
  /\ commands' = [n \in DOMAIN commands |->
                    IF commands[n].reply = "waiting" THEN [commands[n] EXCEPT !.reply = "stopped"]
                    ELSE commands[n]]
  /\ UNCHANGED <<running, staged, session, shut, callSequence, programSequence, taken>>

Thread == TakeCommand \/ Stop

PiNext ==
  \/ DispatchHook \/ CallDirect \/ BeginPiProgram \/ ProgramCallsTool
  \/ HookReturns \/ DirectReturns \/ ProgramReturns \/ AbortDirect
  \/ \E n \in Numbers : TimeOut(n)
  \/ ShutDown \/ Shortcut
  \/ TakeCommand \/ Stop \/ StageHostAction \/ Settle

\* The thread is scheduled, time passes, and a task that is woken runs; nothing is
\* assumed about how long JavaScript takes.
PiFairness ==
  /\ WF_piVars(Thread) /\ WF_piVars(\E n \in Numbers : TimeOut(n))
  /\ WF_piVars(HookReturns) /\ WF_piVars(DirectReturns)

PiSpec == PiInit /\ [][PiNext]_piVars /\ PiFairness

(***************************************************************************)
(* Properties.                                                             *)
(***************************************************************************)
PiTypeOK ==
  /\ \A n \in DOMAIN commands :
       /\ commands[n].kind \in Kinds /\ commands[n].reply \in Replies
       /\ commands[n].stagedBy \in 0..MaxStaged
  /\ Len(commands) <= MaxCommands
  /\ inbox \in Seq(0..Len(commands)) /\ running \in 0..Len(commands)
  /\ receiver \in {"up", "gone"} /\ (receiver = "gone" => inbox = <<>> /\ running = 0)
  /\ staged \in Seq(1..Len(commands)) /\ taken \in Seq(1..Len(commands))
  /\ session \in {"idle", "hook", "direct", "program", "closed"} /\ shut \in BOOLEAN
  /\ callSequence \in Nat /\ programSequence \in Nat

\* What is waited for is executed or still to be: nobody waits for a reply that
\* cannot come, however the channel was closed (receive.await, Shutdown).
NoReplyIsForgotten ==
  \A n \in DOMAIN commands :
    commands[n].reply = "waiting" => n = running \/ \E i \in 1..Len(inbox) : inbox[i] = n

\* Host actions are applied once and in the order in which their commands were
\* sent, also those of calls that were given up: an abandoned call's late
\* messages come before everything a later call says.
ActionsInOrder ==
  LET all == taken \o staged IN
    /\ \A i, j \in 1..Len(all) : i < j => all[i] <= all[j]
    /\ \A n \in DOMAIN commands :
         Cardinality({i \in 1..Len(all) : all[i] = n}) = commands[n].stagedBy

\* The ids of direct calls differ from each other, those of a program's calls
\* differ while the program runs.
CallIdsDiffer ==
  \A m, n \in DOMAIN commands :
    m # n /\ commands[m].kind = commands[n].kind /\ commands[m].id = commands[n].id
      => \/ commands[m].kind \in {"hook", "shortcut"}
         \/ commands[m].kind = "program" /\ {m, n} \ Waiting("program") # {}

\* A tool call returns although the JavaScript of this or of an earlier command
\* never does (tokio::time::timeout).
ToolCallsReturn == session = "direct" ~> session # "direct"

\* A hook, which has no timeout, returns when every script does: it may have to wait
\* for those of calls that were given up long before, but for nothing else.
HooksReturnIfScriptsDo ==
  WF_piVars(Settle) => (session = "hook" ~> session # "hook")

\* Each command is answered, what it stages is applied once and in order, and the
\* ids of its calls are its own.
PiIsSound == PiTypeOK /\ NoReplyIsForgotten /\ ActionsInOrder /\ CallIdsDiffer

\* What waits for JavaScript comes back.
PiWaitsEnd == ToolCallsReturn /\ HooksReturnIfScriptsDo
=============================================================================
