------------------------------ MODULE Session ------------------------------
(* Session<P, E> of e-agent-core/src/session/mod.rs: one conversation, its   *)
(* message queue and its store, and the run and turn loop that drives the    *)
(* provider and the tools.  A step of this module runs the code from one     *)
(* await that another task can use to the next; `at` names the await the     *)
(* executing public method (`op`) is suspended at.  Clients and the actor    *)
(* that calls these methods are in SessionActor.                             *)
EXTENDS Naturals, Sequences

CONSTANTS Inputs,      \* the user texts anybody may ever submit
          NoInput,     \* the absence of one
          MaxTurns,    \* bound: turns of a run
          MaxCalls,    \* bound: tool uses in one assistant message
          MaxActions,  \* bound: host actions an extension stages at once
          Failures,    \* what may fail, out of FailureKinds
          Starts,      \* the first method called: "resume", or "idle" for any other
          HookRewrites \* do finalizing hooks replace assistant messages?

FailureKinds == {"message", "custom", "drop", "command", "hook"}

ASSUME SessionAssumption ==
    /\ NoInput \notin Inputs
    /\ MaxTurns \in Nat \ {0}
    /\ MaxCalls \in Nat
    /\ MaxActions \in Nat
    /\ Failures \subseteq FailureKinds
    /\ Starts \subseteq {"resume", "idle"}
    /\ HookRewrites \in BOOLEAN

VARIABLES
    status, started, shutdown, run,  \* Session: status, started, shutdown_emitted, run
    messages, idle, closed,          \* QueueState
    cancelled,                       \* is the current cancellation token cancelled?
    hostActions,                     \* what extensions staged for take_host_actions
    store,                           \* SessionStore::messages()
    published,                       \* the events the last step put on the EventBus
    op, at, result,                  \* the public method running, where, and its result
    input, turn, stop, calls, next,  \* locals of run_agent and agent_loop
    fate                             \* history: what became of every input

queueVars   == <<messages, idle, closed>>
methodVars  == <<op, at, result>>
localVars   == <<input, turn, stop, calls, next>>
sessionVars == <<status, started, shutdown, run, queueVars, cancelled, hostActions,
                 store, published, methodVars, localVars, fate>>

-----------------------------------------------------------------------------
Statuses    == {"Idle", "Running", "Fatal", "Closed"}
Kinds       == {"steer", "followUp"}
StopReasons == {"stop", "tool_use", "error", "aborted"}
Roles       == {"user", "assistant", "result"}
Events      == {"SessionStart", "QueueUpdate", "AgentStart", "TurnStart", "MessageStart",
                "MessageUpdate", "MessageEnd", "ToolStart", "ToolEnd", "TurnEnd", "AgentEnd",
                "AgentSettled", "HookError", "PersistenceError", "SessionFatal",
                "SessionShutdown"}
Places      == {"resume", "goal", "idle", "input", "inputError", "drain", "before", "turn", "user",
                "injected", "context", "provider", "assistant", "tools", "call", "result",
                "queued", "steer", "settle", "drop", "return"}
Operations  == {"none", "resume", "prompt", "queued", "close"}
Results     == {"none", "ok", "error"}
Fates       == {"new", "sent", "staged", "queued", "taken", "prompted", "handled", "refused", "dropped"}

Queued  == [kind : Kinds, input : Inputs]
Action  == [saves : BOOLEAN, kind : Kinds, input : Inputs]
Message == [role : Roles, run : Nat, turn : Nat, body : Inputs \cup {NoInput} \cup Nat]

FatalEvents == <<"PersistenceError", "SessionFatal", "SessionShutdown">>

Init ==
    /\ status = "Idle" /\ started = FALSE /\ shutdown = FALSE /\ run = 0
    /\ messages = <<>> /\ idle = TRUE /\ closed = FALSE
    /\ cancelled = FALSE
    /\ hostActions = <<>>
    /\ store = <<>>
    /\ published = <<>>
    /\ at \in Starts /\ op = IF at = "resume" THEN "resume" ELSE "none"
    /\ result = "none"
    /\ input = NoInput /\ turn = 0 /\ stop = "stop" /\ calls = 0 /\ next = 1
    /\ fate = [m \in Inputs |-> "new"]

-----------------------------------------------------------------------------
(* emit, apply_actions, persist, fatal                                       *)

(* Extension code (a hook, a tool, a JS timer) stages a message for the host.  *)
(* `saves`: a custom entry is written first (SendMessage, or an AppendEntry    *)
(* that precedes it in the batch).                                           *)
StageAction(m, kind, saves) ==
    /\ fate[m] = "new"
    /\ Len(hostActions) < MaxActions
    /\ hostActions' = Append(hostActions, [saves |-> saves, kind |-> kind, input |-> m])
    /\ fate' = [fate EXCEPT ![m] = "staged"]
    /\ published' = <<>>
    /\ UNCHANGED <<status, started, shutdown, run, queueVars, cancelled, store, methodVars,
                   localVars>>

(* How many staged actions apply_actions gets through: all of them, or those   *)
(* before one that fails, when it returns and drops the rest.                *)
AppliedCounts ==
    {k \in 0..Len(hostActions) :
        /\ k > 0 => ~closed
        /\ k < Len(hostActions) =>
              closed \/ (hostActions[k + 1].saves /\ "custom" \in Failures)}

(* Mutant: the actions themselves go into the queue.                         *)
ApplyActionsRaw(k, fates) ==
    /\ hostActions' = <<>>
    /\ messages' = messages \o SubSeq(hostActions, 1, k)
    /\ fate' = [m \in Inputs |->
                  CASE fates[m] # "staged"                             -> fates[m]
                    [] fates[m] = "staged"
                       /\ \E i \in 1..k : hostActions[i].input = m     -> "queued"
                    [] OTHER                                           -> "dropped"]

ApplyActions(k, fates) ==
    /\ hostActions' = <<>>
    /\ messages' = messages \o
           [i \in 1..k |-> [kind |-> hostActions[i].kind, input |-> hostActions[i].input]]
    /\ fate' = [m \in Inputs |->
                  CASE fates[m] # "staged"                             -> fates[m]
                    [] fates[m] = "staged"
                       /\ \E i \in 1..k : hostActions[i].input = m     -> "queued"
                    [] OTHER                                           -> "dropped"]

(* Mutant: a failed apply_actions is not reported.                           *)
EmitThenSilently(events, direct) ==
    IF shutdown
    THEN /\ published' = direct
         /\ UNCHANGED <<hostActions, messages, fate>>
    ELSE \E k \in AppliedCounts : ApplyActions(k, fate) /\ published' = events \o direct

(* What the hooks called on the way to an event report: a hook or an observer  *)
(* that fails is itself an event, and the session goes on.                   *)
HookReports == {<<>>} \cup (IF "hook" \in Failures THEN {<<"HookError">>} ELSE {})

(* Call the hooks, publish `events`, let the extensions observe them and apply *)
(* what they staged; nothing at all once the shutdown event is out.  `direct`  *)
(* is published on the bus whatever `shutdown` says.                         *)
EmitThen(events, direct) ==
    IF shutdown
    THEN /\ published' = direct
         /\ UNCHANGED <<hostActions, messages, fate>>
    ELSE \E k \in AppliedCounts, reports \in HookReports :
           /\ ApplyActions(k, fate)
           /\ published' = reports \o events
                  \o (IF k < Len(hostActions) THEN <<"HookError">> ELSE <<>>) \o direct

Emit(events) == EmitThen(events, <<>>)

(* Mutant: message_end goes out before the store has accepted the message.   *)
PersistAfterEnd(role, body, events, continue) ==
    /\ input' = NoInput
    /\ \/ /\ store' = Append(store, [role |-> role, run |-> run, turn |-> turn, body |-> body])
          /\ Emit(events \o <<"MessageEnd">>)
          /\ at' = continue
          /\ UNCHANGED <<status, closed, shutdown, result>>
       \/ /\ "message" \in Failures
          /\ EmitThen(events \o <<"MessageEnd">>, FatalEvents)
          /\ status' = "Fatal" /\ closed' = TRUE /\ shutdown' = TRUE
          /\ at' = "return" /\ result' = "error"
          /\ store' = store

(* Mutant: the caller is told Ok although the store failed.                  *)
PersistOk(role, body, events, continue) ==
    /\ input' = NoInput
    /\ \/ /\ store' = Append(store, [role |-> role, run |-> run, turn |-> turn, body |-> body])
          /\ Emit(events \o <<"MessageEnd">>)
          /\ at' = continue
          /\ UNCHANGED <<status, closed, shutdown, result>>
       \/ /\ "message" \in Failures
          /\ EmitThen(events, FatalEvents)
          /\ status' = "Fatal" /\ closed' = TRUE /\ shutdown' = TRUE
          /\ at' = "return" /\ result' = "ok"
          /\ store' = store

(* persist, with the emits just before it: the store first, then message_end;  *)
(* a failed write ends the session and the method.                           *)
Persist(role, body, events, continue) ==
    /\ input' = NoInput
    /\ \/ /\ store' = Append(store, [role |-> role, run |-> run, turn |-> turn, body |-> body])
          /\ Emit(events \o <<"MessageEnd">>)
          /\ at' = continue
          /\ UNCHANGED <<status, closed, shutdown, result>>
       \/ /\ "message" \in Failures
          /\ EmitThen(events, FatalEvents)
          /\ status' = "Fatal" /\ closed' = TRUE /\ shutdown' = TRUE
          /\ at' = "return" /\ result' = "error"
          /\ store' = store

-----------------------------------------------------------------------------
(* resume_pending, run_one_trun, run_queued, close: entry and drain loops      *)

Return(r) == at' = "return" /\ result' = r

ResumePending ==
    /\ at = "resume"
    /\ started' = TRUE
    /\ Emit(<<"SessionStart">>)
    /\ at' = "goal"
    /\ UNCHANGED <<status, shutdown, run, idle, closed, cancelled, store, op, result, localVars>>

(* An active goal found in the store is queued as a follow-up.               *)
ResumeGoal ==
    /\ at = "goal"
    /\ \/ UNCHANGED <<messages, fate>>
       \/ \E m \in Inputs :
            /\ fate[m] = "new"
            /\ messages' = Append(messages, [kind |-> "followUp", input |-> m])
            /\ fate' = [fate EXCEPT ![m] = "queued"]
    /\ at' = "drain"
    /\ published' = <<>>
    /\ UNCHANGED <<status, started, shutdown, run, idle, closed, cancelled, hostActions, store,
                   op, result, localVars>>

(* Does ensure_started emit session_start here?                              *)
EnsureStarted ==
    /\ started' = TRUE
    /\ IF started
       THEN published' = <<>> /\ UNCHANGED <<hostActions, messages, fate>>
       ELSE Emit(<<"SessionStart">>)

(* Mutant: only a closed session refuses prompts.                            *)
RunOneTurnUnlessClosed(m) ==
    /\ at = "idle"
    /\ op' = "prompt"
    /\ UNCHANGED <<status, shutdown, run, idle, closed, store, turn, stop, calls, next>>
    /\ \/ /\ status = "Closed"
          /\ Return("error")
          /\ fate' = [fate EXCEPT ![m] = "refused"]
          /\ published' = <<>>
          /\ UNCHANGED <<started, messages, cancelled, hostActions, input>>
       \/ /\ status # "Closed"
          /\ EnsureStarted
          /\ cancelled' = FALSE
          /\ input' = m /\ at' = "input"
          /\ UNCHANGED result

(* run_one_trun up to the input hook.                                        *)
RunOneTurn(m) ==
    /\ at = "idle"
    /\ op' = "prompt"
    /\ UNCHANGED <<status, shutdown, run, idle, closed, store, turn, stop, calls, next>>
    /\ \/ /\ status \in {"Fatal", "Closed"}
          /\ Return("error")
          /\ fate' = [fate EXCEPT ![m] = "refused"]
          /\ published' = <<>>
          /\ UNCHANGED <<started, messages, cancelled, hostActions, input>>
       \/ /\ status \notin {"Fatal", "Closed"}
          /\ EnsureStarted
          /\ cancelled' = FALSE
          /\ input' = m /\ at' = "input"
          /\ UNCHANGED result

(* The first assignments of run_agent, with no await since the input is taken. *)
StartRun(m) ==
    /\ run' = run + 1
    /\ status' = "Running"
    /\ idle' = FALSE
    /\ input' = m
    /\ at' = "before"

(* The input hook fails: reported, and the input goes on as it was.          *)
InputHookFails ==
    /\ at = "input" /\ "hook" \in Failures
    /\ Emit(<<"HookError">>)
    /\ at' = "inputError"
    /\ UNCHANGED <<status, started, shutdown, run, idle, closed, cancelled, store, op, result,
                   localVars>>

InputAccepted ==
    /\ at \in {"input", "inputError"}
    /\ StartRun(input)
    /\ fate' = [fate EXCEPT ![input] = "prompted"]
    /\ published' = <<>>
    /\ UNCHANGED <<started, shutdown, messages, closed, cancelled, hostActions, store, op, result,
                   turn, stop, calls, next>>

(* The input hook says Handled: Ok at once, no drain, no host action applied.  *)
InputHandled ==
    /\ at = "input"
    /\ Return("ok")
    /\ fate' = [fate EXCEPT ![input] = "handled"]
    /\ input' = NoInput
    /\ published' = <<>>
    /\ UNCHANGED <<status, started, shutdown, run, queueVars, cancelled, hostActions, store, op,
                   turn, stop, calls, next>>

(* The text is an extension's command: it fails, or its host actions are       *)
(* applied, of which the first to fail fails the prompt.                     *)
InputCommand ==
    /\ at = "input"
    /\ input' = NoInput
    /\ published' = <<>>
    /\ \/ /\ "command" \in Failures
          /\ Return("error")
          /\ fate' = [fate EXCEPT ![input] = "handled"]
          /\ UNCHANGED <<messages, hostActions>>
       \/ \E k \in AppliedCounts :
            /\ ApplyActions(k, [fate EXCEPT ![input] = "handled"])
            /\ IF k < Len(hostActions) THEN Return("error") ELSE at' = "drain" /\ UNCHANGED result
    /\ UNCHANGED <<status, started, shutdown, run, idle, closed, cancelled, store, op,
                   turn, stop, calls, next>>

IsFirst(kind, i) ==
    /\ messages[i].kind = kind
    /\ \A j \in 1..(i - 1) : messages[j].kind # kind

Has(kind) == \E i \in 1..Len(messages) : messages[i].kind = kind

(* pop_steer and pop_follow_up: take the oldest message of a kind.           *)
Pop(kind, i) ==
    /\ IsFirst(kind, i)
    /\ messages' = SubSeq(messages, 1, i - 1) \o SubSeq(messages, i + 1, Len(messages))
    /\ fate' = [fate EXCEPT ![messages[i].input] = "taken"]

(* run_queued also takes steers, and takes them first.                       *)
DrainKind == IF op = "queued" /\ Has("steer") THEN "steer" ELSE "followUp"

DrainNext ==
    /\ at = "drain"
    /\ \E i \in 1..Len(messages) : Pop(DrainKind, i) /\ StartRun(messages[i].input)
    /\ cancelled' = FALSE
    /\ published' = <<>>
    /\ UNCHANGED <<started, shutdown, closed, hostActions, store, op, result,
                   turn, stop, calls, next>>

DrainDone ==
    /\ at = "drain"
    /\ ~Has(DrainKind)
    /\ Return("ok")
    /\ published' = <<>>
    /\ UNCHANGED <<status, started, shutdown, run, queueVars, cancelled, hostActions, store, op,
                   localVars, fate>>

RunQueued ==
    /\ at = "idle"
    /\ op' = "queued" /\ at' = "drain"
    /\ published' = <<>>
    /\ UNCHANGED <<status, started, shutdown, run, queueVars, cancelled, hostActions, store, result,
                   localVars, fate>>

Close ==
    /\ at = "idle"
    /\ op' = "close"
    /\ UNCHANGED <<status, shutdown, run, idle, closed, cancelled, store, localVars>>
    /\ \/ /\ shutdown
          /\ Return("ok")
          /\ published' = <<>>
          /\ UNCHANGED <<started, messages, hostActions, fate>>
       \/ /\ ~shutdown
          /\ EnsureStarted
          /\ at' = "drop"
          /\ UNCHANGED result

(* close after drop_session: its failure leaves the session as it was.       *)
FinishClose ==
    /\ at = "drop"
    /\ \/ /\ status' = "Closed" /\ closed' = TRUE /\ shutdown' = TRUE
          /\ published' = <<"SessionShutdown">>
          /\ Return("ok")
       \/ /\ "drop" \in Failures
          /\ published' = <<>>
          /\ Return("error")
          /\ UNCHANGED <<status, closed, shutdown>>
    /\ UNCHANGED <<started, run, messages, idle, cancelled, hostActions, store, op, localVars, fate>>

-----------------------------------------------------------------------------
(* run_agent and agent_loop                                                  *)

BeforeAgentStart ==
    /\ at = "before"
    /\ Emit(<<"AgentStart">>)
    /\ turn' = 0 /\ at' = "turn"
    /\ UNCHANGED <<status, started, shutdown, run, idle, closed, cancelled, store, op, result,
                   input, stop, calls, next>>

TurnStart ==
    /\ at = "turn"
    /\ Emit(<<"TurnStart">>)
    /\ at' = IF turn = 0 THEN "user" ELSE "context"
    /\ UNCHANGED <<status, started, shutdown, run, idle, closed, cancelled, store, op, result,
                   localVars>>

UserMessage ==
    /\ at = "user"
    /\ Persist("user", input, <<"MessageStart">>, "injected")
    /\ UNCHANGED <<started, run, idle, cancelled, op, turn, stop, calls, next>>

(* A message before_agent_start injected after the prompt (bound: one).        *)
InjectedMessage ==
    /\ at = "injected"
    /\ Persist("user", NoInput, <<"MessageStart">>, "context")
    /\ UNCHANGED <<started, run, idle, cancelled, op, turn, stop, calls, next>>

AskProvider ==
    /\ at \in {"injected", "context"}
    /\ Emit(<<"MessageStart">>)
    /\ calls' = 0 /\ at' = "provider"
    /\ UNCHANGED <<status, started, shutdown, run, idle, closed, cancelled, store, op, result,
                   input, turn, stop, next>>

(* A delta of the stream: text, or the start of one more tool use.           *)
StreamDelta ==
    /\ at = "provider"
    /\ Emit(<<"MessageUpdate">>)
    /\ calls' \in {calls} \cup (IF calls < MaxCalls /\ turn + 1 < MaxTurns THEN {calls + 1} ELSE {})
    /\ UNCHANGED <<status, started, shutdown, run, idle, closed, cancelled, store, methodVars,
                   input, turn, stop, next>>

(* The stream is over with `reason`: tool uses in it make a normal end ToolUse. *)
EndStream(reason) ==
    /\ at = "provider"
    /\ stop' = IF calls > 0 /\ reason \notin {"error", "aborted"} THEN "tool_use" ELSE reason
    /\ next' = 1 /\ at' = "assistant"
    /\ published' = <<>>
    /\ UNCHANGED <<status, started, shutdown, run, queueVars, cancelled, hostActions, store, op,
                   result, input, turn, calls, fate>>

ProviderEnds == \E reason \in {"stop", "error", "aborted"} : EndStream(reason)

ProviderCancelled == cancelled /\ EndStream("aborted")

(* The finalizing hook may replace the message: any tool uses, and any stop    *)
(* reason but that of an error or an abort.                                  *)
AssistantMessage ==
    /\ at = "assistant"
    /\ IF HookRewrites
       THEN /\ calls' \in 0..(IF turn + 1 < MaxTurns THEN MaxCalls ELSE 0)
            /\ stop' \in IF stop \in {"error", "aborted"} THEN {stop} ELSE StopReasons
       ELSE UNCHANGED <<stop, calls>>
    /\ Persist("assistant", calls', <<>>, "tools")
    /\ UNCHANGED <<started, run, idle, cancelled, op, turn, next>>

(* on_tool_call and validation: the call is executed or answered with an error. *)
ToolStart ==
    /\ at = "tools" /\ next <= calls
    /\ Emit(<<"ToolStart">>)
    /\ at' \in {"call", "result"}
    /\ UNCHANGED <<status, started, shutdown, run, idle, closed, cancelled, store, op, result,
                   localVars>>

EndCall ==
    /\ at = "call"
    /\ at' = "result"
    /\ published' = <<>>
    /\ UNCHANGED <<status, started, shutdown, run, queueVars, cancelled, hostActions, store, op,
                   result, localVars, fate>>

ToolReturns == EndCall

(* Mutant: a call does not race with the cancellation.                       *)
ToolNotCancelled == FALSE /\ EndCall

ToolCancelled == cancelled /\ EndCall

ToolResult ==
    /\ at = "result"
    /\ Persist("result", next, <<"ToolEnd", "MessageStart">>, "queued")
    /\ next' = next + 1
    /\ UNCHANGED <<started, run, idle, cancelled, op, turn, stop, calls>>

(* Mutant: a steer takes the place of the tool uses that are left.           *)
PopSteerSkipping ==
    /\ at = "queued"
    /\ \/ /\ \E i \in 1..Len(messages) : Pop("steer", i) /\ input' = messages[i].input
          /\ at' = "steer" /\ next' = calls + 1
       \/ /\ ~Has("steer")
          /\ at' = "tools"
          /\ UNCHANGED <<messages, input, fate, next>>
    /\ published' = <<>>
    /\ UNCHANGED <<status, started, shutdown, run, idle, closed, cancelled, hostActions, store, op,
                   result, turn, stop, calls>>

(* After every tool result: one steer, if there is one, becomes a message.   *)
PopSteer ==
    /\ at = "queued"
    /\ \/ /\ \E i \in 1..Len(messages) : Pop("steer", i) /\ input' = messages[i].input
          /\ at' = "steer"
       \/ /\ ~Has("steer")
          /\ at' = "tools"
          /\ UNCHANGED <<messages, input, fate>>
    /\ published' = <<>>
    /\ UNCHANGED <<status, started, shutdown, run, idle, closed, cancelled, hostActions, store, op,
                   result, turn, stop, calls, next>>

SteerMessage ==
    /\ at = "steer"
    /\ Persist("user", input, <<"MessageStart">>, "tools")
    /\ UNCHANGED <<started, run, idle, cancelled, op, turn, stop, calls, next>>

(* turn_end; another turn as long as this one had tool results.              *)
TurnEnd ==
    /\ at = "tools" /\ next > calls
    /\ Emit(<<"TurnEnd">>)
    /\ IF calls = 0 THEN at' = "settle" /\ UNCHANGED turn ELSE at' = "turn" /\ turn' = turn + 1
    /\ UNCHANGED <<status, started, shutdown, run, idle, closed, cancelled, store, op, result,
                   input, stop, calls, next>>

(* Mutant: settled is announced before the end of the run.                   *)
SettleEarly ==
    /\ at = "settle"
    /\ Emit(<<"AgentSettled", "AgentEnd">>)
    /\ idle' = TRUE /\ status' = "Idle"
    /\ turn' = 0 /\ stop' = "stop" /\ calls' = 0 /\ next' = 1
    /\ at' = "drain"
    /\ UNCHANGED <<started, shutdown, run, closed, cancelled, store, op, result, input>>

Settle ==
    /\ at = "settle"
    /\ Emit(<<"AgentEnd", "AgentSettled">>)
    /\ idle' = TRUE /\ status' = "Idle"
    /\ turn' = 0 /\ stop' = "stop" /\ calls' = 0 /\ next' = 1
    /\ at' = "drain"
    /\ UNCHANGED <<started, shutdown, run, closed, cancelled, store, op, result, input>>

Provider == StreamDelta \/ ProviderEnds \/ ProviderCancelled

Advance ==
    \/ ResumePending \/ ResumeGoal
    \/ InputHookFails \/ InputAccepted \/ InputHandled \/ InputCommand
    \/ DrainNext \/ DrainDone \/ FinishClose
    \/ BeforeAgentStart \/ TurnStart \/ UserMessage \/ InjectedMessage \/ AskProvider
    \/ AssistantMessage \/ ToolStart \/ ToolResult \/ PopSteer \/ SteerMessage
    \/ TurnEnd \/ Settle

-----------------------------------------------------------------------------
(* Where a method still has its input in hand.                               *)
HoldsInput ==
    \/ at \in {"input", "inputError", "before", "user", "steer"}
    \/ at = "turn" /\ turn = 0

(* The variables hold values of their types.                                 *)
TypeOK ==
    /\ HoldsInput => input \in Inputs
    /\ status \in Statuses
    /\ started \in BOOLEAN /\ shutdown \in BOOLEAN /\ run \in Nat
    /\ messages \in Seq(Queued)
    /\ idle \in BOOLEAN /\ closed \in BOOLEAN /\ cancelled \in BOOLEAN
    /\ hostActions \in Seq(Action)
    /\ store \in Seq(Message)
    /\ published \in Seq(Events)
    /\ op \in Operations /\ at \in Places /\ result \in Results
    /\ input \in Inputs \cup {NoInput}
    /\ turn \in Nat /\ stop \in StopReasons /\ calls \in Nat /\ next \in Nat
    /\ fate \in [Inputs -> Fates]
=============================================================================
