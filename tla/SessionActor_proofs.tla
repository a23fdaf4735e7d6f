------------------------ MODULE SessionActor_proofs ------------------------
(* Proofs about SessionActor, for every value of its constants.              *)
EXTENDS SessionActor, TLAPS, SequenceTheorems, FiniteSetTheorems, FunctionTheorems

-----------------------------------------------------------------------------
(* Lemmas about the operators the actions are built from                     *)

(* apply_actions keeps the queue a sequence of queued messages.              *)
LEMMA ApplyActionsType ==
  ASSUME TypeOK, NEW k \in AppliedCounts, NEW fates \in [Inputs -> Fates],
         ApplyActions(k, fates)
  PROVE  /\ hostActions' \in Seq(Action)
         /\ messages' \in Seq(Queued)
         /\ fate' \in [Inputs -> Fates]
<1> DEFINE added == [i \in 1..k |->
                       [kind |-> hostActions[i].kind, input |-> hostActions[i].input]]
<1>1. k \in 0..Len(hostActions)
  BY DEF AppliedCounts
<1>2. hostActions \in Seq(Action)
  BY DEF TypeOK
<1>3. \A i \in 1..k : hostActions[i] \in Action
  BY <1>1, <1>2
<1>4. \A i \in 1..k : added[i] \in Queued
  BY <1>3 DEF Action, Queued
<1>5. added \in Seq(Queued)
  BY <1>1, <1>2, <1>4
<1>6. messages' \in Seq(Queued)
  BY <1>5 DEF ApplyActions, TypeOK
<1>7. hostActions' \in Seq(Action)
  BY DEF ApplyActions
<1>8. fate' \in [Inputs -> Fates]
  BY DEF ApplyActions, Fates
<1> QED
  BY <1>6, <1>7, <1>8

(* emit publishes events, and otherwise does what apply_actions does.        *)
LEMMA EmitType ==
  ASSUME TypeOK, NEW events \in Seq(Events), NEW direct \in Seq(Events),
         EmitThen(events, direct)
  PROVE  /\ hostActions' \in Seq(Action)
         /\ messages' \in Seq(Queued)
         /\ fate' \in [Inputs -> Fates]
         /\ published' \in Seq(Events)
<1>1. CASE shutdown
  BY <1>1 DEF EmitThen, TypeOK
<1>2. CASE ~shutdown
  <2>1. PICK k \in AppliedCounts, reports \in HookReports :
          /\ ApplyActions(k, fate)
          /\ published' = reports \o events
                 \o (IF k < Len(hostActions) THEN <<"HookError">> ELSE <<>>) \o direct
    BY <1>2 DEF EmitThen
  <2>2. <<>> \in Seq(Events) /\ <<"HookError">> \in Seq(Events)
    BY DEF Events
  <2>3. reports = <<>> \/ reports = <<"HookError">>
    BY Zenon DEF HookReports
  <2>4. reports \in Seq(Events)
    BY <2>2, <2>3
  <2>5. (IF k < Len(hostActions) THEN <<"HookError">> ELSE <<>>) \in Seq(Events)
    BY <2>2
  <2>6. published' \in Seq(Events)
    <3> DEFINE failed == IF k < Len(hostActions) THEN <<"HookError">> ELSE <<>>
    <3>1. failed \in Seq(Events)
      BY <2>5
    <3>2. published' = reports \o events \o failed \o direct
      BY <2>1
    <3> HIDE DEF failed
    <3> QED
      BY <2>4, <3>1, <3>2
  <2> QED
    BY <2>1, <2>6, ApplyActionsType DEF TypeOK
<1> QED
  BY <1>1, <1>2

(* The event lists the actions emit.                                         *)
LEMMA EventLists ==
  /\ \A e \in Events : <<e>> \in Seq(Events)
  /\ \A e, f \in Events : <<e, f>> \in Seq(Events)
  /\ <<>> \in Seq(Events)
  OBVIOUS

LEMMA EmitOnlyType ==
  ASSUME TypeOK, NEW events \in Seq(Events), Emit(events)
  PROVE  /\ hostActions' \in Seq(Action)
         /\ messages' \in Seq(Queued)
         /\ fate' \in [Inputs -> Fates]
         /\ published' \in Seq(Events)
  BY EventLists, EmitType DEF Emit

(* persist stores a message of the type of the store, or ends the session.   *)
LEMMA PersistType ==
  ASSUME TypeOK, NEW role \in Roles, NEW body \in Inputs \cup {NoInput} \cup Nat,
         NEW events \in Seq(Events), NEW continue \in Places,
         Persist(role, body, events, continue)
  PROVE  /\ input' = NoInput
         /\ store' \in Seq(Message)
         /\ status' \in Statuses /\ closed' \in BOOLEAN /\ shutdown' \in BOOLEAN
         /\ at' \in {continue, "return"}
         /\ result' \in Results
         /\ hostActions' \in Seq(Action)
         /\ messages' \in Seq(Queued)
         /\ fate' \in [Inputs -> Fates]
         /\ published' \in Seq(Events)
<1>1. CASE /\ store' = Append(store, [role |-> role, run |-> run, turn |-> turn, body |-> body])
           /\ Emit(events \o <<"MessageEnd">>)
           /\ at' = continue
           /\ UNCHANGED <<status, closed, shutdown, result>>
  <2>1. [role |-> role, run |-> run, turn |-> turn, body |-> body] \in Message
    BY DEF Message, TypeOK
  <2>2. store' \in Seq(Message)
    BY <1>1, <2>1 DEF TypeOK
  <2>3. events \o <<"MessageEnd">> \in Seq(Events) /\ <<>> \in Seq(Events)
    BY DEF Events
  <2>4. EmitThen(events \o <<"MessageEnd">>, <<>>)
    BY <1>1 DEF Emit
  <2>5. /\ hostActions' \in Seq(Action)
        /\ messages' \in Seq(Queued)
        /\ fate' \in [Inputs -> Fates]
        /\ published' \in Seq(Events)
    BY <2>3, <2>4, EmitType
  <2> QED
    BY <1>1, <2>2, <2>5 DEF TypeOK, Persist
<1>2. CASE /\ EmitThen(events, FatalEvents)
           /\ status' = "Fatal" /\ closed' = TRUE /\ shutdown' = TRUE
           /\ at' = "return" /\ result' = "error"
           /\ store' = store
  <2>1. FatalEvents \in Seq(Events)
    BY DEF FatalEvents, Events
  <2> QED
    BY <1>2, <2>1, EmitType DEF TypeOK, Persist, Statuses, Results
<1> QED
  BY <1>1, <1>2 DEF Persist

(* pop_steer and pop_follow_up take a message out and leave a queue.         *)
LEMMA PopType ==
  ASSUME TypeOK, NEW kind, NEW i \in 1..Len(messages), Pop(kind, i)
  PROVE  /\ messages[i].input \in Inputs
         /\ messages' \in Seq(Queued)
         /\ fate' \in [Inputs -> Fates]
<1>1. messages \in Seq(Queued) /\ messages[i] \in Queued
  BY DEF TypeOK
<1>2. messages[i].input \in Inputs
  BY <1>1 DEF Queued
<1>3. SubSeq(messages, 1, i - 1) \in Seq(Queued)
  BY <1>1
<1>4. SubSeq(messages, i + 1, Len(messages)) \in Seq(Queued)
  BY <1>1
<1>5. messages' \in Seq(Queued)
  BY <1>3, <1>4 DEF Pop
<1>6. fate' \in [Inputs -> Fates]
  BY DEF Pop, TypeOK, Fates
<1> QED
  BY <1>2, <1>5, <1>6

-----------------------------------------------------------------------------
(* Type correctness of the session's own steps                               *)

(* Every step a method of the session makes preserves the types.             *)
LEMMA AdvanceType ==
  ASSUME SessionAssumption, TypeOK, Advance
  PROVE  TypeOK'
<1>1. CASE ResumePending
  <2>1. <<"SessionStart">> \in Seq(Events)
    BY EventLists DEF Events
  <2>2. Emit(<<"SessionStart">>)
    BY <1>1 DEF ResumePending
  <2> QED
    BY <1>1, <2>1, <2>2, EmitOnlyType DEF ResumePending, TypeOK, HoldsInput, Places, queueVars, methodVars, localVars
<1>2. CASE BeforeAgentStart
  <2>1. <<"AgentStart">> \in Seq(Events)
    BY EventLists DEF Events
  <2>2. Emit(<<"AgentStart">>)
    BY <1>2 DEF BeforeAgentStart
  <2> QED
    BY <1>2, <2>1, <2>2, EmitOnlyType DEF BeforeAgentStart, TypeOK, HoldsInput, Places, queueVars, methodVars, localVars
<1>3. CASE TurnStart
  <2>1. <<"TurnStart">> \in Seq(Events)
    BY EventLists DEF Events
  <2>2. Emit(<<"TurnStart">>)
    BY <1>3 DEF TurnStart
  <2> QED
    BY <1>3, <2>1, <2>2, EmitOnlyType DEF TurnStart, TypeOK, HoldsInput, Places, queueVars, methodVars, localVars
<1>4. CASE AskProvider
  <2>1. <<"MessageStart">> \in Seq(Events)
    BY EventLists DEF Events
  <2>2. Emit(<<"MessageStart">>)
    BY <1>4 DEF AskProvider
  <2> QED
    BY <1>4, <2>1, <2>2, EmitOnlyType DEF AskProvider, TypeOK, HoldsInput, Places, queueVars, methodVars, localVars
<1>5. CASE InputHookFails
  <2>1. <<"HookError">> \in Seq(Events)
    BY EventLists DEF Events
  <2>2. Emit(<<"HookError">>)
    BY <1>5 DEF InputHookFails
  <2> QED
    BY <1>5, <2>1, <2>2, EmitOnlyType DEF InputHookFails, TypeOK, HoldsInput, Places, queueVars, methodVars, localVars
<1>6. CASE ToolStart
  <2>1. <<"ToolStart">> \in Seq(Events)
    BY EventLists DEF Events
  <2>2. Emit(<<"ToolStart">>)
    BY <1>6 DEF ToolStart
  <2> QED
    BY <1>6, <2>1, <2>2, EmitOnlyType DEF ToolStart, TypeOK, HoldsInput, Places, queueVars, methodVars, localVars
<1>7. CASE TurnEnd
  <2>1. <<"TurnEnd">> \in Seq(Events)
    BY EventLists DEF Events
  <2>2. Emit(<<"TurnEnd">>)
    BY <1>7 DEF TurnEnd
  <2>3. turn' \in Nat /\ at' \in {"settle", "turn"} /\ (at' = "turn" => turn' # 0)
    BY <1>7 DEF TurnEnd, TypeOK
  <2>4. ~HoldsInput'
    BY <2>3 DEF HoldsInput
  <2>5. at' \in Places
    BY <2>3 DEF Places
  <2> QED
    BY <1>7, <2>1, <2>2, <2>3, <2>4, <2>5, EmitOnlyType
       DEF TurnEnd, TypeOK, queueVars, methodVars
<1>8. CASE ResumeGoal
  <2>1. messages' \in Seq(Queued) /\ fate' \in [Inputs -> Fates]
    <3>1. CASE UNCHANGED <<messages, fate>>
      BY <3>1 DEF TypeOK
    <3>2. ASSUME NEW m \in Inputs,
                 messages' = Append(messages, [kind |-> "followUp", input |-> m]),
                 fate' = [fate EXCEPT ![m] = "queued"]
          PROVE  messages' \in Seq(Queued) /\ fate' \in [Inputs -> Fates]
      <4>1. [kind |-> "followUp", input |-> m] \in Queued
        BY DEF Queued, Kinds
      <4> QED
        BY <3>2, <4>1 DEF TypeOK, Fates
    <3> QED
      BY <1>8, <3>1, <3>2 DEF ResumeGoal
  <2> QED
    BY <1>8, <2>1, EventLists DEF ResumeGoal, TypeOK, HoldsInput, Places, queueVars, methodVars, localVars
<1>9. CASE InputAccepted
  <2>1. run' \in Nat
    BY <1>9 DEF InputAccepted, StartRun, TypeOK
  <2>2. fate' \in [Inputs -> Fates]
    BY <1>9 DEF InputAccepted, TypeOK, Fates
  <2>3. input' \in Inputs
    BY <1>9 DEF InputAccepted, StartRun, TypeOK, HoldsInput
  <2> QED
    BY <1>9, <2>1, <2>2, <2>3, EventLists
       DEF InputAccepted, StartRun, Statuses, Places, TypeOK, queueVars, methodVars
<1>10. CASE InputHandled
  BY <1>10, EventLists DEF InputHandled, Return, Results, Fates, TypeOK, HoldsInput, Places, queueVars, methodVars, localVars
<1>11. CASE InputCommand
  <2>1. [fate EXCEPT ![input] = "handled"] \in [Inputs -> Fates]
    BY DEF TypeOK, Fates
  <2>2. CASE /\ "command" \in Failures
             /\ Return("error")
             /\ fate' = [fate EXCEPT ![input] = "handled"]
             /\ UNCHANGED <<messages, hostActions>>
    BY <1>11, <2>1, <2>2, EventLists DEF InputCommand, Return, Results, TypeOK, HoldsInput, Places, queueVars, methodVars, localVars
  <2>3. CASE \E k \in AppliedCounts :
               /\ ApplyActions(k, [fate EXCEPT ![input] = "handled"])
               /\ IF k < Len(hostActions) THEN Return("error")
                                         ELSE at' = "drain" /\ UNCHANGED result
    BY <1>11, <2>1, <2>3, ApplyActionsType, EventLists
       DEF InputCommand, Return, Results, TypeOK, HoldsInput, Places, queueVars, methodVars, localVars
  <2> QED
    BY <1>11, <2>2, <2>3 DEF InputCommand
<1>12. CASE DrainNext
  <2>1. PICK i \in 1..Len(messages) : Pop(DrainKind, i) /\ StartRun(messages[i].input)
    BY <1>12 DEF DrainNext
  <2>2. /\ messages[i].input \in Inputs
        /\ messages' \in Seq(Queued)
        /\ fate' \in [Inputs -> Fates]
    BY <2>1, PopType
  <2>3. run' \in Nat
    BY <2>1 DEF StartRun, TypeOK
  <2> QED
    BY <1>12, <2>1, <2>2, <2>3, EventLists
       DEF DrainNext, StartRun, Statuses, Places, TypeOK, methodVars
<1>13. CASE DrainDone
  BY <1>13, EventLists DEF DrainDone, Return, Results, TypeOK, HoldsInput, Places, queueVars, methodVars, localVars
<1>14. CASE FinishClose
  <2>1. <<"SessionShutdown">> \in Seq(Events)
    BY EventLists DEF Events
  <2> QED
    BY <1>14, <2>1, EventLists DEF FinishClose, Return, Results, Statuses, TypeOK, HoldsInput, Places, queueVars, methodVars, localVars
<1>15. CASE UserMessage
  <2>1. <<"MessageStart">> \in Seq(Events) /\ "user" \in Roles /\ "injected" \in Places
    BY EventLists DEF Events, Roles, Places
  <2>2. input \in Inputs \cup {NoInput} \cup Nat
    BY <1>15 DEF UserMessage, TypeOK, HoldsInput
  <2>3. Persist("user", input, <<"MessageStart">>, "injected")
    BY <1>15 DEF UserMessage
  <2> QED
    BY <1>15, <2>1, <2>2, <2>3, PersistType DEF UserMessage, TypeOK, HoldsInput, Places, queueVars, methodVars, localVars
<1>16. CASE InjectedMessage
  <2>1. <<"MessageStart">> \in Seq(Events) /\ "user" \in Roles /\ "context" \in Places
    BY EventLists DEF Events, Roles, Places
  <2>2. NoInput \in Inputs \cup {NoInput} \cup Nat
    OBVIOUS
  <2>3. Persist("user", NoInput, <<"MessageStart">>, "context")
    BY <1>16 DEF InjectedMessage
  <2> QED
    BY <1>16, <2>1, <2>2, <2>3, PersistType DEF InjectedMessage, TypeOK, HoldsInput, Places, queueVars, methodVars, localVars
<1>17. CASE SteerMessage
  <2>1. <<"MessageStart">> \in Seq(Events) /\ "user" \in Roles /\ "tools" \in Places
    BY EventLists DEF Events, Roles, Places
  <2>2. input \in Inputs \cup {NoInput} \cup Nat
    BY <1>17 DEF SteerMessage, TypeOK, HoldsInput
  <2>3. Persist("user", input, <<"MessageStart">>, "tools")
    BY <1>17 DEF SteerMessage
  <2> QED
    BY <1>17, <2>1, <2>2, <2>3, PersistType DEF SteerMessage, TypeOK, HoldsInput, Places, queueVars, methodVars, localVars
<1>18. CASE AssistantMessage
  <2>1. <<>> \in Seq(Events) /\ "assistant" \in Roles /\ "tools" \in Places
    BY EventLists DEF Roles, Places
  <2>2. calls' \in Nat /\ stop' \in StopReasons
    BY <1>18 DEF AssistantMessage, TypeOK, SessionAssumption
  <2>3. Persist("assistant", calls', <<>>, "tools")
    BY <1>18 DEF AssistantMessage
  <2>4. PICK body \in Nat : body = calls'
    BY <2>2
  <2>5. Persist("assistant", body, <<>>, "tools")
    BY <2>3, <2>4
  <2> QED
    BY <1>18, <2>1, <2>2, <2>5, PersistType DEF AssistantMessage, TypeOK, HoldsInput, Places, queueVars, methodVars, localVars
<1>19. CASE ToolResult
  <2>1. <<"ToolEnd", "MessageStart">> \in Seq(Events) /\ "result" \in Roles /\ "queued" \in Places
    BY EventLists DEF Events, Roles, Places
  <2>2. next \in Nat
    BY DEF TypeOK
  <2>3. Persist("result", next, <<"ToolEnd", "MessageStart">>, "queued")
    BY <1>19 DEF ToolResult
  <2>4. next' \in Nat
    BY <1>19 DEF ToolResult, TypeOK
  <2> QED
    BY <1>19, <2>1, <2>2, <2>3, <2>4, PersistType
       DEF ToolResult, Places, TypeOK, HoldsInput
<1>20. CASE PopSteer
  <2>1. CASE \E i \in 1..Len(messages) : Pop("steer", i) /\ input' = messages[i].input
    <3>1. PICK i \in 1..Len(messages) : Pop("steer", i) /\ input' = messages[i].input
      BY <2>1
    <3>2. /\ messages[i].input \in Inputs
          /\ messages' \in Seq(Queued)
          /\ fate' \in [Inputs -> Fates]
      BY <3>1, PopType
    <3> QED
      BY <1>20, <3>1, <3>2, EventLists DEF PopSteer, TypeOK, HoldsInput, Places, queueVars, methodVars, localVars
  <2>2. CASE ~Has("steer") /\ at' = "tools" /\ UNCHANGED <<messages, input, fate>>
    BY <1>20, <2>2, EventLists DEF PopSteer, TypeOK, HoldsInput, Places, queueVars, methodVars, localVars
  <2> QED
    BY <1>20, <2>1, <2>2 DEF PopSteer
<1>21. CASE Settle
  <2>1. <<"AgentEnd", "AgentSettled">> \in Seq(Events)
    BY EventLists DEF Events
  <2>2. Emit(<<"AgentEnd", "AgentSettled">>)
    BY <1>21 DEF Settle
  <2> QED
    BY <1>21, <2>1, <2>2, EmitOnlyType DEF Settle, Statuses, StopReasons, TypeOK, HoldsInput, Places, queueVars, methodVars, localVars
<1> QED
  BY <1>1, <1>2, <1>3, <1>4, <1>5, <1>6, <1>7, <1>8, <1>9, <1>10, <1>11, <1>12, <1>13, <1>14, <1>15, <1>16, <1>17, <1>18, <1>19, <1>20, <1>21 DEF Advance

(* So does every answer of the provider and of a tool.                       *)
LEMMA AnswerType ==
  ASSUME TypeOK, Provider \/ ToolReturns \/ ToolCancelled
  PROVE  TypeOK'
<1>1. CASE StreamDelta
  <2>1. <<"MessageUpdate">> \in Seq(Events)
    BY EventLists DEF Events
  <2>2. Emit(<<"MessageUpdate">>)
    BY <1>1 DEF StreamDelta
  <2>3. calls' \in Nat
    BY <1>1 DEF StreamDelta, TypeOK
  <2> QED
    BY <1>1, <2>1, <2>2, <2>3, EmitOnlyType
       DEF StreamDelta, TypeOK, HoldsInput, methodVars
<1>2. ASSUME NEW reason \in {"stop", "error", "aborted"}, EndStream(reason)
      PROVE  TypeOK'
  BY <1>2, EventLists DEF EndStream, StopReasons, TypeOK, HoldsInput, Places, queueVars, methodVars, localVars
<1>3. CASE EndCall
  BY <1>3, EventLists DEF EndCall, TypeOK, HoldsInput, Places, queueVars, methodVars, localVars
<1> QED
  BY <1>1, <1>2, <1>3 DEF Provider, ProviderEnds, ProviderCancelled, ToolReturns, ToolCancelled

-----------------------------------------------------------------------------
(* Type correctness of the composition                                       *)

LEMMA ActorInitType == ActorInit => ActorTypeOK
<1> SUFFICES ASSUME ActorInit PROVE ActorTypeOK
  OBVIOUS
<1>1. at \in {"resume", "idle"}
  BY SessionAssumption DEF ActorInit, Init
<1>2. TypeOK
  <2>1. /\ messages \in Seq(Queued) /\ hostActions \in Seq(Action)
        /\ store \in Seq(Message) /\ published \in Seq(Events)
    BY DEF ActorInit, Init
  <2>2. fate \in [Inputs -> Fates]
    BY DEF ActorInit, Init, Fates
  <2>3. ~HoldsInput /\ at \in Places
    BY <1>1 DEF HoldsInput, Places
  <2>4. op \in Operations
    BY <1>1 DEF ActorInit, Init, Operations
  <2>5. run \in Nat /\ turn \in Nat /\ calls \in Nat /\ next \in Nat
    BY DEF ActorInit, Init
  <2>6. status \in Statuses /\ result \in Results /\ stop \in StopReasons
    BY DEF ActorInit, Init, Statuses, Results, StopReasons
  <2> QED
    BY <2>1, <2>2, <2>3, <2>4, <2>5, <2>6 DEF ActorInit, Init, TypeOK
<1>3. /\ commands \in Seq(Command)
      /\ actor \in Actors
      /\ serving \in Callers \cup {Nobody}
      /\ reply \in [Callers -> Replies]
  BY DEF ActorInit, Actors, Replies
<1> QED
  BY <1>2, <1>3 DEF ActorTypeOK

(* Sending a command keeps the channel and the replies in their types.       *)
LEMMA SendType ==
  ASSUME ActorTypeOK, NEW cmd \in Command, cmd.caller \in Callers, Send(cmd)
  PROVE  commands' \in Seq(Command) /\ reply' \in [Callers -> Replies]
  BY DEF Send, ActorTypeOK, Replies

(* Whatever a client or an extension does preserves the types.               *)
LEMMA ClientType ==
  ASSUME ActorTypeOK, Client \/ Extension
  PROVE  ActorTypeOK'
<1>1. ASSUME NEW m \in Inputs, Prompt(m)
      PROVE  ActorTypeOK'
  <2>1. /\ [op |-> "prompt", caller |-> m] \in Command
        /\ [op |-> "prompt", caller |-> m].caller \in Callers
    BY DEF Command, Callers
  <2>2. commands' \in Seq(Command) /\ reply' \in [Callers -> Replies]
    BY <1>1, <2>1, SendType DEF Prompt
  <2>3. fate' \in [Inputs -> Fates]
    BY <1>1 DEF Prompt, ActorTypeOK, TypeOK, Fates
  <2> QED
    BY <1>1, <2>2, <2>3, EventLists DEF Prompt, ActorTypeOK, TypeOK, HoldsInput, Places, queueVars, methodVars, localVars, sessionVars, actorVars
<1>2. ASSUME NEW m \in Inputs, NEW kind \in Kinds, Enqueue(m, kind)
      PROVE  ActorTypeOK'
  <2>1. [kind |-> kind, input |-> m] \in Queued
    BY DEF Queued
  <2>2. messages' \in Seq(Queued)
    <3>1. messages \in Seq(Queued)
      BY DEF ActorTypeOK, TypeOK
    <3>2. messages' = messages \/ messages' = Append(messages, [kind |-> kind, input |-> m])
      BY <1>2 DEF Enqueue
    <3> QED
      BY <2>1, <3>1, <3>2
  <2>3. fate' \in [Inputs -> Fates]
    BY <1>2 DEF Enqueue, ActorTypeOK, TypeOK, Fates
  <2>4. reply' \in [Callers -> Replies]
    BY <1>2 DEF Enqueue, ActorTypeOK, Callers, Replies
  <2>5. commands' \in Seq(Command)
    <3>1. [op |-> "wake", caller |-> Nobody] \in Command
      BY DEF Command
    <3> QED
      BY <1>2, <3>1 DEF Enqueue, ActorTypeOK
  <2>6. published' \in Seq(Events)
    <3>1. <<"QueueUpdate">> \in Seq(Events) /\ <<>> \in Seq(Events)
      BY EventLists DEF Events
    <3> QED
      BY <1>2, <3>1 DEF Enqueue
  <2> QED
    BY <1>2, <2>2, <2>3, <2>4, <2>5, <2>6 DEF Enqueue, ActorTypeOK, TypeOK, HoldsInput, Places, queueVars, methodVars, localVars, sessionVars, actorVars
<1>3. CASE Abort
  BY <1>3, EventLists DEF Abort, ActorTypeOK, TypeOK, HoldsInput, Places, queueVars, methodVars, localVars, sessionVars, actorVars
<1>4. ASSUME NEW c \in Closers, AskClose(c)
      PROVE  ActorTypeOK'
  <2>1. /\ [op |-> "close", caller |-> c] \in Command
        /\ [op |-> "close", caller |-> c].caller \in Callers
    BY DEF Command, Callers
  <2>2. commands' \in Seq(Command) /\ reply' \in [Callers -> Replies]
    BY <1>4, <2>1, SendType DEF AskClose
  <2> QED
    BY <1>4, <2>2, EventLists DEF AskClose, ActorTypeOK, TypeOK, HoldsInput, Places, queueVars, methodVars, localVars, sessionVars, actorVars
<1>5. CASE Extension
  <2>1. PICK m \in Inputs, kind \in Kinds, saves \in BOOLEAN : StageAction(m, kind, saves)
    BY <1>5 DEF Extension
  <2>2. [saves |-> saves, kind |-> kind, input |-> m] \in Action
    BY DEF Action
  <2>3. hostActions' \in Seq(Action)
    BY <2>1, <2>2 DEF StageAction, ActorTypeOK, TypeOK
  <2>4. fate' \in [Inputs -> Fates]
    BY <2>1 DEF StageAction, ActorTypeOK, TypeOK, Fates
  <2> QED
    BY <1>5, <2>1, <2>3, <2>4, EventLists DEF Extension, StageAction, ActorTypeOK, TypeOK, HoldsInput, Places, queueVars, methodVars, localVars, sessionVars, actorVars
<1> QED
  BY <1>1, <1>2, <1>3, <1>4, <1>5 DEF Client, Kinds

(* A command received starts one of the methods.                             *)
LEMMA ReceiveType ==
  ASSUME ActorTypeOK, Receive
  PROVE  ActorTypeOK'
<1> DEFINE cmd == Head(commands)
<1>1. cmd \in Command /\ commands' \in Seq(Command)
  BY DEF Receive, ActorTypeOK
<1>2. serving' \in Callers \cup {Nobody}
  BY <1>1 DEF Receive, Command, Callers
<1>3. CASE cmd.op = "prompt"
  <2>1. cmd.caller \in Inputs
    BY <1>1, <1>3 DEF Command
  <2>2. PICK m \in Inputs : RunOneTurn(m)
    BY <1>3, <2>1 DEF Receive
  <2>3. fate' \in [Inputs -> Fates] /\ hostActions' \in Seq(Action)
        /\ messages' \in Seq(Queued) /\ published' \in Seq(Events)
    <3>1. CASE EnsureStarted
      <4>1. <<"SessionStart">> \in Seq(Events)
        BY EventLists DEF Events
      <4> QED
        BY <3>1, <4>1, EmitOnlyType, EventLists DEF EnsureStarted, ActorTypeOK, TypeOK
    <3>2. CASE /\ fate' = [fate EXCEPT ![m] = "refused"]
               /\ published' = <<>>
               /\ UNCHANGED <<messages, hostActions>>
      BY <3>2, EventLists DEF ActorTypeOK, TypeOK, Fates
    <3> QED
      BY <2>2, <3>1, <3>2 DEF RunOneTurn
  <2>4. started' \in BOOLEAN
    BY <2>2 DEF RunOneTurn, EnsureStarted, ActorTypeOK, TypeOK
  <2>5. /\ at' \in {"return", "input"} /\ result' \in Results
        /\ input' \in Inputs \cup {NoInput} /\ cancelled' \in BOOLEAN
        /\ at' = "input" => input' \in Inputs
        /\ op' \in Operations
    BY <2>2 DEF RunOneTurn, Return, Results, Operations, ActorTypeOK, TypeOK
  <2>6. TypeOK'
    BY <2>2, <2>3, <2>4, <2>5 DEF RunOneTurn, TypeOK, HoldsInput, Places, ActorTypeOK
  <2> QED
    BY <1>1, <1>2, <2>6 DEF Receive, ActorTypeOK
<1>4. CASE cmd.op = "wake"
  <2>1. RunQueued
    BY <1>4 DEF Receive
  <2>2. TypeOK'
    BY <2>1, EventLists DEF RunQueued, ActorTypeOK, Operations, TypeOK, HoldsInput, Places, queueVars, methodVars, localVars, sessionVars, actorVars
  <2> QED
    BY <1>1, <1>2, <2>2 DEF Receive, ActorTypeOK
<1>5. CASE cmd.op = "close"
  <2>1. Close
    BY <1>5 DEF Receive
  <2>2. fate' \in [Inputs -> Fates] /\ hostActions' \in Seq(Action)
        /\ messages' \in Seq(Queued) /\ published' \in Seq(Events)
    <3>1. CASE EnsureStarted
      <4>1. <<"SessionStart">> \in Seq(Events)
        BY EventLists DEF Events
      <4> QED
        BY <3>1, <4>1, EmitOnlyType, EventLists DEF EnsureStarted, ActorTypeOK, TypeOK
    <3>2. CASE published' = <<>> /\ UNCHANGED <<messages, hostActions, fate>>
      BY <3>2, EventLists DEF ActorTypeOK, TypeOK
    <3> QED
      BY <2>1, <3>1, <3>2 DEF Close
  <2>3. /\ started' \in BOOLEAN /\ at' \in {"return", "drop"} /\ result' \in Results
        /\ op' \in Operations
    BY <2>1 DEF Close, EnsureStarted, Return, Results, Operations, ActorTypeOK, TypeOK
  <2>4. TypeOK'
    BY <2>1, <2>2, <2>3 DEF Close, TypeOK, HoldsInput, Places, localVars, ActorTypeOK
  <2> QED
    BY <1>1, <1>2, <2>4 DEF Receive, ActorTypeOK
<1> QED
  BY <1>1, <1>3, <1>4, <1>5 DEF Command

(* So do the actor's answers and the step that attaches it.                  *)
LEMMA RespondType ==
  ASSUME ActorTypeOK, Respond \/ Attach
  PROVE  ActorTypeOK'
<1>1. CASE Respond
  <2>1. result \in Replies
    BY DEF ActorTypeOK, TypeOK, Results, Replies
  <2>2. reply' \in [Callers -> Replies]
    BY <1>1, <2>1 DEF Respond, ActorTypeOK, Replies
  <2>3. fate' \in [Inputs -> Fates]
    BY <1>1 DEF Respond, ActorTypeOK, TypeOK, Fates
  <2>4. actor' \in Actors /\ commands' \in Seq(Command) /\ serving' \in Callers \cup {Nobody}
    <3>1. commands' = <<>> \/ commands' = commands
      BY <1>1 DEF Respond
    <3>2. <<>> \in Seq(Command) /\ commands \in Seq(Command)
      BY DEF ActorTypeOK
    <3>3. commands' \in Seq(Command)
      BY <3>1, <3>2
    <3> QED
      BY <1>1, <3>3 DEF Respond, ActorTypeOK, Actors
  <2>5. TypeOK'
    BY <1>1, <2>3, EventLists DEF Respond, ActorTypeOK, Operations, Results, TypeOK, HoldsInput, Places, queueVars, methodVars, localVars, sessionVars, actorVars
  <2> QED
    BY <2>2, <2>4, <2>5 DEF ActorTypeOK
<1>2. CASE Attach
  BY <1>2, EventLists DEF Attach, Actors, ActorTypeOK, Operations, Results, TypeOK, HoldsInput, Places, queueVars, methodVars, localVars, sessionVars, actorVars
<1> QED
  BY <1>1, <1>2

(* Every step of the session and its clients preserves the types.            *)
LEMMA NextType == ActorTypeOK /\ [Next]_vars => ActorTypeOK'
<1> SUFFICES ASSUME ActorTypeOK, [Next]_vars PROVE ActorTypeOK'
  OBVIOUS
<1>1. CASE Client \/ Extension
  BY <1>1, ClientType
<1>2. CASE Receive
  BY <1>2, ReceiveType
<1>3. CASE Respond \/ Attach
  BY <1>3, RespondType
<1>4. CASE Work
  <2>1. TypeOK
    BY DEF ActorTypeOK
  <2>2. TypeOK'
    BY <1>4, <2>1, AdvanceType, AnswerType, SessionAssumption DEF Work
  <2> QED
    BY <1>4, <2>2 DEF Work, ActorTypeOK, actorVars
<1>5. CASE UNCHANGED vars
  BY <1>5 DEF vars, ActorTypeOK, TypeOK, HoldsInput, Places, queueVars, methodVars, localVars, sessionVars, actorVars
<1> QED
  BY <1>1, <1>2, <1>3, <1>4, <1>5 DEF Next

(* In every behaviour the variables of the session, its queue and its actor    *)
(* hold values of their types; a method holds an input text from where it      *)
(* takes one to where it stores it.                                          *)
THEOREM TypeCorrect == Spec => []ActorTypeOK
  BY ActorInitType, NextType, PTL DEF Spec

-----------------------------------------------------------------------------
(* The end of a session                                                      *)

(* persist keeps status, shutdown and closed, or makes the session fatal.    *)
LEMMA PersistEnds ==
  ASSUME NEW role, NEW body, NEW events, NEW continue,
         Persist(role, body, events, continue)
  PROVE  \/ at' = continue /\ UNCHANGED <<status, closed, shutdown>>
         \/ /\ status' = "Fatal" /\ closed' = TRUE /\ shutdown' = TRUE
            /\ at' = "return"
  BY DEF Persist

(* The actor serves a prompt, a Wake or a close.                             *)
LEMMA ReceiveCases ==
  ASSUME ActorTypeOK, Receive
  PROVE  (\E m \in Inputs : RunOneTurn(m)) \/ RunQueued \/ Close
<1> DEFINE cmd == Head(commands)
<1>1. cmd \in Command
  BY DEF Receive, ActorTypeOK
<1>2. cmd.op \in {"prompt", "wake", "close"} /\ (cmd.op = "prompt" => cmd.caller \in Inputs)
  BY <1>1 DEF Command
<1> QED
  BY <1>2 DEF Receive

(* Every step preserves EndedIsQuiet: the session's own steps ...            *)
LEMMA AdvanceEnds ==
  ASSUME EndedIsQuiet, Advance, UNCHANGED actorVars
  PROVE  EndedIsQuiet'
<1> USE DEF EndedIsQuiet, actorVars
<1>1. CASE ResumePending \/ ResumeGoal
  BY <1>1 DEF ResumePending, ResumeGoal
<1>2. CASE InputHookFails \/ InputAccepted
  BY <1>2 DEF InputHookFails, InputAccepted, StartRun
<1>3. CASE InputHandled \/ InputCommand
  BY <1>3 DEF InputHandled, InputCommand, Return, queueVars
<1>4. CASE DrainNext
  BY <1>4 DEF DrainNext, StartRun
<1>5. CASE DrainDone
  BY <1>5 DEF DrainDone, Return, queueVars
<1>6. CASE FinishClose
  BY <1>6 DEF FinishClose, Return
<1>7. CASE BeforeAgentStart \/ TurnStart \/ AskProvider \/ ToolStart \/ TurnEnd
  BY <1>7 DEF BeforeAgentStart, TurnStart, AskProvider, ToolStart, TurnEnd
<1>8. CASE UserMessage \/ InjectedMessage \/ SteerMessage
  BY <1>8, PersistEnds DEF UserMessage, InjectedMessage, SteerMessage
<1>9. CASE AssistantMessage
  <2>1. Persist("assistant", calls', <<>>, "tools")
    BY <1>9 DEF AssistantMessage
  <2>2. PICK body : body = calls'
    OBVIOUS
  <2>3. Persist("assistant", body, <<>>, "tools")
    BY <2>1, <2>2
  <2> QED
    BY <1>9, <2>3, PersistEnds DEF AssistantMessage
<1>10. CASE ToolResult
  BY <1>10, PersistEnds DEF ToolResult
<1>11. CASE PopSteer
  BY <1>11 DEF PopSteer
<1>12. CASE Settle
  BY <1>12 DEF Settle
<1> QED
  BY <1>1, <1>2, <1>3, <1>4, <1>5, <1>6, <1>7, <1>8, <1>9, <1>10, <1>11, <1>12 DEF Advance

(* ... and those of the provider, the tools, the clients and the actor.       *)
LEMMA NextEnds == ActorTypeOK /\ EndedIsQuiet /\ [Next]_vars => EndedIsQuiet'
<1> SUFFICES ASSUME ActorTypeOK, EndedIsQuiet, [Next]_vars PROVE EndedIsQuiet'
  OBVIOUS
<1> USE DEF EndedIsQuiet
<1>1. CASE Client \/ Extension
  <2>1. UNCHANGED <<status, shutdown, closed, at, op, actor>>
    BY <1>1 DEF Client, Prompt, Enqueue, Abort, AskClose, Extension, StageAction, queueVars,
                methodVars, actorVars
  <2> QED
    BY <2>1
<1>2. CASE Receive
  <2>1. ASSUME NEW m, RunOneTurn(m) PROVE EndedIsQuiet'
    BY <1>2, <2>1 DEF Receive, RunOneTurn, Return
  <2>2. CASE RunQueued
    BY <1>2, <2>2 DEF Receive, RunQueued, queueVars
  <2>3. CASE Close
    BY <1>2, <2>3 DEF Receive, Close, Return
  <2> QED
    BY <1>2, <2>1, <2>2, <2>3, ReceiveCases
<1>3. CASE Respond
  BY <1>3 DEF Respond, queueVars
<1>4. CASE Attach
  BY <1>4 DEF Attach, queueVars
<1>5. CASE Work
  <2>1. CASE Advance
    BY <1>5, <2>1, AdvanceEnds DEF Work
  <2>2. CASE Provider \/ ToolReturns \/ ToolCancelled
    BY <1>5, <2>2 DEF Work, Provider, StreamDelta, ProviderEnds, ProviderCancelled, EndStream,
                      ToolReturns, ToolCancelled, EndCall, queueVars, methodVars, actorVars
  <2> QED
    BY <1>5, <2>1, <2>2 DEF Work
<1>6. CASE UNCHANGED vars
  BY <1>6 DEF vars, sessionVars, actorVars, queueVars, methodVars
<1> QED
  BY <1>1, <1>2, <1>3, <1>4, <1>5, <1>6 DEF Next

(* A session that has ended stays quiet: in no behaviour is a closed or fatal  *)
(* session found inside a run, or accepting messages.                        *)
THEOREM EndedSessionsAreQuiet == Spec => []EndedIsQuiet
<1>1. ActorInit => EndedIsQuiet
  <2> SUFFICES ASSUME ActorInit PROVE EndedIsQuiet
    OBVIOUS
  <2>1. at \in {"resume", "idle"} /\ op \in {"resume", "none"}
    BY SessionAssumption DEF ActorInit, Init
  <2> QED
    BY <2>1 DEF ActorInit, Init, EndedIsQuiet
<1> QED
  BY <1>1, NextEnds, TypeCorrect, PTL DEF Spec

(* A closed session is closed for good: nothing runs and nothing is stored.  *)
THEOREM ClosedForGood == Spec => ClosedIsFinal
<1> DEFINE Final == status = "Closed" => status' = "Closed" /\ run' = run /\ store' = store
<1>1. EndedIsQuiet /\ [Next]_vars => Final
  <2> SUFFICES ASSUME EndedIsQuiet, [Next]_vars, status = "Closed" PROVE Final
    OBVIOUS
  <2>1. at \in {"return", "idle"} /\ (at = "idle" => actor = "stopped")
    BY DEF EndedIsQuiet
  <2>2. CASE Client \/ Extension
    BY <2>2 DEF Client, Prompt, Enqueue, Abort, AskClose, Extension, StageAction, queueVars
  <2>3. ~Receive
    BY <2>1 DEF Receive
  <2>4. CASE Respond \/ Attach
    BY <2>4 DEF Respond, Attach
  <2>5. ~Work
    <3>1. ~Advance
      BY <2>1 DEF Advance, ResumePending, ResumeGoal, InputHookFails, InputAccepted,
                  InputHandled, InputCommand, DrainNext, DrainDone, FinishClose,
                  BeforeAgentStart, TurnStart, UserMessage, InjectedMessage, AskProvider,
                  AssistantMessage, ToolStart, ToolResult, PopSteer, SteerMessage, TurnEnd, Settle
    <3>2. ~Provider /\ ~ToolReturns /\ ~ToolCancelled
      BY <2>1 DEF Provider, StreamDelta, ProviderEnds, ProviderCancelled, EndStream,
                  ToolReturns, ToolCancelled, EndCall
    <3> QED
      BY <3>1, <3>2 DEF Work
  <2>6. CASE UNCHANGED vars
    BY <2>6 DEF vars, sessionVars
  <2> QED
    BY <2>2, <2>3, <2>4, <2>5, <2>6 DEF Next
<1> QED
  BY <1>1, EndedSessionsAreQuiet, PTL DEF Spec, ClosedIsFinal

(* A fatal session is only revived by a Wake that was queued, with its         *)
(* message, before the store failed: no prompt and no close does it.         *)
THEOREM OnlyOldWakesRevive == Spec => NothingNewRevivesFatal
<1> DEFINE Revival == status = "Fatal" /\ status' # "Fatal" =>
                         op = "queued" /\ at = "drain" /\ messages # <<>>
<1>1. ActorTypeOK /\ EndedIsQuiet /\ [Next]_vars => Revival
  <2> SUFFICES ASSUME ActorTypeOK, EndedIsQuiet, [Next]_vars, status = "Fatal", status' # "Fatal"
               PROVE  op = "queued" /\ at = "drain" /\ messages # <<>>
    OBVIOUS
  <2>1. at \in {"return", "idle"} \/ (at = "drain" /\ op = "queued")
    BY DEF EndedIsQuiet
  <2>2. ~(Client \/ Extension)
    BY DEF Client, Prompt, Enqueue, Abort, AskClose, Extension, StageAction
  <2>3. ~Receive
    BY ReceiveCases DEF RunOneTurn, RunQueued, Close, queueVars
  <2>4. ~(Respond \/ Attach)
    BY DEF Respond, Attach
  <2>5. ~UNCHANGED vars
    BY DEF vars, sessionVars
  <2>6. Advance \/ Provider \/ ToolReturns \/ ToolCancelled
    BY <2>2, <2>3, <2>4, <2>5 DEF Next, Work
  <2>7. ~Provider /\ ~ToolReturns /\ ~ToolCancelled
    BY <2>1 DEF Provider, StreamDelta, ProviderEnds, ProviderCancelled, EndStream,
                ToolReturns, ToolCancelled, EndCall
  <2>8. DrainNext \/ DrainDone
    BY <2>1, <2>6, <2>7
       DEF Advance, ResumePending, ResumeGoal, InputHookFails, InputAccepted,
           InputHandled, InputCommand, FinishClose, BeforeAgentStart, TurnStart, UserMessage,
           InjectedMessage, AskProvider, AssistantMessage, ToolStart, ToolResult, PopSteer,
           SteerMessage, TurnEnd, Settle
  <2>9. DrainNext
    BY <2>8 DEF DrainDone
  <2>10. messages # <<>>
    BY <2>9 DEF DrainNext
  <2> QED
    BY <2>1, <2>9, <2>10 DEF DrainNext
<1> QED
  BY <1>1, EndedSessionsAreQuiet, TypeCorrect, PTL DEF Spec, NothingNewRevivesFatal

-----------------------------------------------------------------------------
(* What becomes of the inputs: the inductive invariant                       *)

(* The queue holds exactly the texts whose fate is to be queued, once each.    *)
QueueHolds ==
  /\ \A i \in 1..Len(messages) : fate[messages[i].input] = "queued"
  /\ \A i, j \in 1..Len(messages) : messages[i].input = messages[j].input => i = j
  /\ \A m \in Inputs : fate[m] = "queued" => \E i \in 1..Len(messages) : messages[i].input = m

(* So do the staged host actions.                                            *)
StagedHolds ==
  /\ \A i \in 1..Len(hostActions) : fate[hostActions[i].input] = "staged"
  /\ \A i, j \in 1..Len(hostActions) : hostActions[i].input = hostActions[j].input => i = j
  /\ \A m \in Inputs : fate[m] = "staged" =>
        \E i \in 1..Len(hostActions) : hostActions[i].input = m

(* The command channel holds prompts whose text was sent and whose caller still *)
(* waits, once each, apart from the one being served.                        *)
Prompts == {i \in 1..Len(commands) : commands[i].op = "prompt"}

ChannelHolds ==
  /\ \A i \in Prompts : /\ fate[commands[i].caller] = "sent"
                        /\ reply[commands[i].caller] = "waiting"
                        /\ commands[i].caller # serving
  /\ \A i, j \in Prompts : commands[i].caller = commands[j].caller => i = j
  /\ serving \in Inputs => /\ reply[serving] = "waiting"
                           /\ fate[serving] \in {"sent", "prompted", "handled", "refused"}
  /\ at = "idle" \/ actor = "detached" => serving = Nobody

(* The method being executed has its text in its hand from where it takes it   *)
(* to where it stores it, and at no other place.                             *)
AtInputHook == at \in {"input", "inputError"}

HandHolds ==
  /\ ~HoldsInput => input = NoInput
  /\ AtInputHook => fate[input] = "sent" /\ serving = input
  /\ HoldsInput /\ ~AtInputHook => fate[input] \in {"taken", "prompted"}
  /\ at = "steer" => fate[input] = "taken"

(* The store has every text that was taken, once, but for the one in the hand; *)
(* and the one that a failing store did not take.                            *)
IsUserMsg(i) == store[i].role = "user" /\ store[i].body \in Inputs

StoreHolds ==
  /\ \A i \in 1..Len(store) : IsUserMsg(i) =>
        /\ fate[store[i].body] \in {"taken", "prompted"}
        /\ HoldsInput => store[i].body # input
  /\ \A i, j \in 1..Len(store) :
        IsUserMsg(i) /\ IsUserMsg(j) /\ store[i].body = store[j].body => i = j
  /\ \A m \in Inputs : fate[m] \in {"taken", "prompted"} =>
        UserMsgs(m) # {} \/ input = m \/ closed

(* A prompt that was accepted has its answer in the store, or was answered with *)
(* an error, or is the one being run.                                        *)
Answered(m) ==
  \E u \in UserMsgs(m), a \in 1..Len(store) :
     u < a /\ store[a].role = "assistant" /\ store[a].run = store[u].run

BeforeAnswer == {"injected", "context", "provider", "assistant"}

Underway(m) ==
  \/ input = m
  \/ at \in BeforeAnswer /\ \E u \in UserMsgs(m) : store[u].run = run

PromptsHold ==
  \A m \in Inputs : fate[m] = "prompted" =>
     \/ Answered(m)
     \/ reply[m] = "error"
     \/ serving = m /\ (Underway(m) \/ (at = "return" /\ result = "error"))

InputInv == QueueHolds /\ StagedHolds /\ ChannelHolds /\ HandHolds /\ StoreHolds /\ PromptsHold

(* Whose texts the channel, the queue and the host actions are about.         *)
LEMMA TextsAreInputs ==
  ASSUME ActorTypeOK
  PROVE  /\ \A i \in Prompts : commands[i].caller \in Inputs
         /\ \A i \in 1..Len(messages) : messages[i].input \in Inputs
         /\ \A i \in 1..Len(hostActions) : hostActions[i].input \in Inputs
<1>1. /\ \A i \in 1..Len(commands) : commands[i] \in Command
      /\ \A i \in 1..Len(messages) : messages[i] \in Queued
      /\ \A i \in 1..Len(hostActions) : hostActions[i] \in Action
  BY DEF ActorTypeOK, TypeOK
<1>2. \A c \in Command : c.op = "prompt" => c.caller \in Inputs
  BY DEF Command
<1>3. (\A x \in Queued : x.input \in Inputs) /\ (\A x \in Action : x.input \in Inputs)
  BY DEF Queued, Action
<1>4. \A i \in Prompts : commands[i].caller \in Inputs
  BY <1>1, <1>2 DEF Prompts
<1> QED
  BY <1>1, <1>3, <1>4

(* What apply_actions does to the texts: those it gets to are queued, and only *)
(* when it stops early are others dropped.                                   *)
LEMMA ApplyActionsHolds ==
  ASSUME TypeOK, QueueHolds, StagedHolds,
         NEW fates \in [Inputs -> Fates],
         \A m \in Inputs : fates[m] = fate[m] \/ (fate[m] = "sent" /\ fates[m] = "handled"),
         NEW k \in AppliedCounts, ApplyActions(k, fates)
  PROVE  /\ QueueHolds' /\ StagedHolds'
         /\ \A m \in Inputs :
              \/ fate'[m] = fates[m]
              \/ fates[m] = "staged" /\ fate'[m] \in {"queued", "dropped"}
         /\ \A m \in Inputs :
              fate[m] = "staged" /\ fate'[m] = "dropped" => k < Len(hostActions)
<1> DEFINE N == Len(messages)
           added == [i \in 1..k |->
                       [kind |-> hostActions[i].kind, input |-> hostActions[i].input]]
           Applied(m) == \E i \in 1..k : hostActions[i].input = m
<1>1. /\ k \in 0..Len(hostActions) /\ k \in Nat
      /\ messages \in Seq(Queued) /\ N \in Nat
      /\ hostActions \in Seq(Action)
  <2>1. /\ messages \in Seq(Queued) /\ hostActions \in Seq(Action)
        /\ N \in Nat /\ Len(hostActions) \in Nat
    BY DEF TypeOK
  <2>2. k \in 0..Len(hostActions)
    BY DEF AppliedCounts
  <2> QED
    BY <2>1, <2>2
<1>2. \A i \in 1..k : hostActions[i] \in Action /\ hostActions[i].input \in Inputs
  <2>1. \A i \in 1..k : hostActions[i] \in Action
    BY <1>1
  <2>2. \A x \in Action : x.input \in Inputs
    BY DEF Action
  <2> QED
    BY <2>1, <2>2
<1>3. \A i \in 1..N : messages[i] \in Queued /\ messages[i].input \in Inputs
  <2>1. \A i \in 1..N : messages[i] \in Queued
    BY <1>1
  <2>2. \A x \in Queued : x.input \in Inputs
    BY DEF Queued
  <2> QED
    BY <2>1, <2>2
<1>4. \A i \in 1..k : added[i] \in Queued
  BY <1>1, <1>2 DEF Action, Queued
<1>5. added \in Seq(Queued) /\ Len(added) = k
  BY <1>1, <1>4
<1>6. messages' = messages \o added /\ hostActions' = <<>>
  BY DEF ApplyActions
<1>7. /\ Len(messages') = N + k
      /\ \A i \in 1..(N + k) :
           messages'[i].input = IF i <= N THEN messages[i].input ELSE hostActions[i - N].input
  <2>1. /\ Len(messages') = N + k
        /\ \A i \in 1..(N + k) :
             messages'[i] = IF i <= N THEN messages[i] ELSE added[i - N]
    <3> HIDE DEF added, N
    <3>1. added \in Seq(Queued) /\ Len(added) = k /\ messages' = messages \o added
      BY <1>5, <1>6
    <3> QED
      BY <1>1, <3>1, ConcatProperties DEF N
  <2>2. \A i \in 1..k : added[i].input = hostActions[i].input
    OBVIOUS
  <2>3. \A i \in 1..(N + k) : i <= N \/ (i - N) \in 1..k
    BY <1>1
  <2> HIDE DEF added
  <2> QED
    BY <2>1, <2>2, <2>3
<1>8. \A m \in Inputs :
        fate'[m] = IF fates[m] # "staged" THEN fates[m]
                   ELSE IF Applied(m) THEN "queued" ELSE "dropped"
  BY DEF ApplyActions
<1>9. \A i \in 1..k : fate[hostActions[i].input] = "staged"
  BY <1>1 DEF StagedHolds
<1>10. \A m \in Inputs : (fates[m] = "staged" <=> fate[m] = "staged")
                         /\ (fates[m] = "queued" <=> fate[m] = "queued")
  OBVIOUS
<1>11. StagedHolds'
  <2>1. \A m \in Inputs : fate'[m] # "staged"
    BY <1>8
  <2> QED
    BY <1>6, <2>1 DEF StagedHolds
<1>12. QueueHolds'
  <2>1. ASSUME NEW i \in 1..(N + k)
        PROVE  fate'[messages'[i].input] = "queued"
    <3>1. CASE i <= N
      <4>1. fate[messages[i].input] = "queued"
        BY <1>1, <3>1 DEF QueueHolds
      <4> QED
        BY <1>1, <1>3, <1>7, <1>8, <1>10, <3>1, <4>1
    <3>2. CASE ~(i <= N)
      <4>1. (i - N) \in 1..k
        BY <1>1, <3>2
      <4>2. PICK j \in 1..k : j = i - N
        BY <4>1
      <4>3. messages'[i].input = hostActions[j].input
        BY <1>7, <3>2, <4>2
      <4> QED
        BY <1>2, <1>8, <1>9, <1>10, <4>3
    <3> QED
      BY <3>1, <3>2
  <2>2. ASSUME NEW i \in 1..(N + k), NEW j \in 1..(N + k),
               messages'[i].input = messages'[j].input
        PROVE  i = j
    <3>1. CASE i <= N /\ j <= N
      <4>1. i \in 1..N /\ j \in 1..N
        BY <1>1, <3>1
      <4> QED
        BY <1>7, <2>2, <3>1, <4>1 DEF QueueHolds
    <3>2. CASE ~(i <= N) /\ ~(j <= N)
      <4>1. (i - N) \in 1..Len(hostActions) /\ (j - N) \in 1..Len(hostActions)
        BY <1>1, <3>2
      <4>2. hostActions[i - N].input = hostActions[j - N].input
        BY <1>7, <2>2, <3>2
      <4>3. i - N = j - N
        BY <4>1, <4>2 DEF StagedHolds
      <4> QED
        BY <1>1, <4>3
    <3>3. ASSUME NEW p \in 1..N, NEW q \in 1..k
          PROVE  messages[p].input # hostActions[q].input
      BY <1>9, <3>3 DEF QueueHolds
    <3>4. CASE i <= N /\ ~(j <= N)
      <4>1. i \in 1..N /\ (j - N) \in 1..k
        BY <1>1, <3>4
      <4> QED
        BY <1>7, <2>2, <3>3, <3>4, <4>1
    <3>5. CASE ~(i <= N) /\ j <= N
      <4>1. j \in 1..N /\ (i - N) \in 1..k
        BY <1>1, <3>5
      <4> QED
        BY <1>7, <2>2, <3>3, <3>5, <4>1
    <3> QED
      BY <3>1, <3>2, <3>4, <3>5
  <2>3. ASSUME NEW m \in Inputs, fate'[m] = "queued"
        PROVE  \E i \in 1..(N + k) : messages'[i].input = m
    <3>1. CASE fate[m] = "queued"
      <4>1. PICK i \in 1..N : messages[i].input = m
        BY <3>1 DEF QueueHolds
      <4>2. i \in 1..(N + k) /\ i <= N
        BY <1>1
      <4> QED
        BY <1>7, <4>1, <4>2
    <3>2. CASE fate[m] # "queued"
      <4>1. Applied(m)
        BY <1>8, <1>10, <2>3, <3>2
      <4>2. PICK j \in 1..k : hostActions[j].input = m
        BY <4>1
      <4>3. (N + j) \in 1..(N + k) /\ ~(N + j <= N) /\ (N + j) - N = j
        BY <1>1
      <4> QED
        BY <1>7, <4>2, <4>3
    <3> QED
      BY <3>1, <3>2
  <2> QED
    BY <1>7, <2>1, <2>2, <2>3 DEF QueueHolds
<1>13. \A m \in Inputs : fate[m] = "staged" /\ fate'[m] = "dropped" => k < Len(hostActions)
  <2> SUFFICES ASSUME NEW m \in Inputs, fate[m] = "staged", fate'[m] = "dropped"
               PROVE  k < Len(hostActions)
    OBVIOUS
  <2>1. ~Applied(m)
    BY <1>8, <1>10
  <2>2. PICK i \in 1..Len(hostActions) : hostActions[i].input = m
    BY DEF StagedHolds
  <2>3. ~(i \in 1..k)
    BY <2>1, <2>2
  <2> QED
    BY <1>1, <2>3
<1> QED
  BY <1>8, <1>11, <1>12, <1>13

(* All that an emit does to the texts: staged ones are queued or dropped.      *)
FatesMove ==
  \A m \in Inputs : \/ fate'[m] = fate[m]
                    \/ /\ fate[m] \in {"new", "staged"}
                       /\ fate'[m] \in {"staged", "queued", "dropped"}

LEMMA EmitHolds ==
  ASSUME TypeOK, QueueHolds, StagedHolds, NEW events, NEW direct, EmitThen(events, direct)
  PROVE  QueueHolds' /\ StagedHolds' /\ FatesMove
<1>1. CASE shutdown
  BY <1>1 DEF EmitThen, QueueHolds, StagedHolds, FatesMove
<1>2. CASE ~shutdown
  <2>1. PICK k \in AppliedCounts : ApplyActions(k, fate)
    BY <1>2 DEF EmitThen
  <2>2. fate \in [Inputs -> Fates]
    BY DEF TypeOK
  <2> QED
    BY <2>1, <2>2, ApplyActionsHolds DEF FatesMove
<1> QED
  BY <1>1, <1>2

(* A sequence without its i-th element.                                      *)
LEMMA WithoutElement ==
  ASSUME NEW S, NEW s \in Seq(S), NEW i \in 1..Len(s), NEW t,
         t = SubSeq(s, 1, i - 1) \o SubSeq(s, i + 1, Len(s))
  PROVE  /\ Len(t) = Len(s) - 1
         /\ \A j \in 1..(Len(s) - 1) : t[j] = IF j < i THEN s[j] ELSE s[j + 1]
<1> DEFINE p == SubSeq(s, 1, i - 1)
           q == SubSeq(s, i + 1, Len(s))
<1>1. i \in Nat /\ Len(s) \in Nat /\ 1 <= i /\ i <= Len(s)
  OBVIOUS
<1>2. /\ p \in Seq(S) /\ Len(p) = i - 1
      /\ \A j \in 1..(i - 1) : p[j] = s[j]
  BY <1>1
<1>3. /\ q \in Seq(S) /\ Len(q) = Len(s) - i
      /\ \A j \in 1..(Len(s) - i) : q[j] = s[j + i]
  BY <1>1
<1>4. t = p \o q
  OBVIOUS
<1> HIDE DEF p, q
<1>5. /\ Len(t) = Len(p) + Len(q)
      /\ \A j \in 1..(Len(p) + Len(q)) :
           t[j] = IF j <= Len(p) THEN p[j] ELSE q[j - Len(p)]
  <2>1. p \in Seq(S) /\ q \in Seq(S)
    BY <1>2, <1>3
  <2>2. /\ Len(p \o q) = Len(p) + Len(q)
        /\ \A j \in 1..(Len(p) + Len(q)) :
             (p \o q)[j] = IF j <= Len(p) THEN p[j] ELSE q[j - Len(p)]
    BY <2>1, ConcatProperties
  <2> QED
    BY <1>4, <2>2
<1>6. ASSUME NEW j \in 1..(Len(s) - 1)
      PROVE  t[j] = IF j < i THEN s[j] ELSE s[j + 1]
  <2>1. j \in 1..(Len(p) + Len(q))
    BY <1>1, <1>2, <1>3
  <2>2. CASE j < i
    <3>1. j \in 1..(i - 1) /\ j <= Len(p)
      BY <1>1, <1>2, <2>2
    <3> QED
      BY <1>2, <1>5, <2>1, <2>2, <3>1
  <2>3. CASE ~(j < i)
    <3>1. (j - Len(p)) \in 1..(Len(s) - i) /\ ~(j <= Len(p)) /\ (j - Len(p)) + i = j + 1
      BY <1>1, <1>2, <2>3
    <3> QED
      BY <1>3, <1>5, <2>1, <2>3, <3>1
  <2> QED
    BY <2>2, <2>3
<1>7. Len(t) = Len(s) - 1
  <2>1. Len(t) = Len(p) + Len(q) /\ Len(p) = i - 1 /\ Len(q) = Len(s) - i
    BY <1>2, <1>3, <1>5
  <2>2. (i - 1) + (Len(s) - i) = Len(s) - 1
    BY <1>1
  <2> QED
    BY <2>1, <2>2
<1> QED
  BY <1>6, <1>7

(* pop_steer and pop_follow_up leave the other texts in the queue.            *)
LEMMA PopHolds ==
  ASSUME TypeOK, QueueHolds, NEW kind, NEW i \in 1..Len(messages), Pop(kind, i)
  PROVE  /\ QueueHolds'
         /\ messages[i].input \in Inputs
         /\ fate[messages[i].input] = "queued"
         /\ fate' = [fate EXCEPT ![messages[i].input] = "taken"]
<1> DEFINE m == messages[i].input
           N == Len(messages)
<1>1. /\ messages \in Seq(Queued) /\ N \in Nat /\ i \in 1..N
      /\ fate \in [Inputs -> Fates]
  BY DEF TypeOK
<1>2. m \in Inputs
  BY PopType
<1>3. fate[m] = "queued"
  BY DEF QueueHolds
<1>4. fate' = [fate EXCEPT ![m] = "taken"]
  BY DEF Pop
<1>5. /\ Len(messages') = N - 1
      /\ \A j \in 1..(N - 1) : messages'[j] = IF j < i THEN messages[j] ELSE messages[j + 1]
  BY <1>1, WithoutElement DEF Pop
<1>6. \A j \in 1..N : messages[j].input \in Inputs
  <2>1. \A j \in 1..N : messages[j] \in Queued
    BY <1>1
  <2>2. \A x \in Queued : x.input \in Inputs
    BY DEF Queued
  <2> QED
    BY <2>1, <2>2
<1> DEFINE old(j) == IF j < i THEN j ELSE j + 1
<1>7. \A j \in 1..(N - 1) : old(j) \in 1..N /\ old(j) # i /\ messages'[j] = messages[old(j)]
  BY <1>1, <1>5
<1>8. QueueHolds'
  <2>1. ASSUME NEW j \in 1..(N - 1) PROVE fate'[messages'[j].input] = "queued"
    <3>1. messages[old(j)].input # m
      BY <1>7 DEF QueueHolds
    <3> QED
      BY <1>1, <1>2, <1>4, <1>6, <1>7, <3>1 DEF QueueHolds
  <2>2. ASSUME NEW j \in 1..(N - 1), NEW k \in 1..(N - 1),
               messages'[j].input = messages'[k].input
        PROVE  j = k
    <3>1. old(j) = old(k)
      BY <1>7, <2>2 DEF QueueHolds
    <3> QED
      BY <1>1, <3>1
  <2>3. ASSUME NEW x \in Inputs, fate'[x] = "queued"
        PROVE  \E j \in 1..(N - 1) : messages'[j].input = x
    <3>1. fate[x] = "queued" /\ x # m
      BY <1>1, <1>4, <2>3
    <3>2. PICK k \in 1..N : messages[k].input = x
      BY <3>1 DEF QueueHolds
    <3>3. k # i
      BY <3>1, <3>2
    <3>4. CASE k < i
      <4>1. k \in 1..(N - 1) /\ messages'[k] = messages[k]
        BY <1>1, <1>5, <3>4
      <4> QED
        BY <3>2, <4>1
    <3>5. CASE ~(k < i)
      <4>1. (k - 1) \in 1..(N - 1) /\ ~(k - 1 < i) /\ (k - 1) + 1 = k
        BY <1>1, <3>3, <3>5
      <4>2. messages'[k - 1] = messages[k]
        BY <1>5, <4>1
      <4> QED
        BY <3>2, <4>1, <4>2
    <3> QED
      BY <3>4, <3>5
  <2> QED
    BY <1>5, <2>1, <2>2, <2>3 DEF QueueHolds
<1> QED
  BY <1>2, <1>3, <1>4, <1>8

(* A step that leaves the store, the hand and the actor as they were, and does *)
(* to the texts no more than an emit.                                        *)
Steady ==
  /\ FatesMove
  /\ UNCHANGED <<store, input, run, commands, actor, serving, reply>>
  /\ closed => closed'
  /\ HoldsInput' <=> HoldsInput
  /\ AtInputHook' <=> AtInputHook
  /\ at' = "idle" => at = "idle"
  /\ at = "return" => at' = "return" /\ result' = result
  /\ at' = "steer" => at = "steer"
  /\ at \in BeforeAnswer => at' \in BeforeAnswer

LEMMA SteadyHolds ==
  ASSUME ActorTypeOK, InputInv, Steady, QueueHolds', StagedHolds'
  PROVE  InputInv'
<1>1. ChannelHolds'
  <2>1. \A i \in Prompts : commands[i].caller \in Inputs
    BY TextsAreInputs
  <2>2. \A i \in Prompts : fate'[commands[i].caller] = "sent"
    BY <2>1 DEF Steady, FatesMove, InputInv, ChannelHolds
  <2>3. serving \in Inputs => fate'[serving] = fate[serving]
    BY DEF Steady, FatesMove, InputInv, ChannelHolds
  <2> QED
    BY <2>2, <2>3 DEF Steady, InputInv, ChannelHolds, Prompts
<1>2. HandHolds'
  <2>1. input' = input
    BY DEF Steady
  <2>2. HoldsInput => input \in Inputs
    BY DEF ActorTypeOK, TypeOK
  <2>3. AtInputHook => HoldsInput
    BY DEF AtInputHook, HoldsInput
  <2>4. at = "steer" => HoldsInput
    BY DEF HoldsInput
  <2> QED
    BY <2>1, <2>2, <2>3, <2>4 DEF Steady, FatesMove, InputInv, HandHolds
<1>3. StoreHolds'
  <2>1. /\ store' = store /\ input' = input /\ (closed => closed')
        /\ HoldsInput' <=> HoldsInput
        /\ \A m \in Inputs : fate'[m] \in {"taken", "prompted"} <=> fate[m] \in {"taken", "prompted"}
    BY DEF Steady, FatesMove
  <2> QED
    BY <2>1 DEF InputInv, StoreHolds, IsUserMsg, UserMsgs
<1>4. PromptsHold'
  <2>1. \A m \in Inputs : fate'[m] = "prompted" => fate[m] = "prompted"
    BY DEF Steady, FatesMove
  <2>2. \A m : Answered(m) => Answered(m)'
    BY DEF Steady, Answered, UserMsgs
  <2>3. \A m : Underway(m) => Underway(m)'
    BY DEF Steady, Underway, UserMsgs
  <2> QED
    BY <2>1, <2>2, <2>3 DEF Steady, InputInv, PromptsHold
<1> QED
  BY <1>1, <1>2, <1>3, <1>4 DEF InputInv

(* What persist does to the texts: a user message takes the one in the hand.    *)
LEMMA PersistHolds ==
  ASSUME ActorTypeOK, InputInv,
         NEW role \in Roles, NEW body \in Inputs \cup {NoInput} \cup Nat,
         NEW events \in Seq(Events), NEW continue \in {"injected", "context", "tools", "queued"},
         Persist(role, body, events, continue),
         UNCHANGED <<run, commands, actor, serving, reply>>,
         at \notin {"idle", "return"}, ~AtInputHook,
         role = "user" /\ body \in Inputs => HoldsInput,
         HoldsInput => role = "user" /\ body = input /\ (continue = "injected" \/ at = "steer"),
         at \in BeforeAnswer => continue \in BeforeAnswer \/ role = "assistant"
  PROVE  InputInv'
<1> DEFINE msg == [role |-> role, run |-> run, turn |-> turn, body |-> body]
<1>0. PICK N, text : N = Len(store) /\ text = input
  OBVIOUS
<1>1. QueueHolds' /\ StagedHolds' /\ FatesMove
  BY EmitHolds DEF Persist, Emit, InputInv, ActorTypeOK
<1>2. /\ input' = NoInput /\ at' \in {continue, "return"} /\ ~HoldsInput' /\ ~AtInputHook'
      /\ at' \notin {"idle", "steer"}
  BY DEF Persist, HoldsInput, AtInputHook
<1>3. /\ \A m \in Inputs : fate'[m] \in {"taken", "prompted"} <=> fate[m] \in {"taken", "prompted"}
      /\ \A m \in Inputs : fate'[m] = "prompted" <=> fate[m] = "prompted"
      /\ \A m \in Inputs : fate[m] \in {"sent", "prompted", "handled", "refused"}
                              => fate'[m] = fate[m]
  BY <1>1 DEF FatesMove
<1>4. ChannelHolds'
  <2>1. \A i \in Prompts : commands[i].caller \in Inputs
    BY TextsAreInputs
  <2> QED
    BY <1>2, <1>3, <2>1 DEF InputInv, ChannelHolds, Prompts
<1>5. HandHolds'
  BY <1>2 DEF HandHolds
<1>6. /\ store \in Seq(Message) /\ N \in Nat
      /\ HoldsInput => text \in Inputs
      /\ NoInput \notin Inputs
  BY <1>0, SessionAssumption DEF ActorTypeOK, TypeOK
<1>7. CASE /\ store' = Append(store, msg)
           /\ at' = continue
           /\ closed' = closed
  <2>1. /\ Len(store') = N + 1
        /\ \A i \in 1..N : store'[i] = store[i]
        /\ store'[N + 1] = msg
    BY <1>0, <1>6, <1>7
  <2>2. \A i \in 1..(N + 1) : i \in 1..N \/ i = N + 1
    BY <1>6
  <2>3. \A i \in 1..N : IsUserMsg(i)' <=> IsUserMsg(i)
    BY <2>1 DEF IsUserMsg
  <2>4. IsUserMsg(N + 1)' => HoldsInput /\ body = text
    BY <1>0, <2>1 DEF IsUserMsg
  <2>5. \A m \in Inputs : UserMsgs(m) \subseteq UserMsgs(m)'
    BY <1>0, <1>6, <2>1 DEF UserMsgs
  <2>6. HoldsInput => (N + 1) \in UserMsgs(text)'
    BY <1>0, <1>6, <2>1 DEF UserMsgs
  <2>7. StoreHolds'
    <3>1. ASSUME NEW i \in 1..(N + 1), IsUserMsg(i)'
          PROVE  fate'[store'[i].body] \in {"taken", "prompted"}
      <4>1. CASE i \in 1..N
        BY <1>0, <1>3, <2>1, <2>3, <3>1, <4>1 DEF InputInv, StoreHolds, IsUserMsg
      <4>2. CASE i = N + 1
        BY <1>0, <1>3, <1>6, <2>1, <2>4, <3>1, <4>2 DEF InputInv, HandHolds
      <4> QED
        BY <2>2, <4>1, <4>2
    <3>2. ASSUME NEW i \in 1..(N + 1), NEW j \in 1..(N + 1), IsUserMsg(i)', IsUserMsg(j)',
                 store'[i].body = store'[j].body
          PROVE  i = j
      <4>1. \A p \in 1..N : IsUserMsg(p) /\ HoldsInput => store[p].body # text
        BY <1>0 DEF InputInv, StoreHolds
      <4>2. CASE i \in 1..N /\ j \in 1..N
        BY <1>0, <2>1, <2>3, <3>2, <4>2 DEF InputInv, StoreHolds
      <4>3. ~(i \in 1..N /\ j = N + 1)
        BY <2>1, <2>3, <2>4, <3>2, <4>1
      <4>4. ~(i = N + 1 /\ j \in 1..N)
        BY <2>1, <2>3, <2>4, <3>2, <4>1
      <4> QED
        BY <2>2, <4>2, <4>3, <4>4
    <3>3. ASSUME NEW m \in Inputs, fate'[m] \in {"taken", "prompted"}
          PROVE  UserMsgs(m)' # {} \/ input' = m \/ closed'
      <4>1. UserMsgs(m) # {} \/ input = m \/ closed
        BY <1>3, <3>3 DEF InputInv, StoreHolds
      <4>2. input = m => HoldsInput
        BY <1>0, <1>6 DEF InputInv, HandHolds
      <4> QED
        BY <1>0, <1>7, <2>5, <2>6, <4>1, <4>2
    <3> QED
      BY <1>0, <1>2, <2>1, <3>1, <3>2, <3>3 DEF StoreHolds
  <2>8. PromptsHold'
    <3> SUFFICES ASSUME NEW m \in Inputs, fate[m] = "prompted"
                 PROVE  \/ Answered(m)' \/ reply'[m] = "error"
                        \/ serving' = m /\ (Underway(m)' \/ (at' = "return" /\ result' = "error"))
      BY <1>3 DEF PromptsHold
    <3>1. CASE Answered(m)
      <4>1. PICK u \in UserMsgs(m), a \in 1..N :
              u < a /\ store[a].role = "assistant" /\ store[a].run = store[u].run
        BY <1>0, <3>1 DEF Answered
      <4>2. u \in UserMsgs(m)' /\ a \in 1..Len(store') /\ u \in 1..N
        BY <1>0, <1>6, <2>1, <2>5, <4>1 DEF UserMsgs
      <4>3. Answered(m)'
        BY <2>1, <4>1, <4>2 DEF Answered
      <4> QED
        BY <4>3
    <3>2. CASE reply[m] = "error"
      BY <3>2
    <3>3. CASE serving = m /\ input = m
      <4>1. HoldsInput
        BY <1>6, <3>3 DEF InputInv, HandHolds
      <4>2. at # "steer"
        BY <3>3 DEF InputInv, HandHolds
      <4>3. at' = "injected" /\ (N + 1) \in UserMsgs(m)' /\ store'[N + 1].run = run'
        BY <1>0, <1>7, <2>1, <2>6, <3>3, <4>1, <4>2
      <4>4. Underway(m)'
        BY <4>3 DEF Underway, BeforeAnswer
      <4> QED
        BY <3>3, <4>4
    <3>4. CASE serving = m /\ at \in BeforeAnswer /\ \E u \in UserMsgs(m) : store[u].run = run
      <4>1. PICK u \in UserMsgs(m) : store[u].run = run
        BY <3>4
      <4>2. u \in UserMsgs(m)' /\ u \in 1..N /\ store'[u].run = run'
        BY <1>0, <2>1, <2>5, <4>1 DEF UserMsgs
      <4>3. CASE role = "assistant"
        <5>1. u < N + 1 /\ (N + 1) \in 1..Len(store')
          BY <1>6, <2>1, <4>2
        <5>2. store'[N + 1].role = "assistant" /\ store'[N + 1].run = store'[u].run
          BY <2>1, <4>2, <4>3
        <5>3. Answered(m)'
          BY <4>2, <5>1, <5>2 DEF Answered
        <5> QED
          BY <5>3
      <4>4. CASE continue \in BeforeAnswer
        <5>1. Underway(m)'
          BY <1>7, <4>2, <4>4 DEF Underway
        <5> QED
          BY <3>4, <5>1
      <4> QED
        BY <3>4, <4>3, <4>4
    <3> QED
      BY <3>1, <3>2, <3>3, <3>4 DEF InputInv, PromptsHold, Underway
  <2> QED
    BY <1>1, <1>4, <1>5, <2>7, <2>8 DEF InputInv
<1>8. CASE /\ store' = store /\ closed' = TRUE
           /\ at' = "return" /\ result' = "error"
  <2>1. StoreHolds'
    BY <1>2, <1>3, <1>8 DEF InputInv, StoreHolds, IsUserMsg
  <2>2. \A m : Answered(m) => Answered(m)'
    BY <1>8 DEF Answered, UserMsgs
  <2>3. PromptsHold'
    BY <1>3, <1>8, <2>2 DEF InputInv, PromptsHold
  <2> QED
    BY <1>1, <1>4, <1>5, <2>1, <2>3 DEF InputInv
<1> QED
  BY <1>7, <1>8 DEF Persist

(* A text goes from the queue into the hand: StartRun of a drain, or a steer.   *)
LEMMA TakenHolds ==
  ASSUME ActorTypeOK, InputInv, NEW kind, NEW i \in 1..Len(messages), Pop(kind, i),
         at \in {"drain", "queued"}, input' = messages[i].input,
         at' \in {"before", "steer"},
         UNCHANGED <<closed, hostActions, store, commands, actor, serving, reply>>
  PROVE  InputInv'
<1>0. PICK text : text = messages[i].input
  OBVIOUS
<1>1. /\ QueueHolds' /\ text \in Inputs /\ fate[text] = "queued"
      /\ fate' = [fate EXCEPT ![text] = "taken"]
      /\ fate \in [Inputs -> Fates]
  BY <1>0, PopHolds DEF InputInv, ActorTypeOK, TypeOK
<1>2. ~HoldsInput /\ ~AtInputHook /\ input = NoInput /\ NoInput \notin Inputs
  BY SessionAssumption DEF HoldsInput, AtInputHook, InputInv, HandHolds
<1>3. HoldsInput' /\ ~AtInputHook' /\ input' = text
  BY <1>0 DEF HoldsInput, AtInputHook
<1>4. /\ fate'[text] = "taken"
      /\ \A m \in Inputs : m # text => fate'[m] = fate[m]
  BY <1>1
<1>5. StagedHolds'
  <2>1. \A j \in 1..Len(hostActions) : hostActions[j].input \in Inputs
    BY TextsAreInputs
  <2> QED
    BY <1>1, <1>4, <2>1 DEF InputInv, StagedHolds
<1>6. ChannelHolds'
  <2>1. \A j \in Prompts : commands[j].caller \in Inputs
    BY TextsAreInputs
  <2> QED
    BY <1>1, <1>4, <2>1 DEF InputInv, ChannelHolds, Prompts
<1>7. HandHolds'
  BY <1>3, <1>4 DEF HandHolds
<1>8. StoreHolds'
  <2>1. \A j \in 1..Len(store) : IsUserMsg(j) => store[j].body # text
    BY <1>1 DEF InputInv, StoreHolds
  <2> QED
    BY <1>1, <1>2, <1>3, <1>4, <2>1 DEF InputInv, StoreHolds, IsUserMsg, UserMsgs
<1>9. PromptsHold'
  <2>1. \A m : Answered(m) => Answered(m)'
    BY DEF Answered, UserMsgs
  <2>2. \A m \in Inputs : ~Underway(m)
    BY <1>2 DEF Underway, BeforeAnswer
  <2> QED
    BY <1>4, <2>1, <2>2 DEF InputInv, PromptsHold
<1> QED
  BY <1>1, <1>5, <1>6, <1>7, <1>8, <1>9 DEF InputInv

(* The prompt's text leaves the hand at the input hook, unless it is to be run. *)
LEMMA HandledHolds ==
  ASSUME ActorTypeOK, InputInv, AtInputHook, QueueHolds', StagedHolds',
         fate'[input] = "handled",
         \A m \in Inputs : m # input =>
            \/ fate'[m] = fate[m]
            \/ fate[m] = "staged" /\ fate'[m] \in {"queued", "dropped"},
         input' = NoInput, at' \in {"drain", "return"},
         UNCHANGED <<closed, store, commands, actor, serving, reply>>
  PROVE  InputInv'
<1>1. /\ input \in Inputs /\ fate[input] = "sent" /\ serving = input
      /\ HoldsInput
  BY DEF AtInputHook, HoldsInput, InputInv, HandHolds, ActorTypeOK, TypeOK
<1>2. ~HoldsInput' /\ ~AtInputHook' /\ at' # "steer" /\ at' # "idle"
  BY DEF HoldsInput, AtInputHook
<1>3. ChannelHolds'
  <2>1. \A j \in Prompts : commands[j].caller \in Inputs
    BY TextsAreInputs
  <2>2. \A j \in Prompts : fate'[commands[j].caller] = "sent"
    BY <1>1, <2>1 DEF InputInv, ChannelHolds
  <2> QED
    BY <1>1, <1>2, <2>2 DEF InputInv, ChannelHolds, Prompts
<1>4. HandHolds'
  BY <1>2 DEF HandHolds
<1>5. \A m \in Inputs : fate'[m] \in {"taken", "prompted"} => m # input /\ fate'[m] = fate[m]
  OBVIOUS
<1>6. \A m \in Inputs : fate[m] \in {"taken", "prompted"} => m # input /\ fate'[m] = fate[m]
  BY <1>1
<1>7. StoreHolds'
  <2>1. \A j \in 1..Len(store) : IsUserMsg(j) => store[j].body \in Inputs
    BY DEF IsUserMsg
  <2> QED
    BY <1>2, <1>5, <1>6, <2>1 DEF InputInv, StoreHolds, IsUserMsg, UserMsgs
<1>8. PromptsHold'
  <2>1. \A m : Answered(m) => Answered(m)'
    BY DEF Answered, UserMsgs
  <2> QED
    BY <1>1, <1>5, <2>1 DEF InputInv, PromptsHold
<1> QED
  BY <1>3, <1>4, <1>7, <1>8 DEF InputInv

LEMMA AcceptedHolds ==
  ASSUME ActorTypeOK, InputInv, InputAccepted, UNCHANGED actorVars
  PROVE  InputInv'
<1> USE DEF actorVars
<1>1. /\ input \in Inputs /\ fate[input] = "sent" /\ serving = input
      /\ AtInputHook /\ HoldsInput /\ fate \in [Inputs -> Fates]
  BY DEF InputAccepted, AtInputHook, HoldsInput, InputInv, HandHolds, ActorTypeOK, TypeOK
<1>2. /\ input' = input /\ at' = "before" /\ HoldsInput' /\ ~AtInputHook'
      /\ fate'[input] = "prompted"
      /\ \A m \in Inputs : m # input => fate'[m] = fate[m]
      /\ UNCHANGED <<messages, hostActions, store, closed>>
  BY <1>1 DEF InputAccepted, StartRun, HoldsInput, AtInputHook
<1>3. QueueHolds' /\ StagedHolds'
  <2>1. \A j \in 1..Len(messages) : messages[j].input \in Inputs
    BY TextsAreInputs
  <2>2. \A j \in 1..Len(hostActions) : hostActions[j].input \in Inputs
    BY TextsAreInputs
  <2>3. QueueHolds'
    BY <1>1, <1>2, <2>1 DEF InputInv, QueueHolds
  <2>4. StagedHolds'
    BY <1>1, <1>2, <2>2 DEF InputInv, StagedHolds
  <2> QED
    BY <2>3, <2>4
<1>4. ChannelHolds'
  <2>1. \A j \in Prompts : commands[j].caller \in Inputs
    BY TextsAreInputs
  <2> QED
    BY <1>1, <1>2, <2>1 DEF InputInv, ChannelHolds, Prompts
<1>5. HandHolds'
  BY <1>2 DEF HandHolds
<1>6. StoreHolds'
  <2>1. \A j \in 1..Len(store) : IsUserMsg(j) => store[j].body # input
    BY <1>1 DEF InputInv, StoreHolds
  <2> QED
    BY <1>1, <1>2, <2>1 DEF InputInv, StoreHolds, IsUserMsg, UserMsgs
<1>7. PromptsHold'
  <2>1. \A m : Answered(m) => Answered(m)'
    BY <1>2 DEF Answered, UserMsgs
  <2>2. Underway(input)'
    BY <1>2 DEF Underway
  <2>3. ASSUME NEW m \in Inputs, m # input, fate'[m] = "prompted"
        PROVE  Answered(m) \/ reply[m] = "error"
    BY <1>1, <1>2, <2>3 DEF InputInv, PromptsHold
  <2> QED
    BY <1>1, <1>2, <2>1, <2>2, <2>3 DEF PromptsHold, Underway
<1> QED
  BY <1>3, <1>4, <1>5, <1>6, <1>7 DEF InputInv

(* The actor takes a command out of the channel: its caller waits, and no other *)
(* prompt in the channel is of that caller.                                  *)
LEMMA ReceiveChannel ==
  ASSUME ActorTypeOK, InputInv, Receive
  PROVE  LET cmd == Head(commands) IN
         /\ cmd \in Command /\ serving' = cmd.caller /\ serving = Nobody /\ input = NoInput
         /\ cmd.op = "prompt" =>
               /\ cmd.caller \in Inputs
               /\ fate[cmd.caller] = "sent" /\ reply[cmd.caller] = "waiting"
               /\ \A i \in 1..Len(commands') :
                     commands'[i].op = "prompt" => commands'[i].caller # cmd.caller
         /\ cmd.op # "prompt" => cmd.caller \notin Inputs
         /\ Len(commands') \in Nat
         /\ \A i \in 1..Len(commands') :
               i + 1 \in 1..Len(commands) /\ commands'[i] = commands[i + 1]
<1> DEFINE cmd == Head(commands)
<1>1. /\ commands \in Seq(Command) /\ commands # <<>> /\ commands' = Tail(commands)
      /\ at = "idle" /\ serving' = cmd.caller
  BY DEF Receive, ActorTypeOK
<1>2. /\ Len(commands) \in Nat /\ 1 \in 1..Len(commands) /\ cmd = commands[1] /\ cmd \in Command
      /\ Len(commands') = Len(commands) - 1
      /\ \A i \in 1..Len(commands') :
            i + 1 \in 1..Len(commands) /\ commands'[i] = commands[i + 1]
  BY <1>1
<1>3. serving = Nobody /\ input = NoInput
  BY <1>1 DEF InputInv, ChannelHolds, HandHolds, HoldsInput
<1>4. /\ cmd.op = "prompt" => cmd.caller \in Inputs
      /\ cmd.op # "prompt" => cmd.caller \notin Inputs
  BY <1>2, SessionAssumption, SessionActorAssumption DEF Command, Nobody
<1>5. ASSUME cmd.op = "prompt"
      PROVE  /\ fate[cmd.caller] = "sent" /\ reply[cmd.caller] = "waiting"
             /\ \A i \in 1..Len(commands') :
                   commands'[i].op = "prompt" => commands'[i].caller # cmd.caller
  <2>1. 1 \in Prompts
    BY <1>2, <1>5 DEF Prompts
  <2>2. ASSUME NEW i \in 1..Len(commands'), commands'[i].op = "prompt",
               commands'[i].caller = cmd.caller
        PROVE  FALSE
    <3>1. (i + 1) \in Prompts /\ commands[i + 1].caller = commands[1].caller
      BY <1>2, <2>2 DEF Prompts
    <3>2. i + 1 = 1
      BY <2>1, <3>1 DEF InputInv, ChannelHolds
    <3>3. i \in Nat /\ i >= 1
      BY <1>2
    <3> QED
      BY <3>2, <3>3
  <2> QED
    BY <1>2, <2>1, <2>2 DEF InputInv, ChannelHolds
<1>6. Len(commands') \in Nat
  BY <1>1
<1> HIDE DEF cmd
<1>7. /\ cmd \in Command /\ serving' = cmd.caller
  BY <1>1, <1>2
<1> QED
  BY <1>2, <1>3, <1>4, <1>5, <1>6, <1>7 DEF cmd

(* A command is received while the session is idle, and no text is in the hand. *)
LEMMA ReceiveHolds ==
  ASSUME ActorTypeOK, InputInv, Receive
  PROVE  InputInv'
<1>0. PICK cmd : cmd = Head(commands)
  OBVIOUS
<1>1. /\ cmd \in Command /\ serving' = cmd.caller /\ serving = Nobody /\ input = NoInput
      /\ cmd.op = "prompt" =>
               /\ cmd.caller \in Inputs
               /\ fate[cmd.caller] = "sent" /\ reply[cmd.caller] = "waiting"
               /\ \A i \in 1..Len(commands') :
                     commands'[i].op = "prompt" => commands'[i].caller # cmd.caller
      /\ cmd.op # "prompt" => cmd.caller \notin Inputs
      /\ Len(commands') \in Nat
      /\ \A i \in 1..Len(commands') :
               i + 1 \in 1..Len(commands) /\ commands'[i] = commands[i + 1]
  BY <1>0, ReceiveChannel
<1>2. at = "idle" /\ actor = "running" /\ actor' = actor /\ reply' = reply
  BY DEF Receive
<1>3. ~HoldsInput /\ ~AtInputHook /\ NoInput \notin Inputs
  BY <1>2, SessionAssumption DEF HoldsInput, AtInputHook
<1>4. \A i \in Prompts' : (i + 1) \in Prompts /\ commands'[i] = commands[i + 1]
  BY <1>1 DEF Prompts
<1>5. ASSUME NEW m \in Inputs, fate[m] = "prompted" PROVE Answered(m) \/ reply[m] = "error"
  BY <1>1, <1>3, <1>5 DEF InputInv, PromptsHold, Nobody
<1>6. ASSUME store' = store PROVE \A m : Answered(m) => Answered(m)'
  BY <1>6 DEF Answered, UserMsgs
<1>7. CASE cmd.op = "prompt"
  <2>1. PICK m \in Inputs : m = cmd.caller /\ RunOneTurn(m)
    BY <1>0, <1>1, <1>7 DEF Receive
  <2>2. /\ fate[m] = "sent" /\ reply[m] = "waiting" /\ serving' = m
        /\ \A i \in Prompts' : commands'[i].caller # m
    BY <1>1, <1>7, <2>1 DEF Prompts
  <2>3. store' = store /\ closed' = closed /\ fate \in [Inputs -> Fates]
    BY <2>1 DEF RunOneTurn, ActorTypeOK, TypeOK
  <2>4. CASE /\ status \in {"Fatal", "Closed"}
             /\ Return("error")
             /\ fate' = [fate EXCEPT ![m] = "refused"]
             /\ UNCHANGED <<messages, hostActions, input>>
    <3>1. \A x \in Inputs : x # m => fate'[x] = fate[x]
      BY <2>3, <2>4
    <3>2. fate'[m] = "refused"
      BY <2>3, <2>4
    <3>3. QueueHolds' /\ StagedHolds'
      <4>1. QueueHolds'
        BY <2>2, <2>4, <3>1, <3>2, TextsAreInputs DEF InputInv, QueueHolds
      <4>2. StagedHolds'
        BY <2>2, <2>4, <3>1, <3>2, TextsAreInputs DEF InputInv, StagedHolds
      <4> QED
        BY <4>1, <4>2
    <3>4. ~HoldsInput' /\ ~AtInputHook' /\ at' = "return" /\ input' = NoInput
      BY <1>1, <2>4 DEF Return, HoldsInput, AtInputHook
    <3>5. ChannelHolds'
      <4>1. \A i \in Prompts' : /\ fate'[commands'[i].caller] = "sent"
                                /\ reply'[commands'[i].caller] = "waiting"
        BY <1>2, <1>4, <2>2, <3>1, TextsAreInputs DEF InputInv, ChannelHolds
      <4>2. \A i, j \in Prompts' : commands'[i].caller = commands'[j].caller => i = j
        <5> SUFFICES ASSUME NEW i \in Prompts', NEW j \in Prompts',
                            commands'[i].caller = commands'[j].caller
                     PROVE  i = j
          OBVIOUS
        <5>1. i + 1 = j + 1
          BY <1>4 DEF InputInv, ChannelHolds
        <5>2. i \in Nat /\ j \in Nat
          BY <1>1 DEF Prompts
        <5> QED
          BY <5>1, <5>2
      <4> QED
        BY <1>2, <2>2, <3>2, <3>4, <4>1, <4>2 DEF ChannelHolds
    <3>6. HandHolds'
      BY <3>4 DEF HandHolds
    <3>7. StoreHolds'
      <4>1. \A x \in Inputs : fate'[x] \in {"taken", "prompted"} <=> fate[x] \in {"taken", "prompted"}
        BY <2>2, <3>1, <3>2
      <4> QED
        BY <1>1, <1>3, <2>3, <3>4, <4>1 DEF InputInv, StoreHolds, IsUserMsg, UserMsgs
    <3>8. PromptsHold'
      BY <1>2, <1>5, <1>6, <2>3, <3>1, <3>2 DEF PromptsHold
    <3> QED
      BY <3>3, <3>5, <3>6, <3>7, <3>8 DEF InputInv
  <2>5. CASE EnsureStarted /\ input' = m /\ at' = "input"
    <3>1. QueueHolds' /\ StagedHolds' /\ FatesMove
      <4>1. CASE started
        BY <2>5, <4>1 DEF EnsureStarted, InputInv, QueueHolds, StagedHolds, FatesMove
      <4>2. CASE ~started
        BY <2>5, <4>2, EmitHolds DEF EnsureStarted, Emit, InputInv, ActorTypeOK
      <4> QED
        BY <4>1, <4>2
    <3>2. HoldsInput' /\ AtInputHook' /\ at' = "input"
      BY <2>5 DEF HoldsInput, AtInputHook
    <3>3. /\ fate'[m] = "sent"
          /\ \A x \in Inputs : fate[x] = "sent" => fate'[x] = "sent"
          /\ \A x \in Inputs : fate'[x] \in {"taken", "prompted"} <=> fate[x] \in {"taken", "prompted"}
          /\ \A x \in Inputs : fate'[x] = "prompted" <=> fate[x] = "prompted"
      BY <2>2, <3>1 DEF FatesMove
    <3>4. ChannelHolds'
      <4>1. \A i \in Prompts' : /\ fate'[commands'[i].caller] = "sent"
                                /\ reply'[commands'[i].caller] = "waiting"
        BY <1>2, <1>4, <2>2, <3>3, TextsAreInputs DEF InputInv, ChannelHolds
      <4>2. \A i, j \in Prompts' : commands'[i].caller = commands'[j].caller => i = j
        <5> SUFFICES ASSUME NEW i \in Prompts', NEW j \in Prompts',
                            commands'[i].caller = commands'[j].caller
                     PROVE  i = j
          OBVIOUS
        <5>1. i + 1 = j + 1
          BY <1>4 DEF InputInv, ChannelHolds
        <5>2. i \in Nat /\ j \in Nat
          BY <1>1 DEF Prompts
        <5> QED
          BY <5>1, <5>2
      <4> QED
        BY <1>2, <2>2, <3>2, <3>3, <4>1, <4>2 DEF ChannelHolds
    <3>5. HandHolds'
      BY <2>2, <2>5, <3>2, <3>3 DEF HandHolds
    <3>6. StoreHolds'
      <4>1. \A j \in 1..Len(store) : IsUserMsg(j) => store[j].body # m
        BY <2>2 DEF InputInv, StoreHolds
      <4> QED
        BY <1>1, <1>3, <2>3, <2>5, <3>3, <4>1 DEF InputInv, StoreHolds, IsUserMsg, UserMsgs
    <3>7. PromptsHold'
      BY <1>2, <1>5, <1>6, <2>3, <3>3 DEF PromptsHold
    <3> QED
      BY <3>1, <3>4, <3>5, <3>6, <3>7 DEF InputInv
  <2> QED
    BY <2>1, <2>4, <2>5 DEF RunOneTurn
<1>8. CASE cmd.op # "prompt"
  <2>1. RunQueued \/ Close
    <3>1. cmd.op \in {"wake", "close"}
      BY <1>1, <1>8 DEF Command
    <3> QED
      BY <1>0, <3>1 DEF Receive
  <2>2. /\ store' = store /\ closed' = closed /\ input' = input
        /\ at' \in {"drain", "drop", "return"}
        /\ QueueHolds' /\ StagedHolds' /\ FatesMove
    <3>1. CASE RunQueued
      BY <3>1 DEF RunQueued, localVars, queueVars, InputInv, QueueHolds, StagedHolds, FatesMove
    <3>2. CASE Close
      <4>1. QueueHolds' /\ StagedHolds' /\ FatesMove
        <5>1. CASE UNCHANGED <<messages, hostActions, fate>>
          BY <5>1 DEF InputInv, QueueHolds, StagedHolds, FatesMove
        <5>2. CASE Emit(<<"SessionStart">>)
          BY <5>2, EmitHolds DEF Emit, InputInv, ActorTypeOK
        <5> QED
          BY <3>2, <5>1, <5>2 DEF Close, EnsureStarted
      <4> QED
        BY <3>2, <4>1 DEF Close, Return, localVars
    <3> QED
      BY <2>1, <3>1, <3>2
  <2>3. ~HoldsInput' /\ ~AtInputHook' /\ at' # "steer" /\ at' # "idle"
    BY <2>2 DEF HoldsInput, AtInputHook
  <2>4. ChannelHolds'
    <3>1. \A i \in Prompts' : /\ fate'[commands'[i].caller] = "sent"
                              /\ reply'[commands'[i].caller] = "waiting"
                              /\ commands'[i].caller # serving'
      BY <1>1, <1>2, <1>4, <1>8, <2>2, TextsAreInputs DEF InputInv, ChannelHolds, FatesMove
    <3>2. \A i, j \in Prompts' : commands'[i].caller = commands'[j].caller => i = j
      <4> SUFFICES ASSUME NEW i \in Prompts', NEW j \in Prompts',
                          commands'[i].caller = commands'[j].caller
                   PROVE  i = j
        OBVIOUS
      <4>1. i + 1 = j + 1
        BY <1>4 DEF InputInv, ChannelHolds
      <4>2. i \in Nat /\ j \in Nat
        BY <1>1 DEF Prompts
      <4> QED
        BY <4>1, <4>2
    <3> QED
      BY <1>1, <1>2, <1>8, <2>3, <3>1, <3>2 DEF ChannelHolds
  <2>5. HandHolds'
    BY <1>1, <2>2, <2>3 DEF HandHolds
  <2>6. StoreHolds'
    <3>1. \A m \in Inputs : fate'[m] \in {"taken", "prompted"} <=> fate[m] \in {"taken", "prompted"}
      BY <2>2 DEF FatesMove
    <3> QED
      BY <2>2, <2>3, <3>1 DEF InputInv, StoreHolds, IsUserMsg, UserMsgs
  <2>7. PromptsHold'
    <3>1. \A m \in Inputs : fate'[m] = "prompted" => fate[m] = "prompted"
      BY <2>2 DEF FatesMove
    <3> QED
      BY <1>2, <1>5, <1>6, <2>2, <3>1 DEF PromptsHold
  <2> QED
    BY <2>2, <2>4, <2>5, <2>6, <2>7 DEF InputInv
<1> QED
  BY <1>7, <1>8

(* A step of a client, or the answer of the actor: the conversation is as it was, *)
(* and nothing changes for the texts that are taken.                         *)
LEMMA OutsideHolds ==
  ASSUME ActorTypeOK, InputInv, QueueHolds', StagedHolds', ChannelHolds',
         UNCHANGED <<store, closed, input, run, turn>>,
         HoldsInput' <=> HoldsInput, AtInputHook' <=> AtInputHook,
         at \in BeforeAnswer => at' \in BeforeAnswer, at' = "steer" => at = "steer",
         AtInputHook => serving' = serving,
         \A m \in Inputs : \/ fate'[m] = fate[m]
                           \/ /\ fate[m] \in {"new", "sent"}
                              /\ AtInputHook => m # input
                              /\ fate'[m] \in {"sent", "queued", "refused"},
         \A m \in Inputs : fate[m] = "prompted" =>
            \/ reply[m] = "error" => reply'[m] = "error"
            \/ Answered(m),
         \A m \in Inputs : fate[m] = "prompted" /\ serving = m =>
            \/ Answered(m) \/ reply'[m] = "error"
            \/ serving' = m /\ at' = at /\ result' = result
  PROVE  InputInv'
<1>1. HandHolds'
  <2>1. HoldsInput => input \in Inputs
    BY DEF ActorTypeOK, TypeOK
  <2>2. (AtInputHook => HoldsInput) /\ (at = "steer" => HoldsInput)
    BY DEF AtInputHook, HoldsInput
  <2> QED
    BY <2>1, <2>2 DEF InputInv, HandHolds
<1>2. \A m \in Inputs : fate'[m] \in {"taken", "prompted"} <=> fate[m] \in {"taken", "prompted"}
  OBVIOUS
<1>3. StoreHolds'
  BY <1>2 DEF InputInv, StoreHolds, IsUserMsg, UserMsgs
<1>4. PromptsHold'
  <2> SUFFICES ASSUME NEW m \in Inputs, fate'[m] = "prompted"
               PROVE  \/ Answered(m)' \/ reply'[m] = "error"
                      \/ serving' = m /\ (Underway(m)' \/ (at' = "return" /\ result' = "error"))
    BY DEF PromptsHold
  <2>1. fate[m] = "prompted"
    OBVIOUS
  <2>2. Answered(m) => Answered(m)'
    BY DEF Answered, UserMsgs
  <2>3. Underway(m) => Underway(m)'
    BY DEF Underway, UserMsgs
  <2> QED
    BY <2>1, <2>2, <2>3 DEF InputInv, PromptsHold
<1> QED
  BY <1>1, <1>3, <1>4 DEF InputInv

(* Texts that are neither queued nor staged may change their fate freely.      *)
LEMMA QueueUntouched ==
  ASSUME ActorTypeOK, InputInv, UNCHANGED <<messages, hostActions>>,
         \A m \in Inputs :
            fate'[m] = fate[m] \/ {fate[m], fate'[m]} \cap {"queued", "staged"} = {}
  PROVE  QueueHolds' /\ StagedHolds'
<1>1. \A m \in Inputs : /\ fate'[m] = "queued" <=> fate[m] = "queued"
                        /\ fate'[m] = "staged" <=> fate[m] = "staged"
  OBVIOUS
<1>2. QueueHolds'
  BY <1>1, TextsAreInputs DEF InputInv, QueueHolds
<1>3. StagedHolds'
  BY <1>1, TextsAreInputs DEF InputInv, StagedHolds
<1> QED
  BY <1>2, <1>3

(* A text that was not queued is queued behind the others.                    *)
LEMMA AppendHolds ==
  ASSUME ActorTypeOK, InputInv, NEW m \in Inputs, NEW kind \in Kinds, fate[m] = "new",
         messages' = Append(messages, [kind |-> kind, input |-> m]),
         fate' = [fate EXCEPT ![m] = "queued"], hostActions' = hostActions
  PROVE  /\ QueueHolds' /\ StagedHolds' /\ FatesMove
         /\ fate'[m] = "queued" /\ \A x \in Inputs : x # m => fate'[x] = fate[x]
<1>0. PICK N : N = Len(messages)
  OBVIOUS
<1>1. /\ messages \in Seq(Queued) /\ N \in Nat
      /\ fate \in [Inputs -> Fates]
  BY <1>0 DEF ActorTypeOK, TypeOK
<1>2. /\ Len(messages') = N + 1
      /\ \A i \in 1..N : messages'[i] = messages[i]
      /\ messages'[N + 1].input = m
  BY <1>0, <1>1
<1>3. /\ fate'[m] = "queued"
      /\ \A x \in Inputs : x # m => fate'[x] = fate[x]
  BY <1>1
<1>4. /\ \A i \in 1..N : messages[i].input \in Inputs /\ messages[i].input # m
      /\ \A i \in 1..(N + 1) : i \in 1..N \/ i = N + 1
  <2>1. \A i \in 1..(N + 1) : i \in 1..N \/ i = N + 1
    BY <1>1
  <2> QED
    BY <1>0, <2>1, TextsAreInputs DEF InputInv, QueueHolds
<1>5. QueueHolds'
  <2>1. \A i \in 1..(N + 1) : fate'[messages'[i].input] = "queued"
    BY <1>0, <1>2, <1>3, <1>4 DEF InputInv, QueueHolds
  <2>2. \A i, j \in 1..(N + 1) : messages'[i].input = messages'[j].input => i = j
    <3> SUFFICES ASSUME NEW i \in 1..(N + 1), NEW j \in 1..(N + 1),
                        messages'[i].input = messages'[j].input
                 PROVE  i = j
      OBVIOUS
    <3>1. CASE i \in 1..N /\ j \in 1..N
      BY <1>0, <1>2, <3>1 DEF InputInv, QueueHolds
    <3>2. ~(i \in 1..N /\ j = N + 1) /\ ~(i = N + 1 /\ j \in 1..N)
      BY <1>2, <1>4
    <3> QED
      BY <1>4, <3>1, <3>2
  <2>3. ASSUME NEW x \in Inputs, fate'[x] = "queued"
        PROVE  \E i \in 1..(N + 1) : messages'[i].input = x
    <3>1. CASE x = m
      BY <1>1, <1>2, <3>1
    <3>2. CASE x # m
      <4>1. PICK i \in 1..N : messages[i].input = x
        BY <1>0, <1>3, <2>3, <3>2 DEF InputInv, QueueHolds
      <4> QED
        BY <1>1, <1>2, <4>1
    <3> QED
      BY <3>1, <3>2
  <2> QED
    BY <1>2, <2>1, <2>2, <2>3 DEF QueueHolds
<1>6. StagedHolds'
  <2>1. \A x \in Inputs : fate'[x] = "staged" <=> fate[x] = "staged"
    BY <1>3
  <2> QED
    BY <2>1, TextsAreInputs DEF InputInv, StagedHolds
<1>7. FatesMove
  BY <1>3 DEF FatesMove
<1> QED
  BY <1>3, <1>5, <1>6, <1>7

LEMMA StageHolds ==
  ASSUME ActorTypeOK, InputInv, Extension
  PROVE  InputInv'
<1>1. PICK m \in Inputs, kind \in Kinds, saves \in BOOLEAN : StageAction(m, kind, saves)
  BY DEF Extension
<1>2. PICK N : N = Len(hostActions)
  OBVIOUS
<1>3. /\ hostActions \in Seq(Action) /\ N \in Nat
      /\ fate \in [Inputs -> Fates] /\ fate[m] = "new"
  BY <1>1, <1>2 DEF StageAction, ActorTypeOK, TypeOK
<1>4. /\ Len(hostActions') = N + 1
      /\ \A i \in 1..N : hostActions'[i] = hostActions[i]
      /\ hostActions'[N + 1].input = m
  BY <1>1, <1>2, <1>3 DEF StageAction
<1>5. /\ fate'[m] = "staged"
      /\ \A x \in Inputs : x # m => fate'[x] = fate[x]
  BY <1>1, <1>3 DEF StageAction
<1>6. /\ \A i \in 1..N : hostActions[i].input \in Inputs /\ hostActions[i].input # m
      /\ \A i \in 1..(N + 1) : i \in 1..N \/ i = N + 1
  <2>1. \A i \in 1..(N + 1) : i \in 1..N \/ i = N + 1
    BY <1>3
  <2>2. \A i \in 1..N : hostActions[i].input \in Inputs /\ fate[hostActions[i].input] = "staged"
    BY <1>2, TextsAreInputs DEF InputInv, StagedHolds
  <2> QED
    BY <1>3, <2>1, <2>2
<1>7. StagedHolds'
  <2>1. \A i \in 1..(N + 1) : fate'[hostActions'[i].input] = "staged"
    BY <1>2, <1>4, <1>5, <1>6 DEF InputInv, StagedHolds
  <2>2. \A i, j \in 1..(N + 1) : hostActions'[i].input = hostActions'[j].input => i = j
    <3> SUFFICES ASSUME NEW i \in 1..(N + 1), NEW j \in 1..(N + 1),
                        hostActions'[i].input = hostActions'[j].input
                 PROVE  i = j
      OBVIOUS
    <3>1. CASE i \in 1..N /\ j \in 1..N
      BY <1>2, <1>4, <3>1 DEF InputInv, StagedHolds
    <3>2. ~(i \in 1..N /\ j = N + 1) /\ ~(i = N + 1 /\ j \in 1..N)
      BY <1>4, <1>6
    <3> QED
      BY <1>6, <3>1, <3>2
  <2>3. ASSUME NEW x \in Inputs, fate'[x] = "staged"
        PROVE  \E i \in 1..(N + 1) : hostActions'[i].input = x
    <3>1. CASE x = m
      BY <1>3, <1>4, <3>1
    <3>2. CASE x # m
      <4>1. PICK i \in 1..N : hostActions[i].input = x
        BY <1>2, <1>5, <2>3, <3>2 DEF InputInv, StagedHolds
      <4> QED
        BY <1>3, <1>4, <4>1
    <3> QED
      BY <3>1, <3>2
  <2> QED
    BY <1>4, <2>1, <2>2, <2>3 DEF StagedHolds
<1>8. QueueHolds'
  <2>1. messages' = messages /\ \A x \in Inputs : fate'[x] = "queued" <=> fate[x] = "queued"
    BY <1>1, <1>3, <1>5 DEF StageAction, queueVars
  <2> QED
    BY <2>1, TextsAreInputs DEF InputInv, QueueHolds
<1>9. Steady
  <2>1. FatesMove
    BY <1>3, <1>5 DEF FatesMove
  <2>2. UNCHANGED <<store, input, turn, run, commands, actor, serving, reply, closed, at, result>>
    BY <1>1 DEF Extension, StageAction, actorVars, queueVars, methodVars, localVars
  <2> QED
    BY <2>1, <2>2 DEF Steady, HoldsInput, AtInputHook
<1> QED
  BY <1>7, <1>8, <1>9, SteadyHolds

(* What is in the channel is untouched by new texts and by other commands.     *)
LEMMA ChannelKept ==
  ASSUME ActorTypeOK, InputInv, UNCHANGED <<at, actor, serving, input>>,
         \/ commands' = commands
         \/ \E c \in Command : c.op # "prompt" /\ commands' = Append(commands, c),
         \A m \in Inputs : fate[m] # "new" => fate'[m] = fate[m] /\ reply'[m] = reply[m]
  PROVE  ChannelHolds'
<1>0. PICK N : N = Len(commands)
  OBVIOUS
<1>1. commands \in Seq(Command) /\ N \in Nat
  BY <1>0 DEF ActorTypeOK
<1>2. \A i \in Prompts' : i \in Prompts /\ commands'[i] = commands[i]
  <2>1. CASE commands' = commands
    BY <2>1 DEF Prompts
  <2>2. ASSUME NEW c \in Command, c.op # "prompt", commands' = Append(commands, c)
        PROVE  \A i \in Prompts' : i \in Prompts /\ commands'[i] = commands[i]
    <3>1. /\ Len(commands') = N + 1
          /\ \A i \in 1..N : commands'[i] = commands[i]
          /\ commands'[N + 1] = c
      BY <1>0, <1>1, <2>2
    <3>2. \A i \in 1..(N + 1) : i \in 1..N \/ i = N + 1
      BY <1>1
    <3> QED
      BY <1>0, <2>2, <3>1, <3>2 DEF Prompts
  <2> QED
    BY <2>1, <2>2
<1>3. \A i \in Prompts' : /\ fate'[commands'[i].caller] = "sent"
                          /\ reply'[commands'[i].caller] = "waiting"
                          /\ commands'[i].caller # serving'
  BY <1>2, TextsAreInputs DEF InputInv, ChannelHolds
<1>4. \A i, j \in Prompts' : commands'[i].caller = commands'[j].caller => i = j
  BY <1>2 DEF InputInv, ChannelHolds
<1> QED
  BY <1>3, <1>4 DEF InputInv, ChannelHolds

LEMMA PromptHolds ==
  ASSUME ActorTypeOK, InputInv, NEW m \in Inputs, Prompt(m)
  PROVE  InputInv'
<1>1. /\ fate[m] = "new" /\ fate \in [Inputs -> Fates] /\ reply \in [Callers -> Replies]
      /\ m \in Callers /\ commands \in Seq(Command)
      /\ UNCHANGED <<messages, hostActions, store, closed, input, run, turn, at, result, actor,
                     serving>>
  BY DEF Prompt, ActorTypeOK, TypeOK, Callers, queueVars, methodVars, localVars
<1>2. /\ fate'[m] \in {"sent", "refused"}
      /\ \A x \in Inputs : x # m => fate'[x] = fate[x] /\ reply'[x] = reply[x]
  BY <1>1 DEF Prompt, Send, Callers
<1>3. QueueHolds' /\ StagedHolds'
  BY <1>1, <1>2, QueueUntouched
<1>4. serving # m
  BY <1>1 DEF InputInv, ChannelHolds
<1>5. ChannelHolds'
  <2>1. CASE actor # "running"
    BY <1>1, <1>2, <2>1, ChannelKept DEF Prompt, Send
  <2>2. CASE actor = "running"
    <3>0. PICK N : N = Len(commands)
      OBVIOUS
    <3>1. /\ commands' = Append(commands, [op |-> "prompt", caller |-> m])
          /\ reply'[m] = "waiting" /\ fate'[m] = "sent"
      BY <1>1, <2>2 DEF Prompt, Send
    <3>2. /\ N \in Nat /\ Len(commands') = N + 1
          /\ \A i \in 1..N : commands'[i] = commands[i]
          /\ commands'[N + 1].caller = m
      BY <1>1, <3>0, <3>1
    <3>3. \A i \in Prompts' : i = N + 1 \/ (i \in Prompts /\ i \in 1..N)
      <4>1. \A i \in 1..(N + 1) : i \in 1..N \/ i = N + 1
        BY <3>2
      <4> QED
        BY <3>0, <3>2, <4>1 DEF Prompts
    <3>4. \A i \in Prompts : /\ commands[i].caller \in Inputs /\ commands[i].caller # m
                             /\ fate[commands[i].caller] = "sent"
                             /\ reply[commands[i].caller] = "waiting"
                             /\ commands[i].caller # serving
      BY <1>1, TextsAreInputs DEF InputInv, ChannelHolds
    <3>5. \A i \in Prompts' : /\ fate'[commands'[i].caller] = "sent"
                              /\ reply'[commands'[i].caller] = "waiting"
                              /\ commands'[i].caller # serving'
      <4> SUFFICES ASSUME NEW i \in Prompts'
                   PROVE  /\ fate'[commands'[i].caller] = "sent"
                          /\ reply'[commands'[i].caller] = "waiting"
                          /\ commands'[i].caller # serving'
        OBVIOUS
      <4>1. CASE i = N + 1
        BY <1>1, <1>4, <3>1, <3>2, <4>1
      <4>2. CASE i \in Prompts /\ i \in 1..N
        BY <1>1, <1>2, <3>2, <3>4, <4>2
      <4> QED
        BY <3>3, <4>1, <4>2
    <3>6. \A i, j \in Prompts' : commands'[i].caller = commands'[j].caller => i = j
      <4> SUFFICES ASSUME NEW i \in Prompts', NEW j \in Prompts',
                          commands'[i].caller = commands'[j].caller
                   PROVE  i = j
        OBVIOUS
      <4>1. CASE i \in Prompts /\ j \in Prompts /\ i \in 1..N /\ j \in 1..N
        BY <3>2, <4>1 DEF InputInv, ChannelHolds
      <4> QED
        BY <3>2, <3>3, <3>4, <4>1
    <3> QED
      BY <1>1, <1>2, <1>4, <3>5, <3>6 DEF InputInv, ChannelHolds
  <2> QED
    BY <2>1, <2>2
<1>6. /\ HoldsInput' <=> HoldsInput
      /\ AtInputHook' <=> AtInputHook
  BY <1>1 DEF HoldsInput, AtInputHook
<1>7. AtInputHook => input # m
  BY <1>1 DEF InputInv, HandHolds
<1> QED
  BY <1>1, <1>2, <1>3, <1>5, <1>6, <1>7, OutsideHolds

LEMMA EnqueueHolds ==
  ASSUME ActorTypeOK, InputInv, NEW m \in Inputs, NEW kind \in Kinds, Enqueue(m, kind)
  PROVE  InputInv'
<1>1. /\ fate[m] = "new" /\ fate \in [Inputs -> Fates] /\ reply \in [Callers -> Replies]
      /\ m \in Callers
      /\ UNCHANGED <<hostActions, store, closed, input, run, turn, at, result, actor, serving>>
  BY DEF Enqueue, ActorTypeOK, TypeOK, Callers, methodVars, localVars
<1>2. /\ fate'[m] \in {"queued", "refused"}
      /\ \A x \in Inputs : x # m => fate'[x] = fate[x] /\ reply'[x] = reply[x]
  BY <1>1 DEF Enqueue, Callers
<1>3. QueueHolds' /\ StagedHolds'
  <2>1. CASE messages' = messages /\ fate' = [fate EXCEPT ![m] = "refused"]
    BY <1>1, <1>2, <2>1, QueueUntouched
  <2>2. CASE /\ messages' = Append(messages, [kind |-> kind, input |-> m])
             /\ fate' = [fate EXCEPT ![m] = "queued"]
    BY <1>1, <2>2, AppendHolds
  <2> QED
    BY <2>1, <2>2 DEF Enqueue
<1>4. ChannelHolds'
  <2>1. \/ commands' = commands
        \/ commands' = Append(commands, [op |-> "wake", caller |-> Nobody])
    BY DEF Enqueue
  <2>2. /\ [op |-> "wake", caller |-> Nobody] \in Command
        /\ [op |-> "wake", caller |-> Nobody].op # "prompt"
    BY DEF Command
  <2>3. \/ commands' = commands
        \/ \E c \in Command : c.op # "prompt" /\ commands' = Append(commands, c)
    BY <2>1, <2>2
  <2> QED
    BY <1>1, <1>2, <2>3, ChannelKept
<1>5. /\ HoldsInput' <=> HoldsInput
      /\ AtInputHook' <=> AtInputHook
  BY <1>1 DEF HoldsInput, AtInputHook
<1>6. AtInputHook => input # m
  BY <1>1 DEF InputInv, HandHolds
<1> QED
  BY <1>1, <1>2, <1>3, <1>4, <1>5, <1>6, OutsideHolds

LEMMA ClientHolds ==
  ASSUME ActorTypeOK, InputInv, Client
  PROVE  InputInv'
<1>1. ASSUME NEW m \in Inputs, Prompt(m) PROVE InputInv'
  BY <1>1, PromptHolds
<1>2. ASSUME NEW m \in Inputs, Enqueue(m, "steer") \/ Enqueue(m, "followUp") PROVE InputInv'
  BY <1>2, EnqueueHolds DEF Kinds
<1>3. CASE Abort
  <2>1. UNCHANGED <<messages, hostActions, fate, store, input, turn, run, commands, actor, serving,
                    reply, closed, at, result>>
    BY <1>3 DEF Abort, actorVars, queueVars, methodVars, localVars
  <2>2. QueueHolds' /\ StagedHolds'
    BY <2>1, QueueUntouched
  <2>3. Steady
    BY <2>1 DEF Steady, FatesMove, HoldsInput, AtInputHook
  <2> QED
    BY <2>2, <2>3, SteadyHolds
<1>4. ASSUME NEW c \in Closers, AskClose(c) PROVE InputInv'
  <2>1. UNCHANGED <<messages, hostActions, fate, store, input, turn, run, actor, serving, closed,
                    at, result>>
    BY <1>4 DEF AskClose, queueVars, methodVars, localVars
  <2>2. QueueHolds' /\ StagedHolds'
    BY <2>1, QueueUntouched
  <2>3. \A x \in Inputs : reply'[x] = reply[x]
    BY <1>4, SessionActorAssumption DEF AskClose, Send, ActorTypeOK, Callers
  <2>4. ChannelHolds'
    <3>1. /\ [op |-> "close", caller |-> c] \in Command
          /\ [op |-> "close", caller |-> c].op # "prompt"
      BY DEF Command
    <3>2. commands' = commands \/ commands' = Append(commands, [op |-> "close", caller |-> c])
      BY <1>4 DEF AskClose, Send
    <3>3. \/ commands' = commands
          \/ \E d \in Command : d.op # "prompt" /\ commands' = Append(commands, d)
      BY <3>1, <3>2
    <3> QED
      BY <2>1, <2>3, <3>3, ChannelKept
  <2>5. /\ HoldsInput' <=> HoldsInput
        /\ AtInputHook' <=> AtInputHook
    BY <2>1 DEF HoldsInput, AtInputHook
  <2> QED
    BY <2>1, <2>2, <2>3, <2>4, <2>5, OutsideHolds
<1> QED
  BY <1>1, <1>2, <1>3, <1>4 DEF Client

(* The actor answers, and a close refuses what is left in the channel.        *)
LEMMA RespondHolds ==
  ASSUME ActorTypeOK, InputInv, Respond
  PROVE  InputInv'
<1>1. /\ at = "return" /\ at' = "idle" /\ actor = "running" /\ serving' = Nobody
      /\ UNCHANGED <<messages, hostActions, store, closed, input, run, turn>>
  BY DEF Respond, queueVars, localVars
<1>2. /\ ~HoldsInput /\ ~HoldsInput' /\ ~AtInputHook /\ ~AtInputHook'
      /\ NoInput \notin Inputs /\ Nobody \notin Inputs
  BY <1>1, SessionAssumption DEF HoldsInput, AtInputHook, Nobody
<1>3. /\ reply \in [Callers -> Replies] /\ fate \in [Inputs -> Fates]
      /\ \A m \in Inputs : m \in Callers
  BY DEF ActorTypeOK, TypeOK, Callers
<1>4. \A m \in Abandoned(commands) \cap Inputs : fate[m] = "sent"
  <2> SUFFICES ASSUME NEW m \in Inputs, m \in Abandoned(commands) PROVE fate[m] = "sent"
    OBVIOUS
  <2>1. PICK i \in 1..Len(commands) : m = commands[i].caller
    BY DEF Abandoned
  <2>2. commands[i] \in Command
    BY DEF ActorTypeOK
  <2>3. i \in Prompts
    BY <1>2, <2>1, <2>2, SessionActorAssumption DEF Command, Prompts
  <2> QED
    BY <2>1, <2>3 DEF InputInv, ChannelHolds
<1>5. \A m \in Inputs : fate'[m] = fate[m] \/ (fate[m] = "sent" /\ fate'[m] = "refused")
  BY <1>3, <1>4 DEF Respond
<1>6. QueueHolds' /\ StagedHolds'
  BY <1>1, <1>5, QueueUntouched
<1>7. ChannelHolds'
  <2>1. CASE op = "close"
    <3>1. commands' = <<>>
      BY <2>1 DEF Respond
    <3> QED
      BY <1>1, <1>2, <3>1 DEF ChannelHolds, Prompts
  <2>2. CASE op # "close"
    <3>1. /\ commands' = commands /\ fate' = fate
          /\ \A m \in Inputs : m # serving => reply'[m] = reply[m]
      BY <1>3, <2>2 DEF Respond
    <3>2. Prompts' = Prompts
      BY <3>1 DEF Prompts
    <3> QED
      BY <1>1, <1>2, <3>1, <3>2, TextsAreInputs DEF InputInv, ChannelHolds
  <2> QED
    BY <2>1, <2>2
<1>8. \A m \in Inputs : /\ serving = m => reply'[m] = result
                        /\ serving # m /\ reply[m] = "error" => reply'[m] = "error"
  BY <1>3 DEF Respond
<1>9. \A m \in Inputs : serving = m => reply[m] # "error"
  BY DEF InputInv, ChannelHolds
<1>10. \A m \in Inputs : fate[m] = "prompted" /\ serving = m => Answered(m) \/ result = "error"
  <2> SUFFICES ASSUME NEW m \in Inputs, fate[m] = "prompted", serving = m, ~Answered(m)
               PROVE  result = "error"
    OBVIOUS
  <2>1. reply[m] # "error"
    BY <1>9
  <2>2. input # m
    BY <1>2 DEF InputInv, HandHolds
  <2>3. ~Underway(m)
    BY <1>1, <2>2 DEF Underway, BeforeAnswer
  <2> QED
    BY <2>1, <2>3 DEF InputInv, PromptsHold
<1>11. \A m \in Inputs : fate[m] = "prompted" => (reply[m] = "error" => reply'[m] = "error")
                                                 \/ Answered(m)
  BY <1>8, <1>9
<1>12. /\ at \in BeforeAnswer => at' \in BeforeAnswer
       /\ at' = "steer" => at = "steer"
  BY <1>1 DEF BeforeAnswer
<1>13. \A m \in Inputs : fate[m] = "prompted" /\ serving = m => Answered(m) \/ reply'[m] = "error"
  BY <1>8, <1>10
<1> QED
  BY <1>1, <1>2, <1>5, <1>6, <1>7, <1>11, <1>12, <1>13, OutsideHolds

LEMMA AttachHolds ==
  ASSUME ActorTypeOK, InputInv, Attach
  PROVE  InputInv'
<1>1. /\ at = "return" /\ at' = "idle" /\ actor = "detached"
      /\ UNCHANGED <<messages, hostActions, store, closed, input, run, turn, fate, commands,
                     serving, reply>>
  BY DEF Attach, queueVars, localVars
<1>2. /\ ~HoldsInput /\ ~HoldsInput' /\ ~AtInputHook /\ ~AtInputHook'
      /\ serving = Nobody /\ Nobody \notin Inputs
  BY <1>1, SessionAssumption DEF HoldsInput, AtInputHook, Nobody, InputInv, ChannelHolds
<1>3. QueueHolds' /\ StagedHolds'
  BY <1>1, QueueUntouched
<1>4. ChannelHolds'
  BY <1>1, <1>2 DEF InputInv, ChannelHolds, Prompts
<1>5. /\ at \in BeforeAnswer => at' \in BeforeAnswer
      /\ at' = "steer" => at = "steer"
  BY <1>1 DEF BeforeAnswer
<1> QED
  BY <1>1, <1>2, <1>3, <1>4, <1>5, OutsideHolds

(* The steps of the session that only emit, or do not even that.              *)
LEMMA EmitStepHolds ==
  ASSUME ActorTypeOK, InputInv, UNCHANGED actorVars,
         \/ ResumePending \/ InputHookFails \/ BeforeAgentStart \/ TurnStart \/ AskProvider
         \/ StreamDelta \/ ToolStart \/ TurnEnd \/ Settle
  PROVE  InputInv'
<1> USE DEF actorVars
<1>1. QueueHolds' /\ StagedHolds' /\ FatesMove
  <2>1. \E events : EmitThen(events, <<>>)
    BY DEF ResumePending, InputHookFails, BeforeAgentStart, TurnStart, AskProvider, StreamDelta,
           ToolStart, TurnEnd, Settle, Emit
  <2> QED
    BY <2>1, EmitHolds DEF InputInv, ActorTypeOK
<1>2. UNCHANGED <<store, input, run, closed>> /\ turn \in Nat
  BY DEF ResumePending, InputHookFails, BeforeAgentStart, TurnStart, AskProvider, StreamDelta,
         ToolStart, TurnEnd, Settle, localVars, methodVars, ActorTypeOK, TypeOK
<1>3. /\ HoldsInput' <=> HoldsInput
      /\ AtInputHook' <=> AtInputHook
      /\ at # "return" /\ at' \notin {"idle", "steer"}
      /\ at \in BeforeAnswer => at' \in BeforeAnswer
  <2> USE DEF HoldsInput, AtInputHook, BeforeAnswer
  <2>1. CASE ResumePending
    BY <2>1 DEF ResumePending
  <2>2. CASE InputHookFails
    BY <2>2 DEF InputHookFails
  <2>3. CASE BeforeAgentStart
    BY <2>3 DEF BeforeAgentStart
  <2>4. CASE TurnStart
    BY <2>4 DEF TurnStart, localVars
  <2>5. CASE AskProvider
    BY <2>5 DEF AskProvider
  <2>6. CASE StreamDelta
    BY <2>6 DEF StreamDelta, methodVars
  <2>7. CASE ToolStart
    BY <2>7 DEF ToolStart
  <2>8. CASE TurnEnd
    BY <1>2, <2>8 DEF TurnEnd
  <2>9. CASE Settle
    BY <2>9 DEF Settle
  <2> QED
    BY <2>1, <2>2, <2>3, <2>4, <2>5, <2>6, <2>7, <2>8, <2>9
<1>4. Steady
  BY <1>1, <1>2, <1>3 DEF Steady
<1> QED
  BY <1>1, <1>4, SteadyHolds

LEMMA SilentStepHolds ==
  ASSUME ActorTypeOK, InputInv, UNCHANGED actorVars,
         \/ DrainDone \/ FinishClose \/ ProviderEnds \/ ProviderCancelled
         \/ ToolReturns \/ ToolCancelled
  PROVE  InputInv'
<1> USE DEF actorVars
<1>1. /\ UNCHANGED <<store, input, turn, run, messages, hostActions, fate>>
      /\ closed => closed'
      /\ at # "return" /\ at' \in {"return", "assistant", "result"}
      /\ at \in {"drain", "drop", "provider", "call"}
      /\ at = "provider" => at' = "assistant"
  BY DEF DrainDone, FinishClose, ProviderEnds, ProviderCancelled, EndStream, ToolReturns,
         ToolCancelled, EndCall, Return, queueVars, localVars
<1>2. QueueHolds' /\ StagedHolds'
  BY <1>1, QueueUntouched
<1>3. Steady
  BY <1>1 DEF Steady, FatesMove, HoldsInput, AtInputHook, BeforeAnswer
<1> QED
  BY <1>2, <1>3, SteadyHolds

LEMMA StoringStepHolds ==
  ASSUME ActorTypeOK, InputInv, UNCHANGED actorVars,
         UserMessage \/ InjectedMessage \/ AssistantMessage \/ ToolResult \/ SteerMessage
  PROVE  InputInv'
<1> USE DEF actorVars
<1>1. /\ <<"MessageStart">> \in Seq(Events) /\ <<"ToolEnd", "MessageStart">> \in Seq(Events)
      /\ <<>> \in Seq(Events)
  BY EventLists DEF Events
<1>2. NoInput \notin Inputs /\ {"user", "assistant", "result"} \subseteq Roles
  BY SessionAssumption DEF Roles
<1>3. /\ run' = run
      /\ at \in {"user", "injected", "assistant", "result", "steer"}
      /\ at \notin {"idle", "return"} /\ ~AtInputHook
      /\ HoldsInput <=> at \in {"user", "steer"}
  BY DEF UserMessage, InjectedMessage, AssistantMessage, ToolResult, SteerMessage, HoldsInput,
         AtInputHook
<1>4. HoldsInput => input \in Inputs
  BY DEF ActorTypeOK, TypeOK
<1>5. CASE UserMessage
  <2>1. at = "user" /\ Persist("user", input, <<"MessageStart">>, "injected")
    BY <1>5 DEF UserMessage
  <2> QED
    BY <1>1, <1>2, <1>3, <1>4, <2>1, PersistHolds DEF BeforeAnswer
<1>6. CASE SteerMessage
  <2>1. at = "steer" /\ Persist("user", input, <<"MessageStart">>, "tools")
    BY <1>6 DEF SteerMessage
  <2> QED
    BY <1>1, <1>2, <1>3, <1>4, <2>1, PersistHolds DEF BeforeAnswer
<1>7. CASE InjectedMessage
  <2>1. at = "injected" /\ Persist("user", NoInput, <<"MessageStart">>, "context")
    BY <1>7 DEF InjectedMessage
  <2> QED
    BY <1>1, <1>2, <1>3, <2>1, PersistHolds DEF BeforeAnswer
<1>8. CASE AssistantMessage
  <2>1. at = "assistant" /\ Persist("assistant", calls', <<>>, "tools")
    BY <1>8 DEF AssistantMessage
  <2>2. calls' \in Nat
    BY <1>8, SessionAssumption DEF AssistantMessage, ActorTypeOK, TypeOK
  <2>3. PICK body \in Nat : body = calls'
    BY <2>2
  <2>4. Persist("assistant", body, <<>>, "tools")
    BY <2>1, <2>3
  <2> QED
    BY <1>1, <1>2, <1>3, <2>1, <2>4, PersistHolds
<1>9. CASE ToolResult
  <2>1. at = "result" /\ Persist("result", next, <<"ToolEnd", "MessageStart">>, "queued")
    BY <1>9 DEF ToolResult
  <2>2. next \in Nat
    BY DEF ActorTypeOK, TypeOK
  <2> QED
    BY <1>1, <1>2, <1>3, <2>1, <2>2, PersistHolds DEF BeforeAnswer
<1> QED
  BY <1>5, <1>6, <1>7, <1>8, <1>9

(* Every step the session makes on its own.                                  *)
LEMMA WorkHolds ==
  ASSUME ActorTypeOK, InputInv, Work
  PROVE  InputInv'
<1>1. UNCHANGED actorVars
  BY DEF Work
<1>2. CASE \/ ResumePending \/ InputHookFails \/ BeforeAgentStart \/ TurnStart \/ AskProvider
           \/ StreamDelta \/ ToolStart \/ TurnEnd \/ Settle
  BY <1>1, <1>2, EmitStepHolds
<1>3. CASE \/ DrainDone \/ FinishClose \/ ProviderEnds \/ ProviderCancelled
           \/ ToolReturns \/ ToolCancelled
  BY <1>1, <1>3, SilentStepHolds
<1>4. CASE UserMessage \/ InjectedMessage \/ AssistantMessage \/ ToolResult \/ SteerMessage
  BY <1>1, <1>4, StoringStepHolds
<1>5. CASE InputAccepted
  BY <1>1, <1>5, AcceptedHolds
<1>6. CASE ResumeGoal
  <2>1. /\ UNCHANGED <<store, input, run, closed, hostActions>>
        /\ at = "goal" /\ at' = "drain"
    BY <1>6 DEF ResumeGoal, localVars
  <2>2. QueueHolds' /\ StagedHolds' /\ FatesMove
    <3>1. CASE UNCHANGED <<messages, fate>>
      BY <2>1, <3>1, QueueUntouched DEF FatesMove
    <3>2. ASSUME NEW m \in Inputs, fate[m] = "new",
                 messages' = Append(messages, [kind |-> "followUp", input |-> m]),
                 fate' = [fate EXCEPT ![m] = "queued"]
          PROVE  QueueHolds' /\ StagedHolds' /\ FatesMove
      <4>1. "followUp" \in Kinds
        BY DEF Kinds
      <4> QED
        BY <2>1, <3>2, <4>1, AppendHolds
    <3> QED
      BY <1>6, <3>1, <3>2 DEF ResumeGoal
  <2>3. Steady
    BY <1>1, <2>1, <2>2 DEF Steady, HoldsInput, AtInputHook, BeforeAnswer, actorVars
  <2> QED
    BY <2>2, <2>3, SteadyHolds
<1>7. CASE InputHandled \/ InputCommand
  <2>1. /\ AtInputHook /\ input \in Inputs /\ fate[input] = "sent"
        /\ fate \in [Inputs -> Fates]
    BY <1>7 DEF InputHandled, InputCommand, AtInputHook, HoldsInput, InputInv, HandHolds,
                ActorTypeOK, TypeOK
  <2>2. /\ input' = NoInput /\ at' \in {"drain", "return"}
        /\ UNCHANGED <<closed, store>>
    BY <1>7 DEF InputHandled, InputCommand, Return, queueVars
  <2>3. CASE /\ fate' = [fate EXCEPT ![input] = "handled"]
             /\ UNCHANGED <<messages, hostActions>>
    <3>1. QueueHolds' /\ StagedHolds'
      BY <2>1, <2>3, QueueUntouched
    <3> QED
      BY <1>1, <2>1, <2>2, <2>3, <3>1, HandledHolds DEF actorVars
  <2>4. ASSUME NEW k \in AppliedCounts, ApplyActions(k, [fate EXCEPT ![input] = "handled"])
        PROVE  InputInv'
    <3>1. PICK fates \in [Inputs -> Fates] : fates = [fate EXCEPT ![input] = "handled"]
      BY <2>1 DEF Fates
    <3>2. /\ fates[input] = "handled"
          /\ \A m \in Inputs : m # input => fates[m] = fate[m]
      BY <2>1, <3>1
    <3>3. ApplyActions(k, fates)
      BY <2>4, <3>1
    <3>4. /\ QueueHolds' /\ StagedHolds'
          /\ \A m \in Inputs :
               \/ fate'[m] = fates[m]
               \/ fates[m] = "staged" /\ fate'[m] \in {"queued", "dropped"}
      BY <2>1, <3>2, <3>3, ApplyActionsHolds DEF InputInv, ActorTypeOK
    <3>5. /\ fate'[input] = "handled"
          /\ \A m \in Inputs : m # input =>
               \/ fate'[m] = fate[m]
               \/ fate[m] = "staged" /\ fate'[m] \in {"queued", "dropped"}
      BY <2>1, <3>2, <3>4
    <3> QED
      BY <1>1, <2>1, <2>2, <3>4, <3>5, HandledHolds DEF actorVars
  <2> QED
    BY <1>7, <2>3, <2>4 DEF InputHandled, InputCommand, queueVars
<1>8. CASE DrainNext
  <2>1. PICK i \in 1..Len(messages) : Pop(DrainKind, i) /\ StartRun(messages[i].input)
    BY <1>8 DEF DrainNext
  <2>2. /\ at = "drain" /\ at' = "before" /\ input' = messages[i].input
        /\ UNCHANGED <<closed, hostActions, store>>
    BY <1>8, <2>1 DEF DrainNext, StartRun
  <2> QED
    BY <1>1, <2>1, <2>2, TakenHolds DEF actorVars
<1>9. CASE PopSteer
  <2>1. at = "queued" /\ UNCHANGED <<closed, hostActions, store, run>>
    BY <1>9 DEF PopSteer
  <2>2. ASSUME NEW i \in 1..Len(messages), Pop("steer", i), input' = messages[i].input,
               at' = "steer"
        PROVE  InputInv'
    BY <1>1, <2>1, <2>2, TakenHolds DEF actorVars
  <2>3. CASE at' = "tools" /\ UNCHANGED <<messages, input, fate>>
    <3>1. QueueHolds' /\ StagedHolds'
      BY <2>1, <2>3, QueueUntouched
    <3>2. Steady
      BY <1>1, <2>1, <2>3 DEF Steady, FatesMove, HoldsInput, AtInputHook, BeforeAnswer, actorVars
    <3> QED
      BY <3>1, <3>2, SteadyHolds
  <2> QED
    BY <1>9, <2>2, <2>3 DEF PopSteer
<1> QED
  BY <1>2, <1>3, <1>4, <1>5, <1>6, <1>7, <1>8, <1>9 DEF Work, Advance, Provider

LEMMA NextHolds == ActorTypeOK /\ InputInv /\ [Next]_vars => InputInv'
<1> SUFFICES ASSUME ActorTypeOK, InputInv, [Next]_vars PROVE InputInv'
  OBVIOUS
<1>1. CASE UNCHANGED vars
  <2>1. QueueHolds' /\ StagedHolds'
    BY <1>1 DEF vars, sessionVars, queueVars, InputInv, QueueHolds, StagedHolds
  <2>2. Steady
    BY <1>1 DEF vars, sessionVars, queueVars, methodVars, localVars, actorVars, Steady, FatesMove,
                HoldsInput, AtInputHook
  <2> QED
    BY <2>1, <2>2, SteadyHolds
<1> QED
  BY <1>1, ClientHolds, StageHolds, ReceiveHolds, RespondHolds, AttachHolds, WorkHolds DEF Next

LEMMA InitHolds == ActorInit => InputInv
<1> SUFFICES ASSUME ActorInit PROVE InputInv
  OBVIOUS
<1>1. /\ messages = <<>> /\ hostActions = <<>> /\ store = <<>> /\ commands = <<>>
      /\ input = NoInput /\ serving = NoInput /\ at \in {"resume", "idle"}
      /\ \A m \in Inputs : fate[m] = "new"
      /\ NoInput \notin Inputs
  BY SessionAssumption DEF ActorInit, Init, Nobody
<1>2. QueueHolds /\ StagedHolds
  BY <1>1 DEF QueueHolds, StagedHolds
<1>3. ChannelHolds /\ HandHolds
  BY <1>1 DEF ChannelHolds, HandHolds, Prompts, AtInputHook, HoldsInput, Nobody
<1>4. StoreHolds /\ PromptsHold
  BY <1>1 DEF StoreHolds, PromptsHold
<1> QED
  BY <1>2, <1>3, <1>4 DEF InputInv

(* A set whose members are all equal has one of them at most.                  *)
LEMMA AtMostOne ==
  ASSUME NEW S, \A x, y \in S : x = y
  PROVE  S # {} => Cardinality(S) = 1
<1> SUFFICES ASSUME NEW x \in S PROVE Cardinality(S) = 1
  OBVIOUS
<1>1. S = {x}
  OBVIOUS
<1> QED
  BY <1>1, FS_Singleton

(* In every behaviour each text is where its fate says it is, once; and a      *)
(* prompt that a client was told is done is answered in the store.           *)
THEOREM InputsAccounted == Spec => []InputsAreAccountedFor
<1>1. ActorTypeOK /\ InputInv => InputsAreAccountedFor
  <2> SUFFICES ASSUME ActorTypeOK, InputInv PROVE InputsAreAccountedFor
    OBVIOUS
  <2>1. AcceptedInputsAreKept
    <3> SUFFICES ASSUME NEW m \in Inputs
                 PROVE  /\ Cardinality(Copies(m)) = (IF fate[m] = "queued" THEN 1 ELSE 0)
                        /\ fate[m] \in {"taken", "prompted"} =>
                              \/ Cardinality(UserMsgs(m)) = 1
                              \/ UserMsgs(m) = {} /\ (input = m \/ closed)
                        /\ fate[m] \notin {"taken", "prompted"} => UserMsgs(m) = {}
      BY DEF AcceptedInputsAreKept
    <3>1. fate[m] = "queued" => Copies(m) # {} /\ \A i, j \in Copies(m) : i = j
      BY DEF InputInv, QueueHolds, Copies
    <3>2. fate[m] # "queued" => Copies(m) = {}
      BY DEF InputInv, QueueHolds, Copies
    <3>3. Cardinality(Copies(m)) = (IF fate[m] = "queued" THEN 1 ELSE 0)
      <4>1. CASE fate[m] = "queued"
        BY <3>1, <4>1, AtMostOne
      <4>2. CASE fate[m] # "queued"
        BY <3>2, <4>2, FS_EmptySet
      <4> QED
        BY <4>1, <4>2
    <3>4. /\ UserMsgs(m) # {} => fate[m] \in {"taken", "prompted"}
          /\ \A i, j \in UserMsgs(m) : i = j
      BY DEF InputInv, StoreHolds, IsUserMsg, UserMsgs
    <3>5. fate[m] \in {"taken", "prompted"} => UserMsgs(m) # {} \/ input = m \/ closed
      BY DEF InputInv, StoreHolds
    <3> QED
      BY <3>3, <3>4, <3>5, AtMostOne
  <2>2. OkPromptsWereAnswered
    <3> SUFFICES ASSUME NEW m \in Inputs, reply[m] = "ok", fate[m] = "prompted"
                 PROVE  Answered(m)
      BY DEF OkPromptsWereAnswered, Answered
    <3> QED
      BY DEF InputInv, PromptsHold, ChannelHolds
  <2> QED
    BY <2>1, <2>2 DEF InputsAreAccountedFor
<1> QED
  BY <1>1, InitHolds, NextHolds, TypeCorrect, PTL DEF Spec

(* An emit that drops what was staged publishes a hook error: by the invariant   *)
(* every staged text is among the host actions, so that only apply_actions's    *)
(* early return can drop one.                                                *)
LEMMA EmitReports ==
  ASSUME ActorTypeOK, InputInv, NEW events \in Seq(Events), NEW direct \in Seq(Events),
         EmitThen(events, direct),
         NEW m \in Inputs, fate[m] = "staged", fate'[m] = "dropped"
  PROVE  \E i \in 1..Len(published') : published'[i] = "HookError"
<1>1. ~shutdown
  BY DEF EmitThen
<1>2. PICK k \in AppliedCounts, reports \in HookReports :
        /\ ApplyActions(k, fate)
        /\ published' = reports \o events
               \o (IF k < Len(hostActions) THEN <<"HookError">> ELSE <<>>) \o direct
  BY <1>1 DEF EmitThen
<1>3. k < Len(hostActions)
  <2>1. fate \in [Inputs -> Fates] /\ TypeOK
    BY DEF ActorTypeOK, TypeOK
  <2> QED
    BY <1>2, <2>1, ApplyActionsHolds DEF InputInv
<1>4. published' = reports \o events \o <<"HookError">> \o direct
  BY <1>2, <1>3
<1>5. reports \in Seq(Events) /\ <<"HookError">> \in Seq(Events)
  <2>1. reports = <<>> \/ reports = <<"HookError">>
    BY Zenon DEF HookReports
  <2>2. <<>> \in Seq(Events) /\ <<"HookError">> \in Seq(Events)
    BY EventLists DEF Events
  <2> QED
    BY <2>1, <2>2
<1>6. PICK p \in Seq(Events) : p = reports \o events
  BY <1>5, ConcatProperties
<1>7. published' = (p \o <<"HookError">>) \o direct
  BY <1>4, <1>6
<1>8. /\ p \o <<"HookError">> \in Seq(Events)
      /\ Len(p \o <<"HookError">>) = Len(p) + 1
      /\ (p \o <<"HookError">>)[Len(p) + 1] = "HookError"
  BY <1>5
<1>9. /\ Len(p) + 1 \in 1..Len(published')
      /\ published'[Len(p) + 1] = "HookError"
  BY <1>7, <1>8, ConcatProperties
<1> QED
  BY <1>9

(* What a step of the session's own does to the texts: it drops none, or it is   *)
(* an emit, or an extension's command.                                       *)
Spares == \A m \in Inputs : fate'[m] = "dropped" => fate[m] = "dropped"
Emits  == \E events, direct \in Seq(Events) : EmitThen(events, direct)

LEMMA StepsDrop ==
  ASSUME ActorTypeOK, InputInv, [Next]_vars
  PROVE  Spares \/ Emits \/ InputCommand
<1>1. /\ \A e \in Events : <<e>> \in Seq(Events)
      /\ \A e, f \in Events : <<e, f>> \in Seq(Events)
      /\ <<>> \in Seq(Events) /\ FatalEvents \in Seq(Events)
  BY EventLists DEF FatalEvents, Events
<1>2. \A events \in Seq(Events) : Emit(events) => Emits
  BY <1>1 DEF Emit, Emits
<1>3. ASSUME NEW role, NEW body, NEW events \in Seq(Events), NEW continue,
             Persist(role, body, events, continue)
      PROVE  Emits
  <2>1. events \o <<"MessageEnd">> \in Seq(Events)
    BY DEF Events
  <2> QED
    BY <1>1, <1>2, <1>3, <2>1 DEF Persist, Emits
<1>4. fate \in [Inputs -> Fates]
  BY DEF ActorTypeOK, TypeOK
<1>5. /\ <<"SessionStart">> \in Seq(Events) /\ <<"AgentStart">> \in Seq(Events)
      /\ <<"TurnStart">> \in Seq(Events) /\ <<"MessageStart">> \in Seq(Events)
      /\ <<"MessageUpdate">> \in Seq(Events) /\ <<"HookError">> \in Seq(Events)
      /\ <<"ToolStart">> \in Seq(Events) /\ <<"TurnEnd">> \in Seq(Events)
      /\ <<"AgentEnd", "AgentSettled">> \in Seq(Events)
      /\ <<"ToolEnd", "MessageStart">> \in Seq(Events)
  BY <1>1 DEF Events
<1>6. CASE UNCHANGED vars
  BY <1>6 DEF vars, sessionVars, Spares
<1>7. CASE Client
  BY <1>4, <1>7 DEF Client, Prompt, Enqueue, Abort, AskClose, Spares
<1>8. CASE Extension
  BY <1>4, <1>8 DEF Extension, StageAction, Spares
<1>9. CASE Receive
  <2>1. EnsureStarted => Spares \/ Emits
    BY <1>2, <1>5 DEF EnsureStarted, Spares
  <2>2. \A m : RunOneTurn(m) => Spares \/ Emits
    BY <1>4, <2>1 DEF RunOneTurn, Spares
  <2>3. RunQueued => Spares
    BY DEF RunQueued, Spares
  <2>4. Close => Spares \/ Emits
    BY <2>1 DEF Close, Spares
  <2> QED
    BY <1>9, <2>2, <2>3, <2>4, ReceiveCases
<1>10. CASE Respond
  BY <1>10 DEF Respond, Spares
<1>11. CASE Attach
  BY <1>11 DEF Attach, Spares
<1>12. CASE Work
  <2>1. CASE \/ ResumePending \/ InputHookFails \/ BeforeAgentStart \/ TurnStart \/ AskProvider
             \/ StreamDelta \/ ToolStart \/ TurnEnd \/ Settle
    BY <1>2, <1>5, <2>1 DEF ResumePending, InputHookFails, BeforeAgentStart, TurnStart,
         AskProvider, StreamDelta, ToolStart, TurnEnd, Settle
  <2>2. CASE \/ DrainDone \/ FinishClose \/ ProviderEnds \/ ProviderCancelled
             \/ ToolReturns \/ ToolCancelled
    BY <2>2 DEF DrainDone, FinishClose, ProviderEnds, ProviderCancelled, EndStream, ToolReturns,
         ToolCancelled, EndCall, Spares
  <2>3. CASE UserMessage \/ InjectedMessage \/ AssistantMessage \/ ToolResult \/ SteerMessage
    BY <1>1, <1>3, <1>5, <2>3 DEF UserMessage, InjectedMessage, AssistantMessage, ToolResult, SteerMessage
  <2>4. CASE ResumeGoal \/ InputAccepted \/ InputHandled \/ DrainNext \/ PopSteer
    BY <1>4, <2>4 DEF ResumeGoal, InputAccepted, InputHandled, DrainNext, PopSteer, Pop, Spares
  <2> QED
    BY <1>12, <2>1, <2>2, <2>3, <2>4 DEF Work, Advance, Provider
<1> QED
  BY <1>6, <1>7, <1>8, <1>9, <1>10, <1>11, <1>12 DEF Next

(* What apply_actions drops of what extensions staged is reported.             *)
THEOREM DropsReported == Spec => DropsAreReported
<1> DEFINE Reported == (\E i \in 1..Len(published') : published'[i] = "HookError")
                          \/ result' = "error"
           Drop == \A m \in Inputs : fate[m] = "staged" /\ fate'[m] = "dropped" => Reported
<1>1. ActorTypeOK /\ InputInv /\ [Next]_vars => Drop
  <2> SUFFICES ASSUME ActorTypeOK, InputInv, [Next]_vars,
                      NEW m \in Inputs, fate[m] = "staged", fate'[m] = "dropped"
               PROVE  Reported
    OBVIOUS
  <2>1. CASE Emits
    <3>1. PICK events \in Seq(Events), direct \in Seq(Events) : EmitThen(events, direct)
      BY <2>1 DEF Emits
    <3> QED
      BY <3>1, EmitReports
  <2>2. CASE InputCommand
    <3>1. /\ input \in Inputs /\ fate[input] = "sent"
          /\ fate \in [Inputs -> Fates] /\ TypeOK
      BY <2>2 DEF InputCommand, AtInputHook, HoldsInput, InputInv, HandHolds, ActorTypeOK, TypeOK
    <3>2. CASE Return("error")
      BY <3>2 DEF Return
    <3>3. ASSUME NEW k \in AppliedCounts, ApplyActions(k, [fate EXCEPT ![input] = "handled"])
          PROVE  k < Len(hostActions)
      <4>1. PICK fates \in [Inputs -> Fates] : fates = [fate EXCEPT ![input] = "handled"]
        BY <3>1 DEF Fates
      <4>2. \A x \in Inputs : fates[x] = fate[x] \/ (fate[x] = "sent" /\ fates[x] = "handled")
        BY <3>1, <4>1
      <4>3. ApplyActions(k, fates)
        BY <3>3, <4>1
      <4> QED
        BY <3>1, <4>2, <4>3, ApplyActionsHolds DEF InputInv
    <3> QED
      BY <2>2, <3>2, <3>3 DEF InputCommand
  <2> QED
    BY <2>1, <2>2, StepsDrop DEF Spares
<1> QED
  BY <1>1, InitHolds, NextHolds, TypeCorrect, ActorInitType, NextType, PTL DEF Spec, DropsAreReported

-----------------------------------------------------------------------------
(* The tool uses and their results: the inductive invariant                   *)

InTurn    == {"turn", "user", "injected", "context", "provider", "assistant", "tools", "call",
              "result", "queued", "steer"}
Answering == {"tools", "call", "result", "queued", "steer"}

ByModel(i) == store[i].role \in {"assistant", "result"}

(* The model's messages are of earlier runs, or of earlier turns of this run;    *)
(* of this turn, only once the assistant message is stored.                  *)
TurnsHold ==
  \A i \in 1..Len(store) : ByModel(i) =>
     /\ store[i].run <= run
     /\ at = "before" => store[i].run < run
     /\ at \in InTurn /\ store[i].run = run =>
          store[i].turn < turn \/ (store[i].turn = turn /\ at \in Answering)

(* Results the uses of assistant message `a` have by now: all, or in the turn    *)
(* that executes them those before `next`.                                   *)
Current(a) == at \in Answering /\ store[a].run = run /\ store[a].turn = turn
Due(a)     == IF Current(a) THEN next - 1 ELSE store[a].body

AnswersHold ==
  ~closed =>
    /\ at \in Answering => next \in 1..(calls + 1)
    /\ at \in {"call", "result"} => next <= calls
    /\ at = "assistant" => next = 1
    /\ \A a \in 1..Len(store) : store[a].role = "assistant" =>
         /\ store[a].body \in Nat
         /\ Current(a) => store[a].body = calls
         /\ \A i \in Answers(a) : a < i /\ store[i].body \in 1..Due(a)
         /\ \A n \in 1..Due(a) : \E i \in Answers(a) : store[i].body = n
         /\ \A i, j \in Answers(a) : store[i].body = store[j].body => i = j

ToolInv == TurnsHold /\ AnswersHold

-----------------------------------------------------------------------------
(* The tool uses and their results: the steps                                *)

(* The model's part of the store does not change, ...                        *)
SameModel ==
  \/ store' = store
  \/ \E body \in Inputs \cup {NoInput} \cup Nat :
       store' = Append(store, [role |-> "user", run |-> run, turn |-> turn, body |-> body])

(* ... and where the session is moves on like this.                           *)
Moves ==
  /\ closed => closed'
  /\ \/ UNCHANGED <<at, run, turn, calls, next>>
     \/ closed' /\ at' = "return" /\ run' = run
     \/ at \notin Answering /\ at' \notin InTurn \cup {"before"} /\ run' = run
     \/ at \notin Answering /\ at' = "before" /\ run' = run + 1
     \/ at = "before" /\ at' = "turn" /\ run' = run
     \/ /\ at \in InTurn \ Answering /\ at' \in InTurn \ Answering
        /\ UNCHANGED <<run, turn>>
        /\ at' = "assistant" => next' = 1
     \/ /\ at \in Answering /\ at' \in Answering
        /\ UNCHANGED <<run, turn, calls, next>>
        /\ ~closed /\ at' \in {"call", "result"} => next <= calls
     \/ /\ at = "tools" /\ next > calls /\ at' \in {"turn", "settle"} /\ run' = run
        /\ at' = "turn" => turn' = turn + 1

(* What the store held it still holds, at the same place.                     *)
LEMMA StoreGrows ==
  ASSUME ActorTypeOK, NEW message, message \in Message, store' = Append(store, message)
  PROVE  /\ Len(store') = Len(store) + 1
         /\ store'[Len(store) + 1] = message
         /\ \A i \in 1..Len(store) : store'[i] = store[i]
         /\ \A i \in 1..Len(store') : i \in 1..Len(store) \/ i = Len(store) + 1
<1>1. store \in Seq(Message) /\ Len(store) \in Nat
  BY DEF ActorTypeOK, TypeOK
<1> QED
  BY <1>1

LEMMA ModelKept ==
  ASSUME ActorTypeOK, SameModel
  PROVE  /\ 1..Len(store) \subseteq 1..Len(store')
         /\ \A i \in 1..Len(store) : store'[i] = store[i]
         /\ \A i \in 1..Len(store') :
              store'[i].role \in {"assistant", "result"} => i \in 1..Len(store)
<1>1. store \in Seq(Message) /\ Len(store) \in Nat
  BY DEF ActorTypeOK, TypeOK
<1>2. CASE store' = store
  BY <1>2
<1>3. ASSUME NEW body \in Inputs \cup {NoInput} \cup Nat,
             store' = Append(store, [role |-> "user", run |-> run, turn |-> turn, body |-> body])
      PROVE  /\ 1..Len(store) \subseteq 1..Len(store')
             /\ \A i \in 1..Len(store) : store'[i] = store[i]
             /\ \A i \in 1..Len(store') :
                  store'[i].role \in {"assistant", "result"} => i \in 1..Len(store)
  <2>1. PICK message \in Message :
          message = [role |-> "user", run |-> run, turn |-> turn, body |-> body]
    BY DEF Message, Roles, ActorTypeOK, TypeOK
  <2>2. message.role = "user"
    BY <2>1
  <2>3. store' = Append(store, message)
    BY <1>3, <2>1
  <2> QED
    BY <1>1, <2>2, <2>3, StoreGrows
<1> QED
  BY <1>2, <1>3 DEF SameModel

LEMMA TurnsStill ==
  ASSUME ActorTypeOK, TurnsHold, SameModel, Moves
  PROVE  TurnsHold'
<1> SUFFICES ASSUME NEW i \in 1..Len(store'), store'[i].role \in {"assistant", "result"}
             PROVE  /\ store'[i].run <= run'
                    /\ at' = "before" => store'[i].run < run'
                    /\ at' \in InTurn /\ store'[i].run = run' =>
                         store'[i].turn < turn'
                           \/ (store'[i].turn = turn' /\ at' \in Answering)
  BY DEF TurnsHold, ByModel
<1>1. i \in 1..Len(store) /\ store'[i] = store[i] /\ ByModel(i)
  BY ModelKept DEF ByModel
<1>2. PICK r \in Nat, t \in Nat : r = store[i].run /\ t = store[i].turn
  <2>1. store[i] \in Message
    BY <1>1 DEF ActorTypeOK, TypeOK
  <2> QED
    BY <2>1 DEF Message
<1>3. /\ r <= run
      /\ at = "before" => r < run
      /\ at \in InTurn /\ r = run => t < turn \/ (t = turn /\ at \in Answering)
  BY <1>1, <1>2 DEF TurnsHold
<1>4. run \in Nat /\ turn \in Nat
  BY DEF ActorTypeOK, TypeOK
<1>5. /\ r <= run'
      /\ at' = "before" => r < run'
      /\ at' \in InTurn /\ r = run' => t < turn' \/ (t = turn' /\ at' \in Answering)
  BY <1>2, <1>3, <1>4 DEF Moves, InTurn, Answering
<1> QED
  BY <1>1, <1>2, <1>5

LEMMA AnswersStill ==
  ASSUME ActorTypeOK, AnswersHold, SameModel, Moves
  PROVE  AnswersHold'
<1> SUFFICES ASSUME ~closed' PROVE AnswersHold'
  BY DEF AnswersHold
<1>1. ~closed
  BY DEF Moves
<1>2. /\ at \in Answering => next \in 1..(calls + 1)
      /\ at \in {"call", "result"} => next <= calls
      /\ at = "assistant" => next = 1
  BY <1>1 DEF AnswersHold
<1>3. calls \in Nat /\ next \in Nat
  BY DEF ActorTypeOK, TypeOK
<1>4. /\ at' \in Answering => next' \in 1..(calls' + 1)
      /\ at' \in {"call", "result"} => next' <= calls'
      /\ at' = "assistant" => next' = 1
  BY <1>1, <1>2, <1>3 DEF Moves, InTurn, Answering
<1>5. ASSUME NEW a \in 1..Len(store'), store'[a].role = "assistant"
      PROVE  /\ store'[a].body \in Nat
             /\ Current(a)' => store'[a].body = calls'
             /\ \A i \in Answers(a)' : a < i /\ store'[i].body \in 1..Due(a)'
             /\ \A n \in 1..Due(a)' : \E i \in Answers(a)' : store'[i].body = n
             /\ \A i, j \in Answers(a)' : store'[i].body = store'[j].body => i = j
  <2>1. a \in 1..Len(store) /\ store'[a] = store[a] /\ store[a].role = "assistant"
    BY <1>5, ModelKept
  <2>2. Answers(a)' = Answers(a) /\ \A i \in Answers(a) : store'[i] = store[i]
    BY <2>1, ModelKept DEF Answers
  <2>3. /\ store[a].body \in Nat
        /\ Current(a) => store[a].body = calls
        /\ \A i \in Answers(a) : a < i /\ store[i].body \in 1..Due(a)
        /\ \A n \in 1..Due(a) : \E i \in Answers(a) : store[i].body = n
        /\ \A i, j \in Answers(a) : store[i].body = store[j].body => i = j
    BY <1>1, <2>1 DEF AnswersHold
  <2>4. (Current(a)' => store'[a].body = calls') /\ Due(a)' = Due(a)
    <3>1. CASE UNCHANGED <<at, run, turn, calls, next>>
      BY <2>1, <2>3, <3>1 DEF Current, Due
    <3>2. CASE at \notin Answering /\ at' \notin Answering
      BY <2>1, <3>2 DEF Current, Due
    <3>3. CASE at \in Answering /\ at' \in Answering /\ UNCHANGED <<run, turn, calls, next>>
      BY <2>1, <2>3, <3>3 DEF Current, Due
    <3>4. CASE at = "tools" /\ next > calls /\ at' \in {"turn", "settle"}
      <4>1. next - 1 = calls
        BY <1>2, <1>3, <3>4 DEF Answering
      <4> QED
        BY <2>1, <2>3, <3>4, <4>1 DEF Current, Due, Answering
    <3> QED
      BY <3>1, <3>2, <3>3, <3>4 DEF Moves, InTurn, Answering
  <2> QED
    BY <2>1, <2>2, <2>3, <2>4
<1> QED
  BY <1>4, <1>5 DEF AnswersHold

LEMMA StillHolds ==
  ASSUME ActorTypeOK, ToolInv, SameModel, Moves
  PROVE  ToolInv'
  BY TurnsStill, AnswersStill DEF ToolInv

LEMMA FirstOfMany == \A n \in Nat : 1 \in 1..(n + 1)
  OBVIOUS

Stored(message) == store' = Append(store, message)

(* A message of the model stored in a turn is of that turn.                   *)
LEMMA ModelTurns ==
  ASSUME ActorTypeOK, TurnsHold, at \in {"assistant", "result"}, at' \in Answering,
         run' = run, turn' = turn,
         NEW message, message \in Message, Stored(message),
         message.run = run, message.turn = turn
  PROVE  TurnsHold'
<1>1. store \in Seq(Message) /\ Len(store) \in Nat /\ run \in Nat
  BY DEF ActorTypeOK, TypeOK
<1>2. PICK N \in Nat : N = Len(store)
  BY <1>1
<1>3. /\ Len(store') = N + 1 /\ store'[N + 1] = message
      /\ \A i \in 1..N : store'[i] = store[i]
      /\ \A i \in 1..Len(store') : i \in 1..N \/ i = N + 1
  BY <1>2, StoreGrows DEF Stored
<1> SUFFICES ASSUME NEW i \in 1..Len(store'), store'[i].role \in {"assistant", "result"}
             PROVE  /\ store'[i].run <= run
                    /\ store'[i].run = run =>
                         store'[i].turn < turn \/ store'[i].turn = turn
  BY DEF TurnsHold, ByModel, InTurn, Answering
<1>4. CASE i \in 1..N
  BY <1>2, <1>3, <1>4 DEF TurnsHold, ByModel, InTurn
<1>5. CASE i = N + 1
  BY <1>1, <1>3, <1>5
<1> QED
  BY <1>3, <1>4, <1>5

(* The assistant message is stored: nothing in the store is of its turn yet.   *)
LEMMA AssistantHolds ==
  ASSUME ActorTypeOK, ToolInv, ~closed, at = "assistant", at' = "tools",
         run' = run, turn' = turn, next' = next, calls' \in Nat,
         NEW message, message \in Message, Stored(message),
         message.role = "assistant", message.run = run, message.turn = turn,
         message.body = calls'
  PROVE  ToolInv'
<1>1. store \in Seq(Message) /\ Len(store) \in Nat /\ run \in Nat /\ turn \in Nat
  BY DEF ActorTypeOK, TypeOK
<1>2. PICK N \in Nat : N = Len(store)
  BY <1>1
<1>5. /\ Len(store') = N + 1 /\ store'[N + 1] = message
      /\ \A i \in 1..N : store'[i] = store[i]
      /\ \A i \in 1..Len(store') : i \in 1..N \/ i = N + 1
  BY <1>2, StoreGrows DEF Stored
<1>6. \A i \in 1..N : store[i].role \in {"assistant", "result"} =>
        /\ store[i].run <= run
        /\ store[i].run = run => store[i].turn < turn
  BY <1>2 DEF ToolInv, TurnsHold, ByModel, InTurn, Answering
<1>7. /\ next' = 1 /\ next' \in 1..(calls' + 1)
  <2>1. next = 1
    BY DEF ToolInv, AnswersHold
  <2>2. next' = 1
    BY <2>1
  <2>3. 1 \in 1..(calls' + 1)
    BY FirstOfMany
  <2> QED
    BY <2>2, <2>3
<1>8. TurnsHold'
  BY ModelTurns DEF ToolInv, Answering
<1>9. ASSUME NEW a \in 1..Len(store'), store'[a].role = "assistant"
      PROVE  /\ store'[a].body \in Nat
             /\ Current(a)' => store'[a].body = calls'
             /\ \A i \in Answers(a)' : a < i /\ store'[i].body \in 1..Due(a)'
             /\ \A n \in 1..Due(a)' : \E i \in Answers(a)' : store'[i].body = n
             /\ \A i, j \in Answers(a)' : store'[i].body = store'[j].body => i = j
  <2>1. CASE a \in 1..N
    <3>1. store'[a] = store[a]
      BY <1>5, <2>1
    <3>2. Answers(a)' = Answers(a) /\ \A i \in Answers(a) : store'[i] = store[i]
      BY <1>2, <1>5, <3>1 DEF Answers
    <3>3. ~(store[a].run = run /\ store[a].turn = turn)
      <4>1. store[a].turn \in Nat
        <5>1. store[a] \in Message
          BY <1>1, <1>2, <2>1
        <5> QED
          BY <5>1 DEF Message
      <4> QED
        BY <1>1, <1>6, <1>9, <2>1, <3>1, <4>1
    <3>4. ~Current(a)' /\ ~Current(a)
      BY <3>1, <3>3 DEF Current
    <3>5. Due(a)' = Due(a)
      BY <3>1, <3>4 DEF Due
    <3>6. /\ store[a].body \in Nat
          /\ \A i \in Answers(a) : a < i /\ store[i].body \in 1..Due(a)
          /\ \A n \in 1..Due(a) : \E i \in Answers(a) : store[i].body = n
          /\ \A i, j \in Answers(a) : store[i].body = store[j].body => i = j
      BY <1>2, <1>9, <2>1, <3>1 DEF ToolInv, AnswersHold
    <3>7. /\ \A i \in Answers(a)' : a < i /\ store'[i].body \in 1..Due(a)'
          /\ \A n \in 1..Due(a)' : \E i \in Answers(a)' : store'[i].body = n
      BY <3>2, <3>5, <3>6
    <3>8. \A i, j \in Answers(a)' : store'[i].body = store'[j].body => i = j
      BY <3>2, <3>6
    <3> QED
      BY <3>1, <3>4, <3>6, <3>7, <3>8
  <2>2. CASE a = N + 1
    <3>1. store'[a] = message
      BY <1>5, <2>2
    <3>2. Answers(a)' = {}
      <4>1. ASSUME NEW i \in 1..N, store[i].role = "result", store[i].run = run,
                   store[i].turn = turn
            PROVE  FALSE
        BY <1>1, <1>6, <4>1
      <4> QED
        BY <1>5, <3>1, <4>1 DEF Answers
    <3>3. Current(a)' /\ Due(a)' = 0
      BY <1>7, <3>1 DEF Current, Due, Answering
    <3> QED
      BY <3>1, <3>2, <3>3
  <2> QED
    BY <1>5, <2>1, <2>2
<1> QED
  BY <1>7, <1>8, <1>9 DEF ToolInv, AnswersHold

(* A tool's result is stored: it is the next one of the current assistant message. *)
LEMMA ResultHolds ==
  ASSUME ActorTypeOK, ToolInv, ~closed, at = "result", at' = "queued",
         run' = run, turn' = turn, calls' = calls, next' = next + 1,
         NEW message, message \in Message, Stored(message),
         message.role = "result", message.run = run, message.turn = turn, message.body = next
  PROVE  ToolInv'
<1>1. /\ store \in Seq(Message) /\ Len(store) \in Nat /\ run \in Nat /\ turn \in Nat
      /\ calls \in Nat /\ next \in Nat
  BY DEF ActorTypeOK, TypeOK
<1>2. PICK N \in Nat : N = Len(store)
  BY <1>1
<1>5. /\ Len(store') = N + 1 /\ store'[N + 1] = message
      /\ \A i \in 1..N : store'[i] = store[i]
      /\ \A i \in 1..Len(store') : i \in 1..N \/ i = N + 1
  BY <1>2, StoreGrows DEF Stored
<1>6. next \in 1..calls /\ next' \in 1..(calls' + 1)
  BY <1>1 DEF ToolInv, AnswersHold, Answering
<1>7. TurnsHold'
  BY ModelTurns DEF ToolInv, Answering
<1>8. ASSUME NEW a \in 1..Len(store'), store'[a].role = "assistant"
      PROVE  /\ store'[a].body \in Nat
             /\ Current(a)' => store'[a].body = calls'
             /\ \A i \in Answers(a)' : a < i /\ store'[i].body \in 1..Due(a)'
             /\ \A n \in 1..Due(a)' : \E i \in Answers(a)' : store'[i].body = n
             /\ \A i, j \in Answers(a)' : store'[i].body = store'[j].body => i = j
  <2>1. a \in 1..N /\ store'[a] = store[a] /\ store[a].role = "assistant"
    BY <1>5, <1>8
  <2>2. /\ store[a].body \in Nat
        /\ Current(a) => store[a].body = calls
        /\ \A i \in Answers(a) : a < i /\ store[i].body \in 1..Due(a)
        /\ \A n \in 1..Due(a) : \E i \in Answers(a) : store[i].body = n
        /\ \A i, j \in Answers(a) : store[i].body = store[j].body => i = j
    BY <1>2, <2>1 DEF ToolInv, AnswersHold
  <2>3. Current(a)' <=> Current(a)
    BY <2>1 DEF Current, Answering
  <2>4. CASE ~Current(a)
    <3>1. Answers(a)' = Answers(a) /\ \A i \in Answers(a) : store'[i] = store[i]
      <4>1. ~(store[a].run = run /\ store[a].turn = turn)
        BY <2>4 DEF Current, Answering
      <4> QED
        BY <1>2, <1>5, <2>1, <4>1 DEF Answers
    <3>2. Due(a)' = Due(a)
      BY <2>1, <2>3, <2>4 DEF Due
    <3>3. /\ \A i \in Answers(a)' : a < i /\ store'[i].body \in 1..Due(a)'
          /\ \A n \in 1..Due(a)' : \E i \in Answers(a)' : store'[i].body = n
      BY <2>2, <3>1, <3>2
    <3>4. \A i, j \in Answers(a)' : store'[i].body = store'[j].body => i = j
      BY <2>2, <3>1
    <3> QED
      BY <2>1, <2>2, <2>3, <2>4, <3>3, <3>4
  <2>5. CASE Current(a)
    <3>1. store[a].run = run /\ store[a].turn = turn
      BY <2>5 DEF Current
    <3>2. /\ Answers(a)' = Answers(a) \cup {N + 1}
          /\ \A i \in Answers(a) : i \in 1..N /\ store'[i] = store[i]
      BY <1>2, <1>5, <2>1, <3>1 DEF Answers
    <3>3. Due(a) = next - 1 /\ Due(a)' = next
      BY <1>1, <2>3, <2>5 DEF Due
    <3>4. \A i \in Answers(a) : a < i /\ store[i].body \in 1..(next - 1)
      BY <2>2, <3>3
    <3>5. a < N + 1 /\ store'[N + 1].body = next
      BY <1>2, <1>5, <2>1
    <3>6. \A i \in Answers(a)' : a < i /\ store'[i].body \in 1..next
      <4>1. next \in 1..next /\ \A n \in 1..(next - 1) : n \in 1..next
        BY <1>1, <1>6
      <4> QED
        BY <3>2, <3>4, <3>5, <4>1
    <3>7. \A n \in 1..next : \E i \in Answers(a)' : store'[i].body = n
      <4> SUFFICES ASSUME NEW n \in 1..next PROVE \E i \in Answers(a)' : store'[i].body = n
        OBVIOUS
      <4>1. CASE n = next
        BY <3>2, <3>5, <4>1
      <4>2. CASE n # next
        <5>1. n \in 1..(next - 1)
          BY <1>1, <4>2
        <5> QED
          BY <2>2, <3>2, <3>3, <5>1
      <4> QED
        BY <4>1, <4>2
    <3>8. \A i, j \in Answers(a)' : store'[i].body = store'[j].body => i = j
      <4>1. \A i \in Answers(a) : store'[i].body # next
        <5>1. next \notin 1..(next - 1)
          BY <1>1
        <5> QED
          BY <3>2, <3>4, <5>1
      <4> QED
        BY <2>2, <3>2, <3>5, <4>1
    <3> QED
      BY <2>1, <2>2, <2>3, <3>3, <3>6, <3>7, <3>8
  <2> QED
    BY <2>4, <2>5
<1> QED
  BY <1>6, <1>7, <1>8 DEF ToolInv, AnswersHold

(* persist stores its message and goes on, or ends the session.               *)
LEMMA PersistStores ==
  ASSUME ActorTypeOK, NEW role \in Roles, NEW body \in Inputs \cup {NoInput} \cup Nat,
         NEW events, NEW continue, Persist(role, body, events, continue)
  PROVE  \/ /\ \E message \in Message :
                 /\ Stored(message)
                 /\ message.role = role /\ message.body = body
                 /\ message.run = run /\ message.turn = turn
            /\ at' = continue /\ closed' = closed
         \/ store' = store /\ closed' /\ at' = "return"
<1>1. PICK message \in Message :
        message = [role |-> role, run |-> run, turn |-> turn, body |-> body]
  BY DEF Message, ActorTypeOK, TypeOK
<1> QED
  BY <1>1 DEF Persist, Stored

(* A user's message leaves the model's part of the store alone.               *)
LEMMA UserStored ==
  ASSUME ActorTypeOK, NEW body \in Inputs \cup {NoInput} \cup Nat, NEW events, NEW continue,
         Persist("user", body, events, continue)
  PROVE  /\ SameModel
         /\ closed => closed'
         /\ (at' = continue /\ closed' = closed) \/ (closed' /\ at' = "return")
  BY DEF Persist, SameModel

LEMMA ToolsAppend ==
  ASSUME ActorTypeOK, ToolInv, UserMessage \/ InjectedMessage \/ SteerMessage
  PROVE  ToolInv'
<1>1. at \in {"user", "injected", "steer"} /\ UNCHANGED <<run, turn, calls, next>>
  BY DEF UserMessage, InjectedMessage, SteerMessage
<1>2. PICK body, events, continue :
        /\ body \in Inputs \cup {NoInput} \cup Nat
        /\ Persist("user", body, events, continue)
        /\ \/ at \in {"user", "injected"} /\ continue \in {"injected", "context"}
           \/ at = "steer" /\ continue = "tools"
  <2>1. input \in Inputs \cup {NoInput} \cup Nat
    BY DEF ActorTypeOK, TypeOK
  <2> QED
    BY <2>1 DEF UserMessage, InjectedMessage, SteerMessage
<1>3. SameModel /\ Moves
  BY <1>1, <1>2, UserStored DEF Moves, InTurn, Answering
<1> QED
  BY <1>3, StillHolds

LEMMA ToolsAnswer ==
  ASSUME ActorTypeOK, ToolInv, AssistantMessage \/ ToolResult
  PROVE  ToolInv'
<1>1. run' = run /\ turn' = turn
  BY DEF AssistantMessage, ToolResult
<1>2. CASE store' = store /\ closed' /\ at' = "return"
  BY <1>1, <1>2, StillHolds DEF SameModel, Moves
<1>3. ASSUME closed, NEW message \in Message, Stored(message), at' \in {"tools", "queued"},
             message.run = run, message.turn = turn
      PROVE  ToolInv'
  <2>1. closed' /\ at \in {"assistant", "result"}
    BY <1>3 DEF AssistantMessage, ToolResult, Persist
  <2>2. TurnsHold'
    BY <1>1, <1>3, <2>1, ModelTurns DEF ToolInv, Answering
  <2> QED
    BY <2>1, <2>2 DEF ToolInv, AnswersHold
<1>4. CASE AssistantMessage
  <2>1. at = "assistant" /\ next' = next /\ calls' \in Nat
    BY <1>4, SessionAssumption DEF AssistantMessage, ActorTypeOK, TypeOK
  <2>2. PICK body \in Nat : body = calls'
    BY <2>1
  <2>3. Persist("assistant", body, <<>>, "tools")
    BY <1>4, <2>2 DEF AssistantMessage
  <2>4. "assistant" \in Roles
    BY DEF Roles
  <2>5. CASE \E message \in Message :
               /\ Stored(message)
               /\ message.role = "assistant" /\ message.body = body
               /\ message.run = run /\ message.turn = turn
               /\ at' = "tools" /\ closed' = closed
    BY <1>1, <1>3, <2>1, <2>2, <2>5, AssistantHolds
  <2> QED
    BY <1>2, <2>3, <2>4, <2>5, PersistStores
<1>5. CASE ToolResult
  <2>1. at = "result" /\ next' = next + 1 /\ calls' = calls /\ next \in Nat
    BY <1>5 DEF ToolResult, ActorTypeOK, TypeOK
  <2>2. Persist("result", next, <<"ToolEnd", "MessageStart">>, "queued")
    BY <1>5 DEF ToolResult
  <2>3. "result" \in Roles
    BY DEF Roles
  <2>4. CASE \E message \in Message :
               /\ Stored(message)
               /\ message.role = "result" /\ message.body = next
               /\ message.run = run /\ message.turn = turn
               /\ at' = "queued" /\ closed' = closed
    BY <1>1, <1>3, <2>1, <2>4, ResultHolds
  <2> QED
    BY <1>2, <2>1, <2>2, <2>3, <2>4, PersistStores
<1> QED
  BY <1>4, <1>5

(* A step the session makes, and any other step.                             *)
LEMMA WorkTools ==
  ASSUME ActorTypeOK, ToolInv, Advance \/ Provider \/ ToolReturns \/ ToolCancelled
  PROVE  ToolInv'
<1> USE DEF SameModel, Moves, InTurn, Answering
<1>1. CASE \/ UserMessage \/ InjectedMessage \/ SteerMessage \/ AssistantMessage \/ ToolResult
  BY <1>1, ToolsAppend, ToolsAnswer
<1>2. CASE \/ ResumePending \/ ResumeGoal \/ InputHookFails \/ InputHandled \/ InputCommand
           \/ DrainDone \/ FinishClose \/ Settle
  <2>1. store' = store /\ run' = run /\ (closed => closed')
    BY <1>2 DEF ResumePending, ResumeGoal, InputHookFails, InputHandled, InputCommand, DrainDone,
                FinishClose, Settle, queueVars
  <2>2. at \notin Answering /\ at' \notin InTurn \cup {"before"}
    BY <1>2 DEF ResumePending, ResumeGoal, InputHookFails, InputHandled, InputCommand, DrainDone,
                FinishClose, Settle, Return
  <2> QED
    BY <2>1, <2>2, StillHolds
<1>3. CASE InputAccepted \/ DrainNext
  <2>1. /\ store' = store /\ run' = run + 1 /\ closed' = closed
        /\ at \notin Answering /\ at' = "before"
    BY <1>3 DEF InputAccepted, DrainNext, StartRun
  <2> QED
    BY <2>1, StillHolds
<1>4. CASE BeforeAgentStart \/ TurnStart \/ AskProvider \/ StreamDelta
  <2>1. store' = store /\ run' = run /\ closed' = closed
    BY <1>4 DEF BeforeAgentStart, TurnStart, AskProvider, StreamDelta
  <2>2. \/ at = "before" /\ at' = "turn"
        \/ /\ at \in InTurn \ Answering /\ at' \in InTurn \ Answering
           /\ turn' = turn /\ at' # "assistant"
    BY <1>4 DEF BeforeAgentStart, TurnStart, AskProvider, StreamDelta, localVars, methodVars
  <2> QED
    BY <2>1, <2>2, StillHolds
<1>5. CASE ProviderEnds \/ ProviderCancelled
  <2>1. /\ store' = store /\ run' = run /\ turn' = turn /\ closed' = closed
        /\ at = "provider" /\ at' = "assistant" /\ next' = 1
    BY <1>5 DEF ProviderEnds, ProviderCancelled, EndStream, queueVars
  <2> QED
    BY <2>1, StillHolds
<1>6. CASE ToolStart \/ ToolReturns \/ ToolCancelled \/ PopSteer
  <2>1. store' = store /\ UNCHANGED <<run, turn, calls, next>> /\ closed' = closed
    BY <1>6 DEF ToolStart, ToolReturns, ToolCancelled, EndCall, PopSteer, queueVars, localVars
  <2>2. at \in Answering /\ at' \in Answering
    BY <1>6 DEF ToolStart, ToolReturns, ToolCancelled, EndCall, PopSteer
  <2>3. ~closed /\ at' \in {"call", "result"} => next <= calls
    BY <1>6 DEF ToolStart, ToolReturns, ToolCancelled, EndCall, PopSteer, ToolInv, AnswersHold
  <2> QED
    BY <2>1, <2>2, <2>3, StillHolds
<1>7. CASE TurnEnd
  <2>1. /\ store' = store /\ run' = run /\ closed' = closed
        /\ at = "tools" /\ next > calls /\ at' \in {"turn", "settle"}
        /\ at' = "turn" => turn' = turn + 1
    BY <1>7 DEF TurnEnd
  <2> QED
    BY <2>1, StillHolds
<1> QED
  BY <1>1, <1>2, <1>3, <1>4, <1>5, <1>6, <1>7 DEF Advance, Provider

LEMMA NextTools == ActorTypeOK /\ ToolInv /\ [Next]_vars => ToolInv'
<1> SUFFICES ASSUME ActorTypeOK, ToolInv, [Next]_vars PROVE ToolInv'
  OBVIOUS
<1> USE DEF SameModel, Moves, InTurn, Answering
<1>1. CASE UNCHANGED vars \/ Client \/ Extension
  <2>1. UNCHANGED <<store, run, at, turn, calls, next, closed>>
    BY <1>1 DEF vars, sessionVars, queueVars, methodVars, localVars, Client, Prompt, Enqueue,
                Abort, AskClose, Extension, StageAction
  <2> QED
    BY <2>1, StillHolds
<1>2. CASE Receive \/ Respond \/ Attach
  <2>1. /\ store' = store /\ run' = run /\ closed' = closed
        /\ at \in {"idle", "return"} /\ at' \in {"return", "input", "drain", "drop", "idle"}
    <3>1. CASE Receive
      BY <3>1, ReceiveCases DEF Receive, RunOneTurn, RunQueued, Close, Return, queueVars
    <3>2. CASE Respond \/ Attach
      BY <3>2 DEF Respond, Attach, queueVars
    <3> QED
      BY <1>2, <3>1, <3>2
  <2> QED
    BY <2>1, StillHolds
<1>3. CASE Work
  BY <1>3, WorkTools DEF Work
<1> QED
  BY <1>1, <1>2, <1>3 DEF Next

LEMMA InitTools == ActorInit => ToolInv
<1> SUFFICES ASSUME ActorInit PROVE ToolInv
  OBVIOUS
<1>1. store = <<>> /\ at \in {"resume", "idle"}
  BY SessionAssumption DEF ActorInit, Init
<1>2. 1..Len(store) = {}
  BY <1>1
<1> QED
  BY <1>1, <1>2 DEF ToolInv, TurnsHold, AnswersHold, Answering

(* A set that is numbered from 1 to n, once each, has n members.                *)
LEMMA Numbered ==
  ASSUME NEW S, NEW n \in Nat, NEW f \in [S -> 1..n],
         \A k \in 1..n : \E x \in S : f[x] = k,
         \A x, y \in S : f[x] = f[y] => x = y
  PROVE  Cardinality(S) = n
<1>1. f \in Bijection(S, 1..n)
  BY Fun_IsBij
<1>2. IsFiniteSet(1..n) /\ Cardinality(1..n) = n
  BY FS_Interval
<1>3. ExistsBijection(1..n, S)
  BY <1>1, Fun_BijInverse DEF ExistsBijection
<1> QED
  BY <1>2, <1>3, FS_Bijection

(* Whenever the provider is asked, each tool use of each assistant message is   *)
(* answered, once and after it, unless the store has failed.                *)
THEOREM ToolUses == Spec => []ToolUsesAnswered
<1>1. ActorTypeOK /\ ToolInv => ToolUsesAnswered
  <2> SUFFICES ASSUME ActorTypeOK, ToolInv, at = "provider", ~closed,
                      NEW a \in 1..Len(store), store[a].role = "assistant"
               PROVE  /\ Cardinality(Answers(a)) = store[a].body
                      /\ {store[i].body : i \in Answers(a)} = 1..store[a].body
                      /\ \A i \in Answers(a) : a < i
    BY DEF ToolUsesAnswered
  <2>1. Due(a) = store[a].body
    BY DEF Due, Current, Answering
  <2>2. /\ \A i \in Answers(a) : a < i /\ store[i].body \in 1..store[a].body
        /\ \A n \in 1..store[a].body : \E i \in Answers(a) : store[i].body = n
        /\ \A i, j \in Answers(a) : store[i].body = store[j].body => i = j
    BY <2>1 DEF ToolInv, AnswersHold
  <2>3. PICK n \in Nat : n = store[a].body
    BY DEF ToolInv, AnswersHold
  <2>4. \A i \in Answers(a) : store[i].body \in 1..n
    BY <2>2, <2>3
  <2>5. PICK f \in [Answers(a) -> 1..n] : f = [i \in Answers(a) |-> store[i].body]
    BY <2>4
  <2>6. /\ \A k \in 1..n : \E i \in Answers(a) : f[i] = k
        /\ \A i, j \in Answers(a) : f[i] = f[j] => i = j
    BY <2>2, <2>3, <2>5
  <2>7. Cardinality(Answers(a)) = n
    <3> DEFINE S == Answers(a)
    <3>1. f \in [S -> 1..n]
      BY <2>5
    <3>2. /\ \A k \in 1..n : \E x \in S : f[x] = k
          /\ \A x, y \in S : f[x] = f[y] => x = y
      BY <2>6
    <3> HIDE DEF S
    <3>3. Cardinality(S) = n
      BY <3>1, <3>2, Numbered
    <3> QED
      BY <3>3 DEF S
  <2> QED
    BY <2>2, <2>3, <2>7
<1> QED
  BY <1>1, InitTools, NextTools, TypeCorrect, ActorInitType, NextType, PTL DEF Spec
=============================================================================
