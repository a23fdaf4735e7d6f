--------------------------- MODULE SessionActor ---------------------------
(* Session::attach of e-agent-core/src/session/handle.rs: the actor task that *)
(* owns a Session and serves the commands of its clients one at a time, and   *)
(* SessionClient, whose steers, follow-ups and aborts bypass the actor and    *)
(* touch the shared queue and cancellation token while a run is in progress.  *)
EXTENDS Session, FiniteSets

CONSTANTS Closers,    \* the clients' calls of close()
          ClientOps   \* what clients do: "prompt", "steer", "followUp", "abort", "close"

ASSUME SessionActorAssumption ==
    /\ Closers \cap Inputs = {}
    /\ ClientOps \subseteq {"prompt", "steer", "followUp", "abort", "close"}

VARIABLES
    commands,  \* the unbounded channel of SessionCommands
    actor,     \* has attach spawned the actor task, and has it ended?
    serving,   \* whom the command being served replies to
    reply      \* what each client call has returned

actorVars == <<commands, actor, serving, reply>>
vars      == <<sessionVars, actorVars>>

Callers   == Inputs \cup Closers
Nobody    == NoInput
Command   == [op : {"prompt"}, caller : Inputs] \cup [op : {"wake"}, caller : {Nobody}]
                 \cup [op : {"close"}, caller : Closers]
Actors    == {"detached", "running", "stopped"}
Replies   == {"none", "waiting", "ok", "error"}

ActorInit ==
    /\ Init
    /\ commands = <<>>
    /\ actor = IF at = "resume" THEN "detached" ELSE "running"
    /\ serving = Nobody
    /\ reply = [c \in Callers |-> "none"]

-----------------------------------------------------------------------------
(* Clients                                                                   *)

(* send: the command goes to the actor's channel; a dead actor refuses it.   *)
Send(cmd) ==
    IF actor = "running"
    THEN /\ commands' = Append(commands, cmd)
         /\ reply' = [reply EXCEPT ![cmd.caller] = "waiting"]
    ELSE /\ reply' = [reply EXCEPT ![cmd.caller] = "error"]
         /\ UNCHANGED commands

Prompt(m) ==
    /\ "prompt" \in ClientOps /\ actor # "detached"
    /\ fate[m] = "new"
    /\ Send([op |-> "prompt", caller |-> m])
    /\ fate' = [fate EXCEPT ![m] = IF actor = "running" THEN "sent" ELSE "refused"]
    /\ published' = <<>>
    /\ UNCHANGED <<status, started, shutdown, run, queueVars, cancelled, hostActions, store,
                   methodVars, localVars, actor, serving>>

(* Mutant: nobody wakes the actor.                                           *)
EnqueueOnly(m, kind) ==
    /\ kind \in ClientOps /\ actor # "detached"
    /\ fate[m] = "new"
    /\ ~closed
    /\ messages' = Append(messages, [kind |-> kind, input |-> m])
    /\ fate' = [fate EXCEPT ![m] = "queued"]
    /\ published' = <<"QueueUpdate">>
    /\ reply' = [reply EXCEPT ![m] = "ok"]
    /\ UNCHANGED <<status, started, shutdown, run, idle, closed, cancelled, hostActions, store,
                   methodVars, localVars, commands, actor, serving>>

(* steer and follow_up: push, publish, then wake the actor.  A dead actor makes *)
(* the call fail after the message is already in the queue.                  *)
Enqueue(m, kind) ==
    /\ kind \in ClientOps /\ actor # "detached"
    /\ fate[m] = "new"
    /\ \/ /\ closed
          /\ fate' = [fate EXCEPT ![m] = "refused"]
          /\ reply' = [reply EXCEPT ![m] = "error"]
          /\ published' = <<>>
          /\ UNCHANGED <<messages, commands>>
       \/ /\ ~closed
          /\ messages' = Append(messages, [kind |-> kind, input |-> m])
          /\ fate' = [fate EXCEPT ![m] = "queued"]
          /\ published' = <<"QueueUpdate">>
          /\ IF actor = "running"
             THEN /\ commands' = Append(commands, [op |-> "wake", caller |-> Nobody])
                  /\ reply' = [reply EXCEPT ![m] = "ok"]
             ELSE /\ reply' = [reply EXCEPT ![m] = "error"]
                  /\ UNCHANGED commands
    /\ UNCHANGED <<status, started, shutdown, run, idle, closed, cancelled, hostActions, store,
                   methodVars, localVars, actor, serving>>

Abort ==
    /\ "abort" \in ClientOps /\ actor # "detached"
    /\ ~cancelled
    /\ cancelled' = TRUE
    /\ published' = <<>>
    /\ UNCHANGED <<status, started, shutdown, run, queueVars, hostActions, store, methodVars,
                   localVars, fate, actorVars>>

AskClose(c) ==
    /\ "close" \in ClientOps /\ actor # "detached"
    /\ reply[c] = "none"
    /\ Send([op |-> "close", caller |-> c])
    /\ published' = <<>>
    /\ UNCHANGED <<status, started, shutdown, run, queueVars, cancelled, hostActions, store,
                   methodVars, localVars, fate, actor, serving>>

Client ==
    \/ \E m \in Inputs : Prompt(m) \/ Enqueue(m, "steer") \/ Enqueue(m, "followUp")
    \/ Abort
    \/ \E c \in Closers : AskClose(c)

(* A message an extension submits on its own account.                       *)
Extension ==
    /\ actor # "stopped"
    /\ \E m \in Inputs, kind \in Kinds, saves \in BOOLEAN : StageAction(m, kind, saves)
    /\ UNCHANGED actorVars

-----------------------------------------------------------------------------
(* The actor task                                                            *)

Receive ==
    /\ actor = "running" /\ at = "idle"
    /\ commands # <<>>
    /\ commands' = Tail(commands)
    /\ serving' = Head(commands).caller
    /\ CASE Head(commands).op = "prompt" -> RunOneTurn(Head(commands).caller)
         [] Head(commands).op = "wake"   -> RunQueued
         [] Head(commands).op = "close"  -> Close
    /\ UNCHANGED <<actor, reply>>

(* Callers whose command is still in the channel when the receiver is dropped. *)
Abandoned(cmds) == {cmds[i].caller : i \in 1..Len(cmds)}

(* Mutant: the task goes on serving after a close.                           *)
RespondForever ==
    /\ actor = "running" /\ at = "return"
    /\ at' = "idle" /\ op' = "none" /\ result' = "none"
    /\ serving' = Nobody
    /\ published' = <<>>
    /\ reply' = [c \in Callers |-> IF c = serving THEN result ELSE reply[c]]
    /\ UNCHANGED <<status, started, shutdown, run, queueVars, cancelled, hostActions, store,
                   localVars, actor, commands, fate>>

(* Mutant: the task ends and keeps its channel, with the commands in it.     *)
RespondKeepingChannel ==
    /\ actor = "running" /\ at = "return"
    /\ at' = "idle" /\ op' = "none" /\ result' = "none"
    /\ serving' = Nobody
    /\ published' = <<>>
    /\ actor' = IF op = "close" THEN "stopped" ELSE actor
    /\ reply' = [c \in Callers |-> IF c = serving THEN result ELSE reply[c]]
    /\ UNCHANGED <<status, started, shutdown, run, queueVars, cancelled, hostActions, store,
                   localVars, commands, fate>>

(* A method of the session returned: its caller gets the result.  The task ends *)
(* after serving a close, even one that failed, and drops its channel.       *)
Respond ==
    /\ actor = "running" /\ at = "return"
    /\ at' = "idle" /\ op' = "none" /\ result' = "none"
    /\ serving' = Nobody
    /\ published' = <<>>
    /\ IF op = "close"
       THEN /\ actor' = "stopped"
            /\ commands' = <<>>
            /\ reply' = [c \in Callers |->
                           IF c = serving THEN result
                           ELSE IF c \in Abandoned(commands) THEN "error" ELSE reply[c]]
            /\ fate' = [m \in Inputs |->
                           IF m \in Abandoned(commands) THEN "refused" ELSE fate[m]]
       ELSE /\ reply' = [c \in Callers |-> IF c = serving THEN result ELSE reply[c]]
            /\ UNCHANGED <<actor, commands, fate>>
    /\ UNCHANGED <<status, started, shutdown, run, queueVars, cancelled, hostActions, store,
                   localVars>>

(* resume_pending returned to the command-line program: it attaches, or exits. *)
Attach ==
    /\ actor = "detached" /\ at = "return"
    /\ actor' = IF result = "ok" THEN "running" ELSE "stopped"
    /\ at' = "idle" /\ op' = "none" /\ result' = "none"
    /\ published' = <<>>
    /\ UNCHANGED <<status, started, shutdown, run, queueVars, cancelled, hostActions, store,
                   localVars, fate, commands, serving, reply>>

Work == (Advance \/ Provider \/ ToolReturns \/ ToolCancelled) /\ UNCHANGED actorVars

Next == Client \/ Extension \/ Receive \/ Respond \/ Attach \/ Work

Spec == ActorInit /\ [][Next]_vars

(* Tokio keeps polling the actor, and hooks return.                          *)
Scheduling == WF_vars(Receive \/ Respond \/ Attach) /\ WF_vars(Advance /\ UNCHANGED actorVars)

(* Providers end their streams and tools return.                            *)
Responsive == WF_vars(ProviderEnds /\ UNCHANGED actorVars)
              /\ WF_vars(ToolReturns /\ UNCHANGED actorVars)

(* They need not; but a cancelled select! wakes.                            *)
Cancellable == WF_vars(ProviderCancelled /\ UNCHANGED actorVars)
               /\ WF_vars(ToolCancelled /\ UNCHANGED actorVars)

FairSpec  == Spec /\ Scheduling /\ Responsive
AbortSpec == Spec /\ Scheduling /\ Cancellable

-----------------------------------------------------------------------------
(* Properties                                                                *)

(* The variables hold values of their types.                                 *)
ActorTypeOK ==
    /\ TypeOK
    /\ commands \in Seq(Command)
    /\ actor \in Actors
    /\ serving \in Callers \cup {Nobody}
    /\ reply \in [Callers -> Replies]

Copies(m)  == {i \in 1..Len(messages) : messages[i].input = m}
UserMsgs(m) == {i \in 1..Len(store) : store[i].role = "user" /\ store[i].body = m}

(* No accepted text is lost or doubled: it waits in the queue exactly once,    *)
(* or was taken and is, exactly once, on its way to the store or in it (push,  *)
(* pop_steer, pop_follow_up, apply_actions, run_agent, persist).  Only the     *)
(* fatal end of the session excuses a text that was taken and is not stored.   *)
AcceptedInputsAreKept ==
    \A m \in Inputs :
        /\ Cardinality(Copies(m)) = (IF fate[m] = "queued" THEN 1 ELSE 0)
        /\ fate[m] \in {"taken", "prompted"} =>
              Cardinality(UserMsgs(m)) = 1 \/ (UserMsgs(m) = {} /\ (input = m \/ closed))
        /\ fate[m] \notin {"taken", "prompted"} => UserMsgs(m) = {}

Answers(a) == {i \in 1..Len(store) : /\ store[i].role = "result"
                                     /\ store[i].run = store[a].run
                                     /\ store[i].turn = store[a].turn}

(* Whatever history the provider is asked to continue, each tool use of each   *)
(* assistant message in it is answered by exactly one result, stored after it  *)
(* (agent_loop), however calls are blocked, fail or are cancelled.  A session  *)
(* that met a store failure is excused.                                      *)
ToolUsesAnswered ==
    at = "provider" /\ ~closed =>
        \A a \in 1..Len(store) :
            store[a].role = "assistant" =>
                /\ Cardinality(Answers(a)) = store[a].body
                /\ {store[i].body : i \in Answers(a)} = 1..store[a].body
                /\ \A i \in Answers(a) : a < i

(* A prompt answered Ok was either handled by an extension or run: the model's *)
(* reply to it is in the store (run_one_trun, run_agent).                    *)
OkPromptsWereAnswered ==
    \A m \in Inputs :
        reply[m] = "ok" /\ fate[m] = "prompted" =>
            \E u \in UserMsgs(m), a \in 1..Len(store) :
                u < a /\ store[a].role = "assistant" /\ store[a].run = store[u].run

(* A client's texts become what the client was told, no more and no less.      *)
InputsAreAccountedFor == AcceptedInputsAreKept /\ OkPromptsWereAnswered

(* What an extension staged and apply_actions dropped was reported: as a hook  *)
(* error on the bus, or as the error of the command that was being run.      *)
DropsAreReported ==
    [][\A m \in Inputs : fate[m] = "staged" /\ fate'[m] = "dropped" =>
          (\E i \in 1..Len(published') : published'[i] = "HookError") \/ result' = "error"]_vars

(* A fatal session stays fatal unless a steer or follow-up, accepted before    *)
(* the store failed, is still queued with its Wake: nothing a client does      *)
(* afterwards can revive it (push, run_one_trun, close).                     *)
NothingNewRevivesFatal ==
    [][status = "Fatal" /\ status' # "Fatal" =>
          /\ op = "queued" /\ at = "drain"
          /\ messages # <<>>]_vars

(* How a session that has ended may look: fatal or closed, it has announced    *)
(* its shutdown and refuses messages, and it executes nothing but the return   *)
(* of the method that ended it, and the drain of an old Wake when fatal; only  *)
(* the attached actor closes it (fatal, close, the actor's break).             *)
EndedIsQuiet ==
    /\ shutdown => closed
    /\ status = "Fatal" =>
          /\ shutdown
          /\ at \in {"idle", "return"} \/ (at = "drain" /\ op = "queued")
    /\ status = "Closed" =>
          /\ shutdown
          /\ (at = "return" /\ op = "close") \/ (at = "idle" /\ actor = "stopped")
    /\ at = "drop" => op = "close"
    /\ op = "close" => actor = "running"

(* After close nothing runs and nothing is stored (close, the actor's break).  *)
ClosedIsFinal ==
    [][status = "Closed" => status' = "Closed" /\ run' = run /\ store' = store]_vars

(* Every prompt and every close gets an answer, also when a close overtakes it.*)
RequestsAreAnswered == \A c \in Callers : reply[c] = "waiting" ~> reply[c] # "waiting"

(* A steer or follow-up a client was told is accepted becomes part of the      *)
(* conversation, unless the session closes or fails first (enqueue's Wake).    *)
AcceptedMessagesRun ==
    \A m \in Inputs : (fate[m] = "queued" /\ reply[m] = "ok")
                         ~> (fate[m] = "taken" \/ closed \/ actor = "stopped")

(* Once aborted, a run comes to its end even if the provider and the tools     *)
(* never answer (the select!s of agent_loop, and no token reset in between).   *)
AbortedRunsEnd == (cancelled /\ status = "Running") ~> status # "Running"

(* The innermost event scope open, by where the session is.                   *)
Scope ==
    CASE shutdown                                                      -> "down"
      [] ~shutdown /\ ~started                                         -> "unstarted"
      [] ~shutdown /\ started /\ at \in {"turn", "settle"}             -> "agent"
      [] ~shutdown /\ started /\ at \in {"provider", "assistant"}      -> "message"
      [] ~shutdown /\ started /\ at \in {"call", "result"}             -> "tool"
      [] ~shutdown /\ started /\ at \in {"user", "injected", "context", "tools", "queued",
                                        "steer"}                       -> "turn"
      [] OTHER                                                         -> "ready"

Bus == INSTANCE SessionEvents WITH scope <- Scope, stored <- Len(store)

(* The session implements the promised event order: emit, fatal, agent_loop,   *)
(* run_agent and close publish, step after step, only what may come next, and  *)
(* the store grows by exactly the messages whose message_end was published.  *)
EventOrder == Bus!Spec

(* The same of a session that has started and has not shut down, whatever fails *)
(* and whoever wakes it: each step publishes only what may come next, and the  *)
(* store grows by the announced messages (emit, fatal, persist, close).       *)
EventOrderWhileOpen == [][started /\ ~shutdown => Bus!Next]_vars

-----------------------------------------------------------------------------
(* What the documents promise and the code does not keep                     *)

(* "No event is published after session_shutdown"                            *)
(* (docs/e-agent-event-driven-implementation-plan.md:235): after fatal or      *)
(* close no step of the session or of a client publishes anything.           *)
NoEventAfterShutdown == [][shutdown => published' = <<>>]_vars
=============================================================================
