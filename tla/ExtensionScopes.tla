---------------------------- MODULE ExtensionScopes ----------------------------
(***************************************************************************)
(* Several Pi extensions in one JavaScript runtime: the scope that says    *)
(* whose code is running, the handlers of tasks (tools, commands,          *)
(* shortcuts, events), their host calls and timers, and the loop that      *)
(* waits for one task at a time.  A scope stays held while its handler     *)
(* awaits, and to enter another extension's scope meanwhile is refused.    *)
(* Source: src/e-agent-node-runtime/src/runtime.rs.                        *)
(***************************************************************************)
EXTENDS Naturals, Sequences, FiniteSets, SequencesExt

CONSTANTS
  Extensions,
  NoExtension,   \* nobody's scope; a call made outside any scope
  MaxTasks,      \* bound: tasks ever started
  MaxHostcalls,  \* bound: host calls ever made
  MaxTimers      \* bound: callbacks of setTimeout and host calls that time out

ASSUME ScopeConstants ==
  /\ NoExtension \notin Extensions
  /\ MaxTasks \in Nat /\ MaxHostcalls \in Nat /\ MaxTimers \in Nat

VARIABLES
  activeScope,  \* __pi_current_extension_id
  leases,       \* __pi_current_extension_leases
  frames,       \* async scopes ever opened, by handlers and timer callbacks
  tasks,        \* __pi_tasks, with the handlers each task has still to run
  calls,        \* __pi_pending_hostcalls: every host call ever made
  callbacks,    \* __pi_timer_callbacks: every callback ever registered
  jobs,         \* JavaScript that can run on: it does before anything else
  requested,    \* the queue of requests
  batch,        \* requests wait_extension_task has drained
  macrotasks,   \* the scheduler's queue
  awaited,      \* the task wait_extension_task waits for, 0 for none
  stage         \* where it stands

scopeVars == <<activeScope, leases, frames, tasks, calls, callbacks, jobs, requested, batch,
               macrotasks, awaited, stage>>

Frame(f)    == <<"frame", f>>
Handlers(t) == <<"handlers", t>>
Then(c)     == <<"then", c>>
Completion(c) == <<"completion", c>>
TimeoutOf(c)  == <<"timeout", c>>
Callback(i)   == <<"callback", i>>

LateCalls == {c \in DOMAIN calls : calls[c].late}
MoreTimers == Len(callbacks) + Cardinality(LateCalls) < MaxTimers

ScopesInit ==
  /\ activeScope = NoExtension /\ leases = 0
  /\ frames = <<>> /\ tasks = <<>> /\ calls = <<>> /\ callbacks = <<>> /\ jobs = <<>>
  /\ requested = <<>> /\ batch = <<>> /\ macrotasks = <<>>
  /\ awaited = 0 /\ stage = "idle"

(***************************************************************************)
(* Scopes.                                                                 *)
(***************************************************************************)

\* What __pi_enter_extension does not refuse.
MayEnter(e) == activeScope \in {e, NoExtension}

\* __pi_with_extension_async: the scope is entered, and its code runs at once.
EnterScope(e, task, rest) ==
  /\ activeScope' = e /\ leases' = leases + 1
  /\ frames' = Append(frames, [ext |-> e, task |-> task, waits |-> 0, open |-> TRUE])
  /\ jobs' = <<Frame(Len(frames) + 1)>> \o rest

\* Mutant: whoever leaves resets the scope.
LeaveForAll(f, outcome) ==
  /\ frames' = [frames EXCEPT ![f].open = FALSE]
  /\ leases' = leases - 1
  /\ activeScope' = NoExtension

\* __pi_leave_extension, in the finally of an async scope.
LeaveScope(f, outcome) ==
  /\ frames' = [frames EXCEPT ![f].open = FALSE]
  /\ leases' = leases - 1
  /\ activeScope' = IF leases' = 0 THEN NoExtension ELSE activeScope

(***************************************************************************)
(* JavaScript.  The first job runs on until it awaits or ends.             *)
(***************************************************************************)
Running(job) == jobs # <<>> /\ Head(jobs) = job

\* __pi_make_hostcall: whose scope it is, is noted with the call.
MakeCall(by, waiter) ==
  /\ Len(calls) < MaxHostcalls
  /\ calls' = Append(calls, [by |-> by, ext |-> activeScope, waiter |-> waiter, at |-> "open",
                             late |-> FALSE])
  /\ requested' = Append(requested, Len(calls) + 1)

\* A call nobody awaits.
FireAndForget(f) ==
  /\ Running(Frame(f))
  /\ MakeCall(frames[f].ext, 0)
  /\ UNCHANGED <<activeScope, leases, frames, tasks, callbacks, jobs, batch, macrotasks,
                 awaited, stage>>

AwaitCall(f) ==
  /\ Running(Frame(f))
  /\ MakeCall(frames[f].ext, f)
  /\ frames' = [frames EXCEPT ![f].waits = Len(calls) + 1]
  /\ jobs' = Tail(jobs)
  /\ UNCHANGED <<activeScope, leases, tasks, callbacks, batch, macrotasks, awaited, stage>>

\* setTimeout: the callback will run in the scope it was registered in.
SetCallback(f) ==
  /\ Running(Frame(f)) /\ MoreTimers
  /\ callbacks' = Append(callbacks, [ext |-> activeScope, at |-> "set"])
  /\ UNCHANGED <<activeScope, leases, frames, tasks, calls, jobs, requested, batch, macrotasks,
                 awaited, stage>>

\* The handler ends: with a value that lets the next handler run, with one that
\* ends the dispatch, or by throwing, which ends a tool or a strict event only.
EndHandler(f, outcome) ==
  /\ Running(Frame(f))
  /\ LeaveScope(f, outcome)
  /\ LET t == frames[f].task
         ends == outcome = "stop" \/ (outcome = "throw" /\ tasks[t].strict)
     IN  IF t # 0 /\ ends
         THEN /\ tasks' = [tasks EXCEPT ![t].state = IF outcome = "stop" THEN "resolved"
                                                     ELSE "rejected"]
              /\ jobs' = Tail(jobs)
         ELSE /\ jobs' = IF t = 0 THEN Tail(jobs) ELSE Append(Tail(jobs), Handlers(t))
              /\ UNCHANGED tasks
  /\ UNCHANGED <<calls, callbacks, requested, batch, macrotasks, awaited, stage>>

\* __pi_dispatch_event_inner goes on to the next handler; one whose scope is
\* refused has thrown.
NextHandler(t) ==
  /\ Running(Handlers(t))
  /\ LET rest == tasks[t].rest IN
       \/ /\ rest = <<>>
          /\ tasks' = [tasks EXCEPT ![t].state = "resolved"]
          /\ jobs' = Tail(jobs)
          /\ UNCHANGED <<activeScope, leases, frames>>
       \/ /\ rest # <<>> /\ MayEnter(Head(rest))
          /\ tasks' = [tasks EXCEPT ![t].rest = Tail(rest)]
          /\ EnterScope(Head(rest), t, Tail(jobs))
       \/ /\ rest # <<>> /\ ~MayEnter(Head(rest))
          /\ tasks' = [tasks EXCEPT ![t].rest = Tail(rest),
                                    ![t].state = IF tasks[t].strict THEN "rejected" ELSE @]
          /\ jobs' = IF tasks[t].strict THEN Tail(jobs) ELSE jobs
          /\ UNCHANGED <<activeScope, leases, frames>>
  /\ UNCHANGED <<calls, callbacks, requested, batch, macrotasks, awaited, stage>>

\* The continuation of a call nobody awaited, if it has one, runs in whatever scope
\* there is; it may make a call.
Continue(c) ==
  /\ Running(Then(c))
  /\ MakeCall(calls[c].by, 0) \/ UNCHANGED <<calls, requested>>
  /\ jobs' = Tail(jobs)
  /\ UNCHANGED <<activeScope, leases, frames, tasks, callbacks, batch, macrotasks, awaited,
                 stage>>

JavaScriptRuns ==
  \/ \E f \in DOMAIN frames :
       \/ FireAndForget(f) \/ AwaitCall(f) \/ SetCallback(f)
       \/ \E outcome \in {"value", "stop", "throw"} : EndHandler(f, outcome)
  \/ \E t \in DOMAIN tasks : NextHandler(t)
  \/ \E c \in DOMAIN calls : Continue(c)

(***************************************************************************)
(* The thread: a command starts a task, wait_extension_task drives it.     *)
(***************************************************************************)

\* A tool, command or shortcut is one handler, an event one for each subscriber;
\* tool_call and session_before_* are strict.
StartTask(handlers, strict) ==
  /\ stage = "idle" /\ Len(tasks) < MaxTasks
  /\ tasks' = Append(tasks, [rest |-> handlers, strict |-> strict, state |-> "pending"])
  /\ jobs' = Append(jobs, Handlers(Len(tasks) + 1))
  /\ awaited' = Len(tasks) + 1 /\ stage' = "drain"
  /\ UNCHANGED <<activeScope, leases, frames, calls, callbacks, requested, batch, macrotasks>>

JavaScriptIsIdle == jobs = <<>>

\* Mutant: of a drain only the first request is kept.
DrainFirst(from, to) ==
  /\ stage = from /\ JavaScriptIsIdle
  /\ batch' = [i \in DOMAIN requested \cap {1} |-> requested[i]] /\ requested' = <<>>
  /\ stage' = to
  /\ UNCHANGED <<activeScope, leases, frames, tasks, calls, callbacks, jobs, macrotasks, awaited>>

Drain(from, to) ==
  /\ stage = from /\ JavaScriptIsIdle
  /\ batch' = requested /\ requested' = <<>>
  /\ stage' = to
  /\ UNCHANGED <<activeScope, leases, frames, tasks, calls, callbacks, jobs, macrotasks, awaited>>

\* The request is performed, and its outcome enqueued.
Perform(at, tick) ==
  /\ stage = at /\ JavaScriptIsIdle /\ batch # <<>>
  /\ macrotasks' = Append(macrotasks, Completion(Head(batch)))
  /\ batch' = Tail(batch)
  /\ stage' = tick
  /\ UNCHANGED <<activeScope, leases, frames, tasks, calls, callbacks, jobs, requested, awaited>>

(***************************************************************************)
(* tick: due timers go behind what is queued, then the first is delivered. *)
(***************************************************************************)
Ticks == {"tick", "last tick", "tick again"}

\* A timer of a callback or of a call, at any time from when it was set.
TimerIsDue ==
  /\ stage \in Ticks /\ JavaScriptIsIdle
  /\ \/ \E i \in DOMAIN callbacks :
          /\ callbacks[i].at = "set"
          /\ callbacks' = [callbacks EXCEPT ![i].at = "due"]
          /\ macrotasks' = Append(macrotasks, Callback(i))
          /\ UNCHANGED calls
     \/ \E c \in DOMAIN calls :
          /\ calls[c].at = "open" /\ ~calls[c].late /\ MoreTimers
          /\ calls' = [calls EXCEPT ![c].late = TRUE]
          /\ macrotasks' = Append(macrotasks, TimeoutOf(c))
          /\ UNCHANGED callbacks
  /\ UNCHANGED <<activeScope, leases, frames, tasks, jobs, requested, batch, awaited, stage>>

\* Where the loop goes on after a tick.
NextStage == CASE stage = "tick" -> "dispatch"
               [] stage = "last tick" -> "drain again"
               [] stage = "tick again" -> "dispatch again"

NothingToDeliver ==
  /\ macrotasks = <<>>
  /\ stage' = NextStage
  /\ UNCHANGED <<activeScope, leases, frames, calls, callbacks, jobs, batch, awaited>>

\* The call is pending, or its outcome is ignored.
IgnoreOutcome(c) ==
  /\ calls[c].at # "open"
  /\ stage' = NextStage
  /\ UNCHANGED <<activeScope, leases, frames, calls, callbacks, jobs, batch, awaited>>

\* __pi_complete_hostcall, in the scope of the call: the code that awaits it, or
\* follows it, runs.
DeliverOutcome(c) ==
  /\ calls[c].at = "open"
  /\ calls[c].ext = NoExtension \/ MayEnter(calls[c].ext)
  /\ calls' = [calls EXCEPT ![c].at = "settled"]
  /\ IF calls[c].waiter # 0
     THEN /\ frames' = [frames EXCEPT ![calls[c].waiter].waits = 0]
          /\ jobs' = <<Frame(calls[c].waiter)>>
     ELSE /\ jobs' = <<Then(c)>>
          /\ UNCHANGED frames
  /\ stage' = NextStage
  /\ UNCHANGED <<activeScope, leases, callbacks, batch, awaited>>

\* The scope is refused: the tick fails, and with it the wait; what the loop had
\* drained is dropped.  The host has forgotten the call already.
RefuseOutcome(c) ==
  /\ calls[c].at = "open" /\ calls[c].ext # NoExtension /\ ~MayEnter(calls[c].ext)
  /\ calls' = [calls EXCEPT ![c].at = "refused"]
  /\ awaited' = 0 /\ stage' = "idle" /\ batch' = <<>>
  /\ UNCHANGED <<activeScope, leases, frames, callbacks, jobs>>

\* __pi_fire_timer: a callback whose scope is refused is only logged.
FireCallback(i) ==
  /\ callbacks' = [callbacks EXCEPT ![i].at = IF MayEnter(callbacks[i].ext) THEN "fired"
                                              ELSE "dropped"]
  /\ IF MayEnter(callbacks[i].ext) THEN EnterScope(callbacks[i].ext, 0, <<>>)
     ELSE UNCHANGED <<activeScope, leases, frames, jobs>>
  /\ stage' = NextStage
  /\ UNCHANGED <<calls, batch, awaited>>

DeliverNext ==
  /\ stage \in Ticks /\ JavaScriptIsIdle
  /\ \/ NothingToDeliver /\ UNCHANGED macrotasks
     \/ /\ macrotasks # <<>> /\ macrotasks' = Tail(macrotasks)
        /\ LET task == Head(macrotasks) IN
             \/ /\ task[1] \in {"completion", "timeout"}
                /\ IgnoreOutcome(task[2]) \/ DeliverOutcome(task[2]) \/ RefuseOutcome(task[2])
             \/ task[1] = "callback" /\ FireCallback(task[2])
  /\ UNCHANGED <<tasks, requested>>

(***************************************************************************)
(* The end of a wait.                                                      *)
(***************************************************************************)

AllPerformed(at) == stage = at /\ JavaScriptIsIdle /\ batch = <<>>

\* __pi_task_take: a task that was resolved gets one more tick and drain, one that
\* was rejected does not, and one that is pending another round.
TakeTask ==
  /\ AllPerformed("dispatch")
  /\ CASE tasks[awaited].state = "pending"  -> stage' = "drain" /\ UNCHANGED awaited
       [] tasks[awaited].state = "resolved" -> stage' = "last tick" /\ UNCHANGED awaited
       [] tasks[awaited].state = "rejected" -> stage' = "idle" /\ awaited' = 0
  /\ UNCHANGED <<activeScope, leases, frames, tasks, calls, callbacks, jobs, requested, batch,
                 macrotasks>>

ReturnValue ==
  /\ AllPerformed("dispatch again")
  /\ stage' = "idle" /\ awaited' = 0
  /\ UNCHANGED <<activeScope, leases, frames, tasks, calls, callbacks, jobs, requested, batch,
                 macrotasks>>

WaitExtensionTask ==
  \/ Drain("drain", "dispatch") \/ Perform("dispatch", "tick")
  \/ DeliverNext \/ TakeTask \/ ReturnValue
  \/ Drain("drain again", "dispatch again") \/ Perform("dispatch again", "tick again")

ScopesNext ==
  \/ \E e \in Extensions : StartTask(<<e>>, TRUE)
  \/ \E d, e \in Extensions, strict \in BOOLEAN : d # e /\ StartTask(<<d, e>>, strict)
  \/ JavaScriptRuns
  \/ WaitExtensionTask \/ TimerIsDue

\* The thread goes on, and JavaScript that can run does; scripts are finite.
ScopesFairness == WF_scopeVars(JavaScriptRuns) /\ WF_scopeVars(WaitExtensionTask)

ScopesSpec == ScopesInit /\ [][ScopesNext]_scopeVars /\ ScopesFairness

(***************************************************************************)
(* Properties.                                                             *)
(***************************************************************************)
OpenFrames == {f \in DOMAIN frames : frames[f].open}

ScopesTypeOK ==
  /\ activeScope \in Extensions \union {NoExtension} /\ leases \in Nat
  /\ \A f \in DOMAIN frames :
       /\ frames[f].ext \in Extensions /\ frames[f].task \in 0..Len(tasks)
       /\ frames[f].waits \in 0..Len(calls) /\ frames[f].open \in BOOLEAN
  /\ \A t \in DOMAIN tasks :
       tasks[t].state \in {"pending", "resolved", "rejected"} /\ tasks[t].rest \in Seq(Extensions)
  /\ \A c \in DOMAIN calls :
       calls[c].ext \in Extensions \union {NoExtension} /\ calls[c].at \in {"open", "settled", "refused"}
  /\ requested \in Seq(1..Len(calls)) /\ batch \in Seq(1..Len(calls))
  /\ awaited \in 0..Len(tasks) /\ (awaited = 0 <=> stage = "idle")

\* The scope is held by exactly the handlers that have not ended, all of one
\* extension, so that code runs as the extension it belongs to (with_extension_async).
ScopesAgree ==
  /\ leases = Cardinality(OpenFrames)
  /\ \A f \in OpenFrames : frames[f].ext = activeScope
  /\ OpenFrames = {} => activeScope = NoExtension

\* A call that belongs to another than made it was made by a continuation outside
\* its scope, and a refused outcome is never one a handler awaits.
OnlyDetachedCodeStrays ==
  /\ \A c \in DOMAIN calls :
       calls[c].ext # calls[c].by =>
         /\ calls[c].waiter = 0
         /\ \E d \in 1..(c - 1) : calls[d].waiter = 0 /\ calls[d].by = calls[c].by
  /\ \A f \in OpenFrames : frames[f].waits # 0 => calls[frames[f].waits].at = "open"

\* A call is on its way while the loop, a queue or the scheduler has it.
OnItsWay(c) ==
  \/ c \in Range(requested) \union Range(batch)
  \/ \E i \in DOMAIN macrotasks : macrotasks[i] = Completion(c)

\* "pi.exec() in an extension completes normally" and no waiting of the runtime
\* deadlocks (docs/pi-extension-ptc-compatibility.md:672): what a handler awaits
\* is performed (wait_extension_task).
AwaitedCallsArePerformed ==
  \A f \in OpenFrames :
    frames[f].waits # 0 => OnItsWay(frames[f].waits) \/ calls[frames[f].waits].late

\* It is, until an outcome is refused.
RefusedCalls == {c \in DOMAIN calls : calls[c].at = "refused"}
PerformedUntilRefusal == RefusedCalls = {} => AwaitedCallsArePerformed

\* Between two waits nobody's scope is held, so that the next task may be anyone's
\* (wait_extension_task).
WaitsLeaveNoScope == stage = "idle" /\ RefusedCalls = {} /\ callbacks = <<>> => leases = 0

ScopesAreSound ==
  /\ ScopesTypeOK
  /\ ScopesAgree
  /\ OnlyDetachedCodeStrays
  /\ PerformedUntilRefusal
  /\ WaitsLeaveNoScope

\* Whoever waits for a task gets its result, or an error, as long as nothing but outcomes is in
\* the scheduler and none is refused (wait_extension_task).
Quiet == RefusedCalls = {} /\ LateCalls = {} /\ callbacks = <<>>
TaskWaitsEnd == awaited # 0 ~> awaited = 0 \/ ~Quiet
=============================================================================
