------------------------------ MODULE Scheduler ------------------------------
(***************************************************************************)
(* The deterministic scheduler under the JavaScript runtime: a queue of    *)
(* macrotasks and a heap of timers on one sequence counter.  Source:       *)
(* src/e-agent-node-runtime/src/scheduler.rs.                              *)
(*                                                                         *)
(* Each operator gives the state a method leaves, s being the state before *)
(* it and now what the clock shows; module SchedulerLoop drives the        *)
(* scheduler alone, module NodeRuntime under the JavaScript runtime.       *)
(***************************************************************************)
EXTENDS Integers, Sequences, FiniteSets, FiniteSetsExt, Functions

CONSTANT MaxTimerId   \* the largest timer id: u64::MAX in the program

ASSUME MaxTimerIdAssumption == MaxTimerId \in Nat \ {0}

TimerIds == 1..MaxTimerId

EmptyScheduler ==
  [seq |-> 0, tasks |-> <<>>, heap |-> {}, ids |-> {}, cancelled |-> {}, nextId |-> 1]

(***************************************************************************)
(* Timers.                                                                 *)
(***************************************************************************)
After(id) == IF id = MaxTimerId THEN 1 ELSE id + 1

FreeIds(s) == TimerIds \ s.ids

\* The first id from nextId on, around the end of the range, that no entry of
\* the heap has; the largest id again when all are taken.
NewTimerId(s) ==
  LET later == {id \in FreeIds(s) : id >= s.nextId} IN
    CASE later # {} -> Min(later)
      [] later = {} /\ FreeIds(s) # {} -> Min(FreeIds(s))
      [] OTHER -> MaxTimerId

SetTimeout(s, now, delay) ==
  LET id == NewTimerId(s) IN
    [s EXCEPT !.seq = @ + 1,
              !.heap = @ \union {[id |-> id, deadline |-> now + delay, seq |-> s.seq]},
              !.ids = @ \union {id},
              !.nextId = IF FreeIds(s) = {} THEN @ ELSE After(id)]

\* clear_timeout answers whether it cancelled something.
CanClear(s, id) == id \in s.ids /\ id \notin s.cancelled

ClearTimeout(s, id) ==
  IF CanClear(s, id) THEN [s EXCEPT !.cancelled = @ \union {id}] ELSE s

Earlier(e, f) ==
  \/ e.deadline < f.deadline
  \/ e.deadline = f.deadline /\ e.seq < f.seq

Due(s, now) == {e \in s.heap : e.deadline <= now}

\* Timers in the order in which the heap gives them up.
InOrder(S) ==
  [i \in 1..Cardinality(S) |->
     CHOOSE e \in S : Cardinality({f \in S : Earlier(f, e)}) = i - 1]

LiveTimers(s) == {e \in s.heap : e.id \notin s.cancelled}

\* Mutant: the marks of cancelled timers stay when the timers go.
MoveDueTimersLeavingMarks(s, now) ==
  LET fired == InOrder(Due(s, now) \cap LiveTimers(s))
  IN [s EXCEPT
        !.heap = @ \ Due(s, now), !.ids = @ \ {e.id : e \in Due(s, now)},
        !.seq = @ + Len(fired),
        !.tasks = @ \o [i \in 1..Len(fired) |->
                          [seq |-> s.seq + i - 1, kind |-> "timer", id |-> fired[i].id]]]

\* The due entries leave the heap, by deadline and then by sequence number;
\* those that were cancelled lose their mark and nothing else happens, the
\* others become tasks with new numbers.
MoveDueTimers(s, now) ==
  LET fired == InOrder(Due(s, now) \cap LiveTimers(s))
      gone  == {e.id : e \in Due(s, now)}
  IN [s EXCEPT
        !.heap = @ \ Due(s, now), !.ids = @ \ gone, !.cancelled = @ \ gone,
        !.seq = @ + Len(fired),
        !.tasks = @ \o [i \in 1..Len(fired) |->
                          [seq |-> s.seq + i - 1, kind |-> "timer", id |-> fired[i].id]]]

(***************************************************************************)
(* Macrotasks.                                                             *)
(***************************************************************************)
EnqueueHostcallComplete(s, call, outcome) ==
  [s EXCEPT !.seq = @ + 1,
            !.tasks = Append(@, [seq |-> s.seq, kind |-> "hostcall",
                                 call |-> call, outcome |-> outcome])]

EnqueueEvent(s, event) ==
  [s EXCEPT !.seq = @ + 1,
            !.tasks = Append(@, [seq |-> s.seq, kind |-> "event", event |-> event])]

\* One tick: the due timers join the queue, then the first task leaves it.
Ready(s, now) == MoveDueTimers(s, now).tasks
AfterTick(s, now) ==
  LET moved == MoveDueTimers(s, now) IN
    IF moved.tasks = <<>> THEN moved ELSE [moved EXCEPT !.tasks = Tail(@)]

(***************************************************************************)
(* What holds of a scheduler.                                              *)
(***************************************************************************)
\* The queue runs in the order of the sequence numbers, each given out once:
\* I5 of the module's comment, which the renumbering of due timers must keep.
TasksInOrder(s) ==
  /\ \A i, j \in 1..Len(s.tasks) : i < j => s.tasks[i].seq < s.tasks[j].seq
  /\ \A i \in 1..Len(s.tasks) : s.tasks[i].seq < s.seq
  /\ \A e \in s.heap : e.seq < s.seq

\* The id table is that of the heap, an id has one entry, and a cancelled mark
\* never outlives its entry: it would swallow the next timer that gets the id.
IdsAgree(s) ==
  /\ s.ids = {e.id : e \in s.heap}
  /\ \A e, f \in s.heap : e.id = f.id => e = f
  /\ s.cancelled \subseteq s.ids
=============================================================================
