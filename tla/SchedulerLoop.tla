---------------------------- MODULE SchedulerLoop ----------------------------
(***************************************************************************)
(* The scheduler driven through every one of its methods, with a small     *)
(* space of timer ids, so that ids wrap around and are given out again.    *)
(* Source: src/e-agent-node-runtime/src/scheduler.rs.                      *)
(***************************************************************************)
EXTENDS Scheduler

CONSTANTS
  MaxTime,      \* bound: the clock stops here
  MaxDelay,     \* bound: the longest delay asked for
  MaxSeq        \* bound: sequence numbers given out

ASSUME LoopConstants == MaxTime \in Nat /\ MaxDelay \in Nat /\ MaxSeq \in Nat

VARIABLES
  scheduler,    \* the struct: seq, tasks, heap, ids, cancelled, nextId
  now,          \* what the clock shows, in milliseconds
  fate          \* history: what became of the timer set with a number

schedulerVars == <<scheduler, now, fate>>

SchedulerInit ==
  /\ scheduler = EmptyScheduler
  /\ now = 0
  /\ fate = <<>>

Numbered(n) == scheduler.seq + n <= MaxSeq
With(f, k, v) == [x \in DOMAIN f \union {k} |-> IF x = k THEN v ELSE f[x]]

Set(delay) ==
  /\ Numbered(1)
  /\ Cardinality(scheduler.heap) < MaxTimerId
  /\ scheduler' = SetTimeout(scheduler, now, delay)
  /\ fate' = With(fate, scheduler.seq, "set")
  /\ UNCHANGED now

Clear(id) ==
  /\ scheduler' = ClearTimeout(scheduler, id)
  /\ fate' = [n \in DOMAIN fate |->
                IF /\ CanClear(scheduler, id)
                   /\ \E e \in scheduler.heap : e.id = id /\ e.seq = n
                THEN "cleared" ELSE fate[n]]
  /\ UNCHANGED now

Complete ==
  /\ Numbered(1)
  /\ scheduler' = EnqueueHostcallComplete(scheduler, "call", "outcome")
  /\ UNCHANGED <<now, fate>>

Event ==
  /\ Numbered(1)
  /\ scheduler' = EnqueueEvent(scheduler, "event")
  /\ UNCHANGED <<now, fate>>

Tick ==
  /\ Numbered(Cardinality(Due(scheduler, now)))
  /\ scheduler' = AfterTick(scheduler, now)
  /\ fate' = [n \in DOMAIN fate |->
                IF \E i \in 1..Len(Ready(scheduler, now)) :
                     /\ i > Len(scheduler.tasks)
                     /\ \E e \in Due(scheduler, now) :
                          e.seq = n /\ e.id = Ready(scheduler, now)[i].id
                THEN "fired" ELSE fate[n]]
  /\ UNCHANGED now

\* The clock is the wall clock: it may be set back.
Clock ==
  /\ now' \in {now + 1, now - 1} \cap 0..MaxTime
  /\ UNCHANGED <<scheduler, fate>>

SchedulerNext ==
  \/ \E delay \in 0..MaxDelay : Set(delay)
  \/ \E id \in TimerIds : Clear(id)
  \/ Complete
  \/ Event
  \/ Tick
  \/ Clock

SchedulerSpec == SchedulerInit /\ [][SchedulerNext]_schedulerVars

(***************************************************************************)
(* Properties.                                                             *)
(***************************************************************************)
\* The scheduler numbers its tasks in the order in which they run.
SchedulerInOrder == TasksInOrder(scheduler)

\* The id tables of the scheduler agree.
SchedulerIdsAgree == IdsAgree(scheduler)

\* A timer that was set and not cleared is in the heap, alive, until it fires;
\* one that was cleared never fires, whatever ids were given out again.
TimersMeetTheirFate ==
  \A n \in DOMAIN fate :
    fate[n] = "set" <=> \E e \in LiveTimers(scheduler) : e.seq = n

\* What has fired or has been cleared stays so.
FateIsFinal == [][\A n \in DOMAIN fate : fate[n] # "set" => fate'[n] = fate[n]]_schedulerVars

\* The tasks that one tick adds are those of the live timers that are due, and
\* timers of equal deadline keep the order in which they were set (I3).
TimersAreStable ==
  [][LET added == {t \in Range(scheduler'.tasks) : t.seq >= scheduler.seq /\ t.kind = "timer"}
         Entry(t) == CHOOSE e \in scheduler.heap : e.id = t.id
     IN \A t, u \in added :
          t.seq < u.seq =>
            \/ Entry(t).deadline < Entry(u).deadline
            \/ Entry(t).deadline = Entry(u).deadline /\ Entry(t).seq < Entry(u).seq]_schedulerVars

\* The scheduler runs each task once and in order, and each timer that is not
\* cleared fires once and in the order of the deadlines, also when ids and tasks
\* are numbered anew.
SchedulerKeepsTime ==
  /\ [](SchedulerInOrder /\ SchedulerIdsAgree /\ TimersMeetTheirFate)
  /\ FateIsFinal /\ TimersAreStable
=============================================================================
